---------------------------- MODULE LicenseLease ----------------------------
(***************************************************************************)
(* What FortiGates rely on when licenses are handed out: a license is      *)
(* leased to one VM at a time, from the moment it is registered to the VM  *)
(* until the VM has gone, and a VM is given no other than one leased to    *)
(* it.  How requests find a license, fail and try again does not show.     *)
(*                                                                         *)
(* The one exception is part of the promise because the code has it: the   *)
(* first lease of a license is not guarded, so a license may be contested. *)
(***************************************************************************)
CONSTANTS VM, License, None

VARIABLES present, owner, given, contested

vars == <<present, owner, given, contested>>

Init ==
    /\ present = VM
    /\ owner = [l \in License |-> None]
    /\ given = [v \in VM |-> None]
    /\ contested = {}

\* A license that nobody has, or whose VM has gone, is leased to a VM.
Lease(l, v) ==
    /\ owner[l] \notin present
    /\ owner' = [owner EXCEPT ![l] = v]
    /\ UNCHANGED <<present, given, contested>>

\* Two VMs, or two requests of one, lease a license for the first time.
Contest(l, v) ==
    /\ owner[l] # None
    /\ owner' = [owner EXCEPT ![l] = v]
    /\ contested' = contested \cup {l}
    /\ UNCHANGED <<present, given>>

Give(l, v) ==
    /\ v \in present
    /\ owner[l] = v \/ l \in contested
    /\ given' = [given EXCEPT ![v] = l]
    /\ UNCHANGED <<present, owner, contested>>

Depart(v) ==
    /\ present' = present \ {v}
    /\ given' = [given EXCEPT ![v] = None]
    /\ UNCHANGED <<owner, contested>>

Next ==
    \E v \in VM :
        \/ \E l \in License : Lease(l, v) \/ Contest(l, v) \/ Give(l, v)
        \/ Depart(v)

Spec == Init /\ [][Next]_vars

=============================================================================
