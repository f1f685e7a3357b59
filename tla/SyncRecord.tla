----------------------------- MODULE SyncRecord -----------------------------
(***************************************************************************)
(* What the rest of the system relies on from heartbeats: the sync state   *)
(* of a VM changes only as SyncVerdict says, by an invocation that judged  *)
(* a state that was stored, and never for a device that sends on time; and *)
(* only an invocation that condemned the VM terminates it.  Counters,      *)
(* sequence numbers, times, etags and the steps of a save do not show.     *)
(*                                                                         *)
(* The state may have changed between the judgement and the save.          *)
(***************************************************************************)
EXTENDS SyncVerdict

CONSTANTS Invocation, Absent

VARIABLES
    terminate,  \* whether unhealthy VMs are terminated
    punctual,   \* no heartbeat of the device was late so far
    state,      \* the stored sync state, Absent without a record
    alive,
    plan        \* what each invocation is about to do

vars == <<terminate, punctual, state, alive, plan>>

\* To save a state, to save that the VM is out of sync and terminate it, to
\* terminate it, to delete its record.
Plans == {"idle", "inSync", "outOfSync", "condemn", "cull", "drop"}

ToSave == {"inSync", "outOfSync", "condemn"}

Init ==
    /\ terminate \in BOOLEAN /\ punctual \in BOOLEAN
    /\ state = Absent
    /\ alive = TRUE
    /\ plan = [i \in Invocation |-> "idle"]

Plan(i, p) == plan' = [plan EXCEPT ![i] = p]

Lateness == IF punctual THEN {FALSE} ELSE BOOLEAN

\* A first heartbeat counts as one in sync.
JudgeFirst(i) ==
    /\ state = Absent /\ plan[i] = "idle"
    /\ Plan(i, "inSync")
    /\ UNCHANGED <<terminate, punctual, state, alive>>

Judge(i) ==
    /\ state # Absent /\ plan[i] = "idle"
    /\ \E late \in Lateness : \E next \in NextState(state, late, terminate) :
          Plan(i, IF Condemned(state, next, terminate) THEN "condemn" ELSE next)
    /\ UNCHANGED <<terminate, punctual, state, alive>>

\* The state of a VM in sync may be saved a second time.
Save(i) ==
    /\ plan[i] \in ToSave
    /\ state' = IF plan[i] = "inSync" THEN "inSync" ELSE "outOfSync"
    /\ \/ plan[i] = "condemn" /\ Plan(i, "cull")
       \/ plan[i] = "inSync" /\ UNCHANGED plan
       \/ plan[i] # "condemn" /\ Plan(i, "idle")
    /\ UNCHANGED <<terminate, punctual, alive>>

\* A termination may fail; the record is deleted all the same.
Terminate(i) ==
    /\ plan[i] = "cull"
    /\ alive' \in {alive, FALSE}
    /\ Plan(i, "drop")
    /\ UNCHANGED <<terminate, punctual, state>>

Drop(i) ==
    /\ plan[i] = "drop"
    /\ state' = Absent
    /\ Plan(i, "idle")
    /\ UNCHANGED <<terminate, punctual, alive>>

\* A save is refused, a call fails or the host stops the invocation.
GiveUp(i) ==
    /\ plan[i] # "idle"
    /\ Plan(i, "idle")
    /\ UNCHANGED <<terminate, punctual, state, alive>>

\* Somebody else deletes the record.
Forget ==
    /\ state' = Absent
    /\ UNCHANGED <<terminate, punctual, alive, plan>>

\* The device is late, or starts over.
Slip ==
    /\ punctual' = FALSE
    /\ UNCHANGED <<terminate, state, alive, plan>>

Next ==
    \/ \E i \in Invocation :
          JudgeFirst(i) \/ Judge(i) \/ Save(i) \/ Terminate(i) \/ Drop(i) \/ GiveUp(i)
    \/ Forget
    \/ Slip

Spec == Init /\ [][Next]_vars

=============================================================================
