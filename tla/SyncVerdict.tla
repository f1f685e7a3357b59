---------------------------- MODULE SyncVerdict ----------------------------
(***************************************************************************)
(* What a heartbeat may do to the sync state of a VM, without the counters *)
(* that decide it: the vocabulary that the heartbeat strategy and those    *)
(* who only see its results have in common.                                *)
(***************************************************************************)

SyncState == {"inSync", "outOfSync"}

\* States the strategy may give a record that was in state s.
NextState(s, late, terminate) ==
    CASE s = "inSync" /\ ~late -> {"inSync"}
      [] s = "outOfSync" /\ (late \/ terminate) -> {"outOfSync"}
      [] OTHER -> SyncState

\* An out-of-sync VM that is late, or that is to be terminated, is dropped.
Dropped(s, late, terminate) == s = "outOfSync" /\ (late \/ terminate)

\* A VM that has just gone out of sync may be terminated.
Condemned(s, next, terminate) == terminate /\ s = "inSync" /\ next = "outOfSync"

=============================================================================
