-------------------------- MODULE MCElectionScore --------------------------
(***************************************************************************)
(* Instances of ReportedElection for TLC.                                  *)
(***************************************************************************)
EXTENDS ReportedElection

CONSTANT a

Sent == [interval : {1}, sequence : {1, 2}, time : {1}, sync_time : {1, 2, Null},
         sync_fail_time : {Null}, sync_status : {True}, is_primary : {True, False},
         checksum : {a, Null, Undefined}]

\* A device of an older version says nothing of itself, or has no interval.
Silent == [interval : {1, Undefined}, sequence : {Undefined}, time : {Undefined},
           sync_time : {Undefined}, sync_fail_time : {Undefined}, sync_status : {Undefined},
           is_primary : {Undefined}, checksum : {Undefined}]

MCReport(v) ==
    CASE v = 1 -> Silent \cup {b \in Sent : b.checksum # Null /\ (b.sequence = 2 => b.sync_time = 1)}
      [] v = 2 -> {b \in Sent : b.sequence = 1 /\ b.sync_time # 2}
      [] v = 3 -> {b \in Sent : b.sequence = 1 /\ b.checksum # Undefined /\ b.is_primary = False}
      [] OTHER -> {b \in Sent : b.sequence = 1 /\ b.sync_time = Null /\ b.is_primary = False}

\* In sync, once late, and out of sync, with a setting SyncRecoveryCount and without.
MCCounters == {FirstCounters, [FirstCounters EXCEPT !.loss = 1]}
              \cup [syncState : {"outOfSync"}, loss : {MaxLoss}, recovery : {1, Undefined}]

=============================================================================
