-------------------------- MODULE PrimaryElection --------------------------
(***************************************************************************)
(* Heartbeat handling and primary election by concurrent invocations.      *)
(*                                                                         *)
(* Each FortiGate sends heartbeats; each heartbeat runs handleHeartbeatSync *)
(* in an invocation of its own, which keeps nothing between calls.  The    *)
(* invocations meet only in two tables: the health check records and the   *)
(* primary records.  Every read and every write of them is a step of its   *)
(* own here.  A VM has one heartbeat in flight at a time (overlapping      *)
(* heartbeats of one VM are the subject of Heartbeat).                     *)
(*                                                                         *)
(* On Azure a stored primary record is always Done: the weighted election  *)
(* writes Done, and the classic one elects only the target, which has a    *)
(* health check record by then, so handlePrimaryElection turns it to Done. *)
(* The Pending and Timeout branches are therefore not part of the model.   *)
(***************************************************************************)
EXTENDS CosmosTable, FiniteSets, SyncVerdict

CONSTANTS
    VM,             \* all VMs that ever exist
    Preferred,      \* those of the scaling group that primaries come from
    Classic,        \* those whose heartbeats carry no device sync info
    Initial,        \* those running at the start
    None,           \* no VM
    Verdict(_),     \* what the weighted scores may make of a set of candidates
    Terminate,      \* the setting TerminateUnhealthyVm
    Etag,           \* version names, reused once nobody holds them
    MaxFaults       \* bound: environment faults in one behaviour

ASSUME VMAssumption == /\ Preferred \subseteq VM /\ Classic \subseteq VM
                       /\ Initial \subseteq VM /\ None \notin VM
ASSUME TerminateAssumption == Terminate \in BOOLEAN
ASSUME MaxFaultsAssumption == MaxFaults \in Nat
\* Enough names: no more than this many versions can be referred to at a time.
ASSUME EtagAssumption ==
    /\ IsFiniteSet(VM)
    /\ IsFiniteSet(Etag) => Cardinality(Etag) > 3 * Cardinality(VM) + 1
ASSUME VerdictAssumption == \A S \in SUBSET VM : Verdict(S) \subseteq S \cup {None}

\* A weighted record is stored under the group's name, a classic one under
\* "group:vm"; the primary election table holds one document per id.
GroupId == None
RecordId == VM \cup {GroupId}
Maybe == VM \cup {None}

HealthRecord == [state : SyncState, told : Maybe]
PrimaryRecord == [etag : Etag, id : RecordId, vm : VM]

ASSUME AbsentAssumption ==
    Absent \notin HealthRecord /\ Absent \notin PrimaryRecord /\ Absent \notin Maybe

VARIABLES
    up,         \* VMs in the scaling groups, as the (cached) listing shows them
    born,       \* VMs that are or were in a scaling group
    silent,     \* VMs whose next heartbeat is overdue by an interval or more
    health,     \* the health check table: VM -> record
    primary,    \* the primary election table: record id -> record
    device,     \* the primary address each FortiGate was last given; Absent
                \* until it is given its first configuration
    h,          \* per VM, the invocation that handles its heartbeat
    lost,       \* VMs whose record may differ from the device: a fault hit
                \* between saving the address and answering with it, or the
                \* device has forgotten it
    faults

vars == <<up, born, silent, health, primary, device, h, lost, faults>>
tables == <<health, primary>>
world == <<up, born, silent, device, lost, faults>>

\* Local variables of an invocation.
Steps == {"idle", "sync", "readVm", "readHealth", "readRecord", "judge", "deleteRead",
          "deleteWrite", "stale", "elect", "saveGuard", "saveRead", "saveWrite",
          "assess", "cull", "drop", "answer", "reply"}

IdleHandler ==
    [pc |-> "idle", late |-> FALSE, target |-> Absent, old |-> None, fitOld |-> None,
     record |-> Absent, new |-> None, newId |-> None, snap |-> Absent, doomed |-> {},
     overdue |-> {}, tell |-> None]

Handler ==
    [pc : Steps, late : BOOLEAN, target : HealthRecord \cup {Absent}, old : Maybe,
     fitOld : Maybe, record : PrimaryRecord \cup {Absent}, new : Maybe,
     newId : RecordId, snap : PrimaryRecord \cup {Absent}, doomed : SUBSET VM,
     overdue : SUBSET VM, tell : Maybe]

At(v, step) == h[v].pc = step

\* The invocation for v goes on with local variables r.
Becomes(v, r) == h' = [h EXCEPT ![v] = r]

\* A version name nobody refers to any more.  It also stands for the vote end
\* time, by which the full match of a deletion tells two records of a VM apart.
InUse == {primary[i].etag : i \in {j \in RecordId : primary[j] # Absent}}
         \cup {h[v].record.etag : v \in {w \in VM : h[w].record # Absent}}
         \cup {h[v].snap.etag : v \in {w \in VM : h[w].snap # Absent}}

FreshEtag == CHOOSE e \in Etag : e \notin InUse

\* getHealthCheckRecord as an invocation sees it: in-sync and responsive.  A
\* record is overdue once a whole interval has passed; if less has, it is slow,
\* which only counts where the code asks for 'healthy' (the actions on slow VMs).
Fit(v, w) == /\ health[w] # Absent
             /\ health[w].state = "inSync"
             /\ w \notin h[v].overdue

Fault == faults < MaxFaults /\ faults' = faults + 1

-----------------------------------------------------------------------------
Init ==
    /\ up = Initial /\ born = Initial
    /\ silent = {}
    /\ health = [v \in VM |-> Absent]
    /\ primary = [i \in RecordId |-> Absent]
    /\ device = [v \in VM |-> Absent]
    /\ h = [v \in VM |-> IdleHandler]
    /\ lost = {}
    /\ faults = 0

-----------------------------------------------------------------------------
(* The heartbeat strategy: read the target's record, then create or update *)
(* it.  What decides whether a heartbeat is late is not part of this model; *)
(* a late one is a fault of the environment.                               *)

Receive(v, late) ==
    /\ v \in up /\ At(v, "idle") /\ device[v] # Absent
    /\ IF late THEN Fault ELSE UNCHANGED faults
    /\ Becomes(v, [IdleHandler EXCEPT !.pc = "sync", !.late = late, !.target = health[v],
                                      !.overdue = silent])
    /\ UNCHANGED <<tables, up, born, silent, device, lost>>

\* From here on the record is due in the future for every invocation.
Sync(v) ==
    /\ At(v, "sync")
    /\ LET read == h[v].target
           known == read # Absent
           from == IF known THEN read.state ELSE "inSync"
           late == known /\ h[v].late
       IN \E s \in NextState(from, late, Terminate) :
            LET rec == [state |-> s, told |-> IF known THEN read.told ELSE None]
            IN /\ health' = [health EXCEPT ![v] = rec]
               /\ h' = [w \in VM |->
                    IF w # v THEN [h[w] EXCEPT !.overdue = @ \ {v}]
                    ELSE IF Dropped(from, late, Terminate) THEN IdleHandler
                    ELSE [h[v] EXCEPT !.pc = "readVm", !.target = rec, !.late = FALSE,
                                      !.overdue = @ \ {v}]]
    /\ silent' = silent \ {v}
    /\ UNCHANGED <<primary, up, born, device, lost, faults>>

\* The record was deleted after it was read: the update may be refused.
SyncRefused(v) ==
    /\ At(v, "sync")
    /\ h[v].target # Absent /\ health[v] = Absent
    /\ Becomes(v, IdleHandler)
    /\ UNCHANGED <<tables, world>>

-----------------------------------------------------------------------------
(* handlePrimaryElection.                                                  *)

\* getPrimaryRecord takes the first record of an unordered query.
Stored == {primary[i] : i \in RecordId} \ {Absent}

\* getPrimaryVm: the VM of a stored record, if it still exists.
PrimaryVm == IF Stored = {} THEN {None} ELSE {IF r.vm \in up THEN r.vm ELSE None : r \in Stored}

ReadPrimaryVm(v) ==
    /\ At(v, "readVm")
    /\ \E vm \in PrimaryVm : Becomes(v, [h[v] EXCEPT !.pc = "readHealth", !.old = vm])
    /\ UNCHANGED <<tables, world>>

\* Mutant: the sync state of the target is looked at instead of the primary's.
FitOldOfTarget(v) == IF h[v].old # None /\ Fit(v, v) THEN h[v].old ELSE None

\* The old primary, if there is one with an in-sync record.
FitOld(v) == IF h[v].old # None /\ Fit(v, h[v].old) THEN h[v].old ELSE None

ReadPrimaryHealth(v) ==
    /\ At(v, "readHealth")
    /\ Becomes(v, [h[v] EXCEPT !.pc = "readRecord",
                               !.fitOld = FitOld(v)])
    /\ UNCHANGED <<tables, world>>

\* A second, separate read of the primary record.
ReadPrimaryRecord(v) ==
    /\ At(v, "readRecord")
    /\ IF Stored = {}
       THEN Becomes(v, [h[v] EXCEPT !.pc = "stale"])
       ELSE \E r \in Stored : Becomes(v, [h[v] EXCEPT !.pc = "judge", !.record = r])
    /\ UNCHANGED <<tables, world>>

\* The vote is Done: keep the primary if its record is in-sync, else delete the
\* primary record and elect again.
Judge(v) ==
    /\ At(v, "judge")
    /\ IF FitOld(v) # None
       THEN Becomes(v, [h[v] EXCEPT !.pc = "assess", !.fitOld = FitOld(v), !.record = Absent])
       ELSE Becomes(v, [h[v] EXCEPT !.pc = "deleteRead", !.fitOld = None])
    /\ UNCHANGED <<tables, world>>

\* deletePrimaryRecord; its errors are swallowed.
DeleteRead(v) ==
    /\ At(v, "deleteRead")
    /\ LET r == h[v].record
       IN Becomes(v, [h[v] EXCEPT !.pc = IF primary[r.id] = r THEN "deleteWrite" ELSE "stale"])
    /\ UNCHANGED <<tables, world>>

DeleteWrite(v) ==
    /\ At(v, "deleteWrite")
    /\ primary' = [primary EXCEPT ![h[v].record.id] = Absent]
    /\ Becomes(v, [h[v] EXCEPT !.pc = "stale"])
    /\ UNCHANGED <<health, world>>

\* handleStaleVm removes the records of VMs that no longer exist.
HandleStaleVm(v) ==
    /\ At(v, "stale")
    /\ health' = [w \in VM |-> IF w \in up THEN health[w] ELSE Absent]
    /\ silent' = silent \cap up
    /\ Becomes(v, [h[v] EXCEPT !.pc = "elect", !.record = Absent])
    /\ UNCHANGED <<primary, up, born, device, lost, faults>>

\* When a deletion fails the election is given up and the handler goes on without
\* it; the others of the deletions, all begun at once, may still succeed.
HandleStaleVmFails(v) ==
    /\ At(v, "stale")
    /\ Fault
    /\ \E deleted \in SUBSET (VM \ up) :
          /\ health' = [w \in VM |-> IF w \in deleted THEN Absent ELSE health[w]]
          /\ silent' = silent \ deleted
    /\ Becomes(v, [h[v] EXCEPT !.pc = "assess", !.record = Absent])
    /\ UNCHANGED <<primary, up, born, device, lost>>

\* Mutant: a VM without a record counts as one that is fit.
CandidatesUnseen(v) == {w \in Preferred : health[w] = Absent \/ Fit(v, w)}

\* Mutant: candidates of every scaling group.
CandidatesAnyGroup(v) == {w \in VM : Fit(v, w)}

\* runDeviceSyncInfoElectionMethod: who takes part.
Candidates(v) == {w \in Preferred : Fit(v, w)}

\* PreferredGroupPrimaryElection.run without device sync info: the target,
\* unless it is unfit and another monitored VM is healthy.
ClassicVerdict(v) ==
    IF v \notin Preferred THEN {None}
    ELSE IF h[v].target.state = "inSync" THEN {v}
    ELSE LET others == {w \in VM \ {v} : health[w] # Absent /\ health[w].state = "inSync"}
         IN IF others = {} THEN {v}
            ELSE IF others \subseteq h[v].overdue THEN {v, None} ELSE {None}

\* Mutant: an election that found no VM is saved all the same.
ElectUnchecked(v) ==
    /\ At(v, "elect")
    /\ \E w \in IF v \in Classic THEN ClassicVerdict(v) ELSE Verdict(Candidates(v)) :
          Becomes(v, [h[v] EXCEPT !.pc = "saveGuard", !.new = w,
                                  !.newId = IF v \in Classic THEN v ELSE GroupId])
    /\ UNCHANGED <<tables, world>>

\* A result that names no living VM is not saved.
TakeResult(v, w) ==
    IF w \in up
    THEN Becomes(v, [h[v] EXCEPT !.pc = "saveGuard", !.new = w,
                                 !.newId = IF v \in Classic THEN v ELSE GroupId])
    ELSE Becomes(v, [h[v] EXCEPT !.pc = "assess", !.old = None, !.fitOld = None])

Elect(v) ==
    /\ At(v, "elect")
    /\ \E w \in IF v \in Classic THEN ClassicVerdict(v) ELSE Verdict(Candidates(v)) :
          TakeResult(v, w)
    /\ UNCHANGED <<tables, world>>

\* Slow VMs with no loss to spare are unhealthy, though in-sync: the election
\* passes them over, and a target need not give way to them.  The target itself
\* is not slow, as its record has just been saved.
ElectWithoutSlow(v, slow) ==
    /\ At(v, "elect") /\ v \notin slow
    /\ Fault
    /\ \E w \in IF v \in Classic THEN {v} \cap Preferred ELSE Verdict(Candidates(v) \ slow) :
          TakeResult(v, w)
    /\ UNCHANGED <<tables, up, born, silent, device, lost>>

\* updatePrimaryRecord refuses to go on when a record that is Done exists; the
\* error is logged and the election result stays.
SaveGuard(v) ==
    /\ At(v, "saveGuard")
    /\ Becomes(v, [h[v] EXCEPT !.pc = IF primary[h[v].newId] = Absent THEN "saveRead"
                                         ELSE "assess"])
    /\ UNCHANGED <<tables, world>>

\* If that read fails, the record is taken not to exist.
SaveGuardFails(v) ==
    /\ At(v, "saveGuard")
    /\ Fault
    /\ Becomes(v, [h[v] EXCEPT !.pc = "saveRead"])
    /\ UNCHANGED <<tables, up, born, silent, device, lost>>

\* saveItemToDb reads again; its checker compares ids and groups only.
SaveRead(v) ==
    /\ At(v, "saveRead")
    /\ Becomes(v, [h[v] EXCEPT !.pc = "saveWrite", !.snap = primary[h[v].newId]])
    /\ UNCHANGED <<tables, world>>

SaveWrite(v) ==
    /\ At(v, "saveWrite")
    /\ UpsertMayWrite(primary[h[v].newId], h[v].snap, "checker")
    /\ primary' = [primary EXCEPT ![h[v].newId] =
                      [etag |-> FreshEtag, id |-> h[v].newId, vm |-> h[v].new]]
    /\ Becomes(v, [h[v] EXCEPT !.pc = "assess", !.snap = Absent])
    /\ UNCHANGED <<health, world>>

SaveWriteFails(v) ==
    /\ At(v, "saveWrite")
    /\ UpsertMayFail(primary[h[v].newId], h[v].snap, "checker")
    /\ Becomes(v, [h[v] EXCEPT !.pc = "assess", !.snap = Absent])
    /\ UNCHANGED <<tables, world>>

-----------------------------------------------------------------------------
(* The rest of handleHeartbeatSync.                                        *)

\* Is the old primary stale, when there is a new one?  An overdue record may
\* count as stale or not, depending on how long it has been overdue.
OldIsStale(v) ==
    IF h[v].new = None \/ h[v].old = None THEN {FALSE}
    ELSE IF health[h[v].old] = Absent THEN {FALSE}
    ELSE IF health[h[v].old].state = "outOfSync" THEN {TRUE}
    ELSE IF h[v].old \in h[v].overdue THEN BOOLEAN
    ELSE {FALSE}

\* The VMs to be terminated are a stale old primary and an unhealthy target.
Condemn(v, stale) ==
    LET unhealthy == (IF stale THEN {h[v].old} ELSE {})
                     \cup (IF h[v].target.state = "outOfSync" THEN {v} ELSE {})
        cull == Terminate /\ unhealthy # {}
    IN Becomes(v, [h[v] EXCEPT !.pc = IF cull THEN "cull" ELSE "answer",
                               !.doomed = IF cull THEN unhealthy ELSE {}])

Assess(v) ==
    /\ At(v, "assess")
    /\ \E stale \in OldIsStale(v) : Condemn(v, stale)
    /\ UNCHANGED <<tables, world>>

\* A slow old primary with no loss to spare counts as stale as well.
AssessSlow(v) ==
    /\ At(v, "assess")
    /\ h[v].new # None /\ h[v].old \notin {None, v} /\ health[h[v].old] # Absent
    /\ Fault
    /\ Condemn(v, TRUE)
    /\ UNCHANGED <<tables, up, born, silent, device, lost>>

\* handleUnhealthyVm: deleteVmFromScalingGroup hides its failures ...
Cull(v) ==
    /\ At(v, "cull")
    /\ \E deleted \in SUBSET h[v].doomed : up' = up \ deleted
    /\ Becomes(v, [h[v] EXCEPT !.pc = "drop"])
    /\ UNCHANGED <<tables, born, silent, device, lost, faults>>

\* ... and the health check record is deleted all the same, unless that fails.
Drop(v) ==
    /\ At(v, "drop")
    /\ \E deleted \in SUBSET h[v].doomed :
          /\ health' = [w \in VM |-> IF w \in deleted THEN Absent ELSE health[w]]
          /\ silent' = silent \ deleted
    /\ Becomes(v, [h[v] EXCEPT !.pc = "answer", !.doomed = {}])
    /\ UNCHANGED <<primary, up, born, device, lost, faults>>

\* Mutant: only a new primary is told about.
TellNewOnly(v) ==
    LET r == h[v]
    IN IF r.target.state = "outOfSync" \/ r.new = None \/ r.target.told = r.new
       THEN None ELSE r.new

\* The address the target has to be given, None if it need not be told.
Tell(v) ==
    LET r == h[v]
    IN IF r.target.state = "outOfSync" THEN None
       ELSE IF r.new # None THEN IF r.target.told = r.new THEN None ELSE r.new
       ELSE IF r.target.told # r.fitOld THEN r.fitOld
       ELSE None

NothingToTell(v) ==
    /\ At(v, "answer") /\ Tell(v) = None
    /\ Becomes(v, IdleHandler)
    /\ UNCHANGED <<tables, world>>

\* A primary that is slow, with no loss to spare, is not told about.
PrimaryIsSlow(v) ==
    /\ At(v, "answer") /\ Tell(v) \notin {None, v} /\ h[v].new = None
    /\ Fault
    /\ Becomes(v, IdleHandler)
    /\ UNCHANGED <<tables, up, born, silent, device, lost>>

\* Mutant: the new primary is recorded but not answered.
SaveToldSilently(v) ==
    /\ At(v, "answer") /\ Tell(v) # None
    /\ health' = [health EXCEPT ![v] = [h[v].target EXCEPT !.told = Tell(v)]]
    /\ Becomes(v, [IdleHandler EXCEPT !.pc = IF Tell(v) = v THEN "idle" ELSE "reply",
                                      !.tell = Tell(v)])
    /\ UNCHANGED <<primary, world>>

\* updateHealthCheckRecord with the new address; if the record has gone since,
\* it may be written again or refused.
SaveTold(v) ==
    /\ At(v, "answer") /\ Tell(v) # None
    /\ \/ health' = [health EXCEPT ![v] = [h[v].target EXCEPT !.told = Tell(v)]]
       \/ health[v] = Absent /\ UNCHANGED health
    /\ Becomes(v, [IdleHandler EXCEPT !.pc = "reply", !.tell = Tell(v)])
    /\ UNCHANGED <<primary, world>>

\* A failure to save is logged, and the device gets its answer all the same.
SaveToldFails(v) ==
    /\ At(v, "answer") /\ Tell(v) # None
    /\ Fault
    /\ Becomes(v, [IdleHandler EXCEPT !.pc = "reply", !.tell = Tell(v)])
    /\ lost' = lost \cup {v}
    /\ UNCHANGED <<tables, up, born, silent, device>>

Reply(v) ==
    /\ At(v, "reply")
    /\ device' = [device EXCEPT ![v] = h[v].tell]
    /\ Becomes(v, IdleHandler)
    /\ UNCHANGED <<tables, up, born, silent, lost, faults>>

-----------------------------------------------------------------------------
(* handleBootstrap: the first configuration of a FortiGate.  It is asked    *)
(* for before the VM sends heartbeats, so its record, which is made later,  *)
(* names nobody and the first heartbeat tells the VM again: when exactly    *)
(* the address was read does not matter, and reading and answering are one. *)

\* A request of a VM on record passes for a duplicate: nobody is looked up.
FirstPrimary(v) == IF health[v] = Absent THEN PrimaryVm ELSE {None}

\* The configuration is that of a primary if the VM looked up is the VM itself,
\* and else that of a secondary, with the address of the primary if there is one.
Boot(v) ==
    /\ v \in up /\ device[v] = Absent
    /\ \E vm \in FirstPrimary(v) : device' = [device EXCEPT ![v] = vm]
    /\ UNCHANGED <<tables, up, born, silent, h, lost, faults>>

-----------------------------------------------------------------------------
(* The environment.                                                        *)

\* A VM gets a new disk and starts from its first configuration again.
Reimage(v) ==
    /\ v \in up /\ At(v, "idle") /\ device[v] # Absent
    /\ Fault
    /\ device' = [device EXCEPT ![v] = Absent]
    /\ lost' = lost \cup {v}
    /\ UNCHANGED <<tables, up, born, silent, h>>

\* The host stops an invocation, or its answer is lost on the way.
Crash(v) ==
    /\ ~At(v, "idle")
    /\ Fault
    /\ Becomes(v, IdleHandler)
    /\ lost' = IF At(v, "reply") THEN lost \cup {v} ELSE lost
    /\ UNCHANGED <<tables, up, born, silent, device>>

Join(v) ==
    /\ v \notin born
    /\ up' = up \cup {v} /\ born' = born \cup {v}
    /\ UNCHANGED <<tables, silent, device, h, lost, faults>>

Leave(v) ==
    /\ v \in up
    /\ Fault
    /\ up' = up \ {v}
    /\ UNCHANGED <<tables, born, silent, device, h, lost>>

\* A heartbeat fails to come: always from a VM that is gone.
FallSilent(v) ==
    /\ health[v] # Absent /\ v \notin silent
    /\ IF v \in up THEN Fault ELSE UNCHANGED faults
    /\ silent' = silent \cup {v}
    /\ UNCHANGED <<tables, up, born, device, h, lost>>

\* What an invocation does by itself.
Run(v) ==
    \/ Sync(v) \/ SyncRefused(v) \/ ReadPrimaryVm(v) \/ ReadPrimaryHealth(v) \/ ReadPrimaryRecord(v)
    \/ Judge(v) \/ DeleteRead(v) \/ DeleteWrite(v) \/ HandleStaleVm(v) \/ Elect(v)
    \/ SaveGuard(v) \/ SaveRead(v) \/ SaveWrite(v) \/ SaveWriteFails(v)
    \/ Assess(v) \/ Cull(v) \/ Drop(v) \/ NothingToTell(v) \/ SaveTold(v) \/ Reply(v)

Next ==
    \E v \in VM :
        \/ \E late \in BOOLEAN : Receive(v, late)
        \/ Boot(v) \/ Run(v)
        \/ HandleStaleVmFails(v) \/ SaveGuardFails(v) \/ SaveToldFails(v)
        \/ \E slow \in SUBSET VM : ElectWithoutSlow(v, slow)
        \/ AssessSlow(v) \/ PrimaryIsSlow(v)
        \/ Crash(v) \/ Reimage(v) \/ Join(v) \/ Leave(v) \/ FallSilent(v)

Spec == Init /\ [][Next]_vars

\* Invocations run to their end, FortiGates ask for their configuration and go
\* on sending heartbeats, and the clock makes the record of a VM that is gone
\* overdue.
Fairness ==
    \A v \in VM : /\ WF_vars(Run(v))
                  /\ WF_vars(Boot(v))
                  /\ WF_vars(Receive(v, FALSE))
                  /\ WF_vars(v \notin up /\ FallSilent(v))

FairSpec == Spec /\ Fairness

-----------------------------------------------------------------------------
(* Properties *)

\* Every variable has its type.
TypeOK ==
    /\ up \subseteq born /\ born \subseteq VM /\ silent \subseteq VM
    /\ health \in [VM -> HealthRecord \cup {Absent}]
    /\ primary \in [RecordId -> PrimaryRecord \cup {Absent}]
    /\ device \in [VM -> Maybe \cup {Absent}]
    /\ h \in [VM -> Handler]
    /\ lost \subseteq VM
    /\ faults \in 0..MaxFaults

\* The primary address in a VM's health check record is what decides whether
\* the VM is told again.  Whenever none of its heartbeats is being handled, the
\* record names exactly the address the FortiGate has been given, or none yet,
\* however elections, deletions and terminations by other invocations went,
\* unless a fault hit between the two.
RecordTracksDevice ==
    \A v \in VM \ lost :
        At(v, "idle") /\ health[v] # Absent => health[v].told \in {device[v], None}

\* "Only vm in the specified byol scaling group can be elected as the new
\* primary": no table, invocation or device ever names another.
OnlyPreferred ==
    /\ \A i \in RecordId : primary[i] # Absent => primary[i].vm \in Preferred
    /\ \A v \in VM : /\ device[v] \in Preferred \cup {None, Absent}
                     /\ health[v] # Absent => health[v].told \in Preferred \cup {None}

\* "Each VM will be initially launched as a secondary role until it becomes
\* in-service and has a healthcheck record": whatever is elected while a VM
\* starts, its first configuration never makes it the primary, so there is one
\* way only to that role, the answer to a heartbeat.
LaunchedAsSecondary ==
    [][\A v \in VM \ lost : device[v] = Absent => device'[v] # v]_vars

\* updatePrimaryRecord: "save record only when the elected primary match the
\* record and vote state is still pending", so a record that is Done is never
\* written over by another invocation's result.
DoneRecordsStay ==
    [][\A i \in RecordId : primary[i] # Absent =>
          primary'[i] = primary[i] \/ primary'[i] = Absent]_vars

\* How an invocation stands as long as it has seen nothing against w being the
\* primary: what it has read so far names w, and it is not on the way to another
\* election.
Trusts(r, w) ==
    /\ r.new = None /\ w \notin r.overdue \cup r.doomed
    /\ CASE r.pc \in {"idle", "sync", "readVm"} -> TRUE
         [] r.pc \in {"readHealth", "readRecord", "judge"} -> r.old = w
         [] r.pc \in {"assess", "cull", "drop", "answer"} -> r.fitOld = w
         [] r.pc = "reply" -> r.tell = w
         [] OTHER -> FALSE

\* Every stored primary record names w, which can serve and is heard of in time,
\* and no invocation has seen anything else.
Undoubted(w) ==
    /\ w \in up \ silent
    /\ Stored # {} /\ \A r \in Stored : r.vm = w
    /\ health[w] # Absent /\ health[w].state = "inSync"
    /\ ~h[w].late /\ (h[w].target = Absent \/ h[w].target.state = "inSync")
    /\ \A v \in VM : Trusts(h[v], w)

\* A fault of the environment hits w: it leaves, or its heartbeat is late.
HitBy(w) == faults' # faults /\ (w \notin up' \/ w \in silent' \/ h'[w].late)

\* Split brain does not come back by itself: a primary that can serve and that
\* nobody doubts stays so, and nobody is told of another one, whatever
\* heartbeats overlap, VMs start, join, leave, go out of sync or are terminated,
\* and whatever faults hit, until one hits the primary itself.
UndoubtedPrimaryStays ==
    [][\A w \in VM : Undoubted(w) =>
          /\ ~HitBy(w) => Undoubted(w)'
          /\ \A v \in VM : device'[v] \in {device[v], w, None, Absent}]_vars

\* A primary that can serve, and agreement on it: it is recorded, the records
\* of all in-sync VMs name it and so do their devices.
SomeFit == \E w \in Preferred \cap up : health[w] # Absent /\ health[w].state = "inSync"

Agreed ==
    \E w \in up :
        /\ \E i \in RecordId : primary[i] # Absent /\ primary[i].vm = w
        /\ \A v \in up : health[v] # Absent /\ health[v].state = "inSync" =>
              /\ health[v].told = w
              /\ v \notin lost => device[v] = w

\* Split brain heals.  However heartbeats overlapped so far and whatever faults
\* hit, once they are handled one after another and a VM that can be primary
\* remains, all in-sync VMs end up, and stay, with the same recorded and living
\* primary.  (As long as they overlap there is no such promise: two of them can
\* delete each other's primary record for ever, each judging the record it reads
\* by the primary VM it read before.)
OneAtATime == Cardinality({v \in VM : ~At(v, "idle")}) <= 1

Converges == <>[](SomeFit /\ OneAtATime) => <>[]Agreed

=============================================================================
