----------------------------- MODULE Heartbeat -----------------------------
(***************************************************************************)
(* Heartbeats of one FortiGate and its health check record                 *)
(* (ConstantIntervalHeartbeatSyncStrategy and what handleHeartbeatSync     *)
(* does with its result).                                                  *)
(*                                                                         *)
(* The device sends a heartbeat every interval, on time or late.  They may *)
(* be lost, and arrive in any order; each is handled by an invocation of   *)
(* its own, so heartbeats that are handled slowly overlap.  An invocation  *)
(* reads the record, judges the heartbeat by it, and saves the record with *)
(* a read and a write of their own, perhaps twice.                         *)
(***************************************************************************)
EXTENDS CosmosTable, Sequences, SyncVerdict

CONSTANTS
    Invocation,
    MaxLoss,        \* setting HeartbeatLossCount
    Recovery,       \* setting SyncRecoveryCount
    Config,         \* the other settings, and the kind of device
    MaxClock,       \* bound: the device sends nothing after this time
    MaxFaults       \* bound: environment faults in one behaviour

\* terminate: setting TerminateUnhealthyVm.  informed: the device sends device
\* sync info.  first: the sequence number it starts from after a boot.
Configs == [terminate : BOOLEAN, informed : BOOLEAN, first : {0, 1}]

ASSUME MaxLossAssumption == MaxLoss \in Nat \ {0}
ASSUME RecoveryAssumption == Recovery \in Nat
ASSUME ConfigAssumption == Config \subseteq Configs
ASSUME BoundsAssumption == MaxClock \in Nat /\ MaxFaults \in Nat

\* Times are in units of half the time a late heartbeat takes: a heartbeat is
\* on time when it is sent one Interval after the one before.
Interval == 1

Record == [seq : Nat, time : Nat, loss : Nat, sync : SyncState, recovery : Nat]
Heartbeats == [seq : Nat, time : Nat]

ASSUME AbsentAssumption == Absent \notin Record \cup SyncState

VARIABLES
    config,     \* the settings, read from the database by every invocation
    clock,      \* when the device sent its last heartbeat
    sentAt,     \* when it sent those since it booted
    alive,      \* whether the VM exists
    rebooted,   \* whether the device ever booted again
    inFlight,   \* heartbeats sent and not yet handled; a lost one never is
    record,     \* the health check record
    h,          \* the invocations
    current,    \* invocations whose save read what is stored: same _etag
    faults

vars == <<config, clock, sentAt, alive, rebooted, inFlight, record, h, current, faults>>
device == <<clock, sentAt, rebooted>>

Steps == {"idle", "createRead", "createWrite", "updateRead", "updateWrite", "cull",
          "dropRead", "dropMatch", "dropWrite"}

\* rec: the record to be saved or deleted; base: the sequence number it was
\* judged by; then: what follows the save; found: the save's read found a record.
Handler == [pc : Steps, rec : Record \cup {Absent}, base : Nat,
            then : {"idle", "again", "cull"}, found : BOOLEAN]

IdleHandler == [pc |-> "idle", rec |-> Absent, base |-> 0, then |-> "idle", found |-> FALSE]

At(i, step) == h[i].pc = step
Becomes(i, r) == h' = [h EXCEPT ![i] = r]
Goes(i, step) == Becomes(i, [h[i] EXCEPT !.pc = step])
Ends(i) == Becomes(i, IdleHandler)
Fault == faults < MaxFaults /\ faults' = faults + 1

Init ==
    /\ config \in Config
    /\ clock = 0 /\ sentAt = <<>> /\ alive = TRUE /\ rebooted = FALSE
    /\ inFlight = {}
    /\ record = Absent
    /\ h = [i \in Invocation |-> IdleHandler]
    /\ current = {}
    /\ faults = 0

-----------------------------------------------------------------------------
(* Judging a heartbeat.                                                    *)

\* getReqDeviceSyncInfo: a device without sync info reports neither sequence
\* nor time; a sequence of 0 is taken for a missing one, because it is falsy.
\* 0 stands for a missing number and for the time null, which compares like 0.
NoNumber == 0
Reported(m) == IF config.informed THEN m ELSE [seq |-> NoNumber, time |-> NoNumber]

\* A heartbeat that was overtaken: lower in sequence and sent earlier.
Outdated(old, m) ==
    config.informed /\ m.seq # NoNumber /\ m.seq < old.seq /\ m.time < old.time

\* Mutant: every later heartbeat is compared with the recorded one.
LatenessOfAnyLater(old, m) ==
    IF ~config.informed THEN BOOLEAN
    ELSE {m.seq # NoNumber /\ m.seq > old.seq /\ m.time > old.time + Interval}

\* Whether it is late.  With sync info this is known only of the heartbeat that
\* follows the recorded one, all others are trusted; without, arrival decides.
Lateness(old, m) ==
    IF ~config.informed THEN BOOLEAN
    ELSE {m.seq # NoNumber /\ m.seq = old.seq + 1 /\ m.time > old.time + Interval}

\* Mutant: the losses are still counted after a recovery.
CountedKeepingLoss(old, late) ==
    CASE old.sync = "inSync" /\ ~late -> [old EXCEPT !.loss = 0]
      [] old.sync = "inSync" /\ late /\ old.loss + 1 < MaxLoss -> [old EXCEPT !.loss = @ + 1]
      [] old.sync = "inSync" /\ late /\ old.loss + 1 >= MaxLoss ->
            [old EXCEPT !.loss = @ + 1, !.sync = "outOfSync", !.recovery = Recovery]
      [] old.sync = "outOfSync" /\ config.terminate -> old
      [] old.sync = "outOfSync" /\ ~config.terminate /\ late -> [old EXCEPT !.recovery = Recovery]
      [] old.sync = "outOfSync" /\ ~config.terminate /\ ~late /\ old.recovery > 1 ->
            [old EXCEPT !.recovery = @ - 1]
      [] OTHER -> [old EXCEPT !.recovery = 0, !.sync = "inSync"]

\* The counters after a heartbeat that is late or not.
Counted(old, late) ==
    CASE old.sync = "inSync" /\ ~late -> [old EXCEPT !.loss = 0]
      [] old.sync = "inSync" /\ late /\ old.loss + 1 < MaxLoss -> [old EXCEPT !.loss = @ + 1]
      [] old.sync = "inSync" /\ late /\ old.loss + 1 >= MaxLoss ->
            [old EXCEPT !.loss = @ + 1, !.sync = "outOfSync", !.recovery = Recovery]
      [] old.sync = "outOfSync" /\ config.terminate -> old
      [] old.sync = "outOfSync" /\ ~config.terminate /\ late -> [old EXCEPT !.recovery = Recovery]
      [] old.sync = "outOfSync" /\ ~config.terminate /\ ~late /\ old.recovery > 1 ->
            [old EXCEPT !.recovery = @ - 1]
      [] OTHER -> [old EXCEPT !.recovery = 0, !.loss = 0, !.sync = "inSync"]

\* Mutant: the loss that is under way is not counted.
ReadHealthySoFar(rec, late) == rec.loss < MaxLoss

\* What the reader of a record makes of it without its sync state: whether the
\* VM is healthy, given that its next heartbeat is already late or not yet.
ReadHealthy(rec, late) == rec.loss + (IF late THEN 1 ELSE 0) < MaxLoss

\* The record to save: a device without a sequence number is given the next one.
Judged(old, m, late) ==
    [Counted(old, late) EXCEPT !.seq = IF m.seq = NoNumber THEN old.seq + 1 ELSE m.seq,
                               !.time = m.time]

\* Mutant: a VM is terminated by the heartbeat after the one that marks it.
SequelOneLater(old, new) ==
    CASE new.sync = "inSync" -> "again"
      [] old.sync = "outOfSync" /\ config.terminate -> "cull"
      [] OTHER -> "idle"

\* After the save: a VM that has just gone out of sync may be terminated, one
\* that is still out of sync is answered at once, and the record of an in-sync
\* one is saved again if there is a new primary to tell it of.
Sequel(old, new) ==
    CASE new.sync = "inSync" -> "again"
      [] Condemned(old.sync, new.sync, config.terminate) -> "cull"
      [] OTHER -> "idle"

FirstRecord(m) ==
    [seq |-> IF m.seq = NoNumber THEN 1 ELSE m.seq, time |-> m.time, loss |-> 0,
     sync |-> "inSync", recovery |-> 0]

-----------------------------------------------------------------------------
(* The invocations.                                                        *)

\* getHealthCheckRecord finds nothing: the first heartbeat.
LoadFirst(i, m) ==
    /\ At(i, "idle") /\ m \in inFlight
    /\ record = Absent
    /\ Becomes(i, [IdleHandler EXCEPT !.pc = "createRead", !.rec = FirstRecord(Reported(m)),
                                      !.then = "again"])
    /\ inFlight' = inFlight \ {m}
    /\ UNCHANGED <<config, device, alive, record, current, faults>>

\* It finds a record; an outdated heartbeat is dropped.
Load(i, m) ==
    /\ At(i, "idle") /\ m \in inFlight
    /\ record # Absent
    /\ IF Outdated(record, m)
       THEN Ends(i)
       ELSE \E late \in Lateness(record, m) :
              LET new == Judged(record, Reported(m), late)
              IN Becomes(i, [pc |-> "updateRead", rec |-> new, base |-> record.seq,
                             then |-> Sequel(record, new), found |-> FALSE])
    /\ inFlight' = inFlight \ {m}
    /\ UNCHANGED <<config, device, alive, record, current, faults>>

\* createHealthCheckRecord: an insert, which fails if there is a record by now.
CreateRead(i) ==
    /\ At(i, "createRead")
    /\ IF SaveError("InsertOnly", record, "none", TRUE) = "none"
       THEN Goes(i, "createWrite") ELSE Ends(i)
    /\ UNCHANGED <<config, device, alive, inFlight, record, current, faults>>

\* What follows a save that succeeded; at most one more save of the same record.
Proceeds(i) ==
    \/ h[i].then = "cull" /\ Goes(i, "cull")
    \/ h[i].then # "cull" /\ Ends(i)
    \/ h[i].then = "again" /\ Becomes(i, [h[i] EXCEPT !.pc = "updateRead", !.then = "idle",
                                                      !.base = h[i].rec.seq])

CreateWrite(i) ==
    /\ At(i, "createWrite")
    /\ record' = h[i].rec /\ current' = {}
    /\ Proceeds(i)
    /\ UNCHANGED <<config, device, alive, inFlight, faults>>

\* Mutant: the check is left to the one made when the heartbeat was judged.
PassesAnything(new, old) == TRUE

\* The checker of updateHealthCheckRecord.
Passes(new, old) == ~(new.seq < old.seq /\ new.time <= old.time)

UpdateRead(i) ==
    /\ At(i, "updateRead")
    /\ IF record # Absent /\ ~Passes(h[i].rec, record)
       THEN Ends(i) /\ UNCHANGED current
       ELSE /\ Becomes(i, [h[i] EXCEPT !.pc = "updateWrite", !.found = record # Absent])
            /\ current' = IF record # Absent THEN current \cup {i} ELSE current \ {i}
    /\ UNCHANGED <<config, device, alive, inFlight, record, faults>>

\* An upsert that read a record is conditional on its etag.  If the record has
\* gone meanwhile the service may do either.
UpdateWrite(i) ==
    /\ At(i, "updateWrite")
    /\ h[i].found /\ record # Absent => i \in current
    /\ record' = h[i].rec /\ current' = {}
    /\ Proceeds(i)
    /\ UNCHANGED <<config, device, alive, inFlight, faults>>

UpdateFails(i) ==
    /\ At(i, "updateWrite")
    /\ h[i].found
    /\ record # Absent => i \notin current
    /\ Ends(i)
    /\ UNCHANGED <<config, device, alive, inFlight, record, current, faults>>

-----------------------------------------------------------------------------
(* handleUnhealthyVm: delete the VM, then its record.                      *)

Cull(i) ==
    /\ At(i, "cull")
    /\ alive' = FALSE
    /\ Goes(i, "dropRead")
    /\ UNCHANGED <<config, device, inFlight, record, current, faults>>

\* deleteVmFromScalingGroup swallows its errors: the record is deleted all the same.
CullFails(i) ==
    /\ At(i, "cull")
    /\ Fault
    /\ Goes(i, "dropRead")
    /\ UNCHANGED <<config, device, alive, inFlight, record, current>>

\* Mutant: that there may be no record is forgotten.
DropReadUnchecked(i) ==
    /\ At(i, "dropRead")
    /\ Becomes(i, [h[i] EXCEPT !.pc = "dropMatch", !.rec = record])
    /\ UNCHANGED <<config, device, alive, inFlight, record, current, faults>>

DropRead(i) ==
    /\ At(i, "dropRead")
    /\ IF record = Absent THEN Ends(i)
       ELSE Becomes(i, [h[i] EXCEPT !.pc = "dropMatch", !.rec = record])
    /\ UNCHANGED <<config, device, alive, inFlight, record, current, faults>>

DropMatch(i) ==
    /\ At(i, "dropMatch")
    /\ IF record = h[i].rec THEN Goes(i, "dropWrite") ELSE Ends(i)
    /\ UNCHANGED <<config, device, alive, inFlight, record, current, faults>>

DropWrite(i) ==
    /\ At(i, "dropWrite")
    /\ record' = Absent /\ current' = {}
    /\ Ends(i)
    /\ UNCHANGED <<config, device, alive, inFlight, faults>>

-----------------------------------------------------------------------------
(* The device, the network, the host and the other invocations.            *)

\* A heartbeat, on time or late.  When it was sent nobody sees without sync info.
Send(gap) ==
    /\ alive
    /\ ~config.informed => gap = Interval
    /\ clock + gap <= MaxClock
    /\ clock' = clock + gap
    /\ sentAt' = Append(sentAt, clock')
    /\ inFlight' = inFlight \cup {[seq |-> config.first + Len(sentAt), time |-> clock']}
    /\ UNCHANGED <<config, alive, rebooted, record, h, current, faults>>

\* The sequence starts again, the device's clock goes on.
Reboot ==
    /\ alive
    /\ Fault
    /\ sentAt' = <<>> /\ rebooted' = TRUE
    /\ UNCHANGED <<config, clock, alive, inFlight, record, h, current>>

\* handleStaleVm in the invocation of another VM that does not see this one.
Forget ==
    /\ record # Absent
    /\ record' = Absent /\ current' = {}
    /\ UNCHANGED <<config, device, alive, inFlight, h, faults>>

\* The host stops an invocation, or a call of it that is not modelled fails.
Crash(i) ==
    /\ ~At(i, "idle")
    /\ Fault
    /\ Ends(i)
    /\ UNCHANGED <<config, device, alive, inFlight, record, current>>

Next ==
    \/ \E i \in Invocation :
          \/ \E m \in inFlight : LoadFirst(i, m) \/ Load(i, m)
          \/ CreateRead(i) \/ CreateWrite(i)
          \/ UpdateRead(i) \/ UpdateWrite(i) \/ UpdateFails(i)
          \/ Cull(i) \/ CullFails(i) \/ DropRead(i) \/ DropMatch(i) \/ DropWrite(i)
          \/ Crash(i)
    \/ \E gap \in {Interval, 2 * Interval} : Send(gap)
    \/ Reboot
    \/ Forget

Spec == Init /\ [][Next]_vars

-----------------------------------------------------------------------------
(* Properties *)

\* Every variable has its type; an invocation that saves or deletes has a record.
TypeOK ==
    /\ config \in Config
    /\ clock \in Nat /\ sentAt \in Seq(Nat)
    /\ alive \in BOOLEAN /\ rebooted \in BOOLEAN
    /\ inFlight \subseteq Heartbeats
    /\ record \in Record \cup {Absent}
    /\ h \in [Invocation -> Handler]
    /\ \A i \in Invocation : h[i].pc # "idle" => h[i].rec # Absent
    /\ current \subseteq Invocation
    /\ faults \in Nat

\* The two counters and the sync state of the record agree: in sync means fewer
\* losses than allowed and no recovery pending, out of sync means the limit was
\* reached exactly and no more than the set number of heartbeats is needed.
CountersAgree ==
    record # Absent =>
        \/ record.sync = "inSync" /\ record.loss < MaxLoss /\ record.recovery = 0
        \/ record.sync = "outOfSync" /\ record.loss = MaxLoss /\ record.recovery <= Recovery

\* Elections and deletions go by what readers compute, the strategy by the sync
\* state it saved.  They agree: a VM reads as healthy exactly if it is in sync and
\* the heartbeat it is waited for would leave it there.
ReadersAgree ==
    record # Absent => \A late \in BOOLEAN :
        ReadHealthy(record, late)
        <=> record.sync = "inSync" /\ Counted(record, late).sync = "inSync"

\* The cases in which sequence numbers are an order on the heartbeats.
Ordered == config.informed /\ config.first = 1 /\ ~rebooted

\* Heartbeat s was sent late, and so were those between p and s.
SentLate(s) == s \in 2..Len(sentAt) /\ sentAt[s] > sentAt[s - 1] + Interval
AllLate(p, s) == \A q \in (p + 1)..s : SentLate(q)

\* Losses are counted only for heartbeats that the device sent late, one after
\* the other, whatever was lost, reordered or handled at the same time: a VM
\* that is marked out of sync, and so perhaps terminated, has deserved it.
LossesAreReal ==
    Ordered /\ record # Absent =>
        \E s \in 1..Len(sentAt) :
            /\ record.loss <= s /\ AllLate(s - record.loss, s)
            /\ record.sync = "inSync" => s = record.seq

\* A save that found a record does not replace it by that of an older heartbeat
\* (updateHealthCheckRecord: "to ensure data not to fall back to old value").
NoFallBack ==
    [][\A i \in Invocation :
          /\ Ordered
          /\ At(i, "updateWrite") /\ h[i].found /\ record # Absent
          /\ h'[i].pc # "updateWrite" /\ record' = h[i].rec
          => record'.time >= record.time]_vars

\* With TerminateUnhealthyVm on, a VM whose record is out of sync has gone, or an
\* invocation is on its way to delete it: no heartbeat handled meanwhile makes the
\* record of a VM out of sync that nobody is going to delete.  Its next heartbeats
\* are dropped, so nobody else would (the notification: "Out-of-sync (unhealthy)
\* VM will be terminated").
TerminationIsUnderWay ==
    config.terminate /\ faults = 0 /\ record # Absent =>
        (record.sync = "outOfSync" /\ alive => \E i \in Invocation : At(i, "cull"))

\* Implementation: of all its counters, numbers and times a heartbeat shows the
\* others nothing but a change of the sync state that SyncVerdict allows (what
\* PrimaryElection takes heartbeats for), and a device that sends on time is
\* never judged late, whatever is lost, reordered or handled at the same time.
Punctual == Ordered /\ \A s \in 1..Len(sentAt) : ~SentLate(s)

Saving == {"createRead", "createWrite", "updateRead", "updateWrite"}

Plan == [i \in Invocation |->
    CASE h[i].pc = "idle" -> "idle"
      [] h[i].pc \in Saving -> IF h[i].then = "cull" THEN "condemn" ELSE h[i].rec.sync
      [] h[i].pc = "cull" -> "cull"
      [] OTHER -> "drop"]

Judgements == INSTANCE SyncRecord WITH
    terminate <- config.terminate, punctual <- Punctual, plan <- Plan,
    state <- IF record = Absent THEN Absent ELSE record.sync

HeartbeatsAreJudgements == Judgements!Spec

\* A heartbeat whose record was updated by another while it was handled "will be
\* discarded" (the strategy's class comment): it does not put a VM back in sync
\* that went out of sync meanwhile.
OvertakenIsDiscarded ==
    [][\A i \in Invocation :
          /\ At(i, "updateWrite") /\ h[i].found /\ record # Absent
          /\ record.sync = "outOfSync" /\ h[i].rec.sync = "inSync"
          /\ h'[i].pc # "updateWrite" /\ record' = h[i].rec
          => record.seq = h[i].base]_vars

=============================================================================
