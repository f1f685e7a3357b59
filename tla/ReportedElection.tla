-------------------------- MODULE ReportedElection --------------------------
(***************************************************************************)
(* From what FortiGates report in their heartbeats to the election: the    *)
(* body of a request becomes device sync info, the heartbeat strategy      *)
(* makes a health check record of it, the record an item, the item a       *)
(* document, and an invocation that reads, lists or deletes records goes   *)
(* the way back.  Each step has its own idea of a value that is missing,   *)
(* and a document that is listed skips one step of those that are read.    *)
(* The election by scores (ElectionScore) starts from the records listed.  *)
(*                                                                         *)
(* One heartbeat is one step here (PrimaryElection and Heartbeat have the  *)
(* round trips), and a record is listed before its next heartbeat is due.  *)
(***************************************************************************)
EXTENDS ElectionScore

CONSTANTS
    Undefined, NaN, True, False,    \* values besides Null, numbers and text
    NullText, TrueText, FalseText, UndefinedText,   \* what they are as text
    Report(_),      \* the request bodies a VM may send
    Counters,       \* what the strategy may make of the counters (Heartbeat)
    MaxLoss,        \* setting HeartbeatLossCount
    MaxHeartbeats   \* bound: heartbeats in one behaviour

Special == {Null, Undefined, NaN, True, False, NullText, TrueText, FalseText, UndefinedText}

\* Times are numbers, since they are only compared; other text is in Checksum,
\* to which the text "undefined" belongs, the text "null" does not.
ASSUME ValueAssumption ==
    /\ Special \cap Nat = {} /\ Checksum \cap Nat = {}
    /\ UndefinedText \in Checksum
    /\ {Null, Undefined, NaN, True, False, NullText, TrueText, FalseText} \cap Checksum = {}
    /\ NaN \notin {Null, Undefined, True, False, NullText, TrueText, FalseText, "inSync", "outOfSync"}
    /\ Undefined \notin {Null, True, False}
    /\ NullText \notin {Null, TrueText, FalseText} /\ TrueText # FalseText
    /\ True \notin {Null, False} /\ False # Null

\* The body of a heartbeat: any property may be missing (Undefined) or null.
Body == [interval : (Nat \ {0}) \cup {Undefined}, sequence : Nat \cup {Undefined},
         time : (Nat \ {0}) \cup {Undefined}, sync_time : (Nat \ {0}) \cup {Null, Undefined},
         sync_fail_time : (Nat \ {0}) \cup {Null, Undefined},
         sync_status : {True, False, Null, Undefined},
         is_primary : {True, False, Null, Undefined}, checksum : Checksum \cup {Null, Undefined}]

\* A setting that is missing makes the recovery count undefined.
Counter == [syncState : {"inSync", "outOfSync"}, loss : Nat, recovery : Nat \cup {Undefined}]

ASSUME ReportAssumption == \A v \in VM : Report(v) \subseteq Body
ASSUME CountersAssumption == Counters \subseteq Counter /\ MaxLoss \in Nat \ {0}
ASSUME BoundAssumption == MaxHeartbeats \in Nat

VARIABLES
    document,   \* the health check table: VM on record -> document
    last,       \* VM on record -> the body of the heartbeat it was saved for
    sent        \* heartbeats so far

reports == <<document, last, sent>>

-----------------------------------------------------------------------------
(* From a request to a record.                                             *)

Truthy(x) == x \notin {Undefined, Null, NaN, False, 0}

\* (x && Number(x)) || NaN, (x && String(x)) || null, (x !== null && Boolean(x)) || null
NumberOrNaN(x) == IF Truthy(x) THEN x ELSE NaN
TextOrNull(x) == IF Truthy(x) THEN x ELSE Null
TrueOrNull(x) == IF Truthy(x) THEN True ELSE Null

\* (x !== null && String(x)) || null: a missing checksum becomes text.
ChecksumText(x) == IF x = Undefined THEN UndefinedText ELSE x

\* Mutant: every value that is there is taken for true.
DeviceSyncInfoAnyRole(b) ==
    [interval |-> NumberOrNaN(b.interval), sequence |-> NumberOrNaN(b.sequence),
     time |-> TextOrNull(b.time), syncTime |-> TextOrNull(b.sync_time),
     syncFailTime |-> TextOrNull(b.sync_fail_time), syncStatus |-> TrueOrNull(b.sync_status),
     isPrimary |-> IF b.is_primary \in {Undefined, Null} THEN Null ELSE True,
     checksum |-> ChecksumText(b.checksum)]

DeviceSyncInfo(b) ==
    [interval |-> NumberOrNaN(b.interval), sequence |-> NumberOrNaN(b.sequence),
     time |-> TextOrNull(b.time), syncTime |-> TextOrNull(b.sync_time),
     syncFailTime |-> TextOrNull(b.sync_fail_time), syncStatus |-> TrueOrNull(b.sync_status),
     isPrimary |-> TrueOrNull(b.is_primary), checksum |-> ChecksumText(b.checksum)]

NewRecord(info, seq, c) ==
    [interval |-> info.interval, seq |-> seq, syncState |-> c.syncState, loss |-> c.loss,
     recovery |-> c.recovery, sendTime |-> info.time, deviceSyncTime |-> info.syncTime,
     deviceSyncFailTime |-> info.syncFailTime, deviceSyncStatus |-> info.syncStatus,
     deviceIsPrimary |-> info.isPrimary, deviceChecksum |-> info.checksum]

FirstCounters == [syncState |-> "inSync", loss |-> 0, recovery |-> 0]
FirstSeq(info) == IF info.sequence = NaN THEN 1 ELSE info.sequence

\* A sequence number counts only if there is a send time as well.
NextSeq(old, info) ==
    IF info.time # Null /\ info.sequence # NaN THEN info.sequence ELSE old.seq + 1

-----------------------------------------------------------------------------
(* From a record to a document and back.  Addresses and ids are text that  *)
(* is kept as it is; the next heartbeat time goes the way of the interval. *)

NumberField == {"interval", "loss", "recovery", "seq"}
FlagField == {"deviceSyncStatus", "deviceIsPrimary"}
NullableField == {"sendTime", "deviceSyncTime", "deviceSyncFailTime", "deviceChecksum"}
Field == NumberField \cup FlagField \cup NullableField \cup {"syncState"}

FlagText(x) == IF x = Null THEN NullText ELSE IF Truthy(x) THEN TrueText ELSE FalseText

\* The item to save or to delete; only flags are made text.
Item(rec) == [f \in Field |-> IF f \in FlagField THEN FlagText(rec[f]) ELSE rec[f]]

\* Mutant: a number that is none is stored as it is.
StoredNaN(item) == [f \in Field |-> item[f]]

\* As JSON has it: NaN is null, what is undefined is left out.
Stored(item) == [f \in Field |-> IF item[f] = NaN THEN Null ELSE item[f]]

ToNumber(x) == IF x = Null THEN 0 ELSE IF x = Undefined THEN NaN ELSE x

\* convertRecord, of a document that is read by its key: numbers are made
\* numbers, all else is passed on.  Documents that are listed are not converted.
Snapshot(doc) == [f \in Field |-> IF f \in NumberField THEN ToNumber(doc[f]) ELSE doc[f]]

\* Mutant: a flag that was null is read as false.
FlagOrFalse(x) == IF x = TrueText THEN True ELSE False

\* Mutant: a flag is true if its text is not empty.
FlagAnyText(x) == IF x = Undefined THEN Null ELSE True

Flag(x) == IF x = TrueText THEN True ELSE IF x = FalseText THEN False ELSE Null

\* parseHealthCheckRecord.
Parsed(item) ==
    [f \in Field |->
        CASE f = "recovery" -> IF Truthy(item[f]) THEN item[f] ELSE 0
          [] f \in FlagField -> Flag(item[f])
          [] f \in NullableField -> IF item[f] = NullText THEN Null ELSE item[f]
          [] OTHER -> item[f]]

\* v's record by getHealthCheckRecord and by listHealthCheckRecord, with its next
\* heartbeat not yet due.
ReadRecord(v) == Parsed(Snapshot(document[v]))
ListedRecord(v) == Parsed(document[v])

\* Without an interval there is no next heartbeat time: the record is late.
Healthy(rec) == rec.loss + (IF rec.interval \in {0, Null} THEN 1 ELSE 0) < MaxLoss

\* The full match of a deletion: the properties that both have are the same.
Matches(item, snapshot) ==
    \A f \in Field : item[f] # Undefined /\ snapshot[f] # Undefined
                        => item[f] = snapshot[f] /\ item[f] # NaN

\* Does v's record, as it was read or listed, match the document it is from?
ReadMatches(v) == Matches(Item(ReadRecord(v)), Snapshot(document[v]))
ListedMatches(v) == Matches(Item(ListedRecord(v)), Snapshot(document[v]))

\* What the documents hold: false is never stored, a missing interval is null.
Holds(f) ==
    CASE f = "interval" -> Nat \cup {Null}
      [] f \in {"seq", "loss"} -> Nat
      [] f = "recovery" -> Nat \cup {Undefined}
      [] f \in FlagField -> {TrueText, NullText}
      [] f \in NullableField \ {"deviceChecksum"} -> (Nat \ {0}) \cup {Null}
      [] f = "deviceChecksum" -> Checksum \cup {Null}
      [] f = "syncState" -> {"inSync", "outOfSync"}

-----------------------------------------------------------------------------
OnRecord == DOMAIN document

\* What is saved for v is a record made of the body of a heartbeat.
Save(v, b, seq, c) ==
    /\ document' = [w \in OnRecord \cup {v} |->
                       IF w = v THEN Stored(Item(NewRecord(DeviceSyncInfo(b), seq, c)))
                       ELSE document[w]]
    /\ last' = [w \in OnRecord \cup {v} |-> IF w = v THEN b ELSE last[w]]

ReportedInit ==
    /\ document = <<>> /\ last = <<>> /\ sent = 0
    /\ pc = "heartbeats" /\ record = <<>> /\ todo = {}
    /\ major = [count |-> 1, tie |-> FALSE, checksum |-> Null]
    /\ syncTimes = [c \in Checksum \cup {Null} |-> 0]
    /\ latest = [time |-> 0, count |-> 0, checksum |-> Null]
    /\ score = <<>>
    /\ best = [score |-> 0, tie |-> FALSE, vm |-> Null]
    /\ oldest = [time |-> 0, vm |-> Null]
    /\ winner = Null

Receives(v, b) ==
    /\ pc = "heartbeats" /\ b \in Report(v)
    /\ sent < MaxHeartbeats /\ sent' = sent + 1
    /\ UNCHANGED vars

FirstHeartbeat(v, b) ==
    /\ Receives(v, b) /\ v \notin OnRecord
    /\ Save(v, b, FirstSeq(DeviceSyncInfo(b)), FirstCounters)

\* An outdated heartbeat is dropped, by the strategy or by the save's checker,
\* which finds null no later than null and not comparable with a time.
Outdated(old, info, seq) ==
    /\ seq < old.seq
    /\ info.time = Null <=> old.sendTime = Null
    /\ info.time # Null => info.time <= old.sendTime

NextHeartbeat(v, b) ==
    /\ Receives(v, b) /\ v \in OnRecord
    /\ LET info == DeviceSyncInfo(b)
           seq == NextSeq(ReadRecord(v), info)
       IN IF Outdated(ReadRecord(v), info, seq) THEN UNCHANGED <<document, last>>
          ELSE \E c \in Counters : Save(v, b, seq, c)

Delete(gone) ==
    /\ document' = [w \in OnRecord \ gone |-> document[w]]
    /\ last' = [w \in OnRecord \ gone |-> last[w]]
    /\ sent' = sent

\* handleUnhealthyVm reads the record of a VM it has terminated and deletes it.
HandleUnhealthyVm(v) ==
    /\ pc = "heartbeats" /\ v \in OnRecord
    /\ ReadMatches(v) /\ Delete({v})
    /\ UNCHANGED vars

\* What an election sees of a record.  The Date of a send time of null is 0.
Weighable(rec) ==
    [checksum |-> rec.deviceChecksum, syncTime |-> rec.deviceSyncTime,
     isPrimary |-> rec.deviceIsPrimary = True,
     sendTime |-> IF rec.sendTime = Null THEN 0 ELSE rec.sendTime]

Eligible(stale) == {v \in OnRecord \ stale : Healthy(ListedRecord(v))}

\* handleStaleVm lists the records and deletes those of VMs that are no more,
\* side by side.  All have to match for an election to be held ...
Begin(stale) ==
    /\ pc = "heartbeats" /\ Eligible(stale) # {}
    /\ \A v \in stale : ListedMatches(v)
    /\ Delete(stale)
    /\ record' = [v \in Eligible(stale) |-> Weighable(ListedRecord(v))]
    /\ pc' = "groups" /\ todo' = ChecksumsOf(Candidate)'
    /\ score' = [v \in Candidate' |-> 0]
    /\ UNCHANGED <<major, syncTimes, latest, best, oldest, winner>>

\* ... between at least one candidate.  If one does not match or its deletion
\* fails, any of those that match may be gone all the same.
NoElection(stale) ==
    /\ pc = "heartbeats"
    /\ \E gone \in SUBSET {v \in stale : ListedMatches(v)} : Delete(gone)
    /\ UNCHANGED vars

ReportedNext ==
    \/ \E v \in VM : \/ HandleUnhealthyVm(v)
                    \/ \E b \in Report(v) : FirstHeartbeat(v, b) \/ NextHeartbeat(v, b)
    \/ \E stale \in SUBSET OnRecord : Begin(stale) \/ NoElection(stale)
    \/ Next /\ UNCHANGED reports

ReportedSpec == ReportedInit /\ [][ReportedNext]_<<vars, reports>>

-----------------------------------------------------------------------------
(* Properties *)

\* What is stored has been saved for a heartbeat, and once an election has
\* begun its variables have their types.
ReportedTypeOK ==
    /\ OnRecord \subseteq VM /\ last \in [OnRecord -> Body] /\ sent \in 0..MaxHeartbeats
    /\ \A v \in OnRecord : \A f \in Field : document[v][f] \in Holds(f)
    /\ pc # "heartbeats" => TypeOK

\* Whatever was missing or null in a request, was turned into text, number or
\* null on the way and back again, and whatever heartbeats came before it: the
\* next heartbeat of a VM reads of its record what the last one saved said.
ReportsSurvive ==
    \A v \in OnRecord :
        LET view == ReadRecord(v)
            info == DeviceSyncInfo(last[v])
        IN /\ view.sendTime = info.time /\ view.deviceChecksum = info.checksum
           /\ view.deviceSyncTime = info.syncTime /\ view.deviceSyncFailTime = info.syncFailTime
           /\ view.deviceSyncStatus = info.syncStatus /\ view.deviceIsPrimary = info.isPrimary
           /\ view.interval = IF info.interval = NaN THEN 0 ELSE info.interval
           /\ view.seq \in Nat /\ view.loss \in Nat /\ view.recovery \in Nat

\* When a record that nobody has changed can be deleted: one that was read if
\* its recovery count was ever stored, one that was listed only if the last
\* heartbeat also told its interval.  Whatever else was missing or null, its
\* conversions there and back end where they began.
WhichRecordsMatch ==
    \A v \in OnRecord :
        /\ ReadMatches(v) <=> document[v]["recovery"] # Undefined
        /\ ListedMatches(v) <=> ReadMatches(v) /\ last[v].interval # Undefined

\* From end to end: of VMs with healthy records, one that alone said in its last
\* heartbeat that it is the primary is elected, whether the others said no, null,
\* or nothing.
ReportedPrimaryIsElected ==
    Decided => \A v \in Candidate :
        last[v].is_primary = True /\ (\A w \in Candidate \ {v} : last[w].is_primary # True)
        => winner = v

=============================================================================
