------------------------- MODULE Heartbeat_proofs --------------------------
(***************************************************************************)
(* What holds of the health check record of a VM for any number of         *)
(* overlapping heartbeats, any limits and any settings.  The argument: the *)
(* records that circulate (the stored one and those in the hands of the    *)
(* invocations) all stem from the first heartbeat or from judging a        *)
(* heartbeat by a circulating record; a save only moves them.              *)
(***************************************************************************)
EXTENDS Heartbeat, TLAPS

Handlers == [Invocation -> Handler]
InHand == \A i \in Invocation : h[i].pc # "idle" => h[i].rec # Absent

LEMMA HandlerBecomes ==
    ASSUME h \in Handlers, InHand,
           NEW i \in Invocation, NEW q \in Handler, q.pc # "idle" => q.rec # Absent,
           Becomes(i, q)
    PROVE  h' \in Handlers /\ InHand'
BY DEF Handlers, InHand, Becomes

LEMMA HandlerEnds ==
    ASSUME h \in Handlers, InHand, NEW i \in Invocation, Ends(i)
    PROVE  h' \in Handlers /\ InHand'
<1>1. IdleHandler \in Handler /\ IdleHandler.pc = "idle"
  BY DEF IdleHandler, Handler, Steps
<1> QED BY <1>1 DEF Handlers, InHand, Becomes, Ends

LEMMA HandlerGoes ==
    ASSUME h \in Handlers, InHand, NEW i \in Invocation, ~At(i, "idle"),
           NEW step \in Steps, Goes(i, step)
    PROVE  h' \in Handlers /\ InHand'
<1> DEFINE q == [h[i] EXCEPT !.pc = step]
<1>1. h[i] \in Handler
  BY DEF Handlers
<1>2. q \in Handler /\ q.rec = h[i].rec /\ h[i].rec # Absent
  BY <1>1 DEF Handler, InHand, At
<1> QED BY <1>2, HandlerBecomes DEF Goes

LEMMA HandlerProceeds ==
    ASSUME h \in Handlers, InHand, NEW i \in Invocation, ~At(i, "idle"), Proceeds(i)
    PROVE  h' \in Handlers /\ InHand'
<1>1. CASE Goes(i, "cull")
  BY <1>1, HandlerGoes DEF Steps
<1>2. CASE Ends(i)
  BY <1>2, HandlerEnds
<1>3. CASE Becomes(i, [h[i] EXCEPT !.pc = "updateRead", !.then = "idle",
                                   !.base = h[i].rec.seq])
  <2> DEFINE q == [h[i] EXCEPT !.pc = "updateRead", !.then = "idle", !.base = h[i].rec.seq]
  <2>1. h[i] \in Handler /\ h[i].rec # Absent
    BY DEF Handlers, InHand, At
  <2>2. h[i].rec \in Record /\ h[i].rec.seq \in Nat
    BY <2>1 DEF Handler, Record
  <2>3. q \in Handler /\ q.rec = h[i].rec
    BY <2>1, <2>2 DEF Handler, Steps
  <2> QED BY <1>3, <2>1, <2>3, HandlerBecomes
<1> QED BY <1>1, <1>2, <1>3 DEF Proceeds

LEMMA CountedType ==
    ASSUME NEW old \in Record, NEW late \in BOOLEAN
    PROVE  Counted(old, late) \in Record
<1> USE RecoveryAssumption DEF Record, SyncState
<1>1. old.loss \in Nat /\ old.loss + 1 \in Nat /\ old.recovery \in Nat
  OBVIOUS
<1>2. /\ [old EXCEPT !.loss = 0] \in Record
      /\ [old EXCEPT !.loss = @ + 1] \in Record
  BY <1>1
<1>3. [old EXCEPT !.loss = @ + 1, !.sync = "outOfSync", !.recovery = Recovery] \in Record
  BY <1>1
<1>4. /\ [old EXCEPT !.recovery = Recovery] \in Record
      /\ old.recovery > 1 => [old EXCEPT !.recovery = @ - 1] \in Record
  BY <1>1
<1>5. [old EXCEPT !.recovery = 0, !.loss = 0, !.sync = "inSync"] \in Record
  OBVIOUS
<1>6. \/ Counted(old, late) \in {old, [old EXCEPT !.loss = 0], [old EXCEPT !.loss = @ + 1],
                               [old EXCEPT !.loss = @ + 1, !.sync = "outOfSync",
                                           !.recovery = Recovery],
                               [old EXCEPT !.recovery = Recovery],
                               [old EXCEPT !.recovery = 0, !.loss = 0, !.sync = "inSync"]}
      \/ old.recovery > 1 /\ Counted(old, late) = [old EXCEPT !.recovery = @ - 1]
  BY Zenon DEF Counted
<1> QED BY <1>2, <1>3, <1>4, <1>5, <1>6

LEMMA JudgedType ==
    ASSUME NEW old \in Record, NEW m \in Heartbeats, NEW late \in BOOLEAN
    PROVE  Judged(old, Reported(m), late) \in Record
<1>1. Counted(old, late) \in Record
  BY CountedType
<1>2. Reported(m).seq \in Nat /\ Reported(m).time \in Nat /\ old.seq + 1 \in Nat
  BY DEF Reported, Heartbeats, NoNumber, Record
<1> QED BY <1>1, <1>2 DEF Judged, Record

LEMMA FirstType ==
    ASSUME NEW m \in Heartbeats
    PROVE  FirstRecord(Reported(m)) \in Record
BY DEF FirstRecord, Reported, Heartbeats, NoNumber, Record, SyncState

LEMMA LatenessType ==
    ASSUME NEW old, NEW m
    PROVE  Lateness(old, m) \subseteq BOOLEAN
BY DEF Lateness

LEMMA LoadType ==
    ASSUME TypeOK, NEW i \in Invocation, NEW m \in inFlight, Load(i, m)
    PROVE  h' \in Handlers /\ InHand'
<1> h \in Handlers /\ InHand
  BY DEF TypeOK, Handlers, InHand
<1>1. CASE Ends(i)
  BY <1>1, HandlerEnds
<1>2. CASE ~Ends(i)
  <2>1. PICK late \in Lateness(record, m) :
          LET new == Judged(record, Reported(m), late)
          IN Becomes(i, [pc |-> "updateRead", rec |-> new, base |-> record.seq,
                         then |-> Sequel(record, new), found |-> FALSE])
    BY <1>2 DEF Load
  <2> DEFINE new == Judged(record, Reported(m), late)
             q == [pc |-> "updateRead", rec |-> new, base |-> record.seq,
                   then |-> Sequel(record, new), found |-> FALSE]
  <2>2. record \in Record /\ m \in Heartbeats /\ late \in BOOLEAN
    BY LatenessType DEF TypeOK, Load
  <2>3. new \in Record
    BY <2>2, JudgedType
  <2>4. record.seq \in Nat
    BY <2>2 DEF Record
  <2>5. Sequel(record, new) \in {"idle", "again", "cull"}
    BY DEF Sequel, Condemned
  <2> HIDE DEF new
  <2>6. q \in Handler /\ q.rec # Absent
    BY <2>3, <2>4, <2>5, AbsentAssumption DEF Handler, Steps
  <2>7. Becomes(i, q)
    BY <2>1 DEF new
  <2> QED BY <2>6, <2>7, HandlerBecomes
<1> QED BY <1>1, <1>2

LEMMA TypeInductive == TypeOK /\ [Next]_vars => TypeOK'
<1> SUFFICES ASSUME TypeOK, [Next]_vars PROVE TypeOK'
  OBVIOUS
<1> h \in Handlers /\ InHand
  BY DEF TypeOK, Handlers, InHand
<1>1. ASSUME NEW i \in Invocation, NEW m \in inFlight, LoadFirst(i, m) PROVE TypeOK'
  <2> DEFINE q == [IdleHandler EXCEPT !.pc = "createRead", !.rec = FirstRecord(Reported(m)),
                                      !.then = "again"]
  <2>1. FirstRecord(Reported(m)) \in Record
    BY FirstType DEF TypeOK
  <2>2. q \in Handler /\ q.rec # Absent
    BY <2>1, AbsentAssumption DEF Handler, Steps, IdleHandler
  <2>3. h' \in Handlers /\ InHand'
    BY <1>1, <2>2, HandlerBecomes DEF LoadFirst
  <2> QED BY <1>1, <2>3 DEF TypeOK, LoadFirst, device, Handlers, InHand
<1>2. ASSUME NEW i \in Invocation, NEW m \in inFlight, Load(i, m) PROVE TypeOK'
  <2>1. h' \in Handlers /\ InHand'
    BY <1>2, LoadType
  <2> QED BY <1>2, <2>1 DEF TypeOK, Load, device, Handlers, InHand
<1>3. ASSUME NEW i \in Invocation, CreateRead(i) PROVE TypeOK'
  <2>1. h' \in Handlers /\ InHand'
    BY <1>3, HandlerGoes, HandlerEnds DEF CreateRead, Steps, At
  <2> QED BY <1>3, <2>1 DEF TypeOK, CreateRead, device, Handlers, InHand
<1>4. ASSUME NEW i \in Invocation, CreateWrite(i) PROVE TypeOK'
  <2>1. h' \in Handlers /\ InHand'
    BY <1>4, HandlerProceeds DEF CreateWrite, At
  <2>2. record' \in Record \cup {Absent}
    BY <1>4 DEF CreateWrite, Handlers, Handler
  <2> QED BY <1>4, <2>1, <2>2 DEF TypeOK, CreateWrite, device, Handlers, InHand
<1>5. ASSUME NEW i \in Invocation, UpdateRead(i) PROVE TypeOK'
  <2>1. CASE Ends(i) /\ UNCHANGED current
    <3>1. h' \in Handlers /\ InHand'
      BY <2>1, HandlerEnds
    <3> QED BY <1>5, <2>1, <3>1 DEF TypeOK, UpdateRead, device, Handlers, InHand
  <2>2. CASE ~(Ends(i) /\ UNCHANGED current)
    <3> DEFINE q == [h[i] EXCEPT !.pc = "updateWrite", !.found = record # Absent]
    <3>1. h[i] \in Handler /\ h[i].rec # Absent
      BY <1>5 DEF UpdateRead, At, Handlers, InHand
    <3>2. q \in Handler /\ q.rec # Absent
      BY <3>1 DEF Handler, Steps
    <3>3. h' \in Handlers /\ InHand'
      BY <1>5, <2>2, <3>2, HandlerBecomes DEF UpdateRead
    <3>4. current' \subseteq Invocation
      BY <1>5, <2>2 DEF UpdateRead, TypeOK
    <3> QED BY <1>5, <3>3, <3>4 DEF TypeOK, UpdateRead, device, Handlers, InHand
  <2> QED BY <2>1, <2>2
<1>6. ASSUME NEW i \in Invocation, UpdateWrite(i) PROVE TypeOK'
  <2>1. h' \in Handlers /\ InHand'
    BY <1>6, HandlerProceeds DEF UpdateWrite, At
  <2>2. record' \in Record \cup {Absent}
    BY <1>6 DEF UpdateWrite, Handlers, Handler
  <2> QED BY <1>6, <2>1, <2>2 DEF TypeOK, UpdateWrite, device, Handlers, InHand
<1>7. ASSUME NEW i \in Invocation, UpdateFails(i) PROVE TypeOK'
  <2>1. h' \in Handlers /\ InHand'
    BY <1>7, HandlerEnds DEF UpdateFails
  <2> QED BY <1>7, <2>1 DEF TypeOK, UpdateFails, device, Handlers, InHand
<1>8. ASSUME NEW i \in Invocation, Cull(i) \/ CullFails(i) PROVE TypeOK'
  <2>1. h' \in Handlers /\ InHand'
    BY <1>8, HandlerGoes DEF Cull, CullFails, Steps, At
  <2>2. faults' \in Nat
    BY <1>8 DEF Cull, CullFails, Fault, TypeOK
  <2> QED BY <1>8, <2>1, <2>2 DEF TypeOK, Cull, CullFails, device, Handlers, InHand
<1>9. ASSUME NEW i \in Invocation, DropRead(i) PROVE TypeOK'
  <2>1. CASE record = Absent
    <3>1. h' \in Handlers /\ InHand'
      BY <1>9, <2>1, HandlerEnds DEF DropRead
    <3> QED BY <1>9, <3>1 DEF TypeOK, DropRead, device, Handlers, InHand
  <2>2. CASE record # Absent
    <3> DEFINE q == [h[i] EXCEPT !.pc = "dropMatch", !.rec = record]
    <3>1. h[i] \in Handler /\ record \in Record
      BY <2>2 DEF Handlers, TypeOK
    <3>2. q \in Handler /\ q.rec = record
      BY <3>1 DEF Handler, Steps
    <3>3. h' \in Handlers /\ InHand'
      BY <1>9, <2>2, <3>2, HandlerBecomes DEF DropRead
    <3> QED BY <1>9, <3>3 DEF TypeOK, DropRead, device, Handlers, InHand
  <2> QED BY <2>1, <2>2
<1>10. ASSUME NEW i \in Invocation, DropMatch(i) PROVE TypeOK'
  <2>1. h' \in Handlers /\ InHand'
    BY <1>10, HandlerGoes, HandlerEnds DEF DropMatch, Steps, At
  <2> QED BY <1>10, <2>1 DEF TypeOK, DropMatch, device, Handlers, InHand
<1>11. ASSUME NEW i \in Invocation, DropWrite(i) PROVE TypeOK'
  <2>1. h' \in Handlers /\ InHand'
    BY <1>11, HandlerEnds DEF DropWrite
  <2> QED BY <1>11, <2>1 DEF TypeOK, DropWrite, device, Handlers, InHand
<1>12. ASSUME NEW i \in Invocation, Crash(i) PROVE TypeOK'
  <2>1. h' \in Handlers /\ InHand'
    BY <1>12, HandlerEnds DEF Crash
  <2> QED BY <1>12, <2>1 DEF TypeOK, Crash, Fault, device, Handlers, InHand
<1>13. ASSUME NEW gap \in {Interval, 2 * Interval}, Send(gap) PROVE TypeOK'
  <2>1. clock' \in Nat
    BY <1>13 DEF Send, TypeOK, Interval
  <2>2. sentAt' \in Seq(Nat)
    BY <1>13, <2>1 DEF Send, TypeOK
  <2>3. config.first + Len(sentAt) \in Nat
    BY ConfigAssumption DEF TypeOK, Configs
  <2>4. inFlight' \subseteq Heartbeats
    BY <1>13, <2>1, <2>3 DEF Send, TypeOK, Heartbeats
  <2> QED BY <1>13, <2>1, <2>2, <2>4 DEF TypeOK, Send
<1>14. ASSUME Reboot PROVE TypeOK'
  BY <1>14 DEF Reboot, Fault, TypeOK
<1>15. ASSUME Forget PROVE TypeOK'
  BY <1>15 DEF Forget, device, TypeOK
<1>16. ASSUME UNCHANGED vars PROVE TypeOK'
  BY <1>16 DEF vars, TypeOK
<1> QED BY <1>1, <1>2, <1>3, <1>4, <1>5, <1>6, <1>7, <1>8, <1>9, <1>10, <1>11, <1>12,
           <1>13, <1>14, <1>15, <1>16 DEF Next

LEMMA TypeInit == Init => TypeOK
<1> SUFFICES ASSUME Init PROVE TypeOK
  OBVIOUS
<1>1. IdleHandler \in Handler /\ IdleHandler.pc = "idle"
  BY DEF IdleHandler, Handler, Steps
<1>2. h \in Handlers /\ \A i \in Invocation : h[i].pc = "idle"
  BY <1>1 DEF Init, Handlers
<1>3. sentAt \in Seq(Nat)
  BY DEF Init
<1> QED BY <1>2, <1>3 DEF Init, TypeOK, Handlers

\* Every variable keeps its type, and an invocation that saves or deletes a
\* record has one, for any number of invocations and any settings.
THEOREM TypeCorrect == Spec => []TypeOK
BY TypeInit, TypeInductive, PTL DEF Spec

-----------------------------------------------------------------------------
(* Where records come from.                                                *)

Circulates(r) == r # Absent /\ (r = record \/ \E i \in Invocation : r = h[i].rec)

FirstOf(r) == record = Absent /\ \E m \in inFlight : r = FirstRecord(Reported(m))

JudgedOf(r) ==
    /\ record # Absent
    /\ \E m \in inFlight : /\ ~Outdated(record, m)
                            /\ \E late \in Lateness(record, m) :
                                  r = Judged(record, Reported(m), late)

\* An invocation that ends or goes on brings no record into circulation.
LEMMA EndsKeepsRecords ==
    ASSUME h \in Handlers, NEW i \in Invocation, Ends(i), NEW j \in Invocation
    PROVE  h'[j].rec \in {h[j].rec, Absent}
BY DEF Ends, Becomes, IdleHandler, Handlers

LEMMA GoesKeepsRecords ==
    ASSUME h \in Handlers, NEW i \in Invocation, NEW step, Goes(i, step),
           NEW j \in Invocation
    PROVE  h'[j].rec = h[j].rec
BY DEF Goes, Becomes, Handlers, Handler

LEMMA ProceedsKeepsRecords ==
    ASSUME h \in Handlers, NEW i \in Invocation, Proceeds(i), NEW j \in Invocation
    PROVE  h'[j].rec \in {h[j].rec, Absent}
<1>1. CASE Goes(i, "cull")
  BY <1>1, GoesKeepsRecords
<1>2. CASE Ends(i)
  BY <1>2, EndsKeepsRecords
<1>3. CASE Becomes(i, [h[i] EXCEPT !.pc = "updateRead", !.then = "idle",
                                   !.base = h[i].rec.seq])
  BY <1>3 DEF Becomes, Handlers, Handler
<1> QED BY <1>1, <1>2, <1>3 DEF Proceeds

LEMMA Origin ==
    ASSUME TypeOK, [Next]_vars, NEW r, Circulates(r)'
    PROVE  \/ Circulates(r)
           \/ FirstOf(r) /\ UNCHANGED <<config, sentAt, rebooted>>
           \/ JudgedOf(r) /\ UNCHANGED <<config, sentAt, rebooted>>
<1> DEFINE Goal ==
             \/ Circulates(r)
             \/ FirstOf(r) /\ UNCHANGED <<config, sentAt, rebooted>>
             \/ JudgedOf(r) /\ UNCHANGED <<config, sentAt, rebooted>>
<1> SUFFICES Goal
  OBVIOUS
<1>0. h \in Handlers /\ InHand
  BY DEF TypeOK, Handlers, InHand
<1> r # Absent
  BY DEF Circulates
\* A step that moves records only.
<1>a. ASSUME \/ record' \in {record, Absent}
             \/ \E i \in Invocation : record' = h[i].rec,
             \A j \in Invocation : h'[j].rec \in {h[j].rec, Absent, record}
      PROVE Goal
  <2>1. r = record' \/ \E j \in Invocation : r = h'[j].rec
    BY DEF Circulates
  <2>2. CASE r = record'
    BY <1>a, <2>2 DEF Circulates
  <2>3. CASE \E j \in Invocation : r = h'[j].rec
    BY <1>a, <2>3 DEF Circulates
  <2> QED BY <2>1, <2>2, <2>3
<1>1. ASSUME NEW i \in Invocation, NEW m \in inFlight, LoadFirst(i, m) PROVE Goal
  <2>1. CASE r = FirstRecord(Reported(m))
    BY <1>1, <2>1 DEF LoadFirst, FirstOf, device
  <2>2. CASE r # FirstRecord(Reported(m))
    <3> DEFINE q == [IdleHandler EXCEPT !.pc = "createRead",
                                        !.rec = FirstRecord(Reported(m)), !.then = "again"]
    <3>1. q.rec = FirstRecord(Reported(m))
      BY DEF IdleHandler
    <3>2. \A j \in Invocation : h'[j].rec \in {h[j].rec, q.rec}
      BY <1>0, <1>1 DEF LoadFirst, Becomes, Handlers
    <3>3. record' = record
      BY <1>1 DEF LoadFirst
    <3>4. \A j \in Invocation : h'[j].rec # r \/ h'[j].rec = h[j].rec
      BY <2>2, <3>1, <3>2
    <3>5. r = record' \/ \E j \in Invocation : r = h'[j].rec
      BY DEF Circulates
    <3>6. r = record \/ \E j \in Invocation : r = h[j].rec
      BY <3>3, <3>4, <3>5
    <3> QED BY <3>6 DEF Circulates
  <2> QED BY <2>1, <2>2
<1>2. ASSUME NEW i \in Invocation, NEW m \in inFlight, Load(i, m) PROVE Goal
  <2>1. CASE Ends(i)
    BY <1>0, <1>2, <1>a, <2>1, EndsKeepsRecords DEF Load
  <2>2. CASE ~Ends(i)
    <3>1. PICK late \in Lateness(record, m) :
            LET new == Judged(record, Reported(m), late)
            IN Becomes(i, [pc |-> "updateRead", rec |-> new, base |-> record.seq,
                           then |-> Sequel(record, new), found |-> FALSE])
      BY <1>2, <2>2 DEF Load
    <3> DEFINE new == Judged(record, Reported(m), late)
    <3>2. \A j \in Invocation : h'[j].rec \in {h[j].rec, new}
      BY <1>0, <3>1 DEF Becomes, Handlers
    <3>3. /\ record' = record /\ record # Absent /\ ~Outdated(record, m)
          /\ UNCHANGED <<config, sentAt, rebooted>>
      BY <1>2, <2>2 DEF Load, device
    <3>4. CASE r = new
      BY <3>3, <3>4 DEF JudgedOf
    <3>5. CASE r # new
      <4> HIDE DEF new
      <4> QED BY <3>2, <3>3, <3>5 DEF Circulates
    <3> QED BY <3>4, <3>5
  <2> QED BY <2>1, <2>2
<1>3. ASSUME NEW i \in Invocation, CreateRead(i) PROVE Goal
  BY <1>0, <1>3, <1>a, GoesKeepsRecords, EndsKeepsRecords DEF CreateRead
<1>4. ASSUME NEW i \in Invocation, CreateWrite(i) PROVE Goal
  BY <1>0, <1>4, <1>a, ProceedsKeepsRecords DEF CreateWrite
<1>5. ASSUME NEW i \in Invocation, UpdateRead(i) PROVE Goal
  <2>1. CASE Ends(i)
    BY <1>0, <1>5, <1>a, <2>1, EndsKeepsRecords DEF UpdateRead
  <2>2. CASE Becomes(i, [h[i] EXCEPT !.pc = "updateWrite", !.found = record # Absent])
    <3>1. \A j \in Invocation : h'[j].rec = h[j].rec
      BY <1>0, <2>2 DEF Becomes, Handlers, Handler
    <3> QED BY <1>5, <1>a, <3>1 DEF UpdateRead
  <2> QED BY <1>5, <2>1, <2>2 DEF UpdateRead
<1>6. ASSUME NEW i \in Invocation, UpdateWrite(i) PROVE Goal
  BY <1>0, <1>6, <1>a, ProceedsKeepsRecords DEF UpdateWrite
<1>7. ASSUME NEW i \in Invocation, UpdateFails(i) PROVE Goal
  BY <1>0, <1>7, <1>a, EndsKeepsRecords DEF UpdateFails
<1>8. ASSUME NEW i \in Invocation, Cull(i) \/ CullFails(i) PROVE Goal
  BY <1>0, <1>8, <1>a, GoesKeepsRecords DEF Cull, CullFails
<1>9. ASSUME NEW i \in Invocation, DropRead(i) PROVE Goal
  <2>1. CASE Ends(i)
    BY <1>0, <1>9, <1>a, <2>1, EndsKeepsRecords DEF DropRead
  <2>2. CASE Becomes(i, [h[i] EXCEPT !.pc = "dropMatch", !.rec = record])
    <3>1. \A j \in Invocation : h'[j].rec \in {h[j].rec, record}
      BY <1>0, <2>2 DEF Becomes, Handlers, Handler
    <3> QED BY <1>9, <1>a, <3>1 DEF DropRead
  <2> QED BY <1>9, <2>1, <2>2 DEF DropRead
<1>10. ASSUME NEW i \in Invocation, DropMatch(i) PROVE Goal
  BY <1>0, <1>10, <1>a, GoesKeepsRecords, EndsKeepsRecords DEF DropMatch
<1>11. ASSUME NEW i \in Invocation, DropWrite(i) PROVE Goal
  BY <1>0, <1>11, <1>a, EndsKeepsRecords DEF DropWrite
<1>12. ASSUME NEW i \in Invocation, Crash(i) PROVE Goal
  BY <1>0, <1>12, <1>a, EndsKeepsRecords DEF Crash
<1>13. ASSUME NEW gap \in {Interval, 2 * Interval}, Send(gap) PROVE Goal
  BY <1>13, <1>a DEF Send
<1>14. ASSUME Reboot PROVE Goal
  BY <1>14, <1>a DEF Reboot
<1>15. ASSUME Forget PROVE Goal
  BY <1>15, <1>a DEF Forget
<1>16. ASSUME UNCHANGED vars PROVE Goal
  BY <1>16, <1>a DEF vars
<1> HIDE DEF Goal
<1> QED BY <1>1, <1>2, <1>3, <1>4, <1>5, <1>6, <1>7, <1>8, <1>9, <1>10, <1>11, <1>12,
           <1>13, <1>14, <1>15, <1>16 DEF Next

-----------------------------------------------------------------------------
(* The counters of all circulating records.                                *)

CountersOf(r) ==
    \/ r.sync = "inSync" /\ r.loss < MaxLoss /\ r.recovery = 0
    \/ r.sync = "outOfSync" /\ r.loss = MaxLoss /\ r.recovery <= Recovery

AllCounters == \A r \in Record : Circulates(r) => CountersOf(r)

LEMMA CountedCounters ==
    ASSUME NEW old \in Record, CountersOf(old), NEW late \in BOOLEAN
    PROVE  CountersOf(Counted(old, late))
<1> USE RecoveryAssumption, MaxLossAssumption DEF CountersOf, Record, SyncState
<1>1. old.loss \in Nat /\ old.recovery \in Nat /\ old.sync \in {"inSync", "outOfSync"}
  OBVIOUS
<1>2. CASE old.sync = "inSync" /\ ~late
  <2>1. Counted(old, late) = [old EXCEPT !.loss = 0]
    BY <1>2 DEF Counted
  <2> QED BY <1>2, <2>1
<1>3. CASE old.sync = "inSync" /\ late /\ old.loss + 1 < MaxLoss
  <2>1. Counted(old, late) = [old EXCEPT !.loss = @ + 1]
    BY <1>3 DEF Counted
  <2> QED BY <1>3, <2>1
<1>4. CASE old.sync = "inSync" /\ late /\ old.loss + 1 >= MaxLoss
  <2>1. Counted(old, late)
          = [old EXCEPT !.loss = @ + 1, !.sync = "outOfSync", !.recovery = Recovery]
    BY <1>1, <1>4 DEF Counted
  <2>2. /\ Counted(old, late).sync = "outOfSync"
        /\ Counted(old, late).loss = old.loss + 1
        /\ Counted(old, late).recovery = Recovery
    BY <2>1
  <2>3. old.loss < MaxLoss
    BY <1>4
  <2>4. old.loss + 1 = MaxLoss
    BY <1>1, <1>4, <2>3
  <2> QED BY <2>2, <2>4
<1>5. CASE old.sync = "outOfSync" /\ config.terminate
  <2>1. Counted(old, late) = old
    BY <1>5 DEF Counted
  <2> QED BY <1>5, <2>1
<1>6. CASE old.sync = "outOfSync" /\ ~config.terminate /\ late
  <2>1. Counted(old, late) = [old EXCEPT !.recovery = Recovery]
    BY <1>6, Zenon DEF Counted
  <2> DEFINE new == [old EXCEPT !.recovery = Recovery]
  <2>2. new.sync = old.sync /\ new.loss = old.loss /\ new.recovery = Recovery
    OBVIOUS
  <2>3. Counted(old, late) = new
    BY <2>1
  <2>4. old.sync = "outOfSync" /\ old.loss = MaxLoss
    BY <1>6
  <2>5. CountersOf(new)
    BY <2>2, <2>4
  <2> QED BY <2>3, <2>5
<1>7. CASE old.sync = "outOfSync" /\ ~config.terminate /\ ~late /\ old.recovery > 1
  <2>1. Counted(old, late) = [old EXCEPT !.recovery = @ - 1]
    BY <1>7 DEF Counted
  <2> QED BY <1>1, <1>7, <2>1
<1>8. CASE old.sync = "outOfSync" /\ ~config.terminate /\ ~late /\ ~(old.recovery > 1)
  <2>1. Counted(old, late) = [old EXCEPT !.recovery = 0, !.loss = 0, !.sync = "inSync"]
    BY <1>8 DEF Counted
  <2> QED BY <2>1
<1> QED BY <1>1, <1>2, <1>3, <1>4, <1>5, <1>6, <1>7, <1>8

LEMMA JudgedFields ==
    ASSUME NEW old \in Record, NEW m \in Heartbeats, NEW late \in BOOLEAN
    PROVE  LET new == Judged(old, Reported(m), late)
               counted == Counted(old, late)
           IN /\ new.loss = counted.loss
              /\ new.sync = counted.sync
              /\ new.recovery = counted.recovery
              /\ new.seq = IF Reported(m).seq = NoNumber THEN old.seq + 1
                           ELSE Reported(m).seq
              /\ new.time = Reported(m).time
<1>1. Counted(old, late) \in Record
  BY CountedType
<1> QED BY <1>1 DEF Judged, Record

LEMMA CirculatesType ==
    ASSUME TypeOK, NEW r, Circulates(r)
    PROVE  r \in Record
BY DEF TypeOK, Circulates, Handler

LEMMA CountersInductive == TypeOK /\ AllCounters /\ [Next]_vars => AllCounters'
<1> SUFFICES ASSUME TypeOK, AllCounters, [Next]_vars,
                    NEW r \in Record, Circulates(r)'
             PROVE  CountersOf(r)
  BY DEF AllCounters, CountersOf
<1>1. CASE Circulates(r)
  BY <1>1 DEF AllCounters
<1>2. CASE FirstOf(r)
  BY <1>2, MaxLossAssumption DEF FirstOf, FirstRecord, CountersOf
<1>3. CASE JudgedOf(r)
  <2>1. PICK m \in inFlight : \E late \in Lateness(record, m) :
                                  r = Judged(record, Reported(m), late)
    BY <1>3 DEF JudgedOf
  <2>2. PICK late \in Lateness(record, m) : r = Judged(record, Reported(m), late)
    BY <2>1
  <2>3. record \in Record /\ m \in Heartbeats /\ late \in BOOLEAN
    BY <1>3, LatenessType DEF TypeOK, JudgedOf
  <2>4. CountersOf(record)
    BY <1>3, <2>3 DEF AllCounters, JudgedOf, Circulates
  <2>5. CountersOf(Counted(record, late))
    BY <2>3, <2>4, CountedCounters
  <2> QED BY <2>2, <2>3, <2>5, JudgedFields DEF CountersOf
<1> QED BY <1>1, <1>2, <1>3, Origin

\* The loss count, the recovery count and the sync state of the stored record
\* agree for any limits, also the limits 1 and 0, and any number of heartbeats.
THEOREM CountersAgreeCorrect == Spec => []CountersAgree
<1>1. Init => AllCounters
  BY DEF Init, AllCounters, Circulates, IdleHandler
<1>2. TypeOK /\ AllCounters => CountersAgree
  BY DEF TypeOK, AllCounters, CountersAgree, Circulates, CountersOf
<1> QED BY <1>1, <1>2, CountersInductive, TypeCorrect, PTL DEF Spec

\* Elections and deletions, which go by what is read, agree with the strategy on
\* who is healthy.
THEOREM ReadersAgreeCorrect == Spec => []ReadersAgree
<1>1. TypeOK /\ CountersAgree => ReadersAgree
  <2> SUFFICES ASSUME TypeOK, CountersAgree, record # Absent, NEW late \in BOOLEAN
               PROVE  ReadHealthy(record, late)
                      <=> record.sync = "inSync" /\ Counted(record, late).sync = "inSync"
    BY DEF ReadersAgree
  <2> USE MaxLossAssumption DEF Record, SyncState
  <2>1. record \in Record
    BY DEF TypeOK
  <2>2. CASE record.sync = "outOfSync"
    BY <2>1, <2>2 DEF CountersAgree, ReadHealthy
  <2>3. CASE record.sync = "inSync" /\ ~late
    BY <2>1, <2>3 DEF CountersAgree, ReadHealthy, Counted
  <2>4. CASE record.sync = "inSync" /\ late
    BY <2>1, <2>4 DEF CountersAgree, ReadHealthy, Counted
  <2> QED
    BY <2>1, <2>2, <2>3, <2>4
<1> QED BY <1>1, CountersAgreeCorrect, TypeCorrect, PTL

-----------------------------------------------------------------------------
(* What the device has sent.                                               *)

\* The device's clock: later sequence numbers mean later times.
TimesGrow ==
    /\ \A s \in 1..Len(sentAt) : sentAt[s] <= clock
    /\ \A s, t \in 1..Len(sentAt) : s < t => sentAt[s] < sentAt[t]

\* m, a heartbeat or a record, bears the number and the time of one that was sent.
SentAs(m) == m.seq \in 1..Len(sentAt) /\ m.time = sentAt[m.seq]

AllSent ==
    Ordered => /\ \A m \in inFlight : SentAs(m)
               /\ \A r \in Record : Circulates(r) => SentAs(r)

\* The device acts alone: a step of an invocation takes at most a heartbeat away.
LEMMA DeviceActs ==
    ASSUME [Next]_vars
    PROVE  /\ UNCHANGED config
           /\ \/ UNCHANGED device /\ inFlight' \subseteq inFlight
              \/ Reboot
              \/ \E gap \in {Interval, 2 * Interval} : Send(gap)
<1>1. CASE \E i \in Invocation : \/ \E m \in inFlight : LoadFirst(i, m) \/ Load(i, m)
                                \/ CreateRead(i) \/ CreateWrite(i)
  BY <1>1 DEF LoadFirst, Load, CreateRead, CreateWrite
<1>2. CASE \E i \in Invocation : UpdateRead(i) \/ UpdateWrite(i) \/ UpdateFails(i)
  BY <1>2 DEF UpdateRead, UpdateWrite, UpdateFails
<1>3. CASE \E i \in Invocation : \/ Cull(i) \/ CullFails(i) \/ DropRead(i)
                                \/ DropMatch(i) \/ DropWrite(i) \/ Crash(i)
  BY <1>3 DEF Cull, CullFails, DropRead, DropMatch, DropWrite, Crash
<1>4. CASE Forget \/ UNCHANGED vars
  BY <1>4 DEF Forget, vars, device
<1>5. CASE Reboot \/ \E gap \in {Interval, 2 * Interval} : Send(gap)
  BY <1>5 DEF Reboot, Send
<1> QED BY <1>1, <1>2, <1>3, <1>4, <1>5 DEF Next

LEMMA TimesInductive == TypeOK /\ TimesGrow /\ [Next]_vars => TimesGrow'
<1> SUFFICES ASSUME TypeOK, TimesGrow, [Next]_vars PROVE TimesGrow'
  OBVIOUS
<1>1. CASE UNCHANGED device
  BY <1>1 DEF device, TimesGrow
<1>2. CASE Reboot
  BY <1>2 DEF Reboot, TimesGrow
<1>3. ASSUME NEW gap \in {Interval, 2 * Interval}, Send(gap) PROVE TimesGrow'
  <2>1. clock \in Nat /\ sentAt \in Seq(Nat) /\ clock' = clock + gap /\ gap \in Nat /\ gap > 0
    BY <1>3 DEF TypeOK, Send, Interval
  <2>2. sentAt' = Append(sentAt, clock')
    BY <1>3 DEF Send
  <2>3. /\ Len(sentAt') = Len(sentAt) + 1
        /\ sentAt'[Len(sentAt) + 1] = clock'
        /\ \A s \in 1..Len(sentAt) : sentAt'[s] = sentAt[s] /\ sentAt[s] \in Nat
    BY <2>1, <2>2
  <2>4. \A s \in 1..Len(sentAt) : sentAt'[s] < clock'
    BY <2>1, <2>3 DEF TimesGrow
  <2>5. \A s \in 1..Len(sentAt') : s \in 1..Len(sentAt) \/ s = Len(sentAt) + 1
    BY <2>1, <2>3
  <2>6. \A s \in 1..Len(sentAt') : sentAt'[s] <= clock'
    BY <2>1, <2>3, <2>4, <2>5
  <2>7. ASSUME NEW s \in 1..Len(sentAt'), NEW t \in 1..Len(sentAt'), s < t
        PROVE  sentAt'[s] < sentAt'[t]
    <3>1. s \in 1..Len(sentAt)
      BY <2>1, <2>3, <2>7
    <3>2. CASE t \in 1..Len(sentAt)
      BY <2>3, <2>7, <3>1, <3>2 DEF TimesGrow
    <3>3. CASE t = Len(sentAt) + 1
      BY <2>3, <2>4, <3>1, <3>3
    <3> QED BY <2>5, <3>2, <3>3
  <2> QED BY <2>6, <2>7 DEF TimesGrow
<1> QED BY <1>1, <1>2, <1>3, DeviceActs

\* A device that is in order keeps what it has sent.
LEMMA SentStays ==
    ASSUME TypeOK, [Next]_vars, Ordered'
    PROVE  /\ Ordered
           /\ Len(sentAt) <= Len(sentAt') /\ Len(sentAt) \in Nat /\ Len(sentAt') \in Nat
           /\ \A s \in 1..Len(sentAt) : sentAt'[s] = sentAt[s]
<1>1. CASE UNCHANGED device
  BY <1>1, DeviceActs DEF device, Ordered, TypeOK
<1>2. CASE Reboot
  BY <1>2 DEF Reboot, Ordered
<1>3. ASSUME NEW gap \in {Interval, 2 * Interval}, Send(gap)
      PROVE  /\ Ordered
             /\ Len(sentAt) <= Len(sentAt') /\ Len(sentAt) \in Nat /\ Len(sentAt') \in Nat
             /\ \A s \in 1..Len(sentAt) : sentAt'[s] = sentAt[s]
  <2>1. Ordered
    BY <1>3 DEF Send, Ordered
  <2>2. sentAt \in Seq(Nat) /\ clock' \in Nat /\ sentAt' = Append(sentAt, clock')
    BY <1>3 DEF Send, TypeOK, Interval
  <2> QED BY <2>1, <2>2
<1> QED BY <1>1, <1>2, <1>3, DeviceActs

LEMMA FirstSeq ==
    ASSUME Ordered, NEW m \in Heartbeats, SentAs(m)
    PROVE  Reported(m) = m /\ m.seq # NoNumber
BY DEF Ordered, SentAs, Reported, NoNumber, Heartbeats

LEMMA SentInductive == TypeOK /\ AllSent /\ [Next]_vars => AllSent'
<1> SUFFICES ASSUME TypeOK, AllSent, [Next]_vars, Ordered' PROVE AllSent'
  BY DEF AllSent
<1>0. /\ Ordered
      /\ Len(sentAt) <= Len(sentAt') /\ Len(sentAt) \in Nat /\ Len(sentAt') \in Nat
      /\ \A s \in 1..Len(sentAt) : sentAt'[s] = sentAt[s]
  BY SentStays
<1>1. ASSUME NEW m, SentAs(m) PROVE SentAs(m)'
  BY <1>0, <1>1 DEF SentAs
<1>2. ASSUME NEW m \in inFlight' PROVE SentAs(m)'
  <2>1. CASE m \in inFlight
    BY <1>0, <1>1, <2>1 DEF AllSent
  <2>2. CASE m \notin inFlight
    <3>1. PICK gap \in {Interval, 2 * Interval} : Send(gap)
      BY <1>2, <2>2, DeviceActs DEF Reboot
    <3>2. m = [seq |-> 1 + Len(sentAt), time |-> clock']
      BY <1>0, <1>2, <2>2, <3>1 DEF Send, Ordered
    <3>3. sentAt \in Seq(Nat) /\ clock' \in Nat /\ sentAt' = Append(sentAt, clock')
      BY <3>1 DEF Send, TypeOK, Interval
    <3>4. Len(sentAt') = Len(sentAt) + 1 /\ sentAt'[Len(sentAt) + 1] = clock'
      BY <3>3
    <3>5. m.seq = Len(sentAt') /\ m.time = sentAt'[m.seq] /\ Len(sentAt') >= 1
      BY <1>0, <3>2, <3>4
    <3> QED BY <1>0, <3>5 DEF SentAs
  <2> QED BY <2>1, <2>2
<1>3. ASSUME NEW r \in Record, Circulates(r)' PROVE SentAs(r)'
  <2>1. CASE Circulates(r)
    BY <1>0, <1>1, <2>1 DEF AllSent
  <2>2. CASE FirstOf(r)
    <3>1. PICK m \in inFlight : r = FirstRecord(Reported(m))
      BY <2>2 DEF FirstOf
    <3>2. m \in Heartbeats /\ SentAs(m)
      BY <1>0 DEF TypeOK, AllSent
    <3>3. r.seq = m.seq /\ r.time = m.time
      BY <1>0, <3>1, <3>2, FirstSeq DEF FirstRecord
    <3>4. SentAs(m)'
      BY <1>1, <3>2
    <3> QED BY <3>3, <3>4 DEF SentAs
  <2>3. CASE JudgedOf(r)
    <3>1. PICK m \in inFlight : \E late \in Lateness(record, m) :
                                    r = Judged(record, Reported(m), late)
      BY <2>3 DEF JudgedOf
    <3>2. PICK late \in Lateness(record, m) : r = Judged(record, Reported(m), late)
      BY <3>1
    <3>3. record \in Record /\ m \in Heartbeats /\ late \in BOOLEAN /\ SentAs(m)
      BY <1>0, <2>3, LatenessType DEF TypeOK, JudgedOf, AllSent
    <3>4. r.seq = m.seq /\ r.time = m.time
      BY <1>0, <3>2, <3>3, FirstSeq, JudgedFields
    <3>5. SentAs(m)'
      BY <1>1, <3>3
    <3> QED BY <3>4, <3>5 DEF SentAs
  <2> QED BY <1>3, <2>1, <2>2, <2>3, Origin
<1> QED BY <1>2, <1>3 DEF AllSent

-----------------------------------------------------------------------------
(* Losses are heartbeats that were late.                                   *)

RealLoss(r) ==
    \E s \in 1..Len(sentAt) :
        /\ r.loss <= s /\ AllLate(s - r.loss, s)
        /\ r.sync = "inSync" => s = r.seq

AllReal == Ordered => \A r \in Record : Circulates(r) => RealLoss(r)

LEMMA NoLossIsReal ==
    ASSUME NEW r \in Record, SentAs(r), r.loss = 0
    PROVE  RealLoss(r)
<1>1. r.seq \in 1..Len(sentAt) /\ r.seq \in Nat
  BY DEF SentAs, Record
<1>2. r.seq - r.loss = r.seq /\ r.loss <= r.seq
  BY <1>1 DEF Record
<1>3. AllLate(r.seq, r.seq)
  BY <1>1 DEF AllLate
<1> QED BY <1>1, <1>2, <1>3 DEF RealLoss

LEMMA JudgedIsReal ==
    ASSUME TypeOK, Ordered, NEW old \in Record, SentAs(old), RealLoss(old),
           NEW m \in Heartbeats, SentAs(m), NEW late \in Lateness(old, m)
    PROVE  RealLoss(Judged(old, Reported(m), late))
<1> DEFINE new == Judged(old, Reported(m), late)
<1> SUFFICES RealLoss(new)
  OBVIOUS
<1>0. late \in BOOLEAN
  BY LatenessType
<1>1. /\ new.loss = Counted(old, late).loss
      /\ new.sync = Counted(old, late).sync
      /\ new.seq = m.seq /\ new.time = m.time
  BY <1>0, JudgedFields, FirstSeq
<1>2. new \in Record
  BY <1>0, JudgedType
<1>3. SentAs(new)
  BY <1>1 DEF SentAs
<1>4. late => m.seq = old.seq + 1 /\ m.time > old.time + Interval
  BY DEF Lateness, Ordered
<1>5. old.loss \in Nat /\ old.recovery \in Nat /\ old.sync \in {"inSync", "outOfSync"}
  BY DEF Record, SyncState
<1> HIDE DEF new
<1>6. CASE new.loss = 0
  BY <1>2, <1>3, <1>6, NoLossIsReal
<1>7. CASE late /\ old.sync = "inSync" /\ new.loss = old.loss + 1
  <2>1. PICK s \in 1..Len(sentAt) :
            /\ old.loss <= s /\ AllLate(s - old.loss, s)
            /\ old.sync = "inSync" => s = old.seq
    BY DEF RealLoss
  <2>0. old.sync = "inSync" /\ m.seq = old.seq + 1 /\ m.time > old.time + Interval
    BY <1>4, <1>7, Zenon
  <2>2. s = old.seq /\ m.seq = s + 1 /\ s \in Nat
    BY <2>0, <2>1 DEF Record
  <2>8. new.loss = old.loss + 1
    BY <1>7
  <2>3. m.seq \in 1..Len(sentAt) /\ Len(sentAt) \in Nat
    BY DEF SentAs, TypeOK
  <2>4. SentLate(m.seq)
    BY <2>0, <2>2, <2>3 DEF SentLate, SentAs
  <2>5. m.seq - new.loss = s - old.loss /\ new.loss <= m.seq
    BY <1>5, <2>1, <2>2, <2>8
  <2>6. \A q \in (s - old.loss + 1)..m.seq : q \in (s - old.loss + 1)..s \/ q = m.seq
    BY <1>5, <2>2
  <2>7. AllLate(s - old.loss, m.seq)
    BY <2>1, <2>4, <2>6 DEF AllLate
  <2> QED BY <1>1, <2>3, <2>5, <2>7 DEF RealLoss
<1>8. CASE new.loss = old.loss /\ old.sync = "outOfSync" /\ new.sync = "outOfSync"
  <2>1. PICK s \in 1..Len(sentAt) : old.loss <= s /\ AllLate(s - old.loss, s)
    BY DEF RealLoss
  <2> QED BY <1>8, <2>1 DEF RealLoss
<1>9. \/ Counted(old, late).loss = 0
      \/ late /\ old.sync = "inSync" /\ Counted(old, late).loss = old.loss + 1
      \/ /\ Counted(old, late).loss = old.loss
         /\ old.sync = "outOfSync" /\ Counted(old, late).sync = "outOfSync"
  <2> USE <1>0, <1>5 DEF Record, SyncState
  <2>1. CASE old.sync = "inSync" /\ ~late
    <3>1. Counted(old, late) = [old EXCEPT !.loss = 0]
      BY <2>1 DEF Counted
    <3> QED BY <3>1
  <2>2. CASE old.sync = "inSync" /\ late
    <3>1. Counted(old, late) \in
            {[old EXCEPT !.loss = @ + 1],
             [old EXCEPT !.loss = @ + 1, !.sync = "outOfSync", !.recovery = Recovery]}
      <4>1. CASE old.loss + 1 < MaxLoss
        BY <2>2, <4>1 DEF Counted
      <4>2. CASE old.loss + 1 >= MaxLoss
        BY <2>2, <4>2, MaxLossAssumption DEF Counted
      <4> QED BY <4>1, <4>2, MaxLossAssumption
    <3> QED BY <2>2, <3>1
  <2>3. CASE old.sync = "outOfSync"
    <3>1. Counted(old, late) \in
            {old, [old EXCEPT !.recovery = Recovery], [old EXCEPT !.recovery = @ - 1],
             [old EXCEPT !.recovery = 0, !.loss = 0, !.sync = "inSync"]}
      BY <2>3, Zenon DEF Counted
    <3>2. [old EXCEPT !.recovery = 0, !.loss = 0, !.sync = "inSync"].loss = 0
      OBVIOUS
    <3>3. /\ [old EXCEPT !.recovery = Recovery].loss = old.loss
          /\ [old EXCEPT !.recovery = Recovery].sync = old.sync
      OBVIOUS
    <3>4. /\ [old EXCEPT !.recovery = @ - 1].loss = old.loss
          /\ [old EXCEPT !.recovery = @ - 1].sync = old.sync
      OBVIOUS
    <3> QED BY ONLY <2>3, <3>1, <3>2, <3>3, <3>4
  <2> QED BY <2>1, <2>2, <2>3
<1> QED BY <1>1, <1>6, <1>7, <1>8, <1>9 DEF new

LEMMA RealInductive == TypeOK /\ AllSent /\ AllReal /\ [Next]_vars => AllReal'
<1> SUFFICES ASSUME TypeOK, AllSent, AllReal, [Next]_vars, Ordered',
                    NEW r \in Record, Circulates(r)'
             PROVE  RealLoss(r)'
  BY DEF AllReal
<1>0. /\ Ordered
      /\ Len(sentAt) <= Len(sentAt') /\ Len(sentAt) \in Nat /\ Len(sentAt') \in Nat
      /\ \A s \in 1..Len(sentAt) : sentAt'[s] = sentAt[s]
  BY SentStays
<1>1. ASSUME RealLoss(r) PROVE RealLoss(r)'
  <2>1. PICK s \in 1..Len(sentAt) :
            /\ r.loss <= s /\ AllLate(s - r.loss, s)
            /\ r.sync = "inSync" => s = r.seq
    BY <1>1 DEF RealLoss
  <2>2. r.loss \in Nat /\ s - r.loss \in Nat
    BY <1>0, <2>1 DEF Record
  <2>3. ASSUME NEW q \in (s - r.loss + 1)..s PROVE SentLate(q)'
    <3>1. SentLate(q)
      BY <2>1 DEF AllLate
    <3>2. q \in 1..Len(sentAt) /\ q - 1 \in 1..Len(sentAt) /\ q \in 2..Len(sentAt')
      BY <1>0, <3>1 DEF SentLate
    <3> QED BY <1>0, <3>1, <3>2 DEF SentLate
  <2>4. AllLate(s - r.loss, s)'
    BY <2>3 DEF AllLate
  <2>5. s \in 1..Len(sentAt')
    BY <1>0
  <2> QED BY <2>1, <2>4, <2>5 DEF RealLoss
<1>2. CASE Circulates(r)
  BY <1>0, <1>1, <1>2 DEF AllReal
<1>3. CASE FirstOf(r)
  <2>1. PICK m \in inFlight : r = FirstRecord(Reported(m))
    BY <1>3 DEF FirstOf
  <2>2. m \in Heartbeats /\ SentAs(m)
    BY <1>0 DEF TypeOK, AllSent
  <2>3. r.seq = m.seq /\ r.time = m.time /\ r.loss = 0
    BY <1>0, <2>1, <2>2, FirstSeq DEF FirstRecord
  <2>4. SentAs(r)
    BY <2>2, <2>3 DEF SentAs
  <2> QED BY <1>1, <2>3, <2>4, NoLossIsReal
<1>4. CASE JudgedOf(r)
  <2>1. PICK m \in inFlight : \E late \in Lateness(record, m) :
                                  r = Judged(record, Reported(m), late)
    BY <1>4 DEF JudgedOf
  <2>2. PICK late \in Lateness(record, m) : r = Judged(record, Reported(m), late)
    BY <2>1
  <2>3. record \in Record /\ Circulates(record)
    BY <1>4 DEF TypeOK, JudgedOf, Circulates
  <2>4. m \in Heartbeats /\ SentAs(m) /\ SentAs(record) /\ RealLoss(record)
    BY <1>0, <2>3 DEF TypeOK, AllSent, AllReal
  <2> QED BY <1>0, <1>1, <2>2, <2>3, <2>4, JudgedIsReal
<1> QED BY <1>2, <1>3, <1>4, Origin

\* Losses are counted only for heartbeats that the device sent late one after the
\* other, for any number of overlapping invocations and whatever is lost,
\* reordered, crashes or is deleted meanwhile.
THEOREM LossesAreRealCorrect == Spec => []LossesAreReal
<1>1. Init => AllSent /\ AllReal
  BY DEF Init, AllSent, AllReal, Circulates, IdleHandler
<1>2. TypeOK /\ AllReal => LossesAreReal
  <2> SUFFICES ASSUME TypeOK, AllReal, Ordered, record # Absent PROVE RealLoss(record)
    BY DEF LossesAreReal, RealLoss
  <2> QED BY DEF TypeOK, AllReal, Circulates
<1> QED BY <1>1, <1>2, SentInductive, RealInductive, TypeCorrect, PTL DEF Spec

-----------------------------------------------------------------------------
(* Saves do not go back.                                                   *)

\* A save that is about to write over what it read has passed the checker on it.
Checked ==
    \A i \in Invocation :
        At(i, "updateWrite") /\ h[i].found /\ record # Absent /\ i \in current
        => Passes(h[i].rec, record)

\* Only the read half of a save leads to the write half.
LEMMA WriteIsRead ==
    ASSUME TypeOK, [Next]_vars, NEW i \in Invocation, At(i, "updateWrite")'
    PROVE  \/ h'[i] = h[i]
           \/ UpdateRead(i)
<1> h \in Handlers
  BY DEF TypeOK, Handlers
<1> DEFINE Goal == h'[i] = h[i] \/ UpdateRead(i)
<1>a. ASSUME NEW j \in Invocation, NEW q, Becomes(j, q), q.pc # "updateWrite"
      PROVE  Goal
  BY <1>a DEF Becomes, At, Handlers
<1>b. ASSUME NEW j \in Invocation, Ends(j) PROVE Goal
  BY <1>a, <1>b DEF Ends, IdleHandler
<1>c. ASSUME NEW j \in Invocation, NEW step, step # "updateWrite", Goes(j, step)
      PROVE  Goal
  <2>1. [h[j] EXCEPT !.pc = step].pc = step
    BY DEF Handlers, Handler
  <2> QED BY <1>a, <1>c, <2>1 DEF Goes
<1>d. ASSUME NEW j \in Invocation, Proceeds(j) PROVE Goal
  <2>1. [h[j] EXCEPT !.pc = "updateRead", !.then = "idle", !.base = h[j].rec.seq].pc
          = "updateRead"
    BY DEF Handlers, Handler
  <2> QED BY <1>a, <1>b, <1>c, <1>d, <2>1 DEF Proceeds
<1> HIDE DEF Goal
<1>1. ASSUME NEW j \in Invocation, NEW m \in inFlight, LoadFirst(j, m) PROVE Goal
  <2>1. [IdleHandler EXCEPT !.pc = "createRead", !.rec = FirstRecord(Reported(m)),
                            !.then = "again"].pc = "createRead"
    BY DEF IdleHandler
  <2> QED BY <1>1, <1>a, <2>1 DEF LoadFirst
<1>2. ASSUME NEW j \in Invocation, NEW m \in inFlight, Load(j, m) PROVE Goal
  <2>1. CASE Ends(j)
    BY <1>b, <2>1
  <2>2. CASE \E late \in Lateness(record, m) :
              LET new == Judged(record, Reported(m), late)
              IN Becomes(j, [pc |-> "updateRead", rec |-> new, base |-> record.seq,
                             then |-> Sequel(record, new), found |-> FALSE])
    BY <1>a, <2>2
  <2> QED BY <1>2, <2>1, <2>2 DEF Load
<1>3. ASSUME NEW j \in Invocation, CreateRead(j) PROVE Goal
  BY <1>3, <1>b, <1>c DEF CreateRead
<1>4. ASSUME NEW j \in Invocation, CreateWrite(j) \/ UpdateWrite(j) PROVE Goal
  BY <1>4, <1>d DEF CreateWrite, UpdateWrite
<1>5. ASSUME NEW j \in Invocation, UpdateRead(j) PROVE Goal
  <2>1. CASE j = i
    BY <1>5, <2>1 DEF Goal
  <2>2. CASE j # i
    BY <1>5, <2>2 DEF UpdateRead, Becomes, Ends, Handlers, Goal
  <2> QED BY <2>1, <2>2
<1>6. ASSUME NEW j \in Invocation, UpdateFails(j) \/ DropWrite(j) \/ Crash(j) PROVE Goal
  BY <1>6, <1>b DEF UpdateFails, DropWrite, Crash
<1>7. ASSUME NEW j \in Invocation, Cull(j) \/ CullFails(j) \/ DropMatch(j) PROVE Goal
  BY <1>7, <1>b, <1>c DEF Cull, CullFails, DropMatch
<1>8. ASSUME NEW j \in Invocation, DropRead(j) PROVE Goal
  <2>1. [h[j] EXCEPT !.pc = "dropMatch", !.rec = record].pc = "dropMatch"
    BY DEF Handlers, Handler
  <2> QED BY <1>8, <1>a, <1>b, <2>1 DEF DropRead
<1>9. CASE UNCHANGED h
  BY <1>9 DEF Goal
<1>10. CASE Reboot \/ Forget \/ UNCHANGED vars \/ \E gap \in {Interval, 2 * Interval} : Send(gap)
  BY <1>9, <1>10 DEF Reboot, Forget, Send, vars
<1> QED BY <1>1, <1>2, <1>3, <1>4, <1>5, <1>6, <1>7, <1>8, <1>10 DEF Next, Goal

\* Any write and any deletion changes the etag.
LEMMA WritesChangeEtag ==
    ASSUME [Next]_vars
    PROVE  \/ record' = record /\ (current' \subseteq current \/ \E j \in Invocation : UpdateRead(j))
           \/ current' = {}
<1>1. CASE \E i \in Invocation : \/ \E m \in inFlight : LoadFirst(i, m) \/ Load(i, m)
                                \/ CreateRead(i) \/ CreateWrite(i)
  BY <1>1 DEF LoadFirst, Load, CreateRead, CreateWrite
<1>2. CASE \E i \in Invocation : UpdateRead(i) \/ UpdateWrite(i) \/ UpdateFails(i)
  BY <1>2 DEF UpdateRead, UpdateWrite, UpdateFails
<1>3. CASE \E i \in Invocation : \/ Cull(i) \/ CullFails(i) \/ DropRead(i)
                                \/ DropMatch(i) \/ DropWrite(i) \/ Crash(i)
  BY <1>3 DEF Cull, CullFails, DropRead, DropMatch, DropWrite, Crash
<1>4. CASE Forget \/ UNCHANGED vars \/ Reboot \/ \E gap \in {Interval, 2 * Interval} : Send(gap)
  BY <1>4 DEF Forget, vars, Reboot, Send
<1> QED BY <1>1, <1>2, <1>3, <1>4 DEF Next

LEMMA CheckedInductive == TypeOK /\ Checked /\ [Next]_vars => Checked'
<1> SUFFICES ASSUME TypeOK, Checked, [Next]_vars, NEW i \in Invocation,
                    At(i, "updateWrite")', h'[i].found, record' # Absent, i \in current'
             PROVE  Passes(h'[i].rec, record')
  BY DEF Checked, Passes
<1>1. record' = record
  BY WritesChangeEtag
<1>2. CASE UpdateRead(i)
  <2>1. CASE record # Absent /\ ~Passes(h[i].rec, record)
    BY <1>2, <2>1 DEF UpdateRead, Ends, Becomes, IdleHandler, At, TypeOK
  <2>2. CASE Passes(h[i].rec, record)
    <3>1. Becomes(i, [h[i] EXCEPT !.pc = "updateWrite", !.found = record # Absent])
      BY <1>2, <2>2 DEF UpdateRead
    <3>2. h'[i].rec = h[i].rec
      BY <3>1 DEF Becomes, TypeOK, Handler
    <3> QED BY <1>1, <2>2, <3>2
  <2> QED BY <1>1, <2>1, <2>2
<1>3. CASE h'[i] = h[i] /\ ~UpdateRead(i)
  <2>1. i \in current
    BY <1>3, WritesChangeEtag DEF UpdateRead
  <2> QED BY <1>1, <1>3, <2>1 DEF Checked, At
<1> QED BY <1>2, <1>3, WriteIsRead

\* A write in which an invocation leaves the write half of its save.
LEMMA WhoWrites ==
    ASSUME TypeOK, [Next]_vars, NEW i \in Invocation, At(i, "updateWrite"),
           h'[i].pc # "updateWrite"
    PROVE  record' = record \/ UpdateWrite(i)
<1> h \in Handlers
  BY DEF TypeOK, Handlers
<1> DEFINE Goal == record' = record \/ UpdateWrite(i)
<1>1. CASE record' = record
  BY <1>1
<1>2. ASSUME NEW j \in Invocation, CreateWrite(j) PROVE Goal
  <2>1. j # i
    BY <1>2 DEF CreateWrite, At
  <2>2. h'[i] = h[i]
    BY <1>2, <2>1 DEF CreateWrite, Proceeds, Goes, Ends, Becomes, Handlers
  <2> QED BY <2>2 DEF At
<1>3. ASSUME NEW j \in Invocation, UpdateWrite(j) PROVE Goal
  <2>1. CASE j = i
    BY <1>3, <2>1
  <2>2. CASE j # i
    <3>1. h'[i] = h[i]
      BY <1>3, <2>2 DEF UpdateWrite, Proceeds, Goes, Ends, Becomes, Handlers
    <3> QED BY <3>1 DEF At
  <2> QED BY <2>1, <2>2
<1>4. ASSUME NEW j \in Invocation, DropWrite(j) PROVE Goal
  <2>1. j # i
    BY <1>4 DEF DropWrite, At
  <2>2. h'[i] = h[i]
    BY <1>4, <2>1 DEF DropWrite, Ends, Becomes, Handlers
  <2> QED BY <2>2 DEF At
<1>5. CASE Forget
  BY <1>5 DEF Forget, At
<1>6. CASE \E j \in Invocation : \/ \E m \in inFlight : LoadFirst(j, m) \/ Load(j, m)
                                \/ CreateRead(j) \/ UpdateRead(j) \/ UpdateFails(j)
  BY <1>1, <1>6 DEF LoadFirst, Load, CreateRead, UpdateRead, UpdateFails
<1>7. CASE \E j \in Invocation : \/ Cull(j) \/ CullFails(j) \/ DropRead(j)
                                \/ DropMatch(j) \/ Crash(j)
  BY <1>1, <1>7 DEF Cull, CullFails, DropRead, DropMatch, Crash
<1>8. CASE Reboot \/ UNCHANGED vars \/ \E gap \in {Interval, 2 * Interval} : Send(gap)
  BY <1>1, <1>8 DEF Reboot, vars, Send
<1> HIDE DEF Goal
<1>9. Goal
  BY <1>2, <1>3, <1>4, <1>5, <1>6, <1>7, <1>8 DEF Next, Goal
<1> QED BY <1>9 DEF Goal

\* A save that found a record never replaces it by that of an older heartbeat,
\* as long as the device does not boot again and counts from 1.
THEOREM NoFallBackCorrect == Spec => NoFallBack
<1>1. Init => Checked /\ TimesGrow /\ AllSent
  BY DEF Init, Checked, At, IdleHandler, TimesGrow, AllSent, Circulates
<1>2. TypeOK /\ TimesGrow /\ AllSent /\ Checked /\ [Next]_vars =>
        \A i \in Invocation :
            /\ Ordered
            /\ At(i, "updateWrite") /\ h[i].found /\ record # Absent
            /\ h'[i].pc # "updateWrite" /\ record' = h[i].rec
            => record'.time >= record.time
  <2> SUFFICES ASSUME TypeOK, TimesGrow, AllSent, Checked, [Next]_vars,
                      NEW i \in Invocation, Ordered,
                      At(i, "updateWrite"), h[i].found, record # Absent,
                      h'[i].pc # "updateWrite", record' = h[i].rec
               PROVE  record'.time >= record.time
    OBVIOUS
  <2>1. record \in Record /\ record.time \in Nat
    BY DEF TypeOK, Record
  <2>2. CASE record' = record
    BY <2>1, <2>2
  <2>3. CASE UpdateWrite(i)
    <3>1. Passes(h[i].rec, record)
      BY <2>3 DEF UpdateWrite, Checked
    <3>2. h[i].rec # Absent /\ h[i].rec \in Record
      BY DEF TypeOK, At, Handler
    <3>3. Circulates(record) /\ Circulates(h[i].rec)
      BY <3>2 DEF Circulates
    <3>4. SentAs(record) /\ SentAs(h[i].rec)
      BY <2>1, <3>2, <3>3 DEF AllSent
    <3> DEFINE r == h[i].rec
    <3>5. /\ r.seq \in 1..Len(sentAt) /\ r.time = sentAt[r.seq]
          /\ record.seq \in 1..Len(sentAt) /\ record.time = sentAt[record.seq]
          /\ r.seq \in Nat /\ record.seq \in Nat /\ r.time \in Nat
      BY <2>1, <3>2, <3>4 DEF SentAs, Record
    <3>6. ~(r.seq < record.seq /\ r.time <= record.time)
      BY <3>1 DEF Passes
    <3> HIDE DEF r
    <3>7. r.seq < record.seq => r.time >= record.time
      BY <2>1, <3>5, <3>6
    <3>8. r.seq = record.seq => r.time >= record.time
      BY <2>1, <3>5
    <3>9. record.seq < r.seq => r.time >= record.time
      BY <2>1, <3>5 DEF TimesGrow
    <3>10. r.time >= record.time
      BY <3>5, <3>7, <3>8, <3>9
    <3> QED BY <3>10 DEF r
  <2> QED BY <2>2, <2>3, WhoWrites
<1> QED BY <1>1, <1>2, TimesInductive, SentInductive, CheckedInductive, TypeCorrect, PTL
        DEF Spec, NoFallBack

-----------------------------------------------------------------------------
(* Termination.  A record out of sync is first written by the invocation   *)
(* that goes on to delete the VM; once it is at that step nothing but the  *)
(* deletion or a fault moves it.                                           *)

Culling == \E i \in Invocation : At(i, "cull")

\* An invocation that holds a record out of sync, to save it and do no more.
Deserts(q) ==
    /\ q.pc \in {"createRead", "createWrite", "updateRead", "updateWrite"}
    /\ q.rec.sync = "outOfSync" /\ q.then # "cull"

InSync == record # Absent => record.sync # "outOfSync"

UnderWay ==
    config.terminate /\ faults = 0 /\ alive =>
        Culling \/ (InSync /\ \A i \in Invocation : ~Deserts(h[i]))

\* The steps of one invocation that neither delete the VM nor are faults.
Works(i) ==
    \/ \E m \in inFlight : LoadFirst(i, m) \/ Load(i, m)
    \/ CreateRead(i) \/ CreateWrite(i) \/ UpdateRead(i) \/ UpdateWrite(i) \/ UpdateFails(i)
    \/ DropRead(i) \/ DropMatch(i) \/ DropWrite(i)

LEMMA WorksActs ==
    ASSUME TypeOK, NEW i \in Invocation, Works(i)
    PROVE  ~At(i, "cull") /\ \A j \in Invocation \ {i} : h'[j] = h[j]
<1> h \in Handlers
  BY DEF TypeOK, Handlers
<1>1. \A q : Becomes(i, q) => \A j \in Invocation \ {i} : h'[j] = h[j]
  BY DEF Becomes, Handlers
<1>2. CASE \E m \in inFlight : LoadFirst(i, m) \/ Load(i, m)
  BY <1>1, <1>2 DEF LoadFirst, Load, Ends, At
<1>3. CASE CreateRead(i) \/ UpdateRead(i) \/ UpdateFails(i)
  BY <1>1, <1>3 DEF CreateRead, UpdateRead, UpdateFails, Ends, Goes, At
<1>4. CASE CreateWrite(i) \/ UpdateWrite(i)
  BY <1>1, <1>4 DEF CreateWrite, UpdateWrite, Proceeds, Ends, Goes, At
<1>5. CASE DropRead(i) \/ DropMatch(i) \/ DropWrite(i)
  BY <1>1, <1>5 DEF DropRead, DropMatch, DropWrite, Ends, Goes, At
<1> QED BY <1>2, <1>3, <1>4, <1>5 DEF Works

\* What a working invocation does when no VM out of sync is known: it writes no
\* record out of sync but to delete the VM next, and takes none up otherwise.
LEMMA WorksForTheCull ==
    ASSUME TypeOK, config.terminate, InSync, NEW i \in Invocation, ~Deserts(h[i]), Works(i)
    PROVE  h'[i].pc = "cull" \/ (InSync' /\ ~Deserts(h'[i]))
<1> h \in Handlers /\ h[i] \in Handler
  BY DEF TypeOK, Handlers
<1>1. \A q : Becomes(i, q) => h'[i] = q
  BY DEF Becomes, Handlers
<1>2. Ends(i) => ~Deserts(h'[i])
  BY <1>1 DEF Ends, IdleHandler, Deserts
<1>3. \A step \in Steps : Goes(i, step) => h'[i] = [h[i] EXCEPT !.pc = step]
  BY <1>1 DEF Goes
<1>4. ASSUME NEW m \in inFlight, LoadFirst(i, m) PROVE InSync' /\ ~Deserts(h'[i])
  <2> DEFINE q == [IdleHandler EXCEPT !.pc = "createRead", !.rec = FirstRecord(Reported(m)),
                                      !.then = "again"]
  <2>1. h'[i] = q
    BY <1>1, <1>4 DEF LoadFirst
  <2>2. q.rec = FirstRecord(Reported(m)) /\ FirstRecord(Reported(m)).sync = "inSync"
    BY DEF IdleHandler, FirstRecord
  <2>3. record' = Absent
    BY <1>4 DEF LoadFirst
  <2> HIDE DEF q
  <2> QED BY <2>1, <2>2, <2>3 DEF InSync, Deserts
<1>5. ASSUME NEW m \in inFlight, Load(i, m) PROVE InSync' /\ ~Deserts(h'[i])
  <2>1. CASE Ends(i)
    BY <1>2, <1>5, <2>1 DEF Load, InSync
  <2>2. CASE ~Ends(i)
    <3>1. PICK late \in Lateness(record, m) :
            LET new == Judged(record, Reported(m), late)
            IN Becomes(i, [pc |-> "updateRead", rec |-> new, base |-> record.seq,
                           then |-> Sequel(record, new), found |-> FALSE])
      BY <1>5, <2>2 DEF Load
    <3> DEFINE new == Judged(record, Reported(m), late)
    <3>2. h'[i].rec = new /\ h'[i].then = Sequel(record, new)
      BY <1>1, <3>1
    <3>3. record \in Record /\ record.sync = "inSync"
      BY <1>5 DEF Load, InSync, TypeOK, Record, SyncState
    <3> HIDE DEF new
    <3>4. new.sync = "outOfSync" => Sequel(record, new) = "cull"
      BY <3>3 DEF Sequel, Condemned
    <3> QED BY <1>5, <3>2, <3>4 DEF Load, InSync, Deserts
  <2> QED BY <2>1, <2>2
<1>6. CASE CreateRead(i) \/ UpdateRead(i)
  <2>1. InSync'
    BY <1>6 DEF CreateRead, UpdateRead, InSync
  <2>2. (h'[i].rec = h[i].rec /\ h'[i].then = h[i].then) \/ Ends(i)
    BY <1>1, <1>6 DEF CreateRead, UpdateRead, Goes, Handler
  <2> QED BY <1>2, <1>6, <2>1, <2>2 DEF CreateRead, UpdateRead, Deserts, At
<1>7. CASE CreateWrite(i) \/ UpdateWrite(i)
  <2>1. Proceeds(i) /\ record' = h[i].rec /\ h[i].pc \in {"createWrite", "updateWrite"}
    BY <1>7 DEF CreateWrite, UpdateWrite, At
  <2>2. CASE h[i].then = "cull"
    <3>1. Goes(i, "cull")
      BY <2>1, <2>2 DEF Proceeds
    <3>2. h'[i] = [h[i] EXCEPT !.pc = "cull"]
      BY <1>1, <3>1 DEF Goes
    <3> QED BY <3>2 DEF Handler
  <2>3. CASE h[i].then # "cull"
    <3>1. h[i].rec.sync # "outOfSync"
      BY <2>1, <2>3 DEF Deserts
    <3>2. Ends(i) \/ h'[i].rec = h[i].rec
      BY <1>1, <2>1, <2>3 DEF Proceeds, Handler
    <3> QED BY <1>2, <2>1, <3>1, <3>2 DEF InSync, Deserts
  <2> QED BY <2>2, <2>3
<1>8. CASE UpdateFails(i) \/ DropWrite(i)
  BY <1>2, <1>8 DEF UpdateFails, DropWrite, InSync
<1>9. CASE DropRead(i) \/ DropMatch(i)
  <2>1. Ends(i) \/ h'[i].pc \in {"dropMatch", "dropWrite"}
    BY <1>1, <1>3, <1>9 DEF DropRead, DropMatch, Steps, Handler
  <2> QED BY <1>2, <1>9, <2>1 DEF DropRead, DropMatch, InSync, Deserts
<1> QED BY <1>4, <1>5, <1>6, <1>7, <1>8, <1>9 DEF Works

LEMMA UnderWayInductive == TypeOK /\ UnderWay /\ [Next]_vars => UnderWay'
<1> SUFFICES ASSUME TypeOK, UnderWay, [Next]_vars,
                    config'.terminate, faults' = 0, alive'
             PROVE  Culling' \/ (InSync' /\ \A i \in Invocation : ~Deserts(h'[i]))
  BY DEF UnderWay, Deserts
<1> DEFINE Goal == Culling' \/ (InSync' /\ \A i \in Invocation : ~Deserts(h'[i]))
<1>1. config' = config
  BY DEF Next, vars, LoadFirst, Load, CreateRead, CreateWrite, UpdateRead, UpdateWrite,
         UpdateFails, Cull, CullFails, DropRead, DropMatch, DropWrite, Crash, Send, Reboot,
         Forget
<1>2. ~Fault
  BY DEF Fault, TypeOK
<1>3. ASSUME NEW i \in Invocation, Works(i) PROVE Goal
  <2>1. ~At(i, "cull") /\ \A j \in Invocation \ {i} : h'[j] = h[j]
    BY <1>3, WorksActs
  <2>2. faults' = faults /\ alive' = alive
    BY <1>3 DEF Works, LoadFirst, Load, CreateRead, CreateWrite, UpdateRead, UpdateWrite,
                UpdateFails, DropRead, DropMatch, DropWrite
  <2>3. CASE Culling
    <3>1. PICK j \in Invocation : At(j, "cull")
      BY <2>3 DEF Culling
    <3>2. h'[j] = h[j]
      BY <2>1, <3>1
    <3> QED BY <3>1, <3>2 DEF Culling, At
  <2>4. CASE ~Culling
    <3>1. InSync /\ \A j \in Invocation : ~Deserts(h[j])
      BY <1>1, <2>2, <2>4 DEF UnderWay
    <3>2. h'[i].pc = "cull" \/ (InSync' /\ ~Deserts(h'[i]))
      BY <1>1, <1>3, <3>1, WorksForTheCull
    <3> QED BY <2>1, <3>1, <3>2 DEF Culling, At
  <2> QED BY <2>3, <2>4
<1>4. ASSUME Forget \/ (\E gap \in {Interval, 2 * Interval} : Send(gap)) \/ UNCHANGED vars
      PROVE  Goal
  <2>1. h' = h /\ faults' = faults /\ alive' = alive /\ record' \in {record, Absent}
    BY <1>4 DEF Forget, Send, vars
  <2> QED BY <1>1, <2>1 DEF UnderWay, Culling, At, InSync
<1>5. ASSUME Reboot \/ \E i \in Invocation : Cull(i) \/ CullFails(i) \/ Crash(i)
      PROVE  Goal
  BY <1>2, <1>5 DEF Reboot, Cull, CullFails, Crash
<1> HIDE DEF Goal
<1>6. \/ \E i \in Invocation : Works(i) \/ Cull(i) \/ CullFails(i) \/ Crash(i)
      \/ Forget \/ Reboot \/ UNCHANGED vars
      \/ \E gap \in {Interval, 2 * Interval} : Send(gap)
  BY DEF Next, Works
<1>7. Goal
  BY <1>3, <1>4, <1>5, <1>6
<1> QED BY <1>7 DEF Goal

\* With TerminateUnhealthyVm on and no fault, a VM whose record is out of sync has
\* gone or is about to be deleted, whatever its other heartbeats do.
THEOREM TerminationIsUnderWayCorrect == Spec => []TerminationIsUnderWay
<1>1. Init => UnderWay
  BY DEF Init, UnderWay, InSync, Deserts, IdleHandler
<1>2. UnderWay => TerminationIsUnderWay
  BY DEF UnderWay, TerminationIsUnderWay, Culling, InSync
<1> QED BY <1>1, <1>2, UnderWayInductive, TypeCorrect, PTL DEF Spec

-----------------------------------------------------------------------------
(* The refinement of SyncRecord.  What an invocation is about to save goes *)
(* with what it will do afterwards.                                        *)

Saves(q) == q.pc \in Saving

Consistent(q) ==
    Saves(q) => /\ q.then = "cull" => q.rec.sync = "outOfSync"
                /\ q.then = "again" => q.rec.sync = "inSync"

AllConsistent == \A i \in Invocation : Consistent(h[i])

\* What an invocation is about to do.
PlanOf(q) ==
    CASE q.pc = "idle" -> "idle"
      [] Saves(q) -> IF q.then = "cull" THEN "condemn" ELSE q.rec.sync
      [] q.pc = "cull" -> "cull"
      [] OTHER -> "drop"

LEMMA PlanIs == Plan = [i \in Invocation |-> PlanOf(h[i])]
BY DEF Plan, PlanOf, Saves

LEMMA PlanBecomes ==
    ASSUME h \in Handlers, NEW i \in Invocation, NEW q, Becomes(i, q)
    PROVE  /\ h'[i] = q /\ Plan[i] = PlanOf(h[i])
           /\ \A p : PlanOf(q) = p => Judgements!Plan(i, p)
           /\ PlanOf(q) = PlanOf(h[i]) => UNCHANGED Plan
<1>1. h' = [h EXCEPT ![i] = q] /\ h'[i] = q
  BY DEF Becomes, Handlers
<1>2. Plan' = [j \in Invocation |-> PlanOf(h'[j])]
  BY DEF Plan, PlanOf, Saves
<1>3. \A j \in Invocation : h'[j] = IF j = i THEN q ELSE h[j]
  BY <1>1 DEF Handlers
<1>4. Plan' = [Plan EXCEPT ![i] = PlanOf(q)]
  BY <1>2, <1>3, PlanIs
<1>5. Plan[i] = PlanOf(h[i]) /\ (PlanOf(q) = PlanOf(h[i]) => Plan' = Plan)
  BY <1>4, PlanIs
<1> QED BY <1>1, <1>4, <1>5 DEF Judgements!Plan

LEMMA EndPlan ==
    ASSUME h \in Handlers, NEW i \in Invocation, Ends(i)
    PROVE  /\ Plan[i] = PlanOf(h[i]) /\ Judgements!Plan(i, "idle")
           /\ At(i, "idle") => UNCHANGED Plan
<1>1. PlanOf(IdleHandler) = "idle" /\ (At(i, "idle") => PlanOf(h[i]) = "idle")
  BY DEF PlanOf, IdleHandler, At, Saves, Saving
<1> QED BY <1>1, PlanBecomes DEF Ends

\* A device that is not late and has not started over so far was not late before.
LEMMA PunctualWas == ASSUME TypeOK, [Next]_vars, Punctual' PROVE Punctual
<1>1. /\ Ordered
      /\ Len(sentAt) <= Len(sentAt') /\ Len(sentAt) \in Nat /\ Len(sentAt') \in Nat
      /\ \A s \in 1..Len(sentAt) : sentAt'[s] = sentAt[s]
  BY SentStays DEF Punctual
<1>2. ASSUME NEW s \in 1..Len(sentAt), SentLate(s) PROVE FALSE
  <2>1. s \in 2..Len(sentAt) /\ sentAt[s] > sentAt[s - 1] + Interval
    BY <1>2 DEF SentLate
  <2>2. s \in 1..Len(sentAt') /\ s \in 2..Len(sentAt') /\ s - 1 \in 1..Len(sentAt)
    BY <1>1, <2>1
  <2>3. SentLate(s)'
    BY <1>1, <2>1, <2>2 DEF SentLate
  <2> QED BY <2>2, <2>3 DEF Punctual
<1> QED BY <1>1, <1>2 DEF Punctual

LEMMA PunctualStays == ASSUME UNCHANGED <<config, device>> PROVE UNCHANGED Punctual
<1>1. Punctual' <=> Punctual
  BY DEF device, Punctual, Ordered, SentLate
<1> QED BY <1>1 DEF Punctual

\* A heartbeat of a punctual device is not judged late.
LEMMA PunctualIsNotLate ==
    ASSUME TypeOK, AllSent, record # Absent, NEW m \in inFlight,
           NEW late \in Lateness(record, m)
    PROVE  late \in Judgements!Lateness
<1>1. CASE ~Punctual
  BY <1>1, LatenessType DEF Judgements!Lateness
<1>2. CASE Punctual
  <2>1. late = (m.seq # NoNumber /\ m.seq = record.seq + 1 /\ m.time > record.time + Interval)
    BY <1>2 DEF Lateness, Punctual, Ordered
  <2>2. ASSUME m.seq = record.seq + 1, m.time > record.time + Interval PROVE FALSE
    <3>1. SentAs(m) /\ SentAs(record) /\ record \in Record
      BY <1>2 DEF AllSent, Punctual, Circulates, TypeOK
    <3>2. /\ m.seq \in 1..Len(sentAt) /\ m.time = sentAt[m.seq]
          /\ record.seq \in 1..Len(sentAt) /\ record.time = sentAt[record.seq]
      BY <3>1 DEF SentAs
    <3>3. m.seq \in 2..Len(sentAt) /\ record.seq = m.seq - 1
      BY <2>2, <3>1, <3>2 DEF Record
    <3>4. SentLate(m.seq)
      BY <2>2, <3>2, <3>3 DEF SentLate
    <3> QED BY <1>2, <3>2, <3>4 DEF Punctual
  <2>3. late = FALSE
    BY <2>1, <2>2
  <2> QED BY <1>2, <2>3 DEF Judgements!Lateness
<1> QED BY <1>1, <1>2

\* The counters allow no change of the sync state but those of SyncVerdict.
LEMMA CountedVerdict ==
    ASSUME NEW old \in Record, NEW late \in BOOLEAN
    PROVE  Counted(old, late).sync \in NextState(old.sync, late, config.terminate)
<1>0. Counted(old, late) \in Record /\ old.sync \in {"inSync", "outOfSync"}
  BY CountedType DEF Record, SyncState
<1>1. CASE old.sync = "inSync" /\ ~late
  <2>1. Counted(old, late) = [old EXCEPT !.loss = 0]
    BY <1>1 DEF Counted
  <2>2. Counted(old, late).sync = "inSync"
    BY <1>1, <2>1 DEF Record
  <2> QED BY <1>1, <2>2 DEF NextState
<1>2. CASE old.sync = "outOfSync" /\ config.terminate
  <2>1. Counted(old, late) = old
    BY <1>2 DEF Counted
  <2> QED BY <1>2, <2>1 DEF NextState
<1>3. CASE old.sync = "outOfSync" /\ ~config.terminate /\ late
  <2>1. Counted(old, late) = [old EXCEPT !.recovery = Recovery]
    BY <1>3, Zenon DEF Counted
  <2>2. [old EXCEPT !.recovery = Recovery].sync = old.sync
    BY DEF Record
  <2>3. Counted(old, late).sync = "outOfSync"
    BY <1>3, <2>1, <2>2
  <2> QED BY <1>3, <2>3 DEF NextState
<1>4. CASE \/ old.sync = "inSync" /\ late
           \/ old.sync = "outOfSync" /\ ~config.terminate /\ ~late
  BY <1>0, <1>4 DEF NextState, Record
<1> QED BY <1>0, <1>1, <1>2, <1>3, <1>4

LEMMA ConsistentBecomes ==
    ASSUME h \in Handlers, AllConsistent, NEW i \in Invocation, NEW q, Becomes(i, q),
           Consistent(q)
    PROVE  AllConsistent'
<1>1. \A j \in Invocation : h'[j] = IF j = i THEN q ELSE h[j]
  BY DEF Becomes, Handlers
<1>2. \A j \in Invocation : Consistent(h'[j])
  BY <1>1 DEF AllConsistent
<1> QED BY <1>2 DEF AllConsistent, Consistent, Saves

LEMMA ConsistentEnds ==
    ASSUME h \in Handlers, AllConsistent, NEW i \in Invocation, Ends(i)
    PROVE  AllConsistent'
<1>1. Consistent(IdleHandler)
  BY DEF Consistent, Saves, Saving, IdleHandler
<1> QED BY <1>1, ConsistentBecomes DEF Ends

\* Going on to a step that saves nothing, or from one that saves.
LEMMA ConsistentGoes ==
    ASSUME h \in Handlers, AllConsistent, NEW i \in Invocation, NEW step, Goes(i, step),
           step \in Saving => Saves(h[i])
    PROVE  AllConsistent'
<1> DEFINE q == [h[i] EXCEPT !.pc = step]
<1>1. q.pc = step /\ q.rec = h[i].rec /\ q.then = h[i].then
  BY DEF Handlers, Handler
<1>2. Consistent(h[i])
  BY DEF AllConsistent
<1> HIDE DEF q
<1>3. Consistent(q)
  BY <1>1, <1>2 DEF Consistent, Saves
<1> QED BY <1>3, ConsistentBecomes DEF Goes, q

LEMMA ConsistentProceeds ==
    ASSUME h \in Handlers, AllConsistent, NEW i \in Invocation, Proceeds(i)
    PROVE  AllConsistent'
<1>1. CASE Goes(i, "cull")
  BY <1>1, ConsistentGoes DEF Saving
<1>2. CASE Ends(i)
  BY <1>2, ConsistentEnds
<1>3. CASE Becomes(i, [h[i] EXCEPT !.pc = "updateRead", !.then = "idle",
                                   !.base = h[i].rec.seq])
  <2> DEFINE q == [h[i] EXCEPT !.pc = "updateRead", !.then = "idle", !.base = h[i].rec.seq]
  <2>1. q.then = "idle"
    BY DEF Handlers, Handler
  <2> HIDE DEF q
  <2>2. Consistent(q)
    BY <2>1 DEF Consistent
  <2> QED BY <1>3, <2>2, ConsistentBecomes DEF q
<1> QED BY <1>1, <1>2, <1>3 DEF Proceeds

LEMMA ConsistentLoads ==
    ASSUME h \in Handlers, AllConsistent, NEW i \in Invocation, NEW m \in inFlight,
           LoadFirst(i, m) \/ Load(i, m)
    PROVE  AllConsistent'
<1>1. CASE LoadFirst(i, m)
  <2> DEFINE q == [IdleHandler EXCEPT !.pc = "createRead", !.rec = FirstRecord(Reported(m)),
                                      !.then = "again"]
  <2>1. q.then = "again" /\ q.rec = FirstRecord(Reported(m))
    BY DEF IdleHandler
  <2>2. FirstRecord(Reported(m)).sync = "inSync"
    BY DEF FirstRecord
  <2>3. Becomes(i, q)
    BY <1>1 DEF LoadFirst
  <2> HIDE DEF q
  <2>4. Consistent(q)
    BY <2>1, <2>2 DEF Consistent
  <2> QED BY <2>3, <2>4, ConsistentBecomes
<1>2. CASE Load(i, m) /\ Ends(i)
  BY <1>2, ConsistentEnds
<1>3. CASE Load(i, m) /\ ~Ends(i)
  <2>1. PICK late \in Lateness(record, m) :
          LET new == Judged(record, Reported(m), late)
          IN Becomes(i, [pc |-> "updateRead", rec |-> new, base |-> record.seq,
                         then |-> Sequel(record, new), found |-> FALSE])
    BY <1>3 DEF Load
  <2> DEFINE new == Judged(record, Reported(m), late)
             q == [pc |-> "updateRead", rec |-> new, base |-> record.seq,
                   then |-> Sequel(record, new), found |-> FALSE]
  <2>2. q.rec = new /\ q.then = Sequel(record, new) /\ Becomes(i, q)
    BY <2>1
  <2> HIDE DEF new, q
  <2>3. Consistent(q)
    BY <2>2 DEF Consistent, Sequel, Condemned
  <2> QED BY <2>2, <2>3, ConsistentBecomes
<1> QED BY <1>1, <1>2, <1>3

LEMMA ConsistentInductive == TypeOK /\ AllConsistent /\ [Next]_vars => AllConsistent'
<1> SUFFICES ASSUME TypeOK, AllConsistent, [Next]_vars PROVE AllConsistent'
  OBVIOUS
<1> h \in Handlers
  BY DEF TypeOK, Handlers
<1>1. ASSUME NEW i \in Invocation, NEW m \in inFlight, LoadFirst(i, m) \/ Load(i, m)
      PROVE  AllConsistent'
  BY <1>1, ConsistentLoads
<1>2. ASSUME NEW i \in Invocation, CreateRead(i) PROVE AllConsistent'
  BY <1>2, ConsistentGoes, ConsistentEnds DEF CreateRead, At, Saves, Saving
<1>3. ASSUME NEW i \in Invocation, CreateWrite(i) \/ UpdateWrite(i) PROVE AllConsistent'
  BY <1>3, ConsistentProceeds DEF CreateWrite, UpdateWrite
<1>4. ASSUME NEW i \in Invocation, UpdateRead(i) PROVE AllConsistent'
  <2>1. CASE Ends(i)
    BY <2>1, ConsistentEnds
  <2>2. CASE ~Ends(i)
    <3> DEFINE q == [h[i] EXCEPT !.pc = "updateWrite", !.found = record # Absent]
    <3>1. Becomes(i, q) /\ At(i, "updateRead")
      BY <1>4, <2>2 DEF UpdateRead
    <3>2. q.rec = h[i].rec /\ q.then = h[i].then
      BY DEF Handlers, Handler
    <3> HIDE DEF q
    <3>3. Consistent(h[i]) /\ Saves(h[i])
      BY <3>1 DEF AllConsistent, Saves, Saving, At
    <3>4. Consistent(q)
      BY <3>2, <3>3 DEF Consistent
    <3> QED BY <3>1, <3>4, ConsistentBecomes
  <2> QED BY <2>1, <2>2
<1>5. ASSUME NEW i \in Invocation, UpdateFails(i) \/ DropWrite(i) \/ Crash(i)
      PROVE  AllConsistent'
  BY <1>5, ConsistentEnds DEF UpdateFails, DropWrite, Crash
<1>6. ASSUME NEW i \in Invocation, Cull(i) \/ CullFails(i) \/ DropMatch(i)
      PROVE  AllConsistent'
  BY <1>6, ConsistentGoes, ConsistentEnds DEF Cull, CullFails, DropMatch, Saving
<1>7. ASSUME NEW i \in Invocation, DropRead(i) PROVE AllConsistent'
  <2>1. CASE Ends(i)
    BY <2>1, ConsistentEnds
  <2>2. CASE ~Ends(i)
    <3> DEFINE q == [h[i] EXCEPT !.pc = "dropMatch", !.rec = record]
    <3>1. Becomes(i, q)
      BY <1>7, <2>2 DEF DropRead
    <3>2. q.pc = "dropMatch"
      BY DEF Handlers, Handler
    <3> HIDE DEF q
    <3>3. Consistent(q)
      BY <3>2 DEF Consistent, Saves, Saving
    <3> QED BY <3>1, <3>3, ConsistentBecomes
  <2> QED BY <2>1, <2>2
<1>8. ASSUME Reboot \/ Forget \/ UNCHANGED vars \/ \E gap \in {Interval, 2 * Interval} : Send(gap)
      PROVE  AllConsistent'
  <2>1. h' = h
    BY <1>8 DEF Reboot, Forget, Send, vars
  <2> QED BY <2>1 DEF AllConsistent, Consistent, Saves
<1> QED BY <1>1, <1>2, <1>3, <1>4, <1>5, <1>6, <1>7, <1>8 DEF Next

StateOf(r) == IF r = Absent THEN Absent ELSE r.sync

LEMMA StateIs ==
    ASSUME TypeOK
    PROVE  /\ record # Absent => /\ record \in Record /\ StateOf(record) = record.sync
                                 /\ StateOf(record) \in SyncState /\ StateOf(record) # Absent
           /\ record = Absent => StateOf(record) = Absent
<1>1. record # Absent => record \in Record /\ record.sync \in SyncState
  BY DEF TypeOK, Record
<1> QED BY <1>1, AbsentAssumption DEF StateOf

\* What an invocation does to a record that it saves or deletes.
LEMMA PlanInHand ==
    ASSUME TypeOK, NEW i \in Invocation, Saves(h[i])
    PROVE  /\ PlanOf(h[i]) = IF h[i].then = "cull" THEN "condemn" ELSE h[i].rec.sync
           /\ h[i].rec \in Record /\ h[i].rec # Absent /\ h[i].rec.sync \in SyncState
           /\ PlanOf(h[i]) \in {"inSync", "outOfSync", "condemn"}
<1>1. h[i].pc # "idle" /\ h[i] \in Handler
  BY DEF Saves, Saving, TypeOK
<1>2. h[i].rec \in Record /\ h[i].rec # Absent
  BY <1>1 DEF TypeOK, Handler
<1>3. h[i].rec.sync \in {"inSync", "outOfSync"}
  BY <1>2 DEF Record, SyncState
<1>4. PlanOf(h[i]) = IF h[i].then = "cull" THEN "condemn" ELSE h[i].rec.sync
  BY <1>1 DEF PlanOf, Saves, Saving
<1> QED BY <1>2, <1>3, <1>4 DEF SyncState

\* An invocation that ends before it is done gives up.
LEMMA GivesUp ==
    ASSUME TypeOK, NEW i \in Invocation, ~At(i, "idle"), Ends(i),
           UNCHANGED <<config, device, alive, record>>
    PROVE  Judgements!GiveUp(i)
<1>1. h \in Handlers
  BY DEF TypeOK, Handlers
<1>2. PlanOf(h[i]) # "idle"
  <2>1. CASE Saves(h[i])
    BY <2>1, PlanInHand
  <2>2. CASE ~Saves(h[i])
    BY <2>2 DEF PlanOf, At
  <2> QED BY <2>1, <2>2
<1> QED BY <1>1, <1>2, EndPlan, PunctualStays DEF Judgements!GiveUp

\* A step of an invocation that does not show.
LEMMA NotSeen ==
    ASSUME TypeOK, NEW i \in Invocation, NEW q, Becomes(i, q), PlanOf(q) = PlanOf(h[i]),
           UNCHANGED <<config, device, alive, record>>
    PROVE  UNCHANGED Judgements!vars
<1>1. h \in Handlers
  BY DEF TypeOK, Handlers
<1>2. UNCHANGED Plan
  BY <1>1, PlanBecomes
<1> QED BY <1>2, PunctualStays DEF Judgements!vars

LEMMA FirstStep ==
    ASSUME TypeOK, NEW i \in Invocation, NEW m \in inFlight, LoadFirst(i, m)
    PROVE  Judgements!JudgeFirst(i)
<1> DEFINE q == [IdleHandler EXCEPT !.pc = "createRead", !.rec = FirstRecord(Reported(m)),
                                    !.then = "again"]
<1>0. h \in Handlers
  BY DEF TypeOK, Handlers
<1>1. q.pc = "createRead" /\ q.then = "again" /\ q.rec = FirstRecord(Reported(m))
  BY DEF IdleHandler
<1>2. FirstRecord(Reported(m)).sync = "inSync"
  BY DEF FirstRecord
<1>3. Becomes(i, q)
  BY DEF LoadFirst
<1> HIDE DEF q
<1>4. PlanOf(q) = "inSync"
  BY <1>1, <1>2 DEF PlanOf, Saves, Saving
<1>5. Plan[i] = "idle" /\ Judgements!Plan(i, "inSync")
  BY <1>0, <1>3, <1>4, PlanBecomes DEF LoadFirst, At, PlanOf, Saves, Saving
<1> QED BY <1>5, PunctualStays DEF Judgements!JudgeFirst, LoadFirst

LEMMA SameVerdict ==
    ASSUME NEW s, NEW t, NEW late, NEW terminate
    PROVE  /\ Judgements!NextState(s, late, terminate) = NextState(s, late, terminate)
           /\ Judgements!Condemned(s, t, terminate) <=> Condemned(s, t, terminate)
BY DEF Judgements!NextState, NextState, Judgements!Condemned, Condemned,
       Judgements!SyncState, SyncState

LEMMA JudgeStep ==
    ASSUME TypeOK, AllSent, NEW i \in Invocation, NEW m \in inFlight, Load(i, m)
    PROVE  Judgements!Judge(i) \/ UNCHANGED Judgements!vars
<1>0. h \in Handlers /\ PlanOf(h[i]) = "idle"
  BY DEF TypeOK, Handlers, Load, At, PlanOf, Saves, Saving
<1>1. CASE Ends(i)
  <2>1. UNCHANGED Plan
    BY <1>0, <1>1, EndPlan DEF Load
  <2> QED BY <2>1, PunctualStays DEF Load, Judgements!vars
<1>2. CASE ~Ends(i)
  <2>1. PICK late \in Lateness(record, m) :
          LET new == Judged(record, Reported(m), late)
          IN Becomes(i, [pc |-> "updateRead", rec |-> new, base |-> record.seq,
                         then |-> Sequel(record, new), found |-> FALSE])
    BY <1>2 DEF Load
  <2> DEFINE new == Judged(record, Reported(m), late)
             q == [pc |-> "updateRead", rec |-> new, base |-> record.seq,
                   then |-> Sequel(record, new), found |-> FALSE]
  <2>2. /\ record \in Record /\ record # Absent /\ m \in Heartbeats /\ late \in BOOLEAN
        /\ late \in Judgements!Lateness
    BY LatenessType, PunctualIsNotLate DEF TypeOK, Load
  <2>3. new.sync \in NextState(record.sync, late, config.terminate)
    BY <2>2, JudgedFields, CountedVerdict
  <2>4. new.sync \in {"inSync", "outOfSync"}
    BY <2>2, JudgedType DEF Record, SyncState
  <2>5. q.pc = "updateRead" /\ q.rec = new /\ q.then = Sequel(record, new) /\ Becomes(i, q)
    BY <2>1
  <2> HIDE DEF new, q
  <2>6. PlanOf(q) = IF Sequel(record, new) = "cull" THEN "condemn" ELSE new.sync
    BY <2>5 DEF PlanOf, Saves, Saving
  <2>7. Sequel(record, new) = "cull"
          <=> Condemned(record.sync, new.sync, config.terminate)
    BY <2>4 DEF Sequel, Condemned
  <2>8. Judgements!Plan(i, IF Condemned(record.sync, new.sync, config.terminate)
                           THEN "condemn" ELSE new.sync)
    BY <1>0, <2>5, <2>6, <2>7, PlanBecomes
  <2>9. Plan[i] = "idle"
    BY <1>0, <2>5, PlanBecomes
  <2> DEFINE state == IF record = Absent THEN Absent ELSE record.sync
  <2>10. state = record.sync /\ state # Absent
    BY <2>2, StateIs DEF StateOf
  <2>11. \E l \in Judgements!Lateness :
            \E next \in Judgements!NextState(state, l, config.terminate) :
               Judgements!Plan(i, IF Judgements!Condemned(state, next, config.terminate)
                                  THEN "condemn" ELSE next)
    BY <2>2, <2>3, <2>8, <2>10, SameVerdict
  <2>12. UNCHANGED <<config, device, alive, record, Punctual>>
    BY PunctualStays DEF Load
  <2> QED BY <2>9, <2>10, <2>11, <2>12 DEF Judgements!Judge
<1> QED BY <1>1, <1>2

LEMMA SaveStep ==
    ASSUME TypeOK, AllConsistent, NEW i \in Invocation, CreateWrite(i) \/ UpdateWrite(i)
    PROVE  Judgements!Save(i)
<1>0. h \in Handlers /\ Saves(h[i]) /\ Consistent(h[i])
  BY DEF TypeOK, Handlers, CreateWrite, UpdateWrite, At, Saves, Saving, AllConsistent
<1> DEFINE p == PlanOf(h[i])
<1>1. /\ p = IF h[i].then = "cull" THEN "condemn" ELSE h[i].rec.sync
      /\ h[i].rec # Absent /\ h[i].rec.sync \in {"inSync", "outOfSync"}
      /\ p \in {"inSync", "outOfSync", "condemn"}
  BY <1>0, PlanInHand DEF SyncState
<1>2. record' = h[i].rec /\ Proceeds(i) /\ UNCHANGED <<config, device, alive>>
  BY DEF CreateWrite, UpdateWrite
<1>3. StateOf(record') = IF p = "inSync" THEN "inSync" ELSE "outOfSync"
  BY <1>0, <1>1, <1>2 DEF StateOf, Consistent
<1>4. Plan[i] = p
  BY <1>0, PlanIs
<1>5. \/ p = "condemn" /\ Judgements!Plan(i, "cull")
      \/ p = "inSync" /\ UNCHANGED Plan
      \/ p # "condemn" /\ Judgements!Plan(i, "idle")
  <2>1. CASE h[i].then = "cull" /\ Goes(i, "cull")
    <3> DEFINE q == [h[i] EXCEPT !.pc = "cull"]
    <3>1. q.pc = "cull"
      BY <1>0 DEF Handlers, Handler
    <3>2. Becomes(i, q)
      BY <2>1 DEF Goes
    <3> HIDE DEF q
    <3>3. PlanOf(q) = "cull"
      BY <3>1 DEF PlanOf, Saves, Saving
    <3> QED BY <1>0, <1>1, <2>1, <3>2, <3>3, PlanBecomes
  <2>2. CASE h[i].then # "cull" /\ Ends(i)
    BY <1>0, <1>1, <2>2, EndPlan
  <2>3. CASE /\ h[i].then = "again"
             /\ Becomes(i, [h[i] EXCEPT !.pc = "updateRead", !.then = "idle",
                                        !.base = h[i].rec.seq])
    <3> DEFINE q == [h[i] EXCEPT !.pc = "updateRead", !.then = "idle", !.base = h[i].rec.seq]
    <3>1. q.pc = "updateRead" /\ q.then = "idle" /\ q.rec = h[i].rec
      BY <1>0 DEF Handlers, Handler
    <3>2. Becomes(i, q)
      BY <2>3
    <3> HIDE DEF q
    <3>3. PlanOf(q) = "inSync" /\ p = "inSync"
      BY <1>0, <1>1, <2>3, <3>1 DEF PlanOf, Saves, Saving, Consistent
    <3> QED BY <1>0, <3>2, <3>3, PlanBecomes
  <2> QED BY <1>2, <2>1, <2>2, <2>3 DEF Proceeds
<1>6. UNCHANGED <<config, alive, Punctual>>
  BY <1>2, PunctualStays
<1>7. (IF record' = Absent THEN Absent ELSE record'.sync)
        = IF p = "inSync" THEN "inSync" ELSE "outOfSync"
  BY <1>3 DEF StateOf
<1> HIDE DEF p
<1> QED BY <1>1, <1>4, <1>5, <1>6, <1>7 DEF Judgements!Save, Judgements!ToSave

LEMMA ReadStep ==
    ASSUME TypeOK, NEW i \in Invocation, CreateRead(i) \/ UpdateRead(i)
    PROVE  Judgements!GiveUp(i) \/ UNCHANGED Judgements!vars
<1>0. h \in Handlers /\ Saves(h[i]) /\ ~At(i, "idle")
  BY DEF TypeOK, Handlers, CreateRead, UpdateRead, At, Saves, Saving
<1>1. UNCHANGED <<config, device, alive, record>>
  BY DEF CreateRead, UpdateRead
<1>2. CASE Ends(i)
  BY <1>0, <1>1, <1>2, GivesUp
<1>3. ASSUME NEW q, Becomes(i, q), Saves(q), q.rec = h[i].rec, q.then = h[i].then
      PROVE  UNCHANGED Judgements!vars
  <2>1. PlanOf(q) = PlanOf(h[i])
    BY <1>0, <1>3 DEF PlanOf, Saves, Saving
  <2> QED BY <1>1, <1>3, <2>1, NotSeen
<1>4. CASE Goes(i, "createWrite")
  <2> DEFINE q == [h[i] EXCEPT !.pc = "createWrite"]
  <2>1. Saves(q) /\ q.rec = h[i].rec /\ q.then = h[i].then
    BY <1>0 DEF Handlers, Handler, Saves, Saving
  <2> QED BY <1>3, <1>4, <2>1 DEF Goes
<1>5. CASE Becomes(i, [h[i] EXCEPT !.pc = "updateWrite", !.found = record # Absent])
  <2> DEFINE q == [h[i] EXCEPT !.pc = "updateWrite", !.found = record # Absent]
  <2>1. Saves(q) /\ q.rec = h[i].rec /\ q.then = h[i].then
    BY <1>0 DEF Handlers, Handler, Saves, Saving
  <2> QED BY <1>3, <1>5, <2>1
<1> QED BY <1>2, <1>4, <1>5 DEF CreateRead, UpdateRead

LEMMA CullStep ==
    ASSUME TypeOK, NEW i \in Invocation, Cull(i) \/ CullFails(i)
    PROVE  Judgements!Terminate(i)
<1> DEFINE q == [h[i] EXCEPT !.pc = "dropRead"]
<1>0. h \in Handlers /\ Becomes(i, q)
  BY DEF TypeOK, Handlers, Cull, CullFails, Goes
<1>1. q.pc = "dropRead"
  BY <1>0 DEF Handlers, Handler
<1> HIDE DEF q
<1>2. PlanOf(q) = "drop" /\ PlanOf(h[i]) = "cull"
  BY <1>1 DEF PlanOf, Saves, Saving, Cull, CullFails, At
<1>3. Plan[i] = "cull" /\ Judgements!Plan(i, "drop")
  BY <1>0, <1>2, PlanBecomes
<1>4. alive' \in {alive, FALSE} /\ UNCHANGED <<config, device, record>>
  BY DEF Cull, CullFails
<1> QED BY <1>3, <1>4, PunctualStays DEF Judgements!Terminate

LEMMA DropStep ==
    ASSUME TypeOK, NEW i \in Invocation, DropRead(i) \/ DropMatch(i) \/ DropWrite(i)
    PROVE  Judgements!Drop(i) \/ Judgements!GiveUp(i) \/ UNCHANGED Judgements!vars
<1>0. h \in Handlers /\ PlanOf(h[i]) = "drop" /\ ~At(i, "idle")
  BY DEF TypeOK, Handlers, DropRead, DropMatch, DropWrite, At, PlanOf, Saves, Saving
<1>1. CASE DropWrite(i)
  <2>1. Plan[i] = "drop" /\ Judgements!Plan(i, "idle")
    BY <1>0, <1>1, EndPlan DEF DropWrite
  <2> QED BY <1>1, <2>1, PunctualStays DEF DropWrite, Judgements!Drop
<1>2. CASE (DropRead(i) \/ DropMatch(i)) /\ Ends(i)
  BY <1>0, <1>2, GivesUp DEF DropRead, DropMatch
<1>3. CASE DropRead(i) /\ ~Ends(i)
  <2> DEFINE q == [h[i] EXCEPT !.pc = "dropMatch", !.rec = record]
  <2>1. Becomes(i, q) /\ q.pc = "dropMatch"
    BY <1>0, <1>3 DEF DropRead, Handlers, Handler
  <2> HIDE DEF q
  <2>2. PlanOf(q) = PlanOf(h[i])
    BY <1>0, <2>1 DEF PlanOf, Saves, Saving
  <2> QED BY <1>3, <2>1, <2>2, NotSeen DEF DropRead
<1>4. CASE DropMatch(i) /\ ~Ends(i)
  <2> DEFINE q == [h[i] EXCEPT !.pc = "dropWrite"]
  <2>1. Becomes(i, q) /\ q.pc = "dropWrite"
    BY <1>0, <1>4 DEF DropMatch, Goes, Handlers, Handler
  <2> HIDE DEF q
  <2>2. PlanOf(q) = PlanOf(h[i])
    BY <1>0, <2>1 DEF PlanOf, Saves, Saving
  <2> QED BY <1>4, <2>1, <2>2, NotSeen DEF DropMatch
<1> QED BY <1>1, <1>2, <1>3, <1>4

LEMMA DeviceStep ==
    ASSUME TypeOK, [Next]_vars, Reboot \/ \E gap \in {Interval, 2 * Interval} : Send(gap)
    PROVE  Judgements!Slip \/ UNCHANGED Judgements!vars
<1>1. UNCHANGED <<config, alive, record, h>>
  BY DEF Reboot, Send
<1>2. UNCHANGED Plan
  BY <1>1 DEF Plan, At
<1>3. Punctual' = FALSE \/ Punctual' = Punctual
  BY PunctualWas DEF Punctual
<1> QED BY <1>1, <1>2, <1>3 DEF Judgements!Slip, Judgements!vars

LEMMA JudgementStep ==
    TypeOK /\ AllSent /\ AllConsistent /\ [Next]_vars => [Judgements!Next]_(Judgements!vars)
<1> SUFFICES ASSUME TypeOK, AllSent, AllConsistent, [Next]_vars
             PROVE  Judgements!Next \/ UNCHANGED Judgements!vars
  OBVIOUS
<1> DEFINE Goal == Judgements!Next \/ UNCHANGED Judgements!vars
<1>1. ASSUME NEW i \in Invocation, NEW m \in inFlight, LoadFirst(i, m) PROVE Goal
  BY <1>1, FirstStep DEF Judgements!Next
<1>2. ASSUME NEW i \in Invocation, NEW m \in inFlight, Load(i, m) PROVE Goal
  BY <1>2, JudgeStep DEF Judgements!Next
<1>3. ASSUME NEW i \in Invocation, CreateRead(i) \/ UpdateRead(i) PROVE Goal
  BY <1>3, ReadStep DEF Judgements!Next
<1>4. ASSUME NEW i \in Invocation, CreateWrite(i) \/ UpdateWrite(i) PROVE Goal
  BY <1>4, SaveStep DEF Judgements!Next
<1>5. ASSUME NEW i \in Invocation, UpdateFails(i) \/ Crash(i) PROVE Goal
  BY <1>5, GivesUp DEF UpdateFails, Crash, At, Judgements!Next
<1>6. ASSUME NEW i \in Invocation, Cull(i) \/ CullFails(i) PROVE Goal
  BY <1>6, CullStep DEF Judgements!Next
<1>7. ASSUME NEW i \in Invocation, DropRead(i) \/ DropMatch(i) \/ DropWrite(i) PROVE Goal
  BY <1>7, DropStep DEF Judgements!Next
<1>8. ASSUME Reboot \/ \E gap \in {Interval, 2 * Interval} : Send(gap) PROVE Goal
  BY <1>8, DeviceStep DEF Judgements!Next
<1>9. ASSUME Forget PROVE Goal
  <2>1. UNCHANGED Plan /\ UNCHANGED Punctual
    BY <1>9, PunctualStays DEF Forget, Plan, At
  <2> QED BY <1>9, <2>1 DEF Forget, Judgements!Forget, Judgements!Next
<1>10. ASSUME UNCHANGED vars PROVE Goal
  <2>1. UNCHANGED Plan /\ UNCHANGED Punctual
    BY <1>10, PunctualStays DEF vars, device, Plan, At
  <2> QED BY <1>10, <2>1 DEF vars, Judgements!vars
<1> HIDE DEF Goal
<1>11. Goal
  BY <1>1, <1>2, <1>3, <1>4, <1>5, <1>6, <1>7, <1>8, <1>9, <1>10 DEF Next
<1> QED BY <1>11 DEF Goal

\* A heartbeat does nothing to the sync state that SyncVerdict does not allow,
\* terminates nobody it did not condemn, and never judges a punctual device late:
\* for any number of invocations, any limits and any settings.
THEOREM HeartbeatsAreJudgementsCorrect == Spec => HeartbeatsAreJudgements
<1>1. Init => AllSent /\ AllConsistent
  BY DEF Init, AllSent, Circulates, IdleHandler, AllConsistent, Consistent, Saves, Saving
<1>2. Init => Judgements!Init
  <2> SUFFICES ASSUME Init PROVE Judgements!Init
    OBVIOUS
  <2>0. PlanOf(IdleHandler) = "idle"
    BY DEF PlanOf, IdleHandler, Saves, Saving
  <2>1. Plan = [i \in Invocation |-> "idle"]
    BY <2>0, PlanIs DEF Init
  <2>2. config.terminate \in BOOLEAN
    BY ConfigAssumption DEF Init, Configs
  <2>3. Punctual \in BOOLEAN
    BY DEF Punctual
  <2> QED BY <2>1, <2>2, <2>3 DEF Init, Judgements!Init
<1> QED BY <1>1, <1>2, JudgementStep, SentInductive, ConsistentInductive, TypeCorrect, PTL
        DEF Spec, HeartbeatsAreJudgements, Judgements!Spec

=============================================================================
