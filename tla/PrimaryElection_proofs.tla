----------------------- MODULE PrimaryElection_proofs -----------------------
(***************************************************************************)
(* What holds of heartbeat handling and primary election for any set of    *)
(* VMs, any number of faults and any outcome of the scores.                *)
(***************************************************************************)
EXTENDS PrimaryElection, Integers, FiniteSetTheorems, TLAPS

-----------------------------------------------------------------------------
(* Version names: one is reused once nobody holds it.                      *)

\* The image of a part of a finite set under a function is no larger than the set.
LEMMA ImageBound ==
    ASSUME NEW S, IsFiniteSet(S), NEW T \in SUBSET S,
           NEW f, f = [x \in T |-> f[x]]
    PROVE  /\ IsFiniteSet({f[x] : x \in T})
           /\ Cardinality({f[x] : x \in T}) \in Nat
           /\ Cardinality({f[x] : x \in T}) <= Cardinality(S)
<1> DEFINE I == {f[x] : x \in T}
<1>1. IsFiniteSet(T) /\ Cardinality(T) <= Cardinality(S)
  BY FS_Subset
<1>2. f \in Surjection(T, I)
  BY DEF Surjection
<1>3. IsFiniteSet(I) /\ Cardinality(I) <= Cardinality(T)
  BY <1>1, <1>2, FS_Surjection
<1>4. Cardinality(I) \in Nat /\ Cardinality(T) \in Nat /\ Cardinality(S) \in Nat
  BY <1>1, <1>3, FS_CardinalityType
<1> QED BY <1>1, <1>3, <1>4

\* A set that is larger than the names in use has a name that is not.
LEMMA FreshName ==
    ASSUME NEW E, NEW S, NEW n \in Nat, IsFiniteSet(S), Cardinality(S) <= n,
           IsFiniteSet(E) => Cardinality(E) > n
    PROVE  /\ (CHOOSE e \in E : e \notin S) \in E
           /\ (CHOOSE e \in E : e \notin S) \notin S
<1>1. \E e \in E : e \notin S
  <2> SUFFICES ASSUME E \subseteq S PROVE FALSE
    OBVIOUS
  <2>1. IsFiniteSet(E) /\ Cardinality(E) <= Cardinality(S)
    BY FS_Subset
  <2>2. Cardinality(E) \in Nat /\ Cardinality(S) \in Nat
    BY <2>1, FS_CardinalityType
  <2> QED BY <2>1, <2>2
<1> QED BY <1>1

-----------------------------------------------------------------------------
\* What an invocation with local variables r holds at each step.
HeldBy(r) ==
    /\ r.pc \notin {"idle", "sync", "reply"} => r.target # Absent
    /\ r.pc \in {"judge", "deleteRead", "deleteWrite"} => r.record # Absent
    /\ r.pc \in {"saveGuard", "saveRead", "saveWrite"} => r.new # None

Held == \A v \in VM : HeldBy(h[v])

Shape == TypeOK /\ Held

-----------------------------------------------------------------------------
LEMMA IdleHandlerType == IdleHandler \in Handler
BY DEF IdleHandler, Handler, Steps, Maybe, RecordId, GroupId

\* There is always a version name that nobody refers to.
LEMMA FreshEtagExists ==
    ASSUME TypeOK
    PROVE  FreshEtag \in Etag /\ FreshEtag \notin InUse
<1> DEFINE P == {j \in RecordId : primary[j] # Absent}
           R == {w \in VM : h[w].record # Absent}
           S == {w \in VM : h[w].snap # Absent}
           p == [i \in P |-> primary[i].etag]
           r == [v \in R |-> h[v].record.etag]
           s == [v \in S |-> h[v].snap.etag]
           n == Cardinality(VM)
<1>1. p = [x \in P |-> p[x]] /\ r = [x \in R |-> r[x]] /\ s = [x \in S |-> s[x]]
  OBVIOUS
<1>2. IsFiniteSet(VM) /\ n \in Nat
  BY EtagAssumption, FS_CardinalityType
<1>3. IsFiniteSet(RecordId) /\ Cardinality(RecordId) = n + 1
  BY <1>2, FS_AddElement, VMAssumption DEF RecordId, GroupId
<1> HIDE DEF n
<1> DEFINE Ip == {p[i] : i \in P}
           Ir == {r[v] : v \in R}
           Is == {s[v] : v \in S}
<1>4. /\ IsFiniteSet(Ip) /\ Cardinality(Ip) \in Nat /\ Cardinality(Ip) <= n + 1
      /\ IsFiniteSet(Ir) /\ Cardinality(Ir) \in Nat /\ Cardinality(Ir) <= n
      /\ IsFiniteSet(Is) /\ Cardinality(Is) \in Nat /\ Cardinality(Is) <= n
  <2>1. P \in SUBSET RecordId /\ R \in SUBSET VM /\ S \in SUBSET VM
    OBVIOUS
  <2> HIDE DEF P, R, S, p, r, s
  <2>2. IsFiniteSet(Ip) /\ Cardinality(Ip) \in Nat /\ Cardinality(Ip) <= n + 1
    BY <1>1, <1>3, <2>1, ImageBound
  <2>3. IsFiniteSet(Ir) /\ Cardinality(Ir) \in Nat /\ Cardinality(Ir) <= n
    BY <1>1, <1>2, <2>1, ImageBound DEF n
  <2>4. IsFiniteSet(Is) /\ Cardinality(Is) \in Nat /\ Cardinality(Is) <= n
    BY <1>1, <1>2, <2>1, ImageBound DEF n
  <2> QED BY <2>2, <2>3, <2>4
<1>5. InUse = (Ip \cup Ir) \cup Is
  BY DEF InUse
<1>6. IsFiniteSet(InUse) /\ Cardinality(InUse) \in Nat /\ Cardinality(InUse) <= 3 * n + 1
  <2> HIDE DEF Ip, Ir, Is
  <2>1. /\ IsFiniteSet(Ip \cup Ir)
        /\ Cardinality(Ip \cup Ir) = Cardinality(Ip) + Cardinality(Ir) - Cardinality(Ip \cap Ir)
        /\ Cardinality(Ip \cap Ir) \in Nat
    BY <1>4, FS_Union, FS_Intersection, FS_CardinalityType
  <2>2. /\ IsFiniteSet(InUse)
        /\ Cardinality(InUse) = Cardinality(Ip \cup Ir) + Cardinality(Is)
                                - Cardinality((Ip \cup Ir) \cap Is)
        /\ Cardinality((Ip \cup Ir) \cap Is) \in Nat
        /\ Cardinality(InUse) \in Nat
    BY <1>4, <1>5, <2>1, FS_Union, FS_Intersection, FS_CardinalityType
  <2> QED BY <1>2, <1>4, <2>1, <2>2
<1>7. IsFiniteSet(Etag) => Cardinality(Etag) > 3 * n + 1
  BY EtagAssumption DEF n
<1>8. 3 * n + 1 \in Nat
  BY <1>2
<1> HIDE DEF n
<1> QED BY <1>6, <1>7, <1>8, FreshName DEF FreshEtag

-----------------------------------------------------------------------------
\* One invocation's step keeps the shape if its new local variables do.
LEMMA HandlerStep ==
    ASSUME Shape, NEW v \in VM, NEW r \in Handler, HeldBy(r), Becomes(v, r)
    PROVE  h' \in [VM -> Handler] /\ Held'
BY DEF Shape, TypeOK, Held, Becomes

\* A step that changes nothing besides, and may be a fault of the environment.
LEMMA ShapeStep ==
    ASSUME Shape, h' \in [VM -> Handler] /\ Held',
           UNCHANGED <<tables, up, born, silent, device, lost>>,
           UNCHANGED faults \/ Fault
    PROVE  Shape'
<1>1. faults' \in 0..MaxFaults
  BY MaxFaultsAssumption DEF Fault, Shape, TypeOK
<1> QED BY <1>1 DEF Shape, TypeOK, tables

\* The strategy writes the target's record anew, naming the same primary, and
\* the invocation goes on with it or ends.
SyncWrites(v, rec) ==
    /\ health' = [health EXCEPT ![v] = rec]
    /\ \/ h' = [w \in VM |-> IF w # v THEN [h[w] EXCEPT !.overdue = @ \ {v}]
                            ELSE IdleHandler]
       \/ h' = [w \in VM |-> IF w # v THEN [h[w] EXCEPT !.overdue = @ \ {v}]
                            ELSE [h[v] EXCEPT !.pc = "readVm", !.target = rec,
                                              !.late = FALSE, !.overdue = @ \ {v}]]

LEMMA SyncEffect ==
    ASSUME TypeOK, NEW v \in VM, Sync(v)
    PROVE  \E rec \in HealthRecord :
              /\ SyncWrites(v, rec)
              /\ rec.told = IF h[v].target # Absent THEN h[v].target.told ELSE None
<1>1. ASSUME NEW from, NEW late, NEW s \in NextState(from, late, Terminate)
      PROVE  s \in SyncState
  BY DEF NextState, SyncState
<1> DEFINE read == h[v].target
           known == read # Absent
           from == IF known THEN read.state ELSE "inSync"
           late == known /\ h[v].late
<1>2. PICK s \in NextState(from, late, Terminate) :
         LET rec == [state |-> s, told |-> IF known THEN read.told ELSE None]
         IN /\ health' = [health EXCEPT ![v] = rec]
            /\ h' = [w \in VM |->
                 IF w # v THEN [h[w] EXCEPT !.overdue = @ \ {v}]
                 ELSE IF Dropped(from, late, Terminate) THEN IdleHandler
                 ELSE [h[v] EXCEPT !.pc = "readVm", !.target = rec, !.late = FALSE,
                                   !.overdue = @ \ {v}]]
  BY DEF Sync
<1> DEFINE rec == [state |-> s, told |-> IF known THEN read.told ELSE None]
<1>3. rec \in HealthRecord
  BY <1>1 DEF TypeOK, Handler, HealthRecord, Maybe
<1> HIDE DEF from, late
<1>4. SyncWrites(v, rec)
  <2>1. CASE Dropped(from, late, Terminate)
    BY <1>2, <2>1 DEF SyncWrites
  <2>2. CASE ~Dropped(from, late, Terminate)
    BY <1>2, <2>2 DEF SyncWrites
  <2> QED BY <2>1, <2>2
<1> QED BY <1>3, <1>4

\* A VM of a stored record, or none.
LEMMA PrimaryVmType ==
    ASSUME TypeOK
    PROVE  PrimaryVm \subseteq Maybe
BY DEF PrimaryVm, Maybe, TypeOK

\* Every variable keeps its type, and an invocation holds at every step what
\* the step works on: a target record, a primary record, an elected VM.
LEMMA ShapeInductive == Spec => []Shape
<1>1. Init => Shape
  <2> SUFFICES ASSUME Init PROVE Shape
    OBVIOUS
  <2>1. TypeOK
    BY IdleHandlerType, VMAssumption, MaxFaultsAssumption DEF Init, TypeOK, Maybe
  <2>2. Held
    BY DEF Init, Held, HeldBy, IdleHandler
  <2> QED BY <2>1, <2>2 DEF Shape
<1>2. Shape /\ [Next]_vars => Shape'
  <2> SUFFICES ASSUME Shape, [Next]_vars PROVE Shape'
    OBVIOUS
  <2>1. ASSUME NEW v \in VM, NEW late \in BOOLEAN, Receive(v, late) PROVE Shape'
    <3> DEFINE r == [IdleHandler EXCEPT !.pc = "sync", !.late = late, !.target = health[v],
                                        !.overdue = silent]
    <3>1. r \in Handler /\ HeldBy(r)
      BY DEF Shape, TypeOK, Handler, HeldBy, Steps, Maybe, RecordId, GroupId, IdleHandler
    <3>2. h' \in [VM -> Handler] /\ Held'
      BY <2>1, <3>1, HandlerStep DEF Receive
    <3>3. faults' \in 0..MaxFaults
      BY <2>1, MaxFaultsAssumption DEF Receive, Fault, Shape, TypeOK
    <3> QED BY <2>1, <3>2, <3>3 DEF Receive, Shape, TypeOK, tables
  <2>2. ASSUME NEW v \in VM, Sync(v) PROVE Shape'
    <3>1. h[v] \in Handler
      BY DEF Shape, TypeOK
    <3>2. PICK rec \in HealthRecord : SyncWrites(v, rec)
      BY <2>2, SyncEffect DEF Shape
    <3>3. rec # Absent
      BY AbsentAssumption
    <3>4. ASSUME NEW w \in VM
          PROVE  /\ [h[w] EXCEPT !.overdue = @ \ {v}] \in Handler
                 /\ HeldBy([h[w] EXCEPT !.overdue = @ \ {v}])
      <4>1. h[w] \in Handler /\ HeldBy(h[w])
        BY DEF Shape, TypeOK, Held
      <4>2. [h[w] EXCEPT !.overdue = @ \ {v}] \in Handler
        BY <4>1 DEF Handler
      <4>3. HeldBy([h[w] EXCEPT !.overdue = @ \ {v}])
        BY <4>1 DEF HeldBy, Handler
      <4> QED BY <4>2, <4>3
    <3>5. IdleHandler \in Handler /\ HeldBy(IdleHandler)
      BY IdleHandlerType DEF HeldBy, IdleHandler
    <3> DEFINE r == [h[v] EXCEPT !.pc = "readVm", !.target = rec, !.late = FALSE,
                                 !.overdue = @ \ {v}]
    <3>6. r \in Handler
      BY <3>1, <3>2 DEF Handler, Steps
    <3>7. HeldBy(r)
      BY <3>1, <3>3 DEF HeldBy, Handler
    <3> HIDE DEF r
    <3>8. h' \in [VM -> Handler]
      BY <3>2, <3>4, <3>5, <3>6 DEF r, SyncWrites
    <3>9. ASSUME NEW w \in VM PROVE HeldBy(h'[w])
      BY <3>2, <3>4, <3>5, <3>7 DEF r, SyncWrites
    <3>10. Held'
      BY <3>9 DEF Held, HeldBy
    <3>11. health' \in [VM -> HealthRecord \cup {Absent}] /\ silent' \subseteq VM
      BY <2>2, <3>2 DEF Sync, SyncWrites, Shape, TypeOK
    <3> QED BY <2>2, <3>8, <3>10, <3>11 DEF Sync, Shape, TypeOK
  <2>3. ASSUME NEW v \in VM, SyncRefused(v) PROVE Shape'
    <3>1. IdleHandler \in Handler /\ HeldBy(IdleHandler)
      BY IdleHandlerType DEF HeldBy, IdleHandler
    <3>2. h' \in [VM -> Handler] /\ Held'
      BY <2>3, <3>1, HandlerStep DEF SyncRefused
    <3> QED BY <2>3, <3>2 DEF SyncRefused, Shape, TypeOK, tables, world
  <2>4. ASSUME NEW v \in VM, ReadPrimaryVm(v) PROVE Shape'
    <3>1. h[v] \in Handler /\ HeldBy(h[v])
      BY DEF Shape, TypeOK, Held
    <3>2. PICK old \in Maybe : Becomes(v, [h[v] EXCEPT !.pc = "readHealth", !.old = old])
      BY <2>4, PrimaryVmType DEF ReadPrimaryVm, Shape
    <3> DEFINE r == [h[v] EXCEPT !.pc = "readHealth", !.old = old]
    <3>3. r \in Handler
      BY <3>1 DEF Handler, Steps
    <3>4. HeldBy(r)
      BY <2>4, <3>1 DEF ReadPrimaryVm, At, HeldBy, Handler
    <3>5. h' \in [VM -> Handler] /\ Held'
      BY <3>2, <3>3, <3>4, HandlerStep
    <3> QED BY <2>4, <3>5 DEF ReadPrimaryVm, Shape, TypeOK, tables, world
  <2>5. ASSUME NEW v \in VM, ReadPrimaryHealth(v) PROVE Shape'
    <3> DEFINE r == [h[v] EXCEPT !.pc = "readRecord", !.fitOld = FitOld(v)]
    <3>1. h[v] \in Handler /\ HeldBy(h[v])
      BY DEF Shape, TypeOK, Held
    <3>2. FitOld(v) \in Maybe
      BY <3>1 DEF FitOld, Handler, Maybe
    <3>3. r \in Handler
      BY <3>1, <3>2 DEF Handler, Steps
    <3>4. HeldBy(r)
      BY <2>5, <3>1, <3>2 DEF ReadPrimaryHealth, At, HeldBy, Handler
    <3>5. h' \in [VM -> Handler] /\ Held'
      BY <2>5, <3>3, <3>4, HandlerStep DEF ReadPrimaryHealth
    <3> QED BY <2>5, <3>5 DEF ReadPrimaryHealth, Shape, TypeOK, tables, world
  <2>6. ASSUME NEW v \in VM, ReadPrimaryRecord(v) PROVE Shape'
    <3>1. h[v] \in Handler /\ HeldBy(h[v])
      BY DEF Shape, TypeOK, Held
    <3>2. CASE Stored = {}
      <4> DEFINE r == [h[v] EXCEPT !.pc = "stale"]
      <4>1. r \in Handler
        BY <3>1 DEF Handler, Steps
      <4>2. HeldBy(r)
        BY <2>6, <3>1 DEF ReadPrimaryRecord, At, HeldBy, Handler
      <4>3. h' \in [VM -> Handler] /\ Held'
        BY <2>6, <3>2, <4>1, <4>2, HandlerStep DEF ReadPrimaryRecord
      <4> QED BY <2>6, <4>3 DEF ReadPrimaryRecord, Shape, TypeOK, tables, world
    <3>3. CASE Stored # {}
      <4>1. PICK s \in Stored : Becomes(v, [h[v] EXCEPT !.pc = "judge", !.record = s])
        BY <2>6, <3>3 DEF ReadPrimaryRecord
      <4>2. s \in PrimaryRecord /\ s # Absent
        BY DEF Stored, Shape, TypeOK
      <4> DEFINE r == [h[v] EXCEPT !.pc = "judge", !.record = s]
      <4>3. r \in Handler
        BY <3>1, <4>2 DEF Handler, Steps
      <4>4. HeldBy(r)
        BY <2>6, <3>1, <4>2 DEF ReadPrimaryRecord, At, HeldBy, Handler
      <4>5. h' \in [VM -> Handler] /\ Held'
        BY <4>1, <4>3, <4>4, HandlerStep
      <4> QED BY <2>6, <4>5 DEF ReadPrimaryRecord, Shape, TypeOK, tables, world
    <3> QED BY <3>2, <3>3
  <2>7. ASSUME NEW v \in VM, Judge(v) PROVE Shape'
    <3>1. h[v] \in Handler /\ HeldBy(h[v])
      BY DEF Shape, TypeOK, Held
    <3>2. FitOld(v) \in Maybe
      BY <3>1 DEF FitOld, Handler, Maybe
    <3> DEFINE r == [h[v] EXCEPT !.pc = "assess", !.fitOld = FitOld(v), !.record = Absent]
               q == [h[v] EXCEPT !.pc = "deleteRead", !.fitOld = None]
    <3>3. r \in Handler
      BY <3>1, <3>2 DEF Handler, Steps
    <3>4. q \in Handler
      BY <3>1, <3>2 DEF Handler, Steps, Maybe
    <3>5. HeldBy(r) /\ HeldBy(q)
      BY <2>7, <3>1, <3>2 DEF Judge, At, HeldBy, Handler
    <3>6. Becomes(v, r) \/ Becomes(v, q)
      BY <2>7 DEF Judge
    <3>7. h' \in [VM -> Handler] /\ Held'
      BY <3>3, <3>4, <3>5, <3>6, HandlerStep
    <3> QED BY <2>7, <3>7 DEF Judge, Shape, TypeOK, tables, world
  <2>8. ASSUME NEW v \in VM, DeleteRead(v) PROVE Shape'
    <3>1. h[v] \in Handler /\ HeldBy(h[v])
      BY DEF Shape, TypeOK, Held
    <3> DEFINE r == [h[v] EXCEPT !.pc = "deleteWrite"]
               q == [h[v] EXCEPT !.pc = "stale"]
    <3>3. r \in Handler
      BY <3>1 DEF Handler, Steps
    <3>4. q \in Handler
      BY <3>1 DEF Handler, Steps, Maybe
    <3>5. HeldBy(r) /\ HeldBy(q)
      BY <2>8, <3>1 DEF DeleteRead, At, HeldBy, Handler
    <3>6. Becomes(v, r) \/ Becomes(v, q)
      BY <2>8 DEF DeleteRead
    <3>7. h' \in [VM -> Handler] /\ Held'
      BY <3>3, <3>4, <3>5, <3>6, HandlerStep
    <3> QED BY <2>8, <3>7 DEF DeleteRead, Shape, TypeOK, tables, world
  <2>9. ASSUME NEW v \in VM, DeleteWrite(v) PROVE Shape'
    <3> DEFINE r == [h[v] EXCEPT !.pc = "stale"]
    <3>1. h[v] \in Handler /\ HeldBy(h[v])
      BY DEF Shape, TypeOK, Held
    <3>3. r \in Handler
      BY <3>1 DEF Handler, Steps
    <3>4. HeldBy(r)
      BY <2>9, <3>1 DEF DeleteWrite, At, HeldBy, Handler
    <3>5. h' \in [VM -> Handler] /\ Held'
      BY <2>9, <3>3, <3>4, HandlerStep DEF DeleteWrite
    <3> QED BY <2>9, <3>5 DEF DeleteWrite, Shape, TypeOK, tables, world
  <2>10. ASSUME NEW v \in VM, HandleStaleVm(v) PROVE Shape'
    <3> DEFINE r == [h[v] EXCEPT !.pc = "elect", !.record = Absent]
    <3>1. h[v] \in Handler /\ HeldBy(h[v])
      BY DEF Shape, TypeOK, Held
    <3>3. r \in Handler
      BY <3>1 DEF Handler, Steps
    <3>4. HeldBy(r)
      BY <2>10, <3>1 DEF HandleStaleVm, At, HeldBy, Handler
    <3>5. h' \in [VM -> Handler] /\ Held'
      BY <2>10, <3>3, <3>4, HandlerStep DEF HandleStaleVm
    <3>6. health' \in [VM -> HealthRecord \cup {Absent}]
      BY <2>10 DEF HandleStaleVm, Shape, TypeOK
    <3> QED BY <2>10, <3>5, <3>6 DEF HandleStaleVm, Shape, TypeOK
  <2>11. ASSUME NEW v \in VM, HandleStaleVmFails(v) PROVE Shape'
    <3> DEFINE r == [h[v] EXCEPT !.pc = "assess", !.record = Absent]
    <3>1. h[v] \in Handler /\ HeldBy(h[v])
      BY DEF Shape, TypeOK, Held
    <3>3. r \in Handler
      BY <3>1 DEF Handler, Steps
    <3>4. HeldBy(r)
      BY <2>11, <3>1 DEF HandleStaleVmFails, At, HeldBy, Handler
    <3>5. h' \in [VM -> Handler] /\ Held'
      BY <2>11, <3>3, <3>4, HandlerStep DEF HandleStaleVmFails
    <3>6. faults' \in 0..MaxFaults
      BY <2>11, MaxFaultsAssumption DEF HandleStaleVmFails, Fault, Shape, TypeOK
    <3>7. /\ health' \in [VM -> HealthRecord \cup {Absent}]
          /\ silent' \subseteq VM
      BY <2>11 DEF HandleStaleVmFails, Shape, TypeOK
    <3> QED BY <2>11, <3>5, <3>6, <3>7 DEF HandleStaleVmFails, Shape, TypeOK
  <2>12. ASSUME NEW v \in VM,
               Elect(v) \/ \E slow \in SUBSET VM : ElectWithoutSlow(v, slow)
        PROVE Shape'
    <3>1. h[v] \in Handler /\ HeldBy(h[v])
      BY DEF Shape, TypeOK, Held
    <3>2. PICK w, id :
             \/ /\ w \in up /\ id = IF v \in Classic THEN v ELSE GroupId
                /\ Becomes(v, [h[v] EXCEPT !.pc = "saveGuard", !.new = w, !.newId = id])
             \/ Becomes(v, [h[v] EXCEPT !.pc = "assess", !.old = None, !.fitOld = None])
      BY <2>12 DEF Elect, ElectWithoutSlow, TakeResult
    <3>9. UNCHANGED <<tables, up, born, silent, device, lost>> /\ (UNCHANGED faults \/ Fault)
      BY <2>12 DEF Elect, ElectWithoutSlow, world
    <3>3. CASE /\ w \in up /\ id = IF v \in Classic THEN v ELSE GroupId
               /\ Becomes(v, [h[v] EXCEPT !.pc = "saveGuard", !.new = w, !.newId = id])
      <4>1. w \in VM /\ w \in Maybe /\ w # None /\ id \in RecordId
        BY <3>3, VMAssumption DEF Shape, TypeOK, Maybe, RecordId
      <4> DEFINE r == [h[v] EXCEPT !.pc = "saveGuard", !.new = w, !.newId = id]
      <4>2. r \in Handler
        BY <3>1, <4>1 DEF Handler, Steps
      <4>3. HeldBy(r)
        BY <2>12, <3>1, <4>1 DEF Elect, ElectWithoutSlow, At, HeldBy, Handler
      <4> QED BY <2>12, <3>3, <4>2, <4>3, <3>9, HandlerStep, ShapeStep
    <3>4. CASE Becomes(v, [h[v] EXCEPT !.pc = "assess", !.old = None, !.fitOld = None])
      <4> DEFINE r == [h[v] EXCEPT !.pc = "assess", !.old = None, !.fitOld = None]
      <4>2. r \in Handler
        BY <3>1 DEF Handler, Steps, Maybe
      <4>3. HeldBy(r)
        BY <2>12, <3>1 DEF Elect, ElectWithoutSlow, At, HeldBy, Handler
      <4> QED BY <2>12, <3>4, <4>2, <4>3, <3>9, HandlerStep, ShapeStep
    <3> QED BY <3>2, <3>3, <3>4
  <2>13. ASSUME NEW v \in VM, SaveGuard(v) \/ SaveGuardFails(v) PROVE Shape'
    <3>1. h[v] \in Handler /\ HeldBy(h[v])
      BY DEF Shape, TypeOK, Held
    <3> DEFINE r == [h[v] EXCEPT !.pc = "saveRead"]
               q == [h[v] EXCEPT !.pc = "assess"]
    <3>3. r \in Handler
      BY <3>1 DEF Handler, Steps
    <3>4. q \in Handler
      BY <3>1 DEF Handler, Steps, Maybe
    <3>5. HeldBy(r) /\ HeldBy(q)
      BY <2>13, <3>1 DEF SaveGuard, SaveGuardFails, At, HeldBy, Handler
    <3>6. Becomes(v, r) \/ Becomes(v, q)
      BY <2>13 DEF SaveGuard, SaveGuardFails
    <3>7. h' \in [VM -> Handler] /\ Held'
      BY <3>3, <3>4, <3>5, <3>6, HandlerStep
    <3>9. UNCHANGED <<tables, up, born, silent, device, lost>> /\ (UNCHANGED faults \/ Fault)
      BY <2>13 DEF SaveGuard, SaveGuardFails, world
    <3> QED BY <3>7, <3>9, ShapeStep
  <2>14. ASSUME NEW v \in VM, SaveRead(v) PROVE Shape'
    <3> DEFINE r == [h[v] EXCEPT !.pc = "saveWrite", !.snap = primary[h[v].newId]]
    <3>1. h[v] \in Handler /\ HeldBy(h[v])
      BY DEF Shape, TypeOK, Held
    <3>2. primary[h[v].newId] \in PrimaryRecord \cup {Absent}
      BY <3>1 DEF Shape, TypeOK, Handler
    <3>3. r \in Handler
      BY <3>1, <3>2 DEF Handler, Steps
    <3>4. HeldBy(r)
      BY <2>14, <3>1, <3>2 DEF SaveRead, At, HeldBy, Handler
    <3>5. h' \in [VM -> Handler] /\ Held'
      BY <2>14, <3>3, <3>4, HandlerStep DEF SaveRead
    <3> QED BY <2>14, <3>5 DEF SaveRead, Shape, TypeOK, tables, world
  <2>15. ASSUME NEW v \in VM, SaveWrite(v) PROVE Shape'
    <3> DEFINE r == [h[v] EXCEPT !.pc = "assess", !.snap = Absent]
    <3>1. h[v] \in Handler /\ HeldBy(h[v])
      BY DEF Shape, TypeOK, Held
    <3>3. r \in Handler
      BY <3>1 DEF Handler, Steps
    <3>4. HeldBy(r)
      BY <2>15, <3>1 DEF SaveWrite, At, HeldBy, Handler
    <3>5. h' \in [VM -> Handler] /\ Held'
      BY <2>15, <3>3, <3>4, HandlerStep DEF SaveWrite
    <3>6. h[v].newId \in RecordId /\ h[v].new \in VM
      BY <2>15, <3>1 DEF SaveWrite, At, HeldBy, Handler, Maybe
    <3>7. [etag |-> FreshEtag, id |-> h[v].newId, vm |-> h[v].new] \in PrimaryRecord
      BY <3>6, FreshEtagExists DEF Shape, PrimaryRecord
    <3>8. primary' \in [RecordId -> PrimaryRecord \cup {Absent}]
      BY <2>15, <3>7 DEF SaveWrite, Shape, TypeOK
    <3> QED BY <2>15, <3>5, <3>8 DEF SaveWrite, Shape, TypeOK, world
  <2>16. ASSUME NEW v \in VM, SaveWriteFails(v) PROVE Shape'
    <3> DEFINE r == [h[v] EXCEPT !.pc = "assess", !.snap = Absent]
    <3>1. h[v] \in Handler /\ HeldBy(h[v])
      BY DEF Shape, TypeOK, Held
    <3>3. r \in Handler
      BY <3>1 DEF Handler, Steps
    <3>4. HeldBy(r)
      BY <2>16, <3>1 DEF SaveWriteFails, At, HeldBy, Handler
    <3>5. h' \in [VM -> Handler] /\ Held'
      BY <2>16, <3>3, <3>4, HandlerStep DEF SaveWriteFails
    <3> QED BY <2>16, <3>5 DEF SaveWriteFails, Shape, TypeOK, tables, world
  <2>17. ASSUME NEW v \in VM, Assess(v) \/ AssessSlow(v) PROVE Shape'
    <3>1. h[v] \in Handler /\ HeldBy(h[v])
      BY DEF Shape, TypeOK, Held
    <3>2. PICK stale \in BOOLEAN : Condemn(v, stale) /\ (stale => h[v].old # None)
      BY <2>17 DEF Assess, AssessSlow, OldIsStale
    <3>3. stale => h[v].old \in VM
      BY <3>1, <3>2 DEF Handler, Maybe
    <3>4. PICK step \in {"cull", "answer"}, doomed \in SUBSET VM :
             Becomes(v, [h[v] EXCEPT !.pc = step, !.doomed = doomed])
      BY <3>2, <3>3 DEF Condemn
    <3> DEFINE r == [h[v] EXCEPT !.pc = step, !.doomed = doomed]
    <3>5. r \in Handler
      BY <3>1 DEF Handler, Steps
    <3>6. HeldBy(r)
      BY <2>17, <3>1 DEF Assess, AssessSlow, At, HeldBy, Handler
    <3>7. h' \in [VM -> Handler] /\ Held'
      BY <3>4, <3>5, <3>6, HandlerStep
    <3>9. UNCHANGED <<tables, up, born, silent, device, lost>> /\ (UNCHANGED faults \/ Fault)
      BY <2>17 DEF Assess, AssessSlow, world
    <3> QED BY <3>7, <3>9, ShapeStep
  <2>18. ASSUME NEW v \in VM, Cull(v) PROVE Shape'
    <3> DEFINE r == [h[v] EXCEPT !.pc = "drop"]
    <3>1. h[v] \in Handler /\ HeldBy(h[v])
      BY DEF Shape, TypeOK, Held
    <3>3. r \in Handler
      BY <3>1 DEF Handler, Steps
    <3>4. HeldBy(r)
      BY <2>18, <3>1 DEF Cull, At, HeldBy, Handler
    <3>5. h' \in [VM -> Handler] /\ Held'
      BY <2>18, <3>3, <3>4, HandlerStep DEF Cull
    <3> QED BY <2>18, <3>5 DEF Cull, Shape, TypeOK, tables
  <2>19. ASSUME NEW v \in VM, Drop(v) PROVE Shape'
    <3> DEFINE r == [h[v] EXCEPT !.pc = "answer", !.doomed = {}]
    <3>1. h[v] \in Handler /\ HeldBy(h[v])
      BY DEF Shape, TypeOK, Held
    <3>3. r \in Handler
      BY <3>1 DEF Handler, Steps
    <3>4. HeldBy(r)
      BY <2>19, <3>1 DEF Drop, At, HeldBy, Handler
    <3>5. h' \in [VM -> Handler] /\ Held'
      BY <2>19, <3>3, <3>4, HandlerStep DEF Drop
    <3>6. health' \in [VM -> HealthRecord \cup {Absent}] /\ silent' \subseteq VM
      BY <2>19 DEF Drop, Shape, TypeOK
    <3> QED BY <2>19, <3>5, <3>6 DEF Drop, Shape, TypeOK
  <2>20. ASSUME NEW v \in VM, NothingToTell(v) \/ PrimaryIsSlow(v) PROVE Shape'
    <3>1. IdleHandler \in Handler /\ HeldBy(IdleHandler)
      BY IdleHandlerType DEF HeldBy, IdleHandler
    <3>2. h' \in [VM -> Handler] /\ Held'
      BY <2>20, <3>1, HandlerStep DEF NothingToTell, PrimaryIsSlow
    <3>9. UNCHANGED <<tables, up, born, silent, device, lost>> /\ (UNCHANGED faults \/ Fault)
      BY <2>20 DEF NothingToTell, PrimaryIsSlow, world
    <3> QED BY <3>2, <3>9, ShapeStep
  <2>21. ASSUME NEW v \in VM, SaveTold(v) PROVE Shape'
    <3> DEFINE r == [IdleHandler EXCEPT !.pc = "reply", !.tell = Tell(v)]
    <3>1. h[v] \in Handler /\ HeldBy(h[v])
      BY DEF Shape, TypeOK, Held
    <3>2. Tell(v) \in Maybe
      BY <3>1 DEF Tell, Handler, Maybe
    <3>3. r \in Handler
      BY <3>1, <3>2 DEF Handler, Steps, IdleHandler, Maybe, RecordId, GroupId
    <3>4. HeldBy(r)
      BY <2>21, <3>1, <3>2 DEF SaveTold, At, HeldBy, Handler
    <3>5. h' \in [VM -> Handler] /\ Held'
      BY <2>21, <3>3, <3>4, HandlerStep DEF SaveTold
    <3>6. h[v].target \in HealthRecord
      BY <2>21, <3>1 DEF SaveTold, At, HeldBy, Handler
    <3>7. [h[v].target EXCEPT !.told = Tell(v)] \in HealthRecord
      BY <3>2, <3>6 DEF HealthRecord
    <3>8. health' \in [VM -> HealthRecord \cup {Absent}]
      BY <2>21, <3>7 DEF SaveTold, Shape, TypeOK
    <3> QED BY <2>21, <3>5, <3>8 DEF SaveTold, Shape, TypeOK, world
  <2>22. ASSUME NEW v \in VM, SaveToldFails(v) PROVE Shape'
    <3> DEFINE r == [IdleHandler EXCEPT !.pc = "reply", !.tell = Tell(v)]
    <3>1. h[v] \in Handler /\ HeldBy(h[v])
      BY DEF Shape, TypeOK, Held
    <3>2. Tell(v) \in Maybe
      BY <3>1 DEF Tell, Handler, Maybe
    <3>3. r \in Handler
      BY <3>1, <3>2 DEF Handler, Steps, IdleHandler, Maybe, RecordId, GroupId
    <3>4. HeldBy(r)
      BY <2>22, <3>1, <3>2 DEF SaveToldFails, At, HeldBy, Handler
    <3>5. h' \in [VM -> Handler] /\ Held'
      BY <2>22, <3>3, <3>4, HandlerStep DEF SaveToldFails
    <3>6. faults' \in 0..MaxFaults
      BY <2>22, MaxFaultsAssumption DEF SaveToldFails, Fault, Shape, TypeOK
    <3> QED BY <2>22, <3>5, <3>6 DEF SaveToldFails, Shape, TypeOK, tables
  <2>23. ASSUME NEW v \in VM, Reply(v) PROVE Shape'
    <3>1. IdleHandler \in Handler /\ HeldBy(IdleHandler)
      BY IdleHandlerType DEF HeldBy, IdleHandler
    <3>2. h' \in [VM -> Handler] /\ Held'
      BY <2>23, <3>1, HandlerStep DEF Reply
    <3>3. h[v].tell \in Maybe
      BY DEF Shape, TypeOK, Handler
    <3> QED BY <2>23, <3>2, <3>3 DEF Reply, Shape, TypeOK, tables
  <2>24. ASSUME NEW v \in VM, Crash(v) PROVE Shape'
    <3>1. IdleHandler \in Handler /\ HeldBy(IdleHandler)
      BY IdleHandlerType DEF HeldBy, IdleHandler
    <3>2. h' \in [VM -> Handler] /\ Held'
      BY <2>24, <3>1, HandlerStep DEF Crash
    <3>6. faults' \in 0..MaxFaults /\ lost' \subseteq VM
      BY <2>24, MaxFaultsAssumption DEF Crash, Fault, Shape, TypeOK
    <3> QED BY <2>24, <3>2, <3>6 DEF Crash, Shape, TypeOK, tables
  <2>25. ASSUME NEW v \in VM, Join(v) PROVE Shape'
    <3>1. Held'
      BY <2>25 DEF Join, Shape, Held
    <3> QED BY <2>25, <3>1, MaxFaultsAssumption DEF Join, Shape, TypeOK, tables
  <2>26. ASSUME NEW v \in VM, Leave(v) PROVE Shape'
    <3>1. Held'
      BY <2>26 DEF Leave, Shape, Held
    <3> QED BY <2>26, <3>1, MaxFaultsAssumption DEF Leave, Shape, TypeOK, tables, Fault
  <2>27. ASSUME NEW v \in VM, FallSilent(v) PROVE Shape'
    <3>1. Held'
      BY <2>27 DEF FallSilent, Shape, Held
    <3> QED BY <2>27, <3>1, MaxFaultsAssumption DEF FallSilent, Shape, TypeOK, tables, Fault
  <2>28. ASSUME NEW v \in VM, Boot(v) PROVE Shape'
    <3>1. Held'
      BY <2>28 DEF Boot, Shape, Held
    <3>2. PICK vm \in Maybe : device' = [device EXCEPT ![v] = vm]
      BY <2>28, PrimaryVmType DEF Boot, FirstPrimary, Shape, Maybe
    <3> QED BY <2>28, <3>1, <3>2 DEF Boot, Shape, TypeOK, tables
  <2>29. ASSUME NEW v \in VM, Reimage(v) PROVE Shape'
    <3>1. Held'
      BY <2>29 DEF Reimage, Shape, Held
    <3> QED BY <2>29, <3>1, MaxFaultsAssumption DEF Reimage, Shape, TypeOK, tables, Fault
  <2>30. CASE UNCHANGED vars
    BY <2>30 DEF Shape, TypeOK, Held, vars
  <2> QED
    BY <2>1, <2>2, <2>3, <2>4, <2>5, <2>6, <2>7, <2>8, <2>9, <2>10, <2>11, <2>12,
       <2>13, <2>14, <2>15, <2>16, <2>17, <2>18, <2>19, <2>20, <2>21, <2>22, <2>23,
       <2>24, <2>25, <2>26, <2>27, <2>28, <2>29, <2>30
       DEF Next, Run
<1> QED BY <1>1, <1>2, PTL DEF Spec

\* Every variable keeps its type.
THEOREM TypeCorrect == Spec => []TypeOK
<1>1. Shape => TypeOK
  BY DEF Shape
<1> QED BY <1>1, ShapeInductive, PTL

-----------------------------------------------------------------------------
\* What the choice of primaries rests on: every VM that an invocation has
\* found, elected or is about to tell comes from the preferred group.
Ours == Preferred \cup {None}

OursBy(r) ==
    /\ r.old \in Ours /\ r.fitOld \in Ours /\ r.new \in Ours /\ r.tell \in Ours
    /\ r.target # Absent => r.target.told \in Ours
    /\ r.record # Absent => r.record.vm \in Preferred

AllOurs == OnlyPreferred /\ \A v \in VM : OursBy(h[v])

LEMMA OursStep ==
    ASSUME Shape, AllOurs, NEW v \in VM, NEW r, OursBy(r), Becomes(v, r),
           UNCHANGED <<health, primary, device>>
    PROVE  AllOurs'
<1>1. \A w \in VM : OursBy(h'[w])
  BY DEF Shape, TypeOK, AllOurs, Becomes
<1> QED BY <1>1 DEF AllOurs, OnlyPreferred, OursBy, Ours

LEMMA PrimaryVmOurs ==
    ASSUME AllOurs
    PROVE  PrimaryVm \subseteq Ours
BY DEF PrimaryVm, Ours, Stored, AllOurs, OnlyPreferred

\* "Only vm in the specified byol scaling group can be elected as the new
\* primary", for all VMs, faults and scores.
THEOREM OnlyPreferredCorrect == Spec => []OnlyPreferred
<1>1. Init => AllOurs
  BY DEF Init, AllOurs, OnlyPreferred, OursBy, Ours, IdleHandler
<1>2. Shape /\ AllOurs /\ [Next]_vars => AllOurs'
  <2> SUFFICES ASSUME Shape, AllOurs, [Next]_vars PROVE AllOurs'
    OBVIOUS
  <2>0. OursBy(IdleHandler)
    BY DEF OursBy, Ours, IdleHandler
  <2>1. ASSUME NEW v \in VM, NEW late \in BOOLEAN, Receive(v, late) PROVE AllOurs'
    <3> DEFINE r == [IdleHandler EXCEPT !.pc = "sync", !.late = late, !.target = health[v],
                                        !.overdue = silent]
    <3>1. OursBy(r)
      BY DEF OursBy, Ours, IdleHandler, AllOurs, OnlyPreferred
    <3> QED BY <2>1, <3>1, OursStep DEF Receive, tables
  <2>2. ASSUME NEW v \in VM, Sync(v) PROVE AllOurs'
    <3>1. h[v] \in Handler /\ OursBy(h[v])
      BY DEF Shape, TypeOK, AllOurs
    <3>2. PICK rec \in HealthRecord :
             /\ SyncWrites(v, rec)
             /\ rec.told = IF h[v].target # Absent THEN h[v].target.told ELSE None
      BY <2>2, SyncEffect DEF Shape
    <3>3. rec.told \in Ours
      BY <3>1, <3>2 DEF OursBy, Ours
    <3>4. ASSUME NEW w \in VM PROVE OursBy(h'[w])
      <4>1. h[w] \in Handler /\ OursBy(h[w])
        BY DEF Shape, TypeOK, AllOurs
      <4>2. OursBy([h[w] EXCEPT !.overdue = @ \ {v}])
        BY <4>1 DEF OursBy, Handler
      <4>3. OursBy([h[v] EXCEPT !.pc = "readVm", !.target = rec, !.late = FALSE,
                                !.overdue = @ \ {v}])
        BY <3>1, <3>3 DEF OursBy, Handler
      <4> QED BY <2>0, <3>2, <4>2, <4>3 DEF SyncWrites
    <3>5. \A w \in VM : health'[w] # Absent => health'[w].told \in Ours
      BY <3>2, <3>3 DEF SyncWrites, Shape, TypeOK, AllOurs, OnlyPreferred, Ours
    <3>6. OnlyPreferred'
      BY <2>2, <3>5 DEF Sync, AllOurs, OnlyPreferred, Ours
    <3> QED BY <3>4, <3>6 DEF AllOurs, OursBy, Ours
  <2>3. ASSUME NEW v \in VM, SyncRefused(v) PROVE AllOurs'
    BY <2>0, <2>3, OursStep DEF SyncRefused, tables, world
  <2>4. ASSUME NEW v \in VM, ReadPrimaryVm(v) PROVE AllOurs'
    <3>1. h[v] \in Handler /\ OursBy(h[v])
      BY DEF Shape, TypeOK, AllOurs
    <3>2. PICK old \in Ours : Becomes(v, [h[v] EXCEPT !.pc = "readHealth", !.old = old])
      BY <2>4, PrimaryVmOurs DEF ReadPrimaryVm
    <3>3. OursBy([h[v] EXCEPT !.pc = "readHealth", !.old = old])
      BY <3>1 DEF OursBy, Handler
    <3> QED BY <2>4, <3>2, <3>3, OursStep DEF ReadPrimaryVm, tables, world
  <2>5. ASSUME NEW v \in VM, ReadPrimaryHealth(v) PROVE AllOurs'
    <3> DEFINE r == [h[v] EXCEPT !.pc = "readRecord", !.fitOld = FitOld(v)]
    <3>1. h[v] \in Handler /\ OursBy(h[v])
      BY DEF Shape, TypeOK, AllOurs
    <3>2. FitOld(v) \in Ours
      BY <3>1 DEF FitOld, OursBy, Ours
    <3>3. OursBy(r)
      BY <3>1, <3>2 DEF OursBy, Ours, Handler
    <3> QED BY <2>5, <3>3, OursStep DEF ReadPrimaryHealth, tables, world
  <2>6. ASSUME NEW v \in VM, ReadPrimaryRecord(v) PROVE AllOurs'
    <3>1. h[v] \in Handler /\ OursBy(h[v])
      BY DEF Shape, TypeOK, AllOurs
    <3>2. OursBy([h[v] EXCEPT !.pc = "stale"])
      BY <3>1 DEF OursBy, Handler
    <3>3. ASSUME NEW s \in Stored PROVE OursBy([h[v] EXCEPT !.pc = "judge", !.record = s])
      BY <3>1 DEF OursBy, Handler, Stored, AllOurs, OnlyPreferred
    <3>4. UNCHANGED <<health, primary, device>>
      BY <2>6 DEF ReadPrimaryRecord, tables, world
    <3>5. CASE Becomes(v, [h[v] EXCEPT !.pc = "stale"])
      BY <3>2, <3>4, <3>5, OursStep
    <3>6. ASSUME NEW s \in Stored, Becomes(v, [h[v] EXCEPT !.pc = "judge", !.record = s])
          PROVE  AllOurs'
      BY <3>3, <3>4, <3>6, OursStep
    <3> QED BY <2>6, <3>5, <3>6 DEF ReadPrimaryRecord
  <2>7. ASSUME NEW v \in VM, Judge(v) PROVE AllOurs'
    <3> DEFINE r == [h[v] EXCEPT !.pc = "assess", !.fitOld = FitOld(v), !.record = Absent]
               q == [h[v] EXCEPT !.pc = "deleteRead", !.fitOld = None]
    <3>1. h[v] \in Handler /\ OursBy(h[v])
      BY DEF Shape, TypeOK, AllOurs
    <3>2. FitOld(v) \in Ours
      BY <3>1 DEF FitOld, OursBy, Ours
    <3>3. OursBy(r) /\ OursBy(q)
      BY <3>1, <3>2 DEF OursBy, Ours, Handler
    <3>4. UNCHANGED <<health, primary, device>> /\ (Becomes(v, r) \/ Becomes(v, q))
      BY <2>7 DEF Judge, tables, world
    <3> QED BY <3>3, <3>4, OursStep
  <2>8. ASSUME NEW v \in VM, DeleteRead(v) PROVE AllOurs'
    <3> DEFINE r == [h[v] EXCEPT !.pc = "deleteWrite"]
               q == [h[v] EXCEPT !.pc = "stale"]
    <3>1. h[v] \in Handler /\ OursBy(h[v])
      BY DEF Shape, TypeOK, AllOurs
    <3>3. OursBy(r) /\ OursBy(q)
      BY <3>1 DEF OursBy, Ours, Handler
    <3>4. UNCHANGED <<health, primary, device>> /\ (Becomes(v, r) \/ Becomes(v, q))
      BY <2>8 DEF DeleteRead, tables, world
    <3> QED BY <3>3, <3>4, OursStep
  <2>9. ASSUME NEW v \in VM, DeleteWrite(v) PROVE AllOurs'
    <3> DEFINE r == [h[v] EXCEPT !.pc = "stale"]
    <3>1. h[v] \in Handler /\ OursBy(h[v])
      BY DEF Shape, TypeOK, AllOurs
    <3>3. OursBy(r)
      BY <3>1 DEF OursBy, Ours, Handler, IdleHandler
    <3>4. \A w \in VM : OursBy(h'[w])
      BY <2>9, <3>3 DEF DeleteWrite, Becomes, Shape, TypeOK, AllOurs
    <3>5. OnlyPreferred'
      BY <2>9, <3>1 DEF DeleteWrite, world, AllOurs, OnlyPreferred, Shape, TypeOK
    <3> QED BY <3>4, <3>5 DEF AllOurs, OursBy, Ours
  <2>10. ASSUME NEW v \in VM, HandleStaleVm(v) PROVE AllOurs'
    <3> DEFINE r == [h[v] EXCEPT !.pc = "elect", !.record = Absent]
    <3>1. h[v] \in Handler /\ OursBy(h[v])
      BY DEF Shape, TypeOK, AllOurs
    <3>3. OursBy(r)
      BY <3>1 DEF OursBy, Ours, Handler, IdleHandler
    <3>4. \A w \in VM : OursBy(h'[w])
      BY <2>10, <3>3 DEF HandleStaleVm, Becomes, Shape, TypeOK, AllOurs
    <3>5. OnlyPreferred'
      BY <2>10, <3>1 DEF HandleStaleVm, AllOurs, OnlyPreferred, Shape, TypeOK
    <3> QED BY <3>4, <3>5 DEF AllOurs, OursBy, Ours
  <2>11. ASSUME NEW v \in VM, HandleStaleVmFails(v) PROVE AllOurs'
    <3> DEFINE r == [h[v] EXCEPT !.pc = "assess", !.record = Absent]
    <3>1. h[v] \in Handler /\ OursBy(h[v])
      BY DEF Shape, TypeOK, AllOurs
    <3>3. OursBy(r)
      BY <3>1 DEF OursBy, Ours, Handler
    <3>4. \A w \in VM : OursBy(h'[w])
      BY <2>11, <3>3 DEF HandleStaleVmFails, Becomes, Shape, TypeOK, AllOurs
    <3>5. OnlyPreferred'
      BY <2>11, <3>1 DEF HandleStaleVmFails, AllOurs, OnlyPreferred, Shape, TypeOK
    <3> QED BY <3>4, <3>5 DEF AllOurs, OursBy, Ours
  <2>12. ASSUME NEW v \in VM,
               Elect(v) \/ \E slow \in SUBSET VM : ElectWithoutSlow(v, slow)
        PROVE AllOurs'
    <3>1. h[v] \in Handler /\ OursBy(h[v])
      BY DEF Shape, TypeOK, AllOurs
    <3>2. ClassicVerdict(v) \subseteq Ours
      BY DEF ClassicVerdict, Ours
    <3>3. ASSUME NEW slow PROVE Verdict(Candidates(v) \ slow) \subseteq Ours
      <4>1. Candidates(v) \ slow \in SUBSET VM /\ Candidates(v) \subseteq Preferred
        BY VMAssumption DEF Candidates
      <4>2. Verdict(Candidates(v) \ slow) \subseteq (Candidates(v) \ slow) \cup {None}
        BY <4>1, VerdictAssumption
      <4> QED BY <4>1, <4>2 DEF Ours
    <3>7. Verdict(Candidates(v)) \subseteq Ours
      <4>1. Candidates(v) \ {} = Candidates(v)
        OBVIOUS
      <4> QED BY <3>3, <4>1
    <3>8. PICK w \in Ours : TakeResult(v, w)
      BY <2>12, <3>2, <3>3, <3>7 DEF Elect, ElectWithoutSlow, Ours
    <3>4. UNCHANGED <<health, primary, device>>
      BY <2>12 DEF Elect, ElectWithoutSlow, tables, world
    <3>5. ASSUME NEW x \in Ours, NEW id,
                 Becomes(v, [h[v] EXCEPT !.pc = "saveGuard", !.new = x, !.newId = id])
          PROVE  AllOurs'
      <4>1. OursBy([h[v] EXCEPT !.pc = "saveGuard", !.new = x, !.newId = id])
        BY <3>1 DEF OursBy, Handler
      <4> QED BY <3>4, <3>5, <4>1, OursStep
    <3>6. CASE Becomes(v, [h[v] EXCEPT !.pc = "assess", !.old = None, !.fitOld = None])
      <4>1. OursBy([h[v] EXCEPT !.pc = "assess", !.old = None, !.fitOld = None])
        BY <3>1 DEF OursBy, Ours, Handler
      <4> QED BY <3>4, <3>6, <4>1, OursStep
    <3> QED BY <3>5, <3>6, <3>8 DEF TakeResult
  <2>13. ASSUME NEW v \in VM, SaveGuard(v) \/ SaveGuardFails(v) PROVE AllOurs'
    <3> DEFINE r == [h[v] EXCEPT !.pc = "saveRead"]
               q == [h[v] EXCEPT !.pc = "assess"]
    <3>1. h[v] \in Handler /\ OursBy(h[v])
      BY DEF Shape, TypeOK, AllOurs
    <3>3. OursBy(r) /\ OursBy(q)
      BY <3>1 DEF OursBy, Ours, Handler
    <3>4. UNCHANGED <<health, primary, device>> /\ (Becomes(v, r) \/ Becomes(v, q))
      BY <2>13 DEF SaveGuard, SaveGuardFails, tables, world
    <3> QED BY <3>3, <3>4, OursStep
  <2>14. ASSUME NEW v \in VM, SaveRead(v) PROVE AllOurs'
    <3> DEFINE r == [h[v] EXCEPT !.pc = "saveWrite", !.snap = primary[h[v].newId]]
    <3>1. h[v] \in Handler /\ OursBy(h[v])
      BY DEF Shape, TypeOK, AllOurs
    <3>3. OursBy(r)
      BY <3>1 DEF OursBy, Ours, Handler
    <3> QED BY <2>14, <3>3, OursStep DEF SaveRead, tables, world
  <2>15. ASSUME NEW v \in VM, SaveWrite(v) PROVE AllOurs'
    <3> DEFINE r == [h[v] EXCEPT !.pc = "assess", !.snap = Absent]
    <3>1. h[v] \in Handler /\ OursBy(h[v])
      BY DEF Shape, TypeOK, AllOurs
    <3>2. h[v].new \in Preferred
      BY <2>15, <3>1 DEF SaveWrite, At, Shape, Held, HeldBy, OursBy, Ours
    <3>3. OursBy(r)
      BY <3>1, <3>2 DEF OursBy, Ours, Handler, IdleHandler
    <3>4. \A w \in VM : OursBy(h'[w])
      BY <2>15, <3>3 DEF SaveWrite, Becomes, Shape, TypeOK, AllOurs
    <3>5. OnlyPreferred'
      BY <2>15, <3>1, <3>2 DEF SaveWrite, world, AllOurs, OnlyPreferred, Shape, TypeOK
    <3> QED BY <3>4, <3>5 DEF AllOurs, OursBy, Ours
  <2>16. ASSUME NEW v \in VM, SaveWriteFails(v) PROVE AllOurs'
    <3> DEFINE r == [h[v] EXCEPT !.pc = "assess", !.snap = Absent]
    <3>1. h[v] \in Handler /\ OursBy(h[v])
      BY DEF Shape, TypeOK, AllOurs
    <3>3. OursBy(r)
      BY <3>1 DEF OursBy, Ours, Handler
    <3> QED BY <2>16, <3>3, OursStep DEF SaveWriteFails, tables, world
  <2>17. ASSUME NEW v \in VM, Assess(v) \/ AssessSlow(v) PROVE AllOurs'
    <3>1. h[v] \in Handler /\ OursBy(h[v])
      BY DEF Shape, TypeOK, AllOurs
    <3>2. PICK step, doomed : Becomes(v, [h[v] EXCEPT !.pc = step, !.doomed = doomed])
      BY <2>17 DEF Assess, AssessSlow, Condemn
    <3>3. OursBy([h[v] EXCEPT !.pc = step, !.doomed = doomed])
      BY <3>1 DEF OursBy, Handler
    <3> QED BY <2>17, <3>2, <3>3, OursStep DEF Assess, AssessSlow, tables, world
  <2>18. ASSUME NEW v \in VM, Cull(v) PROVE AllOurs'
    <3> DEFINE r == [h[v] EXCEPT !.pc = "drop"]
    <3>1. h[v] \in Handler /\ OursBy(h[v])
      BY DEF Shape, TypeOK, AllOurs
    <3>3. OursBy(r)
      BY <3>1 DEF OursBy, Ours, Handler
    <3> QED BY <2>18, <3>3, OursStep DEF Cull, tables
  <2>19. ASSUME NEW v \in VM, Drop(v) PROVE AllOurs'
    <3> DEFINE r == [h[v] EXCEPT !.pc = "answer", !.doomed = {}]
    <3>1. h[v] \in Handler /\ OursBy(h[v])
      BY DEF Shape, TypeOK, AllOurs
    <3>3. OursBy(r)
      BY <3>1 DEF OursBy, Ours, Handler, IdleHandler
    <3>4. \A w \in VM : OursBy(h'[w])
      BY <2>19, <3>3 DEF Drop, Becomes, Shape, TypeOK, AllOurs
    <3>5. OnlyPreferred'
      BY <2>19, <3>1 DEF Drop, AllOurs, OnlyPreferred, Shape, TypeOK
    <3> QED BY <3>4, <3>5 DEF AllOurs, OursBy, Ours
  <2>20. ASSUME NEW v \in VM, NothingToTell(v) \/ PrimaryIsSlow(v) PROVE AllOurs'
    BY <2>0, <2>20, OursStep DEF NothingToTell, PrimaryIsSlow, tables, world
  <2>21. ASSUME NEW v \in VM, SaveTold(v) PROVE AllOurs'
    <3> DEFINE r == [IdleHandler EXCEPT !.pc = "reply", !.tell = Tell(v)]
               rec == [h[v].target EXCEPT !.told = Tell(v)]
    <3>1. h[v] \in Handler /\ OursBy(h[v])
      BY DEF Shape, TypeOK, AllOurs
    <3>2. Tell(v) \in Ours
      BY <3>1 DEF Tell, OursBy, Ours
    <3>3. OursBy(r)
      BY <3>2 DEF OursBy, Ours, IdleHandler
    <3>4. h[v].target \in HealthRecord
      BY <2>21, <3>1 DEF SaveTold, At, Shape, Held, HeldBy, Handler
    <3>5. rec.told \in Ours
      BY <3>2, <3>4 DEF HealthRecord
    <3>6. \A w \in VM : health'[w] # Absent => health'[w].told \in Ours
      BY <2>21, <3>5 DEF SaveTold, Shape, TypeOK, AllOurs, OnlyPreferred, Ours
    <3>7. \A w \in VM : OursBy(h'[w])
      BY <2>21, <3>3 DEF SaveTold, Becomes, Shape, TypeOK, AllOurs
    <3>8. OnlyPreferred'
      BY <2>21, <3>6 DEF SaveTold, world, AllOurs, OnlyPreferred, Ours
    <3> QED BY <3>7, <3>8 DEF AllOurs, OursBy, Ours
  <2>22. ASSUME NEW v \in VM, SaveToldFails(v) PROVE AllOurs'
    <3> DEFINE r == [IdleHandler EXCEPT !.pc = "reply", !.tell = Tell(v)]
    <3>1. OursBy(h[v])
      BY DEF AllOurs
    <3>2. Tell(v) \in Ours
      BY <3>1 DEF Tell, OursBy, Ours
    <3>3. OursBy(r)
      BY <3>2 DEF OursBy, Ours, IdleHandler
    <3> QED BY <2>22, <3>3, OursStep DEF SaveToldFails, tables
  <2>23. ASSUME NEW v \in VM, Reply(v) PROVE AllOurs'
    <3>1. h[v].tell \in Ours
      BY DEF AllOurs, OursBy
    <3>2. \A w \in VM : OursBy(h'[w])
      BY <2>0, <2>23 DEF Reply, Becomes, Shape, TypeOK, AllOurs
    <3>3. OnlyPreferred'
      BY <2>23, <3>1 DEF Reply, tables, AllOurs, OnlyPreferred, Ours, Shape, TypeOK
    <3> QED BY <3>2, <3>3 DEF AllOurs, OursBy, Ours
  <2>24. ASSUME NEW v \in VM, Crash(v) PROVE AllOurs'
    BY <2>0, <2>24, OursStep DEF Crash, tables
  <2>25. ASSUME NEW v \in VM, Join(v) PROVE AllOurs'
    BY <2>25 DEF Join, tables, AllOurs, OnlyPreferred, OursBy, Ours
  <2>26. ASSUME NEW v \in VM, Leave(v) PROVE AllOurs'
    BY <2>26 DEF Leave, tables, AllOurs, OnlyPreferred, OursBy, Ours
  <2>27. ASSUME NEW v \in VM, FallSilent(v) PROVE AllOurs'
    BY <2>27 DEF FallSilent, tables, AllOurs, OnlyPreferred, OursBy, Ours
  <2>28. ASSUME NEW v \in VM, Boot(v) PROVE AllOurs'
    <3>1. PICK vm \in Ours : device' = [device EXCEPT ![v] = vm]
      BY <2>28, PrimaryVmOurs DEF Boot, FirstPrimary, Ours
    <3>2. OnlyPreferred'
      BY <2>28, <3>1 DEF Boot, tables, AllOurs, OnlyPreferred, Ours, Shape, TypeOK
    <3> QED BY <2>28, <3>2 DEF Boot, AllOurs, OursBy, Ours
  <2>29. ASSUME NEW v \in VM, Reimage(v) PROVE AllOurs'
    <3>1. OnlyPreferred'
      BY <2>29 DEF Reimage, tables, AllOurs, OnlyPreferred, Shape, TypeOK
    <3> QED BY <2>29, <3>1 DEF Reimage, AllOurs, OursBy, Ours
  <2>30. CASE UNCHANGED vars
    BY <2>30 DEF vars, AllOurs, OnlyPreferred, OursBy, Ours
  <2> QED
    BY <2>1, <2>2, <2>3, <2>4, <2>5, <2>6, <2>7, <2>8, <2>9, <2>10, <2>11, <2>12,
       <2>13, <2>14, <2>15, <2>16, <2>17, <2>18, <2>19, <2>20, <2>21, <2>22, <2>23,
       <2>24, <2>25, <2>26, <2>27, <2>28, <2>29, <2>30
       DEF Next, Run
<1>3. AllOurs => OnlyPreferred
  BY DEF AllOurs
<1> QED BY <1>1, <1>2, <1>3, ShapeInductive, PTL DEF Spec

-----------------------------------------------------------------------------
\* Between the two ends of handling a heartbeat: what the invocation has read
\* is as true of the device as the record is, and once the new address is
\* saved, the answer that is under way carries it.
InStep(v, r) ==
    /\ r.target # Absent => r.target.told \in {device[v], None}
    /\ health[v] # Absent =>
          IF r.pc = "reply" THEN health[v].told = r.tell
          ELSE health[v].told \in {device[v], None}

Tracks == \A v \in VM \ lost : InStep(v, h[v])

\* A step of v's invocation that writes no health check record, though it may
\* delete some, and that tells the device nothing.
LEMMA QuietStep ==
    ASSUME Shape, Tracks, NEW v \in VM, NEW r, Becomes(v, r),
           h[v].pc # "reply", r.pc # "reply",
           r.target \in {h[v].target, health[v], Absent},
           device' = device, lost' = lost,
           \A w \in VM : health'[w] \in {health[w], Absent}
    PROVE  Tracks'
<1>1. ASSUME NEW w \in VM \ lost PROVE InStep(w, h[w])'
  <2>1. InStep(w, h[w])
    BY DEF Tracks
  <2>2. h'[w] = IF w = v THEN r ELSE h[w]
    BY DEF Becomes, Shape, TypeOK
  <2>3. health'[w] \in {health[w], Absent}
    OBVIOUS
  <2> QED BY <2>1, <2>2, <2>3 DEF InStep
<1> QED BY <1>1 DEF Tracks

\* A step that leaves the records and the devices alone, and after which v
\* need not be in step.
LEMMA LosingStep ==
    ASSUME Shape, Tracks, NEW v \in VM, NEW r, Becomes(v, r),
           UNCHANGED <<health, device>>, lost' = lost \cup {v}
    PROVE  Tracks'
<1>1. ASSUME NEW w \in VM \ lost' PROVE InStep(w, h[w])'
  <2>1. w \in VM \ lost /\ w # v
    OBVIOUS
  <2>2. h'[w] = h[w] /\ InStep(w, h[w])
    BY <2>1 DEF Becomes, Shape, TypeOK, Tracks
  <2> QED BY <2>2 DEF InStep
<1> QED BY <1>1 DEF Tracks

\* The record decides whether a VM is told again, and it never claims that the
\* device has an address it was not given, unless a fault hit in between.
THEOREM RecordTracksDeviceCorrect == Spec => []RecordTracksDevice
<1>1. Init => Tracks
  BY DEF Init, Tracks, InStep, IdleHandler
<1>2. Shape /\ Tracks /\ [Next]_vars => Tracks'
  <2> SUFFICES ASSUME Shape, Tracks, [Next]_vars PROVE Tracks'
    OBVIOUS
  <2>1. ASSUME NEW v \in VM, NEW late \in BOOLEAN, Receive(v, late) PROVE Tracks'
    <3> DEFINE r == [IdleHandler EXCEPT !.pc = "sync", !.late = late, !.target = health[v],
                                        !.overdue = silent]
    <3>1. h[v] \in Handler /\ h[v].pc # "reply"
      BY <2>1 DEF Receive, At, Shape, TypeOK
    <3>2. r.pc # "reply" /\ r.target = health[v]
      BY <3>1 DEF Handler, IdleHandler
    <3>3. /\ Becomes(v, r)
          /\ device' = device /\ lost' = lost
          /\ \A w \in VM : health'[w] \in {health[w], Absent}
      BY <2>1 DEF Receive, tables, world, Shape, TypeOK
    <3> HIDE DEF r
    <3> QED BY <3>1, <3>2, <3>3, QuietStep
  <2>2. ASSUME NEW v \in VM, Sync(v) PROVE Tracks'
    <3>1. PICK rec \in HealthRecord :
             /\ SyncWrites(v, rec)
             /\ rec.told = IF h[v].target # Absent THEN h[v].target.told ELSE None
      BY <2>2, SyncEffect DEF Shape
    <3>2. h[v].pc = "sync" /\ h[v] \in Handler /\ UNCHANGED <<device, lost>>
      BY <2>2 DEF Sync, At, Shape, TypeOK
    <3>3. v \notin lost => rec.told \in {device[v], None}
      BY <3>1 DEF Tracks, InStep
    <3> DEFINE r == [h[v] EXCEPT !.pc = "readVm", !.target = rec, !.late = FALSE,
                                 !.overdue = @ \ {v}]
    <3>4. r.pc = "readVm" /\ r.target = rec
      BY <3>2 DEF Handler
    <3>5. IdleHandler.pc = "idle" /\ IdleHandler.target = Absent
      BY DEF IdleHandler
    <3>6. /\ h'[v] \in {r, IdleHandler} /\ health'[v] = rec
          /\ \A w \in VM \ {v} : /\ h'[w] = [h[w] EXCEPT !.overdue = @ \ {v}]
                                 /\ health'[w] = health[w]
      BY <3>1 DEF SyncWrites, Shape, TypeOK
    <3> HIDE DEF r
    <3>7. v \notin lost => InStep(v, h[v])'
      BY <3>2, <3>3, <3>4, <3>5, <3>6 DEF InStep
    <3>8. ASSUME NEW w \in VM \ lost, w # v PROVE InStep(w, h[w])'
      <4>1. h[w] \in Handler /\ InStep(w, h[w])
        BY DEF Shape, TypeOK, Tracks
      <4> DEFINE q == [h[w] EXCEPT !.overdue = @ \ {v}]
      <4>2. q.pc = h[w].pc /\ q.target = h[w].target /\ q.tell = h[w].tell
        BY <4>1 DEF Handler
      <4>3. h'[w] = q /\ health'[w] = health[w]
        BY <3>6, <3>8
      <4> HIDE DEF q
      <4> QED BY <3>2, <4>1, <4>2, <4>3 DEF InStep
    <3> QED BY <3>2, <3>7, <3>8 DEF Tracks
  <2>3. ASSUME NEW v \in VM, SyncRefused(v) PROVE Tracks'
    <3>1. h[v].pc # "reply"
      BY <2>3 DEF SyncRefused, At
    <3>2. IdleHandler.pc # "reply" /\ IdleHandler.target = Absent
      BY DEF IdleHandler
    <3>3. Becomes(v, IdleHandler) /\ UNCHANGED <<health, device, lost>>
      BY <2>3 DEF SyncRefused, tables, world
    <3> QED BY <3>1, <3>2, <3>3, QuietStep
  <2>4. ASSUME NEW v \in VM, ReadPrimaryVm(v) PROVE Tracks'
    <3>1. h[v] \in Handler /\ h[v].pc # "reply"
      BY <2>4 DEF ReadPrimaryVm, At, Shape, TypeOK
    <3>2. ASSUME NEW old, Becomes(v, [h[v] EXCEPT !.pc = "readHealth", !.old = old])
          PROVE  Tracks'
      <4> DEFINE r == [h[v] EXCEPT !.pc = "readHealth", !.old = old]
      <4>1. r.pc # "reply" /\ r.target = h[v].target
        BY <3>1, <3>2 DEF Handler
      <4>2. UNCHANGED <<health, device, lost>>
        BY <2>4 DEF ReadPrimaryVm, tables, world
      <4> HIDE DEF r
      <4> QED BY <3>1, <3>2, <4>1, <4>2, QuietStep DEF r
    <3> QED BY <2>4, <3>2 DEF ReadPrimaryVm
  <2>5. ASSUME NEW v \in VM, ReadPrimaryHealth(v) PROVE Tracks'
    <3> DEFINE r == [h[v] EXCEPT !.pc = "readRecord", !.fitOld = FitOld(v)]
    <3>1. h[v] \in Handler /\ h[v].pc # "reply"
      BY <2>5 DEF ReadPrimaryHealth, At, Shape, TypeOK
    <3>2. r.pc # "reply" /\ r.target = h[v].target
      BY <3>1 DEF Handler
    <3>3. /\ Becomes(v, r)
          /\ device' = device /\ lost' = lost
          /\ \A w \in VM : health'[w] \in {health[w], Absent}
      BY <2>5 DEF ReadPrimaryHealth, tables, world, Shape, TypeOK
    <3> HIDE DEF r
    <3> QED BY <3>1, <3>2, <3>3, QuietStep
  <2>6. ASSUME NEW v \in VM, ReadPrimaryRecord(v) PROVE Tracks'
    <3>1. h[v] \in Handler /\ h[v].pc # "reply"
      BY <2>6 DEF ReadPrimaryRecord, At, Shape, TypeOK
    <3>2. UNCHANGED <<health, device, lost>>
      BY <2>6 DEF ReadPrimaryRecord, tables, world
    <3>3. ASSUME NEW r, Becomes(v, r), r.pc # "reply", r.target = h[v].target
          PROVE  Tracks'
      BY <3>1, <3>2, <3>3, QuietStep
    <3> DEFINE q == [h[v] EXCEPT !.pc = "stale"]
               j(s) == [h[v] EXCEPT !.pc = "judge", !.record = s]
    <3>4. q.pc # "reply" /\ q.target = h[v].target
      BY <3>1 DEF Handler
    <3>5. \A s : j(s).pc # "reply" /\ j(s).target = h[v].target
      BY <3>1 DEF Handler
    <3>6. Becomes(v, q) \/ \E s \in Stored : Becomes(v, j(s))
      BY <2>6 DEF ReadPrimaryRecord
    <3> HIDE DEF q, j
    <3> QED BY <3>3, <3>4, <3>5, <3>6
  <2>7. ASSUME NEW v \in VM, Judge(v) PROVE Tracks'
    <3> DEFINE r == [h[v] EXCEPT !.pc = "assess", !.fitOld = FitOld(v), !.record = Absent]
               q == [h[v] EXCEPT !.pc = "deleteRead", !.fitOld = None]
    <3>1. h[v] \in Handler /\ h[v].pc # "reply"
      BY <2>7 DEF Judge, At, Shape, TypeOK
    <3>2. r.pc # "reply" /\ r.target = h[v].target /\ q.pc # "reply" /\ q.target = h[v].target
      BY <3>1 DEF Handler
    <3>3. /\ Becomes(v, r) \/ Becomes(v, q)
          /\ device' = device /\ lost' = lost
          /\ \A w \in VM : health'[w] \in {health[w], Absent}
      BY <2>7 DEF Judge, tables, world, Shape, TypeOK
    <3> HIDE DEF r, q
    <3> QED BY <3>1, <3>2, <3>3, QuietStep
  <2>8. ASSUME NEW v \in VM, DeleteRead(v) PROVE Tracks'
    <3> DEFINE r == [h[v] EXCEPT !.pc = "deleteWrite"]
               q == [h[v] EXCEPT !.pc = "stale"]
    <3>1. h[v] \in Handler /\ h[v].pc # "reply"
      BY <2>8 DEF DeleteRead, At, Shape, TypeOK
    <3>2. r.pc # "reply" /\ r.target = h[v].target /\ q.pc # "reply" /\ q.target = h[v].target
      BY <3>1 DEF Handler
    <3>3. /\ Becomes(v, r) \/ Becomes(v, q)
          /\ device' = device /\ lost' = lost
          /\ \A w \in VM : health'[w] \in {health[w], Absent}
      BY <2>8 DEF DeleteRead, tables, world, Shape, TypeOK
    <3> HIDE DEF r, q
    <3> QED BY <3>1, <3>2, <3>3, QuietStep
  <2>9. ASSUME NEW v \in VM, DeleteWrite(v) PROVE Tracks'
    <3> DEFINE r == [h[v] EXCEPT !.pc = "stale"]
    <3>1. h[v] \in Handler /\ h[v].pc # "reply"
      BY <2>9 DEF DeleteWrite, At, Shape, TypeOK
    <3>2. r.pc # "reply" /\ r.target = h[v].target
      BY <3>1 DEF Handler
    <3>3. /\ Becomes(v, r)
          /\ device' = device /\ lost' = lost
          /\ \A w \in VM : health'[w] \in {health[w], Absent}
      BY <2>9 DEF DeleteWrite, tables, world, Shape, TypeOK
    <3> HIDE DEF r
    <3> QED BY <3>1, <3>2, <3>3, QuietStep
  <2>10. ASSUME NEW v \in VM, HandleStaleVm(v) PROVE Tracks'
    <3> DEFINE r == [h[v] EXCEPT !.pc = "elect", !.record = Absent]
    <3>1. h[v] \in Handler /\ h[v].pc # "reply"
      BY <2>10 DEF HandleStaleVm, At, Shape, TypeOK
    <3>2. r.pc # "reply" /\ r.target = h[v].target
      BY <3>1 DEF Handler
    <3>3. /\ Becomes(v, r)
          /\ device' = device /\ lost' = lost
          /\ \A w \in VM : health'[w] \in {health[w], Absent}
      BY <2>10 DEF HandleStaleVm, tables, world, Shape, TypeOK
    <3> HIDE DEF r
    <3> QED BY <3>1, <3>2, <3>3, QuietStep
  <2>11. ASSUME NEW v \in VM, HandleStaleVmFails(v) PROVE Tracks'
    <3> DEFINE r == [h[v] EXCEPT !.pc = "assess", !.record = Absent]
    <3>1. h[v] \in Handler /\ h[v].pc # "reply"
      BY <2>11 DEF HandleStaleVmFails, At, Shape, TypeOK
    <3>2. r.pc # "reply" /\ r.target = h[v].target
      BY <3>1 DEF Handler
    <3>3. /\ Becomes(v, r)
          /\ device' = device /\ lost' = lost
          /\ \A w \in VM : health'[w] \in {health[w], Absent}
      BY <2>11 DEF HandleStaleVmFails, tables, world, Shape, TypeOK
    <3> HIDE DEF r
    <3> QED BY <3>1, <3>2, <3>3, QuietStep
  <2>12. ASSUME NEW v \in VM,
               Elect(v) \/ \E slow \in SUBSET VM : ElectWithoutSlow(v, slow)
        PROVE Tracks'
    <3>1. h[v] \in Handler /\ h[v].pc # "reply"
      BY <2>12 DEF Elect, ElectWithoutSlow, At, Shape, TypeOK
    <3>2. UNCHANGED <<health, device, lost>>
      BY <2>12 DEF Elect, ElectWithoutSlow, tables, world
    <3>3. ASSUME NEW r, Becomes(v, r), r.pc # "reply", r.target = h[v].target
          PROVE  Tracks'
      BY <3>1, <3>2, <3>3, QuietStep
    <3> DEFINE q == [h[v] EXCEPT !.pc = "assess", !.old = None, !.fitOld = None]
               e(w, id) == [h[v] EXCEPT !.pc = "saveGuard", !.new = w, !.newId = id]
    <3>4. q.pc # "reply" /\ q.target = h[v].target
      BY <3>1 DEF Handler
    <3>5. \A w, id : e(w, id).pc # "reply" /\ e(w, id).target = h[v].target
      BY <3>1 DEF Handler
    <3>6. Becomes(v, q) \/ \E w, id : Becomes(v, e(w, id))
      BY <2>12 DEF Elect, ElectWithoutSlow, TakeResult
    <3> HIDE DEF q, e
    <3> QED BY <3>3, <3>4, <3>5, <3>6
  <2>13. ASSUME NEW v \in VM, SaveGuard(v) \/ SaveGuardFails(v) PROVE Tracks'
    <3> DEFINE r == [h[v] EXCEPT !.pc = "saveRead"]
               q == [h[v] EXCEPT !.pc = "assess"]
    <3>1. h[v] \in Handler /\ h[v].pc # "reply"
      BY <2>13 DEF SaveGuard, SaveGuardFails, At, Shape, TypeOK
    <3>2. r.pc # "reply" /\ r.target = h[v].target /\ q.pc # "reply" /\ q.target = h[v].target
      BY <3>1 DEF Handler
    <3>3. /\ Becomes(v, r) \/ Becomes(v, q)
          /\ device' = device /\ lost' = lost
          /\ \A w \in VM : health'[w] \in {health[w], Absent}
      BY <2>13 DEF SaveGuard, SaveGuardFails, tables, world, Shape, TypeOK
    <3> HIDE DEF r, q
    <3> QED BY <3>1, <3>2, <3>3, QuietStep
  <2>14. ASSUME NEW v \in VM, SaveRead(v) PROVE Tracks'
    <3> DEFINE r == [h[v] EXCEPT !.pc = "saveWrite", !.snap = primary[h[v].newId]]
    <3>1. h[v] \in Handler /\ h[v].pc # "reply"
      BY <2>14 DEF SaveRead, At, Shape, TypeOK
    <3>2. r.pc # "reply" /\ r.target = h[v].target
      BY <3>1 DEF Handler
    <3>3. /\ Becomes(v, r)
          /\ device' = device /\ lost' = lost
          /\ \A w \in VM : health'[w] \in {health[w], Absent}
      BY <2>14 DEF SaveRead, tables, world, Shape, TypeOK
    <3> HIDE DEF r
    <3> QED BY <3>1, <3>2, <3>3, QuietStep
  <2>15. ASSUME NEW v \in VM, SaveWrite(v) PROVE Tracks'
    <3> DEFINE r == [h[v] EXCEPT !.pc = "assess", !.snap = Absent]
    <3>1. h[v] \in Handler /\ h[v].pc # "reply"
      BY <2>15 DEF SaveWrite, At, Shape, TypeOK
    <3>2. r.pc # "reply" /\ r.target = h[v].target
      BY <3>1 DEF Handler
    <3>3. /\ Becomes(v, r)
          /\ device' = device /\ lost' = lost
          /\ \A w \in VM : health'[w] \in {health[w], Absent}
      BY <2>15 DEF SaveWrite, tables, world, Shape, TypeOK
    <3> HIDE DEF r
    <3> QED BY <3>1, <3>2, <3>3, QuietStep
  <2>16. ASSUME NEW v \in VM, SaveWriteFails(v) PROVE Tracks'
    <3> DEFINE r == [h[v] EXCEPT !.pc = "assess", !.snap = Absent]
    <3>1. h[v] \in Handler /\ h[v].pc # "reply"
      BY <2>16 DEF SaveWriteFails, At, Shape, TypeOK
    <3>2. r.pc # "reply" /\ r.target = h[v].target
      BY <3>1 DEF Handler
    <3>3. /\ Becomes(v, r)
          /\ device' = device /\ lost' = lost
          /\ \A w \in VM : health'[w] \in {health[w], Absent}
      BY <2>16 DEF SaveWriteFails, tables, world, Shape, TypeOK
    <3> HIDE DEF r
    <3> QED BY <3>1, <3>2, <3>3, QuietStep
  <2>17. ASSUME NEW v \in VM, Assess(v) \/ AssessSlow(v) PROVE Tracks'
    <3>1. h[v] \in Handler /\ h[v].pc # "reply"
      BY <2>17 DEF Assess, AssessSlow, At, Shape, TypeOK
    <3>2. ASSUME NEW step \in {"cull", "answer"}, NEW doomed, Becomes(v, [h[v] EXCEPT !.pc = step, !.doomed = doomed])
          PROVE  Tracks'
      <4> DEFINE r == [h[v] EXCEPT !.pc = step, !.doomed = doomed]
      <4>1. r.pc # "reply" /\ r.target = h[v].target
        BY <3>1, <3>2 DEF Handler
      <4>2. UNCHANGED <<health, device, lost>>
        BY <2>17 DEF Assess, AssessSlow, tables, world
      <4> HIDE DEF r
      <4> QED BY <3>1, <3>2, <4>1, <4>2, QuietStep DEF r
    <3> QED BY <2>17, <3>2 DEF Assess, AssessSlow, Condemn
  <2>18. ASSUME NEW v \in VM, Cull(v) PROVE Tracks'
    <3> DEFINE r == [h[v] EXCEPT !.pc = "drop"]
    <3>1. h[v] \in Handler /\ h[v].pc # "reply"
      BY <2>18 DEF Cull, At, Shape, TypeOK
    <3>2. r.pc # "reply" /\ r.target = h[v].target
      BY <3>1 DEF Handler
    <3>3. /\ Becomes(v, r)
          /\ device' = device /\ lost' = lost
          /\ \A w \in VM : health'[w] \in {health[w], Absent}
      BY <2>18 DEF Cull, tables, world, Shape, TypeOK
    <3> HIDE DEF r
    <3> QED BY <3>1, <3>2, <3>3, QuietStep
  <2>19. ASSUME NEW v \in VM, Drop(v) PROVE Tracks'
    <3> DEFINE r == [h[v] EXCEPT !.pc = "answer", !.doomed = {}]
    <3>1. h[v] \in Handler /\ h[v].pc # "reply"
      BY <2>19 DEF Drop, At, Shape, TypeOK
    <3>2. r.pc # "reply" /\ r.target = h[v].target
      BY <3>1 DEF Handler
    <3>3. /\ Becomes(v, r)
          /\ device' = device /\ lost' = lost
          /\ \A w \in VM : health'[w] \in {health[w], Absent}
      BY <2>19 DEF Drop, tables, world, Shape, TypeOK
    <3> HIDE DEF r
    <3> QED BY <3>1, <3>2, <3>3, QuietStep
  <2>20. ASSUME NEW v \in VM, NothingToTell(v) \/ PrimaryIsSlow(v) PROVE Tracks'
    <3>1. h[v].pc # "reply"
      BY <2>20 DEF NothingToTell, PrimaryIsSlow, At
    <3>2. IdleHandler.pc # "reply" /\ IdleHandler.target = Absent
      BY DEF IdleHandler
    <3>3. Becomes(v, IdleHandler) /\ UNCHANGED <<health, device, lost>>
      BY <2>20 DEF NothingToTell, PrimaryIsSlow, tables, world
    <3> QED BY <3>1, <3>2, <3>3, QuietStep
  <2>21. ASSUME NEW v \in VM, SaveTold(v) PROVE Tracks'
    <3> DEFINE r == [IdleHandler EXCEPT !.pc = "reply", !.tell = Tell(v)]
               rec == [h[v].target EXCEPT !.told = Tell(v)]
    <3>1. h[v] \in Handler /\ h[v].pc = "answer" /\ h[v].target \in HealthRecord
      BY <2>21 DEF SaveTold, At, Shape, TypeOK, Held, HeldBy, Handler
    <3>2. r.pc = "reply" /\ r.target = Absent /\ r.tell = Tell(v)
      BY DEF IdleHandler
    <3>3. rec.told = Tell(v)
      BY <3>1 DEF HealthRecord
    <3>4. /\ h' = [h EXCEPT ![v] = r] /\ UNCHANGED <<device, lost>>
          /\ \/ health' = [health EXCEPT ![v] = rec]
             \/ health[v] = Absent /\ health' = health
      BY <2>21 DEF SaveTold, Becomes, world
    <3> HIDE DEF r, rec
    <3>5. InStep(v, h[v])'
      BY <3>2, <3>3, <3>4 DEF InStep, Shape, TypeOK
    <3>6. ASSUME NEW w \in VM \ lost, w # v PROVE InStep(w, h[w])'
      <4>1. h'[w] = h[w] /\ health'[w] = health[w] /\ InStep(w, h[w])
        BY <3>4, <3>6 DEF Shape, TypeOK, Tracks
      <4> QED BY <3>4, <4>1 DEF InStep
    <3> QED BY <3>4, <3>5, <3>6 DEF Tracks
  <2>22. ASSUME NEW v \in VM, SaveToldFails(v) PROVE Tracks'
    BY <2>22, LosingStep DEF SaveToldFails, tables
  <2>23. ASSUME NEW v \in VM, Reply(v) PROVE Tracks'
    <3>1. h[v].pc = "reply" /\ h' = [h EXCEPT ![v] = IdleHandler]
      BY <2>23 DEF Reply, At, Becomes
    <3>2. device' = [device EXCEPT ![v] = h[v].tell] /\ UNCHANGED <<health, lost>>
      BY <2>23 DEF Reply, tables
    <3>3. IdleHandler.pc = "idle" /\ IdleHandler.target = Absent
      BY DEF IdleHandler
    <3>4. v \notin lost => InStep(v, h[v])'
      BY <3>1, <3>2, <3>3 DEF InStep, Shape, TypeOK, Tracks
    <3>5. ASSUME NEW w \in VM \ lost, w # v PROVE InStep(w, h[w])'
      <4>1. h'[w] = h[w] /\ device'[w] = device[w] /\ InStep(w, h[w])
        BY <3>1, <3>2, <3>5 DEF Shape, TypeOK, Tracks
      <4> QED BY <3>2, <4>1 DEF InStep
    <3> QED BY <3>2, <3>4, <3>5 DEF Tracks
  <2>24. ASSUME NEW v \in VM, Crash(v) PROVE Tracks'
    <3>1. Becomes(v, IdleHandler) /\ UNCHANGED <<health, device>>
      BY <2>24 DEF Crash, tables
    <3>2. IdleHandler.pc # "reply" /\ IdleHandler.target = Absent
      BY DEF IdleHandler
    <3>3. CASE h[v].pc = "reply"
      BY <2>24, <3>1, <3>3, LosingStep DEF Crash, At
    <3>4. CASE h[v].pc # "reply"
      BY <2>24, <3>1, <3>2, <3>4, QuietStep DEF Crash, At
    <3> QED BY <3>3, <3>4
  <2>25. ASSUME NEW v \in VM, Join(v) PROVE Tracks'
    BY <2>25 DEF Join, tables, Tracks, InStep
  <2>26. ASSUME NEW v \in VM, Leave(v) PROVE Tracks'
    BY <2>26 DEF Leave, tables, Tracks, InStep
  <2>27. ASSUME NEW v \in VM, FallSilent(v) PROVE Tracks'
    BY <2>27 DEF FallSilent, tables, Tracks, InStep
  <2>28. ASSUME NEW v \in VM, Boot(v) PROVE Tracks'
    <3>1. ASSUME NEW w \in VM \ lost PROVE InStep(w, h[w])'
      <4>1. CASE w # v
        BY <2>28, <4>1 DEF Boot, tables, Tracks, InStep, Shape, TypeOK
      <4>2. CASE w = v
        <5>1. /\ h[v].target # Absent => h[v].target.told \in Maybe
              /\ health[v] # Absent => health[v].told \in Maybe
          BY DEF Shape, TypeOK, Handler, HealthRecord
        <5>2. InStep(v, h[v]) /\ device[v] = Absent
          BY <2>28, <4>2 DEF Boot, Tracks
        <5> QED BY <2>28, <4>2, <5>1, <5>2, AbsentAssumption DEF Boot, tables, InStep
      <4> QED BY <4>1, <4>2
    <3> QED BY <2>28, <3>1 DEF Boot, Tracks
  <2>29. ASSUME NEW v \in VM, Reimage(v) PROVE Tracks'
    <3>1. ASSUME NEW w \in VM \ lost' PROVE InStep(w, h[w])'
      BY <2>29, <3>1 DEF Reimage, tables, Tracks, InStep, Shape, TypeOK
    <3> QED BY <3>1 DEF Tracks
  <2>30. CASE UNCHANGED vars
    BY <2>30 DEF vars, Tracks, InStep
  <2> QED
    BY <2>1, <2>2, <2>3, <2>4, <2>5, <2>6, <2>7, <2>8, <2>9, <2>10, <2>11,
       <2>12, <2>13, <2>14, <2>15, <2>16, <2>17, <2>18, <2>19, <2>20, <2>21,
       <2>22, <2>23, <2>24, <2>25, <2>26, <2>27, <2>28, <2>29, <2>30
       DEF Next, Run
<1>3. Tracks => RecordTracksDevice
  BY DEF Tracks, InStep, RecordTracksDevice, At
<1> QED BY <1>1, <1>2, <1>3, ShapeInductive, PTL DEF Spec

-----------------------------------------------------------------------------
\* Nobody knows of a VM that has not had its first configuration: it has no
\* record and no invocation, is recorded as no primary and has not been elected.
Unseen ==
    \A v \in VM \ lost : device[v] = Absent =>
        /\ health[v] = Absent /\ At(v, "idle")
        /\ \A i \in RecordId : primary[i] # Absent => primary[i].vm # v
        /\ \A w \in VM : h[w].new # v

\* An invocation is of a VM that has had its configuration.
LEMMA AtWork ==
    ASSUME Unseen, NEW w \in VM, ~At(w, "idle")
    PROVE  w \in lost \/ device[w] # Absent
BY DEF Unseen

\* A step of w's invocation that may elect a VM, save or delete w's record,
\* delete others, and write a primary record for the VM it has elected.
LEMMA UnseenStep ==
    ASSUME Shape, Unseen, NEW w \in VM, NEW r, Becomes(w, r),
           w \in lost \/ device[w] # Absent,
           \A v \in VM \ lost : device[v] = Absent => r.new # v,
           \A v \in VM : v # w => health'[v] \in {health[v], Absent},
           \A i \in RecordId : \/ primary'[i] \in {primary[i], Absent}
                               \/ primary'[i].vm = h[w].new,
           device' = device, lost' = lost \/ lost' = lost \cup {w}
    PROVE  Unseen'
<1> SUFFICES ASSUME NEW v \in VM \ lost, v \notin lost', device[v] = Absent
             PROVE  /\ health'[v] = Absent /\ h'[v].pc = "idle"
                    /\ \A i \in RecordId : primary'[i] # Absent => primary'[i].vm # v
                    /\ \A x \in VM : h'[x].new # v
  BY DEF Unseen, At
<1>1. v # w
  OBVIOUS
<1>2. \A x \in VM : h'[x] = IF x = w THEN r ELSE h[x]
  BY DEF Becomes, Shape, TypeOK
<1>3. /\ health[v] = Absent /\ h[v].pc = "idle"
      /\ \A i \in RecordId : primary[i] # Absent => primary[i].vm # v
      /\ \A x \in VM : h[x].new # v
  BY DEF Unseen, At
<1> QED BY <1>1, <1>2, <1>3

\* The same, of a step that elects nobody.
LEMMA NobodyNew ==
    ASSUME Shape, Unseen, NEW w \in VM, NEW r, Becomes(w, r),
           w \in lost \/ device[w] # Absent,
           r.new \in {h[w].new, None},
           \A v \in VM : v # w => health'[v] \in {health[v], Absent},
           \A i \in RecordId : primary'[i] \in {primary[i], Absent},
           device' = device, lost' = lost \/ lost' = lost \cup {w}
    PROVE  Unseen'
<1>1. \A v \in VM \ lost : device[v] = Absent => r.new # v
  BY VMAssumption DEF Unseen
<1> QED BY <1>1, UnseenStep

\* A VM's first configuration never makes it the primary, whatever is elected
\* meanwhile, for any VMs, scores and faults.
THEOREM LaunchedAsSecondaryCorrect == Spec => LaunchedAsSecondary
<1>1. Init => Unseen
  BY VMAssumption DEF Init, Unseen, IdleHandler, At
<1>2. Shape /\ Unseen /\ [Next]_vars => Unseen'
  <2> SUFFICES ASSUME Shape, Unseen, [Next]_vars PROVE Unseen'
    OBVIOUS
  <2>0. IdleHandler.new = None
    BY DEF IdleHandler
  <2>1. ASSUME NEW v \in VM, NEW late \in BOOLEAN, Receive(v, late) PROVE Unseen'
    <3> DEFINE r == [IdleHandler EXCEPT !.pc = "sync", !.late = late, !.target = health[v],
                                        !.overdue = silent]
    <3>1. device[v] # Absent
      BY <2>1 DEF Receive
    <3>2. r.new \in {h[v].new, None}
      BY <3>1 DEF IdleHandler
    <3>3. /\ Becomes(v, r)
          /\ device' = device /\ (lost' = lost \/ lost' = lost \cup {v})
          /\ \A w \in VM : w # v => health'[w] \in {health[w], Absent}
          /\ \A i \in RecordId : primary'[i] \in {primary[i], Absent}
      BY <2>1 DEF Receive, tables, world, Shape, TypeOK
    <3> HIDE DEF r
    <3> QED BY <3>1, <3>2, <3>3, NobodyNew
  <2>2. ASSUME NEW v \in VM, Sync(v) PROVE Unseen'
    <3>1. v \in lost \/ device[v] # Absent
      BY <2>2, AtWork DEF Sync, At
    <3>2. PICK rec \in HealthRecord : SyncWrites(v, rec)
      BY <2>2, SyncEffect DEF Shape
    <3>3. ASSUME NEW w \in VM
          PROVE  /\ h'[w].new \in {h[w].new, None}
                 /\ w # v => h'[w].pc = h[w].pc /\ health'[w] = health[w]
      <4>1. h[w] \in Handler /\ h[v] \in Handler
        BY DEF Shape, TypeOK
      <4>2. CASE w # v
        <5>1. h'[w] = [h[w] EXCEPT !.overdue = @ \ {v}] /\ health'[w] = health[w]
          BY <3>2, <4>2 DEF SyncWrites, Shape, TypeOK
        <5> QED BY <4>1, <4>2, <5>1 DEF Handler
      <4>3. CASE w = v
        <5> DEFINE r == [h[v] EXCEPT !.pc = "readVm", !.target = rec, !.late = FALSE,
                                     !.overdue = @ \ {v}]
        <5>1. h'[v] \in {r, IdleHandler}
          BY <3>2 DEF SyncWrites
        <5>2. r.new = h[v].new
          BY <4>1 DEF Handler
        <5> HIDE DEF r
        <5> QED BY <2>0, <4>3, <5>1, <5>2
      <4> QED BY <4>2, <4>3
    <3>4. UNCHANGED <<primary, device, lost>>
      BY <2>2 DEF Sync
    <3> QED BY <3>1, <3>3, <3>4, VMAssumption DEF Unseen, At
  <2>3. ASSUME NEW v \in VM, SyncRefused(v) PROVE Unseen'
    <3>1. v \in lost \/ device[v] # Absent
      BY <2>3, AtWork DEF SyncRefused, At
    <3>2. /\ Becomes(v, IdleHandler)
          /\ device' = device /\ (lost' = lost \/ lost' = lost \cup {v})
          /\ \A w \in VM : w # v => health'[w] \in {health[w], Absent}
          /\ \A i \in RecordId : primary'[i] \in {primary[i], Absent}
      BY <2>3 DEF SyncRefused, tables, world, Shape, TypeOK
    <3> QED BY <2>0, <3>1, <3>2, NobodyNew
  <2>4. ASSUME NEW v \in VM, ReadPrimaryVm(v) PROVE Unseen'
    <3>1. h[v] \in Handler /\ (v \in lost \/ device[v] # Absent)
      BY <2>4, AtWork DEF ReadPrimaryVm, At, Shape, TypeOK
    <3>2. PICK old : Becomes(v, [h[v] EXCEPT !.pc = "readHealth", !.old = old])
      BY <2>4 DEF ReadPrimaryVm
    <3> DEFINE r == [h[v] EXCEPT !.pc = "readHealth", !.old = old]
    <3>3. r.new = h[v].new
      BY <3>1 DEF Handler
    <3>4. UNCHANGED <<health, primary, device, lost>>
      BY <2>4 DEF ReadPrimaryVm, tables, world
    <3> HIDE DEF r
    <3> QED BY <3>1, <3>2, <3>3, <3>4, NobodyNew DEF r
  <2>5. ASSUME NEW v \in VM, ReadPrimaryHealth(v) PROVE Unseen'
    <3> DEFINE r == [h[v] EXCEPT !.pc = "readRecord", !.fitOld = FitOld(v)]
    <3>1. h[v] \in Handler /\ (v \in lost \/ device[v] # Absent)
      BY <2>5, AtWork DEF ReadPrimaryHealth, At, Shape, TypeOK
    <3>2. r.new \in {h[v].new, None}
      BY <3>1 DEF Handler
    <3>3. /\ Becomes(v, r)
          /\ device' = device /\ (lost' = lost \/ lost' = lost \cup {v})
          /\ \A w \in VM : w # v => health'[w] \in {health[w], Absent}
          /\ \A i \in RecordId : primary'[i] \in {primary[i], Absent}
      BY <2>5 DEF ReadPrimaryHealth, tables, world, Shape, TypeOK
    <3> HIDE DEF r
    <3> QED BY <3>1, <3>2, <3>3, NobodyNew
  <2>6. ASSUME NEW v \in VM, ReadPrimaryRecord(v) PROVE Unseen'
    <3>1. h[v] \in Handler /\ (v \in lost \/ device[v] # Absent)
      BY <2>6, AtWork DEF ReadPrimaryRecord, At, Shape, TypeOK
    <3>2. UNCHANGED <<health, primary, device, lost>>
      BY <2>6 DEF ReadPrimaryRecord, tables, world
    <3>3. ASSUME NEW r, Becomes(v, r), r.new = h[v].new PROVE Unseen'
      BY <3>1, <3>2, <3>3, NobodyNew
    <3> DEFINE q == [h[v] EXCEPT !.pc = "stale"]
               j(s) == [h[v] EXCEPT !.pc = "judge", !.record = s]
    <3>4. q.new = h[v].new /\ \A s : j(s).new = h[v].new
      BY <3>1 DEF Handler
    <3>5. Becomes(v, q) \/ \E s \in Stored : Becomes(v, j(s))
      BY <2>6 DEF ReadPrimaryRecord
    <3> HIDE DEF q, j
    <3> QED BY <3>3, <3>4, <3>5
  <2>7. ASSUME NEW v \in VM, Judge(v) PROVE Unseen'
    <3> DEFINE r == [h[v] EXCEPT !.pc = "assess", !.fitOld = FitOld(v), !.record = Absent]
               q == [h[v] EXCEPT !.pc = "deleteRead", !.fitOld = None]
    <3>1. h[v] \in Handler /\ (v \in lost \/ device[v] # Absent)
      BY <2>7, AtWork DEF Judge, At, Shape, TypeOK
    <3>2. r.new \in {h[v].new, None} /\ q.new \in {h[v].new, None}
      BY <3>1 DEF Handler
    <3>3. /\ Becomes(v, r) \/ Becomes(v, q)
          /\ device' = device /\ (lost' = lost \/ lost' = lost \cup {v})
          /\ \A w \in VM : w # v => health'[w] \in {health[w], Absent}
          /\ \A i \in RecordId : primary'[i] \in {primary[i], Absent}
      BY <2>7 DEF Judge, tables, world, Shape, TypeOK
    <3> HIDE DEF r, q
    <3> QED BY <3>1, <3>2, <3>3, NobodyNew
  <2>8. ASSUME NEW v \in VM, DeleteRead(v) PROVE Unseen'
    <3> DEFINE r == [h[v] EXCEPT !.pc = "deleteWrite"]
               q == [h[v] EXCEPT !.pc = "stale"]
    <3>1. h[v] \in Handler /\ (v \in lost \/ device[v] # Absent)
      BY <2>8, AtWork DEF DeleteRead, At, Shape, TypeOK
    <3>2. r.new \in {h[v].new, None} /\ q.new \in {h[v].new, None}
      BY <3>1 DEF Handler
    <3>3. /\ Becomes(v, r) \/ Becomes(v, q)
          /\ device' = device /\ (lost' = lost \/ lost' = lost \cup {v})
          /\ \A w \in VM : w # v => health'[w] \in {health[w], Absent}
          /\ \A i \in RecordId : primary'[i] \in {primary[i], Absent}
      BY <2>8 DEF DeleteRead, tables, world, Shape, TypeOK
    <3> HIDE DEF r, q
    <3> QED BY <3>1, <3>2, <3>3, NobodyNew
  <2>9. ASSUME NEW v \in VM, DeleteWrite(v) PROVE Unseen'
    <3> DEFINE r == [h[v] EXCEPT !.pc = "stale"]
    <3>1. h[v] \in Handler /\ (v \in lost \/ device[v] # Absent)
      BY <2>9, AtWork DEF DeleteWrite, At, Shape, TypeOK
    <3>2. r.new \in {h[v].new, None}
      BY <3>1 DEF Handler
    <3>3. /\ Becomes(v, r)
          /\ device' = device /\ (lost' = lost \/ lost' = lost \cup {v})
          /\ \A w \in VM : w # v => health'[w] \in {health[w], Absent}
          /\ \A i \in RecordId : primary'[i] \in {primary[i], Absent}
      BY <2>9 DEF DeleteWrite, tables, world, Shape, TypeOK
    <3> HIDE DEF r
    <3> QED BY <3>1, <3>2, <3>3, NobodyNew
  <2>10. ASSUME NEW v \in VM, HandleStaleVm(v) PROVE Unseen'
    <3> DEFINE r == [h[v] EXCEPT !.pc = "elect", !.record = Absent]
    <3>1. h[v] \in Handler /\ (v \in lost \/ device[v] # Absent)
      BY <2>10, AtWork DEF HandleStaleVm, At, Shape, TypeOK
    <3>2. r.new \in {h[v].new, None}
      BY <3>1 DEF Handler
    <3>3. /\ Becomes(v, r)
          /\ device' = device /\ (lost' = lost \/ lost' = lost \cup {v})
          /\ \A w \in VM : w # v => health'[w] \in {health[w], Absent}
          /\ \A i \in RecordId : primary'[i] \in {primary[i], Absent}
      BY <2>10 DEF HandleStaleVm, tables, world, Shape, TypeOK
    <3> HIDE DEF r
    <3> QED BY <3>1, <3>2, <3>3, NobodyNew
  <2>11. ASSUME NEW v \in VM, HandleStaleVmFails(v) PROVE Unseen'
    <3> DEFINE r == [h[v] EXCEPT !.pc = "assess", !.record = Absent]
    <3>1. h[v] \in Handler /\ (v \in lost \/ device[v] # Absent)
      BY <2>11, AtWork DEF HandleStaleVmFails, At, Shape, TypeOK
    <3>2. r.new \in {h[v].new, None}
      BY <3>1 DEF Handler
    <3>3. /\ Becomes(v, r)
          /\ device' = device /\ (lost' = lost \/ lost' = lost \cup {v})
          /\ \A w \in VM : w # v => health'[w] \in {health[w], Absent}
          /\ \A i \in RecordId : primary'[i] \in {primary[i], Absent}
      BY <2>11 DEF HandleStaleVmFails, tables, world, Shape, TypeOK
    <3> HIDE DEF r
    <3> QED BY <3>1, <3>2, <3>3, NobodyNew
  <2>12. ASSUME NEW v \in VM,
               Elect(v) \/ \E slow \in SUBSET VM : ElectWithoutSlow(v, slow)
        PROVE Unseen'
    <3>1. h[v] \in Handler /\ (v \in lost \/ device[v] # Absent)
      BY <2>12, AtWork DEF Elect, ElectWithoutSlow, At, Shape, TypeOK
    <3>2. UNCHANGED <<health, primary, device, lost>>
      BY <2>12 DEF Elect, ElectWithoutSlow, tables, world
    <3>3. PICK elected \in {v, None} \cup Candidates(v) : TakeResult(v, elected)
      <4>1. ClassicVerdict(v) \subseteq {v, None}
        BY DEF ClassicVerdict
      <4>2. Verdict(Candidates(v)) \subseteq Candidates(v) \cup {None}
        BY VMAssumption, VerdictAssumption DEF Candidates
      <4>3. \A slow : Verdict(Candidates(v) \ slow) \subseteq Candidates(v) \cup {None}
        <5>1. ASSUME NEW slow PROVE Candidates(v) \ slow \in SUBSET VM
          BY VMAssumption DEF Candidates
        <5> QED BY <5>1, VerdictAssumption
      <4> QED BY <2>12, <4>1, <4>2, <4>3 DEF Elect, ElectWithoutSlow
    <3>8. ASSUME NEW x \in VM \ lost, device[x] = Absent
          PROVE  elected # x
      <4>1. x \notin Candidates(v)
        BY <3>8 DEF Candidates, Fit, Unseen
      <4> QED BY <3>1, <3>8, <4>1, VMAssumption
    <3> DEFINE q == [h[v] EXCEPT !.pc = "assess", !.old = None, !.fitOld = None]
               e(w, id) == [h[v] EXCEPT !.pc = "saveGuard", !.new = w, !.newId = id]
    <3>4. q.new = h[v].new /\ \A w, id : e(w, id).new = w
      BY <3>1 DEF Handler
    <3>5. Becomes(v, q) \/ \E id : Becomes(v, e(elected, id))
      BY <3>3 DEF TakeResult
    <3> HIDE DEF q, e
    <3>6. CASE Becomes(v, q)
      BY <3>1, <3>2, <3>4, <3>6, NobodyNew
    <3>7. ASSUME NEW id, Becomes(v, e(elected, id))
          PROVE  Unseen'
      <4>1. \A x \in VM \ lost : device[x] = Absent => e(elected, id).new # x
        BY <3>4, <3>8
      <4> QED BY <3>1, <3>2, <3>7, <4>1, UnseenStep
    <3> QED BY <3>5, <3>6, <3>7
  <2>13. ASSUME NEW v \in VM, SaveGuard(v) \/ SaveGuardFails(v) PROVE Unseen'
    <3> DEFINE r == [h[v] EXCEPT !.pc = "saveRead"]
               q == [h[v] EXCEPT !.pc = "assess"]
    <3>1. h[v] \in Handler /\ (v \in lost \/ device[v] # Absent)
      BY <2>13, AtWork DEF SaveGuard, SaveGuardFails, At, Shape, TypeOK
    <3>2. r.new \in {h[v].new, None} /\ q.new \in {h[v].new, None}
      BY <3>1 DEF Handler
    <3>3. /\ Becomes(v, r) \/ Becomes(v, q)
          /\ device' = device /\ (lost' = lost \/ lost' = lost \cup {v})
          /\ \A w \in VM : w # v => health'[w] \in {health[w], Absent}
          /\ \A i \in RecordId : primary'[i] \in {primary[i], Absent}
      BY <2>13 DEF SaveGuard, SaveGuardFails, tables, world, Shape, TypeOK
    <3> HIDE DEF r, q
    <3> QED BY <3>1, <3>2, <3>3, NobodyNew
  <2>14. ASSUME NEW v \in VM, SaveRead(v) PROVE Unseen'
    <3> DEFINE r == [h[v] EXCEPT !.pc = "saveWrite", !.snap = primary[h[v].newId]]
    <3>1. h[v] \in Handler /\ (v \in lost \/ device[v] # Absent)
      BY <2>14, AtWork DEF SaveRead, At, Shape, TypeOK
    <3>2. r.new \in {h[v].new, None}
      BY <3>1 DEF Handler
    <3>3. /\ Becomes(v, r)
          /\ device' = device /\ (lost' = lost \/ lost' = lost \cup {v})
          /\ \A w \in VM : w # v => health'[w] \in {health[w], Absent}
          /\ \A i \in RecordId : primary'[i] \in {primary[i], Absent}
      BY <2>14 DEF SaveRead, tables, world, Shape, TypeOK
    <3> HIDE DEF r
    <3> QED BY <3>1, <3>2, <3>3, NobodyNew
  <2>15. ASSUME NEW v \in VM, SaveWrite(v) PROVE Unseen'
    <3> DEFINE r == [h[v] EXCEPT !.pc = "assess", !.snap = Absent]
    <3>1. h[v] \in Handler /\ (v \in lost \/ device[v] # Absent)
      BY <2>15, AtWork DEF SaveWrite, At, Shape, TypeOK
    <3>2. r.new = h[v].new
      BY <3>1 DEF Handler
    <3>3. /\ Becomes(v, r) /\ UNCHANGED <<health, device, lost>>
          /\ \A i \in RecordId : \/ primary'[i] \in {primary[i], Absent}
                                 \/ primary'[i].vm = h[v].new
      BY <2>15 DEF SaveWrite, world, Shape, TypeOK
    <3> HIDE DEF r
    <3>4. \A x \in VM \ lost : device[x] = Absent => r.new # x
      BY <3>2 DEF Unseen
    <3> QED BY <3>1, <3>3, <3>4, UnseenStep
  <2>16. ASSUME NEW v \in VM, SaveWriteFails(v) PROVE Unseen'
    <3> DEFINE r == [h[v] EXCEPT !.pc = "assess", !.snap = Absent]
    <3>1. h[v] \in Handler /\ (v \in lost \/ device[v] # Absent)
      BY <2>16, AtWork DEF SaveWriteFails, At, Shape, TypeOK
    <3>2. r.new \in {h[v].new, None}
      BY <3>1 DEF Handler
    <3>3. /\ Becomes(v, r)
          /\ device' = device /\ (lost' = lost \/ lost' = lost \cup {v})
          /\ \A w \in VM : w # v => health'[w] \in {health[w], Absent}
          /\ \A i \in RecordId : primary'[i] \in {primary[i], Absent}
      BY <2>16 DEF SaveWriteFails, tables, world, Shape, TypeOK
    <3> HIDE DEF r
    <3> QED BY <3>1, <3>2, <3>3, NobodyNew
  <2>17. ASSUME NEW v \in VM, Assess(v) \/ AssessSlow(v) PROVE Unseen'
    <3>1. h[v] \in Handler /\ (v \in lost \/ device[v] # Absent)
      BY <2>17, AtWork DEF Assess, AssessSlow, At, Shape, TypeOK
    <3>2. PICK step, doomed : Becomes(v, [h[v] EXCEPT !.pc = step, !.doomed = doomed])
      BY <2>17 DEF Assess, AssessSlow, Condemn
    <3> DEFINE r == [h[v] EXCEPT !.pc = step, !.doomed = doomed]
    <3>3. r.new = h[v].new
      BY <3>1 DEF Handler
    <3>4. UNCHANGED <<health, primary, device, lost>>
      BY <2>17 DEF Assess, AssessSlow, tables, world
    <3> HIDE DEF r
    <3> QED BY <3>1, <3>2, <3>3, <3>4, NobodyNew DEF r
  <2>18. ASSUME NEW v \in VM, Cull(v) PROVE Unseen'
    <3> DEFINE r == [h[v] EXCEPT !.pc = "drop"]
    <3>1. h[v] \in Handler /\ (v \in lost \/ device[v] # Absent)
      BY <2>18, AtWork DEF Cull, At, Shape, TypeOK
    <3>2. r.new \in {h[v].new, None}
      BY <3>1 DEF Handler
    <3>3. /\ Becomes(v, r)
          /\ device' = device /\ (lost' = lost \/ lost' = lost \cup {v})
          /\ \A w \in VM : w # v => health'[w] \in {health[w], Absent}
          /\ \A i \in RecordId : primary'[i] \in {primary[i], Absent}
      BY <2>18 DEF Cull, tables, world, Shape, TypeOK
    <3> HIDE DEF r
    <3> QED BY <3>1, <3>2, <3>3, NobodyNew
  <2>19. ASSUME NEW v \in VM, Drop(v) PROVE Unseen'
    <3> DEFINE r == [h[v] EXCEPT !.pc = "answer", !.doomed = {}]
    <3>1. h[v] \in Handler /\ (v \in lost \/ device[v] # Absent)
      BY <2>19, AtWork DEF Drop, At, Shape, TypeOK
    <3>2. r.new \in {h[v].new, None}
      BY <3>1 DEF Handler
    <3>3. /\ Becomes(v, r)
          /\ device' = device /\ (lost' = lost \/ lost' = lost \cup {v})
          /\ \A w \in VM : w # v => health'[w] \in {health[w], Absent}
          /\ \A i \in RecordId : primary'[i] \in {primary[i], Absent}
      BY <2>19 DEF Drop, tables, world, Shape, TypeOK
    <3> HIDE DEF r
    <3> QED BY <3>1, <3>2, <3>3, NobodyNew
  <2>20. ASSUME NEW v \in VM, NothingToTell(v) \/ PrimaryIsSlow(v) PROVE Unseen'
    <3>1. v \in lost \/ device[v] # Absent
      BY <2>20, AtWork DEF NothingToTell, PrimaryIsSlow, At
    <3>2. /\ Becomes(v, IdleHandler)
          /\ device' = device /\ (lost' = lost \/ lost' = lost \cup {v})
          /\ \A w \in VM : w # v => health'[w] \in {health[w], Absent}
          /\ \A i \in RecordId : primary'[i] \in {primary[i], Absent}
      BY <2>20 DEF NothingToTell, PrimaryIsSlow, tables, world, Shape, TypeOK
    <3> QED BY <2>0, <3>1, <3>2, NobodyNew
  <2>21. ASSUME NEW v \in VM, SaveTold(v) PROVE Unseen'
    <3> DEFINE r == [IdleHandler EXCEPT !.pc = "reply", !.tell = Tell(v)]
    <3>1. h[v] \in Handler /\ (v \in lost \/ device[v] # Absent)
      BY <2>21, AtWork DEF SaveTold, At, Shape, TypeOK
    <3>2. r.new \in {h[v].new, None}
      BY <3>1 DEF IdleHandler
    <3>3. /\ Becomes(v, r)
          /\ device' = device /\ (lost' = lost \/ lost' = lost \cup {v})
          /\ \A w \in VM : w # v => health'[w] \in {health[w], Absent}
          /\ \A i \in RecordId : primary'[i] \in {primary[i], Absent}
      BY <2>21 DEF SaveTold, tables, world, Shape, TypeOK
    <3> HIDE DEF r
    <3> QED BY <3>1, <3>2, <3>3, NobodyNew
  <2>22. ASSUME NEW v \in VM, SaveToldFails(v) PROVE Unseen'
    <3> DEFINE r == [IdleHandler EXCEPT !.pc = "reply", !.tell = Tell(v)]
    <3>1. h[v] \in Handler /\ (v \in lost \/ device[v] # Absent)
      BY <2>22, AtWork DEF SaveToldFails, At, Shape, TypeOK
    <3>2. r.new \in {h[v].new, None}
      BY <3>1 DEF IdleHandler
    <3>3. /\ Becomes(v, r)
          /\ device' = device /\ (lost' = lost \/ lost' = lost \cup {v})
          /\ \A w \in VM : w # v => health'[w] \in {health[w], Absent}
          /\ \A i \in RecordId : primary'[i] \in {primary[i], Absent}
      BY <2>22 DEF SaveToldFails, tables, world, Shape, TypeOK
    <3> HIDE DEF r
    <3> QED BY <3>1, <3>2, <3>3, NobodyNew
  <2>23. ASSUME NEW v \in VM, Reply(v) PROVE Unseen'
    <3>1. v \in lost \/ device[v] # Absent
      BY <2>23, AtWork DEF Reply, At
    <3>2. h[v].tell # Absent
      BY AbsentAssumption DEF Shape, TypeOK, Handler
    <3>3. /\ device' = [device EXCEPT ![v] = h[v].tell] /\ h' = [h EXCEPT ![v] = IdleHandler]
          /\ UNCHANGED <<health, primary, lost>>
      BY <2>23 DEF Reply, Becomes, tables
    <3>4. \A w \in VM : h'[w] = IF w = v THEN IdleHandler ELSE h[w]
      BY <3>3 DEF Shape, TypeOK
    <3>5. \A w \in VM : device'[w] = Absent => w # v /\ device[w] = Absent
      BY <3>2, <3>3 DEF Shape, TypeOK
    <3> QED BY <2>0, <3>3, <3>4, <3>5, VMAssumption DEF Unseen, At
  <2>24. ASSUME NEW v \in VM, Crash(v) PROVE Unseen'
    <3>1. v \in lost \/ device[v] # Absent
      BY <2>24, AtWork DEF Crash, At
    <3>2. /\ Becomes(v, IdleHandler)
          /\ device' = device /\ (lost' = lost \/ lost' = lost \cup {v})
          /\ \A w \in VM : w # v => health'[w] \in {health[w], Absent}
          /\ \A i \in RecordId : primary'[i] \in {primary[i], Absent}
      BY <2>24 DEF Crash, tables, world, Shape, TypeOK
    <3> QED BY <2>0, <3>1, <3>2, NobodyNew
  <2>25. ASSUME NEW v \in VM, Join(v) PROVE Unseen'
    BY <2>25 DEF Join, tables, Unseen, At
  <2>26. ASSUME NEW v \in VM, Leave(v) PROVE Unseen'
    BY <2>26 DEF Leave, tables, Unseen, At
  <2>27. ASSUME NEW v \in VM, FallSilent(v) PROVE Unseen'
    BY <2>27 DEF FallSilent, tables, Unseen, At
  <2>28. ASSUME NEW v \in VM, Boot(v) PROVE Unseen'
    <3>1. PICK vm \in Maybe : device' = [device EXCEPT ![v] = vm]
      BY <2>28, PrimaryVmType DEF Boot, FirstPrimary, Shape, Maybe
    <3>2. \A w \in VM : device'[w] = Absent => device[w] = Absent
      BY <3>1, AbsentAssumption DEF Shape, TypeOK
    <3> QED BY <2>28, <3>2 DEF Boot, tables, Unseen, At
  <2>29. ASSUME NEW v \in VM, Reimage(v) PROVE Unseen'
    <3>1. \A w \in VM \ lost' : device'[w] = device[w]
      BY <2>29 DEF Reimage, Shape, TypeOK
    <3> QED BY <2>29, <3>1 DEF Reimage, tables, Unseen, At
  <2>30. CASE UNCHANGED vars
    BY <2>30 DEF vars, Unseen, At
  <2> QED
    BY <2>1, <2>2, <2>3, <2>4, <2>5, <2>6, <2>7, <2>8, <2>9, <2>10, <2>11, <2>12,
       <2>13, <2>14, <2>15, <2>16, <2>17, <2>18, <2>19, <2>20, <2>21, <2>22, <2>23,
       <2>24, <2>25, <2>26, <2>27, <2>28, <2>29, <2>30
       DEF Next, Run
<1>3. ASSUME Shape, Unseen, [Next]_vars, NEW v \in VM \ lost, device[v] = Absent
      PROVE  device'[v] # v
  <2>1. v # Absent
    BY AbsentAssumption DEF Maybe
  <2>2. CASE device' = device
    BY <1>3, <2>1, <2>2
  <2>3. ASSUME NEW w \in VM, Boot(w) PROVE device'[v] # v
    <3>1. v \notin PrimaryVm
      BY <1>3, VMAssumption DEF Unseen, PrimaryVm, Stored
    <3>2. PICK vm \in PrimaryVm \cup {None} : device' = [device EXCEPT ![w] = vm]
      BY <2>3 DEF Boot, FirstPrimary
    <3> QED BY <1>3, <2>1, <3>1, <3>2, VMAssumption DEF Shape, TypeOK
  <2>4. ASSUME NEW w \in VM, Reply(w) PROVE device'[v] # v
    <3>1. w # v
      BY <1>3, <2>4 DEF Reply, At, Unseen
    <3> QED BY <1>3, <2>1, <2>4, <3>1 DEF Reply, Shape, TypeOK
  <2>5. ASSUME NEW w \in VM, Reimage(w) PROVE device'[v] # v
    BY <1>3, <2>1, <2>5 DEF Reimage, Shape, TypeOK
  <2> QED
    BY <1>3, <2>2, <2>3, <2>4, <2>5
       DEF Next, Run, vars, world, tables, Receive, Sync, SyncRefused, ReadPrimaryVm,
           ReadPrimaryHealth, ReadPrimaryRecord, Judge, DeleteRead, DeleteWrite,
           HandleStaleVm, HandleStaleVmFails, Elect, ElectWithoutSlow, SaveGuard,
           SaveGuardFails, SaveRead, SaveWrite, SaveWriteFails, Assess, AssessSlow,
           PrimaryIsSlow, Cull, Drop, NothingToTell, SaveTold, SaveToldFails,
           Crash, Join, Leave, FallSilent
<1>4. Shape /\ Unseen /\ [Next]_vars =>
        [\A v \in VM \ lost : device[v] = Absent => device'[v] # v]_vars
  BY <1>3
<1> QED BY <1>1, <1>2, <1>4, ShapeInductive, PTL DEF Spec, LaunchedAsSecondary

-----------------------------------------------------------------------------
\* A step of one invocation that gives no reason to doubt w keeps it undoubted.
LEMMA TrustStep ==
    ASSUME Shape, NEW w \in VM, Undoubted(w), NEW v \in VM, NEW r, Becomes(v, r),
           Trusts(r, w),
           v = w => ~r.late /\ (r.target = Absent \/ r.target.state = "inSync"),
           w \in up' \ silent', primary' = primary,
           health'[w] # Absent, health'[w].state = "inSync"
    PROVE  Undoubted(w)'
<1>1. \A x \in VM : h'[x] = IF x = v THEN r ELSE h[x]
  BY DEF Becomes, Shape, TypeOK
<1>2. \A x \in VM : Trusts(h'[x], w)
  BY <1>1 DEF Undoubted
<1>3. ~h'[w].late /\ (h'[w].target = Absent \/ h'[w].target.state = "inSync")
  BY <1>1 DEF Undoubted
<1>4. Stored' = Stored
  BY DEF Stored
<1> QED BY <1>2, <1>3, <1>4 DEF Undoubted

\* The same, for a step that leaves the world and the health check records alone.
LEMMA TrustAlone ==
    ASSUME Shape, NEW w \in VM, Undoubted(w), NEW v \in VM, NEW r \in Handler, Becomes(v, r),
           Trusts(r, w), r.late = h[v].late, r.target = h[v].target,
           UNCHANGED <<up, silent, primary, health>>
    PROVE  Undoubted(w)'
BY TrustStep DEF Undoubted

\* An invocation that has ended trusts anyone.
LEMMA EndStep ==
    ASSUME Shape, NEW w \in VM, Undoubted(w), NEW v \in VM, Becomes(v, IdleHandler),
           UNCHANGED <<up, silent, primary, health>>
    PROVE  Undoubted(w)'
<1>1. Trusts(IdleHandler, w) /\ ~IdleHandler.late /\ IdleHandler.target = Absent
  BY DEF Trusts, IdleHandler
<1> QED BY <1>1, TrustStep DEF Undoubted

\* While w is undoubted, every invocation that looks for the primary finds w ...
LEMMA FindsUndoubted ==
    ASSUME Shape, NEW w \in VM, Undoubted(w)
    PROVE  /\ PrimaryVm = {w} /\ Stored # {} /\ w # None
           /\ \A v \in VM : At(v, "readHealth") \/ At(v, "judge") => FitOld(v) = w
<1>1. w # None /\ w \in up
  BY VMAssumption DEF Undoubted
<1>2. PrimaryVm = {w} /\ Stored # {}
  BY <1>1 DEF PrimaryVm, Undoubted
<1>3. ASSUME NEW v \in VM, At(v, "readHealth") \/ At(v, "judge")
      PROVE  FitOld(v) = w
  <2>1. h[v].old = w /\ w \notin h[v].overdue
    BY <1>3 DEF Undoubted, Trusts, At
  <2> QED BY <1>1, <2>1 DEF FitOld, Fit, Undoubted
<1> QED BY <1>1, <1>2, <1>3

\* ... and if it tells its VM of a primary at all, that is w.
LEMMA TellsUndoubted ==
    ASSUME Shape, NEW w \in VM, Undoubted(w), NEW v \in VM, At(v, "answer")
    PROVE  Tell(v) \in {w, None}
BY DEF Undoubted, Trusts, At, Tell

LEMMA UndoubtedStep ==
    ASSUME Shape, NEW w \in VM, Undoubted(w), [Next]_vars, ~HitBy(w)
    PROVE  Undoubted(w)'
<1>0. /\ w \in up /\ w \notin silent /\ health[w] # Absent /\ health[w].state = "inSync"
      /\ ~h[w].late /\ (h[w].target = Absent \/ h[w].target.state = "inSync")
      /\ \A v \in VM : Trusts(h[v], w) /\ h[v] \in Handler /\ HeldBy(h[v])
  BY DEF Undoubted, Shape, TypeOK, Held
<1>1. ASSUME NEW v \in VM, NEW late \in BOOLEAN, Receive(v, late) PROVE Undoubted(w)'
  <2> DEFINE r == [IdleHandler EXCEPT !.pc = "sync", !.late = late, !.target = health[v],
                                      !.overdue = silent]
  <2>1. /\ r.late = late /\ r.target = health[v] /\ r.pc = "sync"
        /\ r.overdue = silent /\ r.doomed = {} /\ r.new = None
    BY DEF IdleHandler
  <2>2. Becomes(v, r) /\ UNCHANGED <<up, silent, primary, health>>
    BY <1>1 DEF Receive, tables
  <2> HIDE DEF r
  <2>3. Trusts(r, w)
    BY <1>0, <2>1 DEF Trusts
  <2>4. v = w => ~late
    <3> SUFFICES ASSUME v = w, late PROVE FALSE
      OBVIOUS
    <3>1. faults' # faults
      BY <1>1 DEF Receive, Fault, Shape, TypeOK
    <3>2. h'[w].late
      BY <2>1, <2>2 DEF Becomes, Shape, TypeOK
    <3> QED BY <3>1, <3>2 DEF HitBy
  <2> QED BY <1>0, <2>1, <2>2, <2>3, <2>4, TrustStep
<1>2. ASSUME NEW v \in VM, Sync(v) PROVE Undoubted(w)'
  <2>1. PICK rec \in HealthRecord : SyncWrites(v, rec) /\ (v = w => rec.state = "inSync")
    <3> DEFINE read == h[v].target
               known == read # Absent
               from == IF known THEN read.state ELSE "inSync"
               late == known /\ h[v].late
    <3>1. PICK s \in NextState(from, late, Terminate) :
             LET rec == [state |-> s, told |-> IF known THEN read.told ELSE None]
             IN /\ health' = [health EXCEPT ![v] = rec]
                /\ h' = [x \in VM |->
                     IF x # v THEN [h[x] EXCEPT !.overdue = @ \ {v}]
                     ELSE IF Dropped(from, late, Terminate) THEN IdleHandler
                     ELSE [h[v] EXCEPT !.pc = "readVm", !.target = rec, !.late = FALSE,
                                       !.overdue = @ \ {v}]]
      BY <1>2 DEF Sync
    <3> DEFINE rec == [state |-> s, told |-> IF known THEN read.told ELSE None]
    <3>2. rec \in HealthRecord
      BY <1>0 DEF NextState, SyncState, Handler, HealthRecord, Maybe
    <3>3. v = w => rec.state = "inSync"
      BY <1>0 DEF NextState
    <3> HIDE DEF from, late
    <3>4. SyncWrites(v, rec)
      <4>1. CASE Dropped(from, late, Terminate)
        BY <3>1, <4>1 DEF SyncWrites
      <4>2. CASE ~Dropped(from, late, Terminate)
        BY <3>1, <4>2 DEF SyncWrites
      <4> QED BY <4>1, <4>2
    <3> QED BY <3>2, <3>3, <3>4
  <2>2. rec # Absent
    BY AbsentAssumption
  <2>3. health'[w] # Absent /\ health'[w].state = "inSync"
    BY <1>0, <2>1, <2>2 DEF SyncWrites, Shape, TypeOK
  <2>4. UNCHANGED <<up, primary>> /\ w \notin silent'
    BY <1>0, <1>2 DEF Sync
  <2>5. ASSUME NEW x \in VM, x # v
        PROVE  Trusts(h'[x], w) /\ h'[x].late = h[x].late /\ h'[x].target = h[x].target
    <3>1. h'[x] = [h[x] EXCEPT !.overdue = @ \ {v}]
      BY <2>1, <2>5 DEF SyncWrites
    <3>2. /\ h'[x].overdue \subseteq h[x].overdue /\ h'[x].doomed = h[x].doomed
          /\ h'[x].pc = h[x].pc /\ h'[x].old = h[x].old /\ h'[x].fitOld = h[x].fitOld
          /\ h'[x].new = h[x].new /\ h'[x].tell = h[x].tell
          /\ h'[x].late = h[x].late /\ h'[x].target = h[x].target
      BY <1>0, <3>1 DEF Handler
    <3> QED BY <1>0, <3>2 DEF Trusts
  <2>6. /\ Trusts(h'[v], w) /\ ~h'[v].late
        /\ v = w => h'[v].target = Absent \/ h'[v].target.state = "inSync"
    <3> DEFINE r == [h[v] EXCEPT !.pc = "readVm", !.target = rec, !.late = FALSE,
                                 !.overdue = @ \ {v}]
    <3>1. h'[v] \in {r, IdleHandler}
      BY <2>1 DEF SyncWrites
    <3>2. /\ r.pc = "readVm" /\ r.target = rec /\ ~r.late
          /\ r.overdue \subseteq h[v].overdue /\ r.doomed = h[v].doomed /\ r.new = h[v].new
      BY <1>0 DEF Handler
    <3>3. Trusts(r, w)
      <4> HIDE DEF r
      <4> QED BY <1>0, <3>2 DEF Trusts
    <3>4. Trusts(IdleHandler, w) /\ ~IdleHandler.late /\ IdleHandler.target = Absent
      BY DEF Trusts, IdleHandler
    <3> HIDE DEF r
    <3> QED BY <2>1, <3>1, <3>2, <3>3, <3>4
  <2>7. \A x \in VM : Trusts(h'[x], w)
    BY <2>5, <2>6
  <2>8. ~h'[w].late /\ (h'[w].target = Absent \/ h'[w].target.state = "inSync")
    BY <1>0, <2>5, <2>6
  <2>9. Stored' = Stored
    BY <2>4 DEF Stored
  <2> QED BY <1>0, <2>3, <2>4, <2>7, <2>8, <2>9 DEF Undoubted
<1>3. ASSUME NEW v \in VM, ReadPrimaryVm(v) PROVE Undoubted(w)'
  <2> DEFINE r == [h[v] EXCEPT !.pc = "readHealth", !.old = w]
  <2>1. Becomes(v, r)
    BY <1>3, FindsUndoubted DEF ReadPrimaryVm
  <2>2. /\ r.pc = "readHealth" /\ r.old = w /\ r.late = h[v].late /\ r.new = h[v].new /\ r.target = h[v].target
        /\ r.overdue = h[v].overdue /\ r.doomed = h[v].doomed /\ r \in Handler
    BY <1>0 DEF Handler, Steps, Maybe
  <2> HIDE DEF r
  <2>3. Trusts(r, w)
    BY <1>0, <2>2 DEF Trusts
  <2> QED BY <1>3, <2>1, <2>2, <2>3, TrustAlone DEF ReadPrimaryVm, tables, world
<1>4. ASSUME NEW v \in VM, ReadPrimaryHealth(v) PROVE Undoubted(w)'
  <2> DEFINE r == [h[v] EXCEPT !.pc = "readRecord", !.fitOld = w]
  <2>1. Becomes(v, r)
    BY <1>4, FindsUndoubted DEF ReadPrimaryHealth
  <2>2. /\ r.pc = "readRecord" /\ r.old = h[v].old /\ r.late = h[v].late /\ r.new = h[v].new
        /\ r.target = h[v].target
        /\ r.overdue = h[v].overdue /\ r.doomed = h[v].doomed /\ r \in Handler
    BY <1>0 DEF Handler, Steps, Maybe
  <2> HIDE DEF r
  <2>3. Trusts(r, w)
    BY <1>0, <1>4, <2>2 DEF Trusts, ReadPrimaryHealth, At
  <2> QED BY <1>4, <2>1, <2>2, <2>3, TrustAlone DEF ReadPrimaryHealth, tables, world
<1>5. ASSUME NEW v \in VM, ReadPrimaryRecord(v) PROVE Undoubted(w)'
  <2>1. PICK s \in Stored : Becomes(v, [h[v] EXCEPT !.pc = "judge", !.record = s])
    BY <1>5, FindsUndoubted DEF ReadPrimaryRecord
  <2>2. s \in PrimaryRecord
    BY DEF Stored, Shape, TypeOK
  <2> DEFINE r == [h[v] EXCEPT !.pc = "judge", !.record = s]
  <2>3. /\ r.pc = "judge" /\ r.old = h[v].old /\ r.late = h[v].late /\ r.new = h[v].new
        /\ r.target = h[v].target
        /\ r.overdue = h[v].overdue /\ r.doomed = h[v].doomed /\ r \in Handler
    BY <1>0, <2>2 DEF Handler, Steps, Maybe
  <2> HIDE DEF r
  <2>4. Trusts(r, w)
    BY <1>0, <1>5, <2>3 DEF Trusts, ReadPrimaryRecord, At
  <2> QED BY <1>5, <2>1, <2>3, <2>4, TrustAlone DEF r, ReadPrimaryRecord, tables, world
<1>6. ASSUME NEW v \in VM, Judge(v) PROVE Undoubted(w)'
  <2> DEFINE r == [h[v] EXCEPT !.pc = "assess", !.fitOld = w, !.record = Absent]
  <2>1. Becomes(v, r)
    BY <1>6, FindsUndoubted DEF Judge
  <2>2. /\ r.pc = "assess" /\ r.fitOld = w /\ r.new = h[v].new /\ r.late = h[v].late
        /\ r.target = h[v].target
        /\ r.overdue = h[v].overdue /\ r.doomed = h[v].doomed
    BY <1>0 DEF Handler
  <2>3. r \in Handler
    <3>1. h[v] \in Handler /\ w \in Maybe
      BY <1>0 DEF Maybe
    <3> QED BY <3>1 DEF Handler, Steps
  <2> HIDE DEF r
  <2>4. Trusts(r, w)
    BY <1>0, <2>2 DEF Trusts
  <2> QED BY <1>6, <2>1, <2>2, <2>3, <2>4, TrustAlone DEF Judge, tables, world
<1>7. ASSUME NEW v \in VM,
             \/ DeleteRead(v) \/ DeleteWrite(v) \/ HandleStaleVm(v) \/ HandleStaleVmFails(v)
             \/ Elect(v) \/ \E slow \in SUBSET VM : ElectWithoutSlow(v, slow)
             \/ SaveGuard(v) \/ SaveGuardFails(v) \/ SaveRead(v) \/ SaveWrite(v)
             \/ SaveWriteFails(v) \/ AssessSlow(v)
      PROVE  FALSE
  <2>1. \/ h[v].pc \in {"deleteRead", "deleteWrite", "stale", "elect", "saveGuard", "saveRead",
                        "saveWrite"}
        \/ h[v].new # None
    BY <1>7 DEF DeleteRead, DeleteWrite, HandleStaleVm, HandleStaleVmFails, Elect,
                ElectWithoutSlow, SaveGuard, SaveGuardFails, SaveRead, SaveWrite,
                SaveWriteFails, AssessSlow, At
  <2> QED BY <1>0, <2>1 DEF Trusts
<1>8. ASSUME NEW v \in VM, Assess(v) PROVE Undoubted(w)'
  <2>1. At(v, "assess") /\ h[v].new = None /\ h[v].fitOld = w
    BY <1>0, <1>8 DEF Trusts, Assess, At
  <2>2. OldIsStale(v) = {FALSE}
    BY <2>1 DEF OldIsStale
  <2>3. v = w => h[v].target.state # "outOfSync"
    BY <1>0, <2>1 DEF HeldBy, At
  <2>4. PICK step \in {"cull", "answer"}, doomed \in SUBSET VM :
           /\ Becomes(v, [h[v] EXCEPT !.pc = step, !.doomed = doomed])
           /\ w \notin doomed
    BY <1>8, <2>2, <2>3 DEF Assess, Condemn
  <2> DEFINE r == [h[v] EXCEPT !.pc = step, !.doomed = doomed]
  <2>5. /\ r.pc = step /\ r.fitOld = h[v].fitOld /\ r.new = h[v].new /\ r.late = h[v].late
        /\ r.target = h[v].target
        /\ r.overdue = h[v].overdue /\ r.doomed = doomed
    BY <1>0 DEF Handler
  <2>6. r \in Handler
    <3>1. h[v] \in Handler
      BY <1>0
    <3> QED BY <3>1 DEF Handler, Steps
  <2> HIDE DEF r
  <2>7. Trusts(r, w)
    BY <1>0, <2>1, <2>4, <2>5 DEF Trusts
  <2> QED BY <1>8, <2>4, <2>5, <2>6, <2>7, TrustAlone DEF r, Assess, tables, world
<1>9. ASSUME NEW v \in VM, Cull(v) PROVE Undoubted(w)'
  <2> DEFINE r == [h[v] EXCEPT !.pc = "drop"]
  <2>1. /\ r.pc = "drop" /\ r.fitOld = h[v].fitOld /\ r.new = h[v].new /\ r.late = h[v].late
        /\ r.target = h[v].target /\ r.overdue = h[v].overdue /\ r.doomed = h[v].doomed
    BY <1>0 DEF Handler
  <2>2. Becomes(v, r) /\ UNCHANGED <<silent, primary, health>>
    BY <1>9 DEF Cull, tables
  <2>3. w \in up'
    BY <1>0, <1>9 DEF Cull, Trusts
  <2> HIDE DEF r
  <2>4. Trusts(r, w)
    BY <1>0, <1>9, <2>1 DEF Trusts, Cull, At
  <2> QED BY <1>0, <2>1, <2>2, <2>3, <2>4, TrustStep
<1>10. ASSUME NEW v \in VM, Drop(v) PROVE Undoubted(w)'
  <2> DEFINE r == [h[v] EXCEPT !.pc = "answer", !.doomed = {}]
  <2>1. /\ r.pc = "answer" /\ r.fitOld = h[v].fitOld /\ r.new = h[v].new /\ r.late = h[v].late
        /\ r.target = h[v].target /\ r.overdue = h[v].overdue /\ r.doomed = {}
    BY <1>0 DEF Handler
  <2>2. Becomes(v, r) /\ UNCHANGED <<up, primary>>
    BY <1>10 DEF Drop
  <2>3. w \notin silent' /\ health'[w] = health[w]
    BY <1>0, <1>10 DEF Drop, Trusts
  <2> HIDE DEF r
  <2>4. Trusts(r, w)
    BY <1>0, <1>10, <2>1 DEF Trusts, Drop, At
  <2> QED BY <1>0, <2>1, <2>2, <2>3, <2>4, TrustStep
<1>11. ASSUME NEW v \in VM, SaveTold(v) \/ SaveToldFails(v) PROVE Undoubted(w)'
  <2> DEFINE r == [IdleHandler EXCEPT !.pc = "reply", !.tell = Tell(v)]
  <2>1. Tell(v) = w
    BY <1>11, TellsUndoubted DEF SaveTold, SaveToldFails
  <2>2. /\ r.pc = "reply" /\ r.tell = Tell(v) /\ ~r.late /\ r.target = Absent
        /\ r.overdue = {} /\ r.doomed = {} /\ r.new = None
    BY DEF IdleHandler
  <2>3. Becomes(v, r) /\ UNCHANGED <<up, silent, primary>>
    BY <1>11 DEF SaveTold, SaveToldFails, tables, world
  <2>4. health'[w] # Absent /\ health'[w].state = "inSync"
    <3>1. CASE health' = [health EXCEPT ![v] = [h[v].target EXCEPT !.told = Tell(v)]] /\ v = w
      <4>1. h[v].target # Absent /\ h[v].target \in HealthRecord
        BY <1>0, <1>11 DEF SaveTold, SaveToldFails, At, HeldBy, Handler
      <4> DEFINE rec == [h[v].target EXCEPT !.told = Tell(v)]
      <4>2. rec.state = "inSync"
        BY <1>0, <3>1, <4>1 DEF HealthRecord
      <4>3. rec \in HealthRecord
        BY <2>1, <4>1 DEF HealthRecord, Maybe
      <4>4. health'[w] = rec
        BY <3>1 DEF Shape, TypeOK
      <4> HIDE DEF rec
      <4> QED BY <4>2, <4>3, <4>4, AbsentAssumption
    <3>2. CASE health' = [health EXCEPT ![v] = [h[v].target EXCEPT !.told = Tell(v)]] /\ v # w
      BY <1>0, <3>2
    <3>3. CASE UNCHANGED health
      BY <1>0, <3>3
    <3> QED BY <1>11, <3>1, <3>2, <3>3 DEF SaveTold, SaveToldFails, tables
  <2> HIDE DEF r
  <2>5. Trusts(r, w)
    BY <2>1, <2>2 DEF Trusts
  <2> QED BY <1>0, <2>2, <2>3, <2>4, <2>5, TrustStep
<1>12. ASSUME NEW v \in VM,
              SyncRefused(v) \/ NothingToTell(v) \/ PrimaryIsSlow(v) \/ Reply(v) \/ Crash(v)
       PROVE  Undoubted(w)'
  BY <1>12, EndStep DEF SyncRefused, NothingToTell, PrimaryIsSlow, Reply, Crash, tables, world
<1>13. ASSUME NEW v \in VM, Boot(v) \/ Reimage(v) PROVE Undoubted(w)'
  BY <1>13 DEF Boot, Reimage, Undoubted, Stored, tables
<1>14. ASSUME NEW v \in VM, Join(v) PROVE Undoubted(w)'
  BY <1>14 DEF Join, Undoubted, Stored, tables
<1>15. ASSUME NEW v \in VM, Leave(v) PROVE Undoubted(w)'
  <2>1. w # v
    BY <1>15 DEF Leave, Fault, HitBy, Shape, TypeOK
  <2> QED BY <1>15, <2>1 DEF Leave, Undoubted, Stored, tables
<1>16. ASSUME NEW v \in VM, FallSilent(v) PROVE Undoubted(w)'
  <2>1. w # v
    BY <1>0, <1>16 DEF FallSilent, Fault, HitBy, Shape, TypeOK
  <2> QED BY <1>16, <2>1 DEF FallSilent, Undoubted, Stored, tables
<1>17. CASE UNCHANGED vars
  BY <1>17 DEF Undoubted, Stored, vars
<1> QED
  BY <1>1, <1>2, <1>3, <1>4, <1>5, <1>6, <1>7, <1>8, <1>9, <1>10, <1>11, <1>12, <1>13, <1>14,
     <1>15, <1>16, <1>17 DEF Next, Run

\* While w is undoubted, a device is given its address or that of nobody.
LEMMA UndoubtedIsTold ==
    ASSUME Shape, NEW w \in VM, Undoubted(w), [Next]_vars, NEW x \in VM
    PROVE  device'[x] \in {device[x], w, None, Absent}
<1>1. ASSUME NEW v \in VM, Boot(v) PROVE device'[x] \in {device[x], w, None, Absent}
  <2>1. FirstPrimary(v) \subseteq {w, None}
    BY FindsUndoubted DEF FirstPrimary
  <2> QED BY <1>1, <2>1 DEF Boot, Shape, TypeOK
<1>2. ASSUME NEW v \in VM, Reply(v) PROVE device'[x] \in {device[x], w, None, Absent}
  <2>1. h[v].tell = w
    BY <1>2 DEF Reply, At, Undoubted, Trusts
  <2> QED BY <1>2, <2>1 DEF Reply, Shape, TypeOK
<1>3. ASSUME NEW v \in VM, Reimage(v) PROVE device'[x] \in {device[x], w, None, Absent}
  BY <1>3 DEF Reimage, Shape, TypeOK
<1>4. ASSUME ~\E v \in VM : Boot(v) \/ Reply(v) \/ Reimage(v) PROVE device' = device
  BY <1>4 DEF Next, Run, Receive, Sync, SyncRefused, ReadPrimaryVm, ReadPrimaryHealth,
       ReadPrimaryRecord, Judge, DeleteRead, DeleteWrite, HandleStaleVm, HandleStaleVmFails,
       Elect, ElectWithoutSlow, SaveGuard, SaveGuardFails, SaveRead, SaveWrite,
       SaveWriteFails, Assess, AssessSlow, Cull, Drop, NothingToTell, PrimaryIsSlow, SaveTold, SaveToldFails, Crash, Join, Leave, FallSilent, world, vars
<1> QED BY <1>1, <1>2, <1>3, <1>4

\* A primary that can serve and that nobody doubts stays so until a fault hits
\* it, and nobody is told of another one, for any VMs, overlaps, scores and faults.
THEOREM UndoubtedPrimaryStaysCorrect == Spec => UndoubtedPrimaryStays
<1> DEFINE Keeps == \A w \in VM : Undoubted(w) =>
                       /\ ~HitBy(w) => Undoubted(w)'
                       /\ \A v \in VM : device'[v] \in {device[v], w, None, Absent}
<1>1. Shape /\ [Next]_vars => Keeps
  BY UndoubtedStep, UndoubtedIsTold
<1>2. Keeps => [Keeps]_vars
  OBVIOUS
<1> QED BY <1>1, ShapeInductive, PTL DEF Spec, UndoubtedPrimaryStays

=============================================================================
