-------------------------- MODULE Licensing_proofs --------------------------
(***************************************************************************)
(* What holds of the handing out of licenses for any set of invocations,   *)
(* VMs and licenses, and any number of faults.                             *)
(***************************************************************************)
EXTENDS Licensing, Integers, FiniteSetTheorems, TLAPS

-----------------------------------------------------------------------------
(* Version names: one is reused once nobody holds it.                      *)

\* The image of a part of a finite set under a function is no larger than the set.
LEMMA ImageBound ==
    ASSUME NEW S, IsFiniteSet(S), NEW T \in SUBSET S,
           NEW f, f = [x \in T |-> f[x]]
    PROVE  /\ IsFiniteSet({f[x] : x \in T})
           /\ Cardinality({f[x] : x \in T}) \in Nat
           /\ Cardinality({f[x] : x \in T}) <= Cardinality(S)
<1> DEFINE I == {f[x] : x \in T}
<1>1. IsFiniteSet(T) /\ Cardinality(T) <= Cardinality(S)
  BY FS_Subset
<1>2. f \in Surjection(T, I)
  BY DEF Surjection
<1>3. IsFiniteSet(I) /\ Cardinality(I) <= Cardinality(T)
  BY <1>1, <1>2, FS_Surjection
<1>4. Cardinality(I) \in Nat /\ Cardinality(T) \in Nat /\ Cardinality(S) \in Nat
  BY <1>1, <1>3, FS_CardinalityType
<1> QED BY <1>1, <1>3, <1>4

\* A set that is larger than the names in use has a name that is not.
LEMMA FreshName ==
    ASSUME NEW E, NEW S, NEW k \in Nat, IsFiniteSet(S), Cardinality(S) <= k,
           IsFiniteSet(E) => Cardinality(E) > k
    PROVE  /\ (CHOOSE e \in E : e \notin S) \in E
           /\ (CHOOSE e \in E : e \notin S) \notin S
<1>1. \E e \in E : e \notin S
  <2> SUFFICES ASSUME E \subseteq S PROVE FALSE
    OBVIOUS
  <2>1. IsFiniteSet(E) /\ Cardinality(E) <= Cardinality(S)
    BY FS_Subset
  <2>2. Cardinality(E) \in Nat /\ Cardinality(S) \in Nat
    BY <2>1, FS_CardinalityType
  <2> QED BY <2>1, <2>2
<1> QED BY <1>1

-----------------------------------------------------------------------------
n == Cardinality(License)

\* What an invocation with local variables r holds at each step.
HeldBy(r) ==
    /\ r.pc # "idle" => r.vm \in VM
    /\ r.pc \in {"claimWrite", "handOver", "handOverWrite", "load"} => r.lic \in License
    /\ IF r.pc \in {"handOver", "handOverWrite"}
       THEN r.lic \in Reusable(r.known) /\ r.tries \in 1..n
       ELSE r.tries = 0
    /\ r.pc = "handOverWrite" => r.snap # Absent
    /\ r.pc = "sync" => \A l \in r.unused : r.known[l] # Absent
    /\ r.unused # {} => r.pc \in {"claim", "claimWrite", "sync"}

\* Records that an invocation knows of are in the usage table u.
Recorded(known, u) == \A l \in License : known[l] # Absent => u[l] # Absent

TablesOK ==
    /\ up \subseteq VM
    /\ files \subseteq License /\ stock \subseteq License
    /\ usage \in [License -> UsageRecord \cup {Absent}]
    /\ holds \in [VM -> License \cup {None}]
    /\ clashed \subseteq License /\ doubled \subseteq VM
    /\ faults \in 0..MaxFaults

Shape ==
    /\ TablesOK
    /\ h \in [Invocation -> Handler]
    /\ \A i \in Invocation : HeldBy(h[i]) /\ Recorded(h[i].known, usage)

\* No usage record is ever deleted.
NoneDeleted == \A l \in License : usage[l] # Absent => usage'[l] # Absent

-----------------------------------------------------------------------------
LEMMA LicenseCount ==
    /\ IsFiniteSet(License) /\ n \in Nat
    /\ \A S \in SUBSET License :
          IsFiniteSet(S) /\ Cardinality(S) \in Nat /\ Cardinality(S) <= n
BY LicensingAssumption, FS_Subset, FS_CardinalityType DEF n

LEMMA IdleHandlerShape ==
    /\ IdleHandler \in Handler /\ HeldBy(IdleHandler)
    /\ Recorded(IdleHandler.known, usage)
BY DEF IdleHandler, Handler, HeldBy, Steps, NothingKnown, Recorded

LEMMA FoundShape ==
    ASSUME NEW i \in Invocation, h[i] \in Handler, h[i].vm \in VM, NEW l \in License
    PROVE  /\ Found(i, l) \in Handler /\ HeldBy(Found(i, l))
           /\ Recorded(Found(i, l).known, usage)
BY DEF Found, IdleHandler, Handler, HeldBy, Steps, NothingKnown, Recorded

LEMMA UsageListShape ==
    ASSUME TablesOK
    PROVE  /\ UsageList \in [License -> Listed \cup {Absent}]
           /\ Recorded(UsageList, usage)
BY DEF TablesOK, UsageList, Listed, UsageRecord, Recorded

\* There is always a version name that nobody refers to.
LEMMA FreshEtagExists == FreshEtag \in Etag /\ FreshEtag \notin InUse
<1> DEFINE P == {l \in License : usage[l] # Absent}
           S == {i \in Invocation : h[i].snap # Absent}
           p == [l \in P |-> usage[l].etag]
           s == [i \in S |-> h[i].snap.etag]
           m == Cardinality(Invocation)
           Ip == {p[l] : l \in P}
           Is == {s[i] : i \in S}
<1>1. p = [x \in P |-> p[x]] /\ s = [x \in S |-> s[x]]
  OBVIOUS
<1>2. /\ IsFiniteSet(License) /\ n \in Nat
      /\ IsFiniteSet(Invocation) /\ m \in Nat
  BY LicensingAssumption, FS_CardinalityType DEF n
<1>3. P \in SUBSET License /\ S \in SUBSET Invocation
  OBVIOUS
<1>4. InUse = Ip \cup Is
  BY DEF InUse
<1>5. IsFiniteSet(Etag) => Cardinality(Etag) > n + m
  BY LicensingAssumption DEF n
<1>6. /\ IsFiniteSet(Ip) /\ Cardinality(Ip) \in Nat /\ Cardinality(Ip) <= n
      /\ IsFiniteSet(Is) /\ Cardinality(Is) \in Nat /\ Cardinality(Is) <= m
  <2> HIDE DEF P, S, p, s
  <2>1. IsFiniteSet(Ip) /\ Cardinality(Ip) \in Nat /\ Cardinality(Ip) <= n
    BY <1>1, <1>2, <1>3, ImageBound DEF n
  <2>2. IsFiniteSet(Is) /\ Cardinality(Is) \in Nat /\ Cardinality(Is) <= m
    BY <1>1, <1>2, <1>3, ImageBound
  <2> QED BY <2>1, <2>2
<1> HIDE DEF Ip, Is, m
<1>7. /\ IsFiniteSet(InUse)
      /\ Cardinality(InUse) = Cardinality(Ip) + Cardinality(Is) - Cardinality(Ip \cap Is)
      /\ Cardinality(Ip \cap Is) \in Nat /\ Cardinality(InUse) \in Nat
  BY <1>4, <1>6, FS_Union, FS_Intersection, FS_CardinalityType
<1>8. Cardinality(InUse) <= n + m /\ n + m \in Nat
  BY <1>2, <1>6, <1>7
<1> QED BY <1>5, <1>7, <1>8, FreshName DEF FreshEtag

\* What an invocation writes is a usage record.
LEMMA RecordShape ==
    ASSUME NEW v \in VM, NEW b \in BOOLEAN
    PROVE  /\ [vm |-> v, inSync |-> b, etag |-> FreshEtag] \in UsageRecord
           /\ [vm |-> v, inSync |-> b, etag |-> FreshEtag] # Absent
<1>1. FreshEtag \in Etag
  BY FreshEtagExists
<1>2. [vm |-> v, inSync |-> b, etag |-> FreshEtag] \in UsageRecord
  BY <1>1 DEF UsageRecord
<1> QED BY <1>2, AbsentAssumption

\* Faults stay within their bound.
LEMMA FaultShape == ASSUME TablesOK, Fault PROVE faults' \in 0..MaxFaults
BY LicensingAssumption DEF TablesOK, Fault

\* One invocation's step keeps the shape if its new local variables do.
LEMMA HandlerStep ==
    ASSUME Shape, NEW i \in Invocation, NEW r \in Handler, HeldBy(r),
           Recorded(r.known, usage), Becomes(i, r), NoneDeleted, TablesOK'
    PROVE  Shape'
<1>1. h' \in [Invocation -> Handler]
  BY DEF Shape, Becomes
<1>2. ASSUME NEW j \in Invocation PROVE HeldBy(h'[j]) /\ Recorded(h'[j].known, usage')
  <2>1. h'[j] = IF j = i THEN r ELSE h[j]
    BY DEF Shape, Becomes
  <2> QED BY <2>1 DEF Shape, Recorded, NoneDeleted
<1> QED BY <1>1, <1>2 DEF Shape

\* A pick names a record that is out of sync, and allows for a try per such record.
LEMMA PickShape ==
    ASSUME Shape, NEW i \in Invocation, h[i].pc \in {"reuse", "sync"}, h[i].unused = {},
           NEW known \in [License -> Listed \cup {Absent}], Recorded(known, usage),
           Pick(i, known)
    PROVE  \E r \in Handler : /\ HeldBy(r) /\ Recorded(r.known, usage) /\ Becomes(i, r)
                              /\ r.pc = "handOver" /\ r.known = known
                              /\ r.unused = {} /\ r.snap = h[i].snap
                              /\ r.vm = h[i].vm
<1> DEFINE R == Reusable(known)
           t == Cardinality(R)
<1>1. PICK l \in R : Becomes(i, [h[i] EXCEPT !.pc = "handOver", !.known = known,
                                             !.lic = l, !.tries = t])
  BY DEF Pick
<1>2. R \in SUBSET License /\ R # {}
  BY <1>1 DEF Reusable
<1> HIDE DEF R
<1>3. t \in 1..n
  BY <1>2, LicenseCount, FS_EmptySet
<1>4. h[i] \in Handler /\ h[i].vm \in VM
  BY DEF Shape, HeldBy
<1> HIDE DEF t
<1> DEFINE r == [h[i] EXCEPT !.pc = "handOver", !.known = known, !.lic = l, !.tries = t]
<1>5. t \in Nat /\ l \in License
  BY <1>1, <1>2, <1>3, LicenseCount
<1>6. r \in Handler
  BY <1>4, <1>5 DEF Handler, Steps
<1>7. /\ r.pc = "handOver" /\ r.known = known /\ r.lic = l /\ r.tries = t
      /\ r.unused = {} /\ r.vm = h[i].vm /\ r.snap = h[i].snap
  BY <1>4 DEF Handler
<1> HIDE DEF r
<1>8. HeldBy(r)
  BY <1>1, <1>3, <1>4, <1>5, <1>7 DEF HeldBy, R
<1> QED BY <1>1, <1>6, <1>7, <1>8 DEF r

\* What Retry leaves of an invocation.
LEMMA RetryShape ==
    ASSUME Shape, NEW i \in Invocation, h[i].pc \in {"handOver", "handOverWrite"}
    PROVE  /\ Retry(i) \in Handler /\ HeldBy(Retry(i))
           /\ Recorded(Retry(i).known, usage)
           /\ \/ Retry(i) = IdleHandler
              \/ /\ Retry(i).pc = "handOver" /\ Retry(i).known = h[i].known
                 /\ Retry(i).unused = h[i].unused /\ Retry(i).snap = Absent
                 /\ Retry(i).tries = h[i].tries - 1 /\ Retry(i).vm = h[i].vm
<1>1. /\ h[i] \in Handler /\ HeldBy(h[i]) /\ Recorded(h[i].known, usage)
      /\ h[i].tries \in 1..n /\ n \in Nat
  BY LicenseCount DEF Shape, HeldBy
<1>2. CASE h[i].tries <= 1
  <2>1. Retry(i) = IdleHandler
    BY <1>2 DEF Retry
  <2> QED BY <2>1, IdleHandlerShape
<1>3. CASE ~(h[i].tries <= 1)
  <2> DEFINE r == [h[i] EXCEPT !.pc = "handOver", !.snap = Absent, !.tries = @ - 1]
  <2>1. Retry(i) = r
    BY <1>3 DEF Retry
  <2>2. h[i].tries - 1 \in 1..n /\ h[i].tries - 1 \in Nat
    BY <1>1, <1>3
  <2>3. r \in Handler
    BY <1>1, <2>2 DEF Handler, Steps
  <2>4. /\ r.pc = "handOver" /\ r.known = h[i].known /\ r.lic = h[i].lic
        /\ r.unused = h[i].unused /\ r.vm = h[i].vm /\ r.snap = Absent
        /\ r.tries = h[i].tries - 1
    BY <1>1 DEF Handler
  <2> HIDE DEF r
  <2>5. HeldBy(r)
    BY <1>1, <2>2, <2>4 DEF HeldBy
  <2> QED BY <1>1, <2>1, <2>3, <2>4, <2>5
<1> QED BY <1>2, <1>3

-----------------------------------------------------------------------------
\* Every variable keeps its type, and an invocation holds at every step what
\* the step works on.
LEMMA ShapeInductive == Spec => []Shape
<1>1. Init => Shape
  <2> SUFFICES ASSUME Init PROVE Shape
    OBVIOUS
  <2>1. 0 \in 0..MaxFaults
    BY LicensingAssumption
  <2>2. TablesOK
    BY <2>1 DEF Init, TablesOK
  <2>3. h \in [Invocation -> Handler] /\ \A i \in Invocation : h[i] = IdleHandler
    BY IdleHandlerShape DEF Init
  <2> QED BY <2>2, <2>3, IdleHandlerShape DEF Shape
<1>2. Shape /\ [Next]_vars => Shape'
  <2> SUFFICES ASSUME Shape, [Next]_vars PROVE Shape'
    OBVIOUS
  <2>1. ASSUME NEW i \in Invocation, NEW v \in VM, Receive(i, v) PROVE Shape'
    <3>2. NoneDeleted /\ TablesOK'
      BY <2>1 DEF Receive, tables, world, NoneDeleted, Shape, TablesOK
    <3> DEFINE r == [IdleHandler EXCEPT !.pc = "list", !.vm = v]
    <3>3. r \in Handler /\ HeldBy(r) /\ Recorded(r.known, usage)
      BY DEF IdleHandler, Handler, HeldBy, Steps, NothingKnown, Recorded
    <3>4. Becomes(i, r)
      BY <2>1 DEF Receive
    <3> QED BY <3>2, <3>3, <3>4, HandlerStep
  <2>2. ASSUME NEW i \in Invocation, List(i) PROVE Shape'
    <3>1. h[i] \in Handler /\ HeldBy(h[i]) /\ Recorded(h[i].known, usage)
      BY DEF Shape
    <3>2. NoneDeleted /\ TablesOK'
      BY <2>2 DEF List, tables, world, NoneDeleted, Shape, TablesOK
    <3> DEFINE r == [h[i] EXCEPT !.pc = "stockRead", !.files = files, !.known = UsageList]
    <3>3. /\ UsageList \in [License -> Listed \cup {Absent}] /\ Recorded(UsageList, usage)
          /\ files \subseteq License
      BY UsageListShape DEF Shape, TablesOK
    <3>4. r \in Handler
      BY <3>1, <3>3 DEF Handler, Steps
    <3>5. HeldBy(r) /\ Recorded(r.known, usage)
      BY <2>2, <3>1, <3>3 DEF List, At, HeldBy, Handler
    <3>6. Becomes(i, r)
      BY <2>2 DEF List
    <3> QED BY <3>2, <3>4, <3>5, <3>6, HandlerStep
  <2>3. ASSUME NEW i \in Invocation, ListFilesFails(i) PROVE Shape'
    <3>1. h[i] \in Handler /\ HeldBy(h[i]) /\ Recorded(h[i].known, usage)
      BY DEF Shape
    <3>2. NoneDeleted /\ TablesOK'
      BY <2>3, FaultShape DEF ListFilesFails, tables, NoneDeleted, Shape, TablesOK
    <3> DEFINE r == [h[i] EXCEPT !.pc = "stockRead", !.known = UsageList]
    <3>3. /\ UsageList \in [License -> Listed \cup {Absent}] /\ Recorded(UsageList, usage)
          /\ files \subseteq License
      BY UsageListShape DEF Shape, TablesOK
    <3>4. r \in Handler
      BY <3>1, <3>3 DEF Handler, Steps
    <3>5. HeldBy(r) /\ Recorded(r.known, usage)
      BY <2>3, <3>1, <3>3 DEF ListFilesFails, At, HeldBy, Handler
    <3>6. Becomes(i, r)
      BY <2>3 DEF ListFilesFails
    <3> QED BY <3>2, <3>4, <3>5, <3>6, HandlerStep
  <2>4. ASSUME NEW i \in Invocation, StockRead(i) PROVE Shape'
    <3>1. h[i] \in Handler /\ HeldBy(h[i]) /\ Recorded(h[i].known, usage)
      BY DEF Shape
    <3>2. NoneDeleted /\ TablesOK'
      BY <2>4 DEF StockRead, tables, world, NoneDeleted, Shape, TablesOK
    <3> DEFINE r == [h[i] EXCEPT !.pc = "stockWrite", !.stock = stock]
    <3>3. r \in Handler
      BY <2>4, <3>1 DEF StockRead, Handler, Steps, Shape, TablesOK
    <3>4. HeldBy(r) /\ Recorded(r.known, usage)
      BY <2>4, <3>1 DEF StockRead, At, HeldBy, Handler, Recorded, Shape, TablesOK
    <3>5. Becomes(i, r)
      BY <2>4 DEF StockRead
    <3> QED BY <3>2, <3>3, <3>4, <3>5, HandlerStep
  <2>5. ASSUME NEW i \in Invocation, StockWrite(i) PROVE Shape'
    <3>1. h[i] \in Handler /\ HeldBy(h[i]) /\ Recorded(h[i].known, usage)
      BY DEF Shape
    <3>2. NoneDeleted /\ TablesOK'
      BY <2>5 DEF StockWrite, world, Handler, NoneDeleted, Shape, TablesOK
    <3> DEFINE r == [h[i] EXCEPT !.pc = "choose"]
    <3>3. r \in Handler
      BY <2>5, <3>1 DEF StockWrite, Handler, Steps
    <3>4. HeldBy(r) /\ Recorded(r.known, usage)
      BY <2>5, <3>1 DEF StockWrite, At, HeldBy, Handler, Recorded
    <3>5. Becomes(i, r)
      BY <2>5 DEF StockWrite
    <3> QED BY <3>2, <3>3, <3>4, <3>5, HandlerStep
  <2>6. ASSUME NEW i \in Invocation, StockWriteFails(i) PROVE Shape'
    <3>2. NoneDeleted /\ TablesOK'
      BY <2>6 DEF StockWriteFails, world, Handler, NoneDeleted, Shape, TablesOK
    <3>3. Becomes(i, IdleHandler)
      BY <2>6 DEF StockWriteFails
    <3> QED BY <3>2, <3>3, IdleHandlerShape, HandlerStep
  <2>7. ASSUME NEW i \in Invocation, Choose(i) PROVE Shape'
    <3>1. h[i] \in Handler /\ HeldBy(h[i]) /\ Recorded(h[i].known, usage)
      BY DEF Shape
    <3>2. NoneDeleted /\ TablesOK'
      BY <2>7 DEF Choose, tables, world, NoneDeleted, Shape, TablesOK
    <3> DEFINE known == [l \in License |-> IF l \in stock THEN h[i].known[l] ELSE Absent]
               seen == [h[i] EXCEPT !.known = known, !.files = {}, !.stock = {}]
               unused == {l \in stock : known[l] = Absent}
               reuse == [seen EXCEPT !.pc = "reuse"]
               claim == [seen EXCEPT !.pc = "claim", !.unused = unused]
    <3>3. /\ known \in [License -> Listed \cup {Absent}] /\ Recorded(known, usage)
          /\ unused \subseteq License /\ h[i].vm \in VM /\ h[i].pc = "choose"
      BY <2>7, <3>1 DEF Choose, At, HeldBy, Handler, Recorded, Shape, TablesOK
    <3>4. \/ Becomes(i, IdleHandler)
          \/ \E l \in License : Becomes(i, Found(i, l))
          \/ Becomes(i, reuse)
          \/ unused # {} /\ Becomes(i, claim)
      BY <2>7 DEF Choose
    <3> HIDE DEF known, unused
    <3>5. /\ reuse \in Handler /\ claim \in Handler
          /\ reuse.known = known /\ claim.known = known
      BY <3>1, <3>3 DEF Handler, Steps
    <3>6. HeldBy(reuse) /\ (unused # {} => HeldBy(claim))
      BY <3>1, <3>3 DEF HeldBy, Handler
    <3> HIDE DEF reuse, claim
    <3>7. ASSUME NEW l \in License, Becomes(i, Found(i, l)) PROVE Shape'
      BY <3>1, <3>2, <3>3, <3>7, FoundShape, HandlerStep
    <3> QED BY <3>2, <3>3, <3>4, <3>5, <3>6, <3>7, IdleHandlerShape, HandlerStep
  <2>8. ASSUME NEW i \in Invocation, Claim(i) PROVE Shape'
    <3>1. h[i] \in Handler /\ HeldBy(h[i]) /\ Recorded(h[i].known, usage)
      BY DEF Shape
    <3>2. NoneDeleted /\ TablesOK'
      BY <2>8 DEF Claim, tables, world, NoneDeleted, Shape, TablesOK
    <3>3. PICK l \in h[i].unused :
             LET left == h[i].unused \ {l}
             IN \/ Becomes(i, [h[i] EXCEPT !.pc = "claimWrite", !.lic = l, !.unused = left])
                \/ left = {} /\ Becomes(i, [h[i] EXCEPT !.pc = "reuse", !.unused = left])
                \/ left # {} /\ Becomes(i, [h[i] EXCEPT !.pc = "claim", !.unused = left])
      BY <2>8 DEF Claim
    <3> DEFINE left == h[i].unused \ {l}
               r1 == [h[i] EXCEPT !.pc = "claimWrite", !.lic = l, !.unused = left]
               r2 == [h[i] EXCEPT !.pc = "reuse", !.unused = left]
               r3 == [h[i] EXCEPT !.pc = "claim", !.unused = left]
    <3>4. h[i].unused \subseteq License /\ h[i].vm \in VM /\ h[i].pc = "claim"
      BY <2>8, <3>1 DEF Claim, At, HeldBy, Handler
    <3>5. left \subseteq License /\ l \in License
      BY <3>3, <3>4
    <3> HIDE DEF left
    <3>6. r1 \in Handler /\ r2 \in Handler /\ r3 \in Handler
      BY <3>1, <3>5 DEF Handler, Steps
    <3>7. /\ HeldBy(r1) /\ (left = {} => HeldBy(r2)) /\ HeldBy(r3)
          /\ r1.known = h[i].known /\ r2.known = h[i].known /\ r3.known = h[i].known
      BY <3>1, <3>4, <3>5 DEF HeldBy, Handler
    <3>8. \/ Becomes(i, r1)
          \/ left = {} /\ Becomes(i, r2)
          \/ Becomes(i, r3)
      BY <3>3 DEF left
    <3> HIDE DEF r1, r2, r3
    <3> QED BY <3>1, <3>2, <3>6, <3>7, <3>8, HandlerStep
  <2>9. ASSUME NEW i \in Invocation, ClaimWrite(i) PROVE Shape'
    <3>1. h[i] \in Handler /\ HeldBy(h[i]) /\ Recorded(h[i].known, usage)
      BY DEF Shape
    <3>2. h[i].vm \in VM /\ h[i].lic \in License
      BY <2>9, <3>1 DEF ClaimWrite, At, HeldBy
    <3> DEFINE rec == [vm |-> h[i].vm, inSync |-> TRUE, etag |-> FreshEtag]
    <3>3. rec \in UsageRecord /\ rec # Absent
      BY <3>2, RecordShape
    <3> HIDE DEF rec
    <3>4. usage' = [usage EXCEPT ![h[i].lic] = rec] /\ clashed' \subseteq License
      BY <2>9, <3>2 DEF ClaimWrite, rec, Shape, TablesOK
    <3>5. NoneDeleted /\ TablesOK'
      <4>1. stock' = stock /\ UNCHANGED world
        BY <2>9 DEF ClaimWrite
      <4> QED BY <3>2, <3>3, <3>4, <4>1 DEF world, NoneDeleted, Shape, TablesOK
    <3>6. Becomes(i, Found(i, h[i].lic))
      BY <2>9 DEF ClaimWrite
    <3> QED BY <3>1, <3>2, <3>5, <3>6, FoundShape, HandlerStep
  <2>10. ASSUME NEW i \in Invocation, NEW saved \in BOOLEAN, ClaimFails(i, saved) PROVE Shape'
    <3>1. h[i] \in Handler /\ HeldBy(h[i]) /\ Recorded(h[i].known, usage)
      BY DEF Shape
    <3>2. h[i].vm \in VM /\ h[i].lic \in License
      BY <2>10, <3>1 DEF ClaimFails, At, HeldBy
    <3> DEFINE rec == [vm |-> h[i].vm, inSync |-> TRUE, etag |-> FreshEtag]
    <3>3. rec \in UsageRecord /\ rec # Absent
      BY <3>2, RecordShape
    <3> HIDE DEF rec
    <3>4. /\ usage' = [usage EXCEPT ![h[i].lic] = rec] \/ usage' = usage
          /\ clashed' \subseteq License
      BY <2>10, <3>2 DEF ClaimFails, rec, Shape, TablesOK
    <3>5. NoneDeleted /\ TablesOK'
      BY <2>10, <3>2, <3>3, <3>4, FaultShape DEF ClaimFails, NoneDeleted, Shape, TablesOK
    <3> DEFINE r == [h[i] EXCEPT !.pc = IF h[i].unused = {} THEN "reuse" ELSE "claim",
                                 !.lic = None]
    <3>6. r \in Handler
      BY <3>1 DEF Handler, Steps
    <3>7. HeldBy(r) /\ Recorded(r.known, usage)
      BY <2>10, <3>1, <3>2 DEF ClaimFails, At, HeldBy, Handler
    <3>8. Becomes(i, r)
      BY <2>10 DEF ClaimFails
    <3> QED BY <3>5, <3>6, <3>7, <3>8, HandlerStep
  <2>11. ASSUME NEW i \in Invocation, Reuse(i) PROVE Shape'
    <3>1. h[i] \in Handler /\ HeldBy(h[i]) /\ Recorded(h[i].known, usage)
      BY DEF Shape
    <3>2. NoneDeleted /\ TablesOK'
      BY <2>11 DEF Reuse, tables, world, NoneDeleted, Shape, TablesOK
    <3>3. h[i].pc = "reuse" /\ h[i].unused = {}
          /\ h[i].known \in [License -> Listed \cup {Absent}]
      BY <2>11, <3>1 DEF Reuse, At, HeldBy, Handler
    <3>4. CASE Pick(i, h[i].known)
      BY <3>1, <3>2, <3>3, <3>4, PickShape, HandlerStep
    <3>5. CASE ~Pick(i, h[i].known)
      <4> DEFINE r == [h[i] EXCEPT !.pc = "sync",
                                   !.unused = {l \in License : h[i].known[l] # Absent}]
      <4>1. r \in Handler
        BY <3>1 DEF Handler, Steps
      <4>2. HeldBy(r) /\ Recorded(r.known, usage)
        BY <3>1, <3>3 DEF HeldBy, Handler
      <4>3. Becomes(i, r)
        BY <2>11, <3>5 DEF Reuse
      <4> QED BY <3>2, <4>1, <4>2, <4>3, HandlerStep
    <3> QED BY <3>4, <3>5
  <2>12. ASSUME NEW i \in Invocation, SyncStatus(i) PROVE Shape'
    <3>1. h[i] \in Handler /\ HeldBy(h[i]) /\ Recorded(h[i].known, usage)
      BY DEF Shape
    <3>2. PICK l \in h[i].unused :
             /\ \/ \E b \in BOOLEAN : usage' = [usage EXCEPT ![l] =
                            [vm |-> usage[l].vm, inSync |-> b, etag |-> FreshEtag]]
                \/ UNCHANGED usage
             /\ Becomes(i, [h[i] EXCEPT !.unused = @ \ {l}])
      BY <2>12 DEF SyncStatus
    <3>3. h[i].pc = "sync" /\ l \in License /\ usage[l] # Absent
      BY <2>12, <3>1 DEF SyncStatus, At, HeldBy, Handler, Recorded
    <3>4. usage[l].vm \in VM
      BY <3>3 DEF Shape, TablesOK, UsageRecord
    <3>5. usage' = usage \/ \E rec \in UsageRecord :
             rec # Absent /\ usage' = [usage EXCEPT ![l] = rec]
      BY <3>2, <3>4, RecordShape
    <3>6. NoneDeleted /\ TablesOK'
      <4>1. UNCHANGED <<stock, clashed, world>>
        BY <2>12 DEF SyncStatus
      <4> QED BY <3>3, <3>5, <4>1 DEF world, NoneDeleted, Shape, TablesOK
    <3> DEFINE r == [h[i] EXCEPT !.unused = @ \ {l}]
    <3>7. r \in Handler
      BY <3>1 DEF Handler
    <3>8. HeldBy(r) /\ Recorded(r.known, usage)
      BY <3>1, <3>3 DEF HeldBy, Handler
    <3> QED BY <3>2, <3>6, <3>7, <3>8, HandlerStep
  <2>13. ASSUME NEW i \in Invocation, Relist(i) PROVE Shape'
    <3>1. h[i] \in Handler /\ HeldBy(h[i]) /\ Recorded(h[i].known, usage)
      BY DEF Shape
    <3>2. NoneDeleted /\ TablesOK'
      BY <2>13 DEF Relist, tables, world, NoneDeleted, Shape, TablesOK
    <3>3. h[i].pc = "sync" /\ h[i].unused = {}
      BY <2>13 DEF Relist, At
    <3>4. UsageList \in [License -> Listed \cup {Absent}] /\ Recorded(UsageList, usage)
      BY UsageListShape DEF Shape
    <3>5. CASE Pick(i, UsageList)
      BY <3>1, <3>2, <3>3, <3>4, <3>5, PickShape, HandlerStep
    <3>6. CASE Becomes(i, IdleHandler)
      BY <3>2, <3>6, IdleHandlerShape, HandlerStep
    <3> QED BY <2>13, <3>5, <3>6 DEF Relist
  <2>14. ASSUME NEW i \in Invocation, HandOver(i) PROVE Shape'
    <3>1. h[i] \in Handler /\ HeldBy(h[i]) /\ Recorded(h[i].known, usage)
      BY DEF Shape
    <3>2. NoneDeleted /\ TablesOK'
      BY <2>14 DEF HandOver, tables, world, NoneDeleted, Shape, TablesOK
    <3>3. h[i].pc = "handOver" /\ usage[h[i].lic] \in UsageRecord
      BY <2>14, <3>1 DEF HandOver, At, HeldBy, Recorded, Reusable, Shape, TablesOK
    <3> DEFINE r == [h[i] EXCEPT !.pc = "handOverWrite", !.snap = usage[h[i].lic]]
    <3>4. Becomes(i, r) \/ Becomes(i, Retry(i))
      BY <2>14 DEF HandOver
    <3>5. r \in Handler
      BY <3>1, <3>3 DEF Handler, Steps
    <3>6. HeldBy(r) /\ Recorded(r.known, usage)
      BY <3>1, <3>3, AbsentAssumption DEF HeldBy, Handler
    <3> HIDE DEF r
    <3> QED BY <3>2, <3>3, <3>4, <3>5, <3>6, RetryShape, HandlerStep
  <2>15. ASSUME NEW i \in Invocation, HandOverWrite(i) PROVE Shape'
    <3>1. h[i] \in Handler /\ HeldBy(h[i]) /\ Recorded(h[i].known, usage)
      BY DEF Shape
    <3>2. h[i].vm \in VM /\ h[i].lic \in License
      BY <2>15, <3>1 DEF HandOverWrite, At, HeldBy
    <3> DEFINE rec == [vm |-> h[i].vm, inSync |-> TRUE, etag |-> FreshEtag]
    <3>3. rec \in UsageRecord /\ rec # Absent
      BY <3>2, RecordShape
    <3> HIDE DEF rec
    <3>4. usage' = [usage EXCEPT ![h[i].lic] = rec]
      BY <2>15 DEF HandOverWrite, rec
    <3>5. NoneDeleted /\ TablesOK'
      BY <2>15, <3>2, <3>3, <3>4 DEF HandOverWrite, world, NoneDeleted, Shape, TablesOK
    <3>6. Becomes(i, Found(i, h[i].lic))
      BY <2>15 DEF HandOverWrite
    <3> QED BY <3>1, <3>2, <3>5, <3>6, FoundShape, HandlerStep
  <2>16. ASSUME NEW i \in Invocation, HandOverWriteFails(i) PROVE Shape'
    <3>2. NoneDeleted /\ TablesOK'
      BY <2>16 DEF HandOverWriteFails, tables, world, NoneDeleted, Shape, TablesOK
    <3>3. h[i].pc = "handOverWrite" /\ Becomes(i, Retry(i))
      BY <2>16 DEF HandOverWriteFails, At
    <3> QED BY <3>2, <3>3, RetryShape, HandlerStep
  <2>17. ASSUME NEW i \in Invocation, Load(i) PROVE Shape'
    <3>1. h[i] \in Handler /\ HeldBy(h[i]) /\ Recorded(h[i].known, usage)
      BY DEF Shape
    <3>2. h[i].vm \in VM /\ h[i].lic \in License
      BY <2>17, <3>1 DEF Load, At, HeldBy
    <3>3. NoneDeleted /\ TablesOK'
      BY <2>17, <3>2 DEF Load, tables, NoneDeleted, Shape, TablesOK
    <3>4. Becomes(i, IdleHandler)
      BY <2>17 DEF Load
    <3> QED BY <3>3, <3>4, IdleHandlerShape, HandlerStep
  <2>18. ASSUME NEW i \in Invocation, Crash(i) PROVE Shape'
    <3>2. NoneDeleted /\ TablesOK'
      BY <2>18, FaultShape DEF Crash, tables, NoneDeleted, Shape, TablesOK
    <3>3. Becomes(i, IdleHandler)
      BY <2>18 DEF Crash
    <3> QED BY <3>2, <3>3, IdleHandlerShape, HandlerStep
  <2>19. ASSUME NEW v \in VM, Leave(v) PROVE Shape'
    BY <2>19 DEF Leave, tables, Shape, TablesOK, Recorded
  <2>20. ASSUME NEW l \in License, RemoveFile(l) PROVE Shape'
    BY <2>20, FaultShape DEF RemoveFile, tables, Shape, TablesOK, Recorded
  <2>21. ASSUME NEW l \in License, AddFile(l) PROVE Shape'
    BY <2>21 DEF AddFile, tables, Shape, TablesOK, Recorded
  <2>22. CASE UNCHANGED vars
    BY <2>22 DEF vars, Shape, TablesOK, Recorded
  <2> QED
    BY <2>1, <2>2, <2>3, <2>4, <2>5, <2>6, <2>7, <2>8, <2>9, <2>10, <2>11,
       <2>12, <2>13, <2>14, <2>15, <2>16, <2>17, <2>18, <2>19, <2>20, <2>21,
       <2>22
       DEF Next, Run
<1> QED BY <1>1, <1>2, PTL DEF Spec

\* Every variable keeps its type.
THEOREM TypeCorrect == Spec => []TypeOK
<1>1. Shape => TypeOK
  BY DEF Shape, TablesOK, TypeOK
<1> QED BY <1>1, ShapeInductive, PTL

-----------------------------------------------------------------------------
(* The license a living FortiGate was given is registered to it.  Behind it: *)
(* the usage table only takes a license from a VM that has gone, for what an *)
(* invocation knows of VMs out of sync stays true, and its conditional write *)
(* loses against any other since it read the record.                         *)

\* In the usage table u, license l is registered to v.
Kept(u, v, l) == u[l] # Absent /\ u[l].vm = v

\* Records marked out of sync are of VMs not in U.
GoneIfOut(records, U) ==
    \A l \in License : records[l] # Absent /\ ~records[l].inSync => records[l].vm \notin U

\* What an invocation with local variables r relies on, given the usage table u,
\* the VMs U that are up and the licenses c whose first uses clashed.
OwnedBy(r, u, U, c) ==
    /\ GoneIfOut(r.known, U)
    /\ \A l \in License \ c :
          r.known[l] # Absent /\ r.known[l].vm \in U => Kept(u, r.known[l].vm, l)
    /\ r.pc = "load" /\ r.vm \in U /\ r.lic \notin c => Kept(u, r.vm, r.lic)
    /\ r.pc = "handOverWrite" =>
          /\ r.snap.vm \notin U
          /\ u[r.lic] # Absent /\ u[r.lic].etag = r.snap.etag => u[r.lic].vm = r.snap.vm

\* HolderOwns, strengthened until every step preserves it.
Owned ==
    /\ HolderOwns
    /\ GoneIfOut(usage, up)
    /\ \A i \in Invocation : OwnedBy(h[i], usage, up, clashed)

\* What a step may do to the table, from (u, U, c) to (u2, U2, c2).
Moves(u, U, c, u2, U2, c2) ==
    /\ U2 \subseteq U /\ c \subseteq c2
    /\ GoneIfOut(u2, U2)
    /\ \A l \in License \ c2 :
          u[l] # Absent /\ u[l].vm \in U2 => Kept(u2, u[l].vm, l)
    /\ \A l \in License : u2[l] = u[l] \/ u2[l].etag \notin InUse

\* A step of somebody else takes from an invocation nothing that it relies on.
LEMMA OwnedByKept ==
    ASSUME NEW r \in Handler, HeldBy(r), NEW u, NEW U, NEW c, NEW u2, NEW U2, NEW c2,
           Moves(u, U, c, u2, U2, c2), OwnedBy(r, u, U, c),
           r.snap # Absent => r.snap.etag \in InUse
    PROVE  OwnedBy(r, u2, U2, c2)
<1>1. GoneIfOut(r.known, U2)
  BY DEF OwnedBy, Moves, GoneIfOut
<1>2. ASSUME NEW l \in License \ c2, r.known[l] # Absent, r.known[l].vm \in U2
      PROVE  Kept(u2, r.known[l].vm, l)
  BY <1>2 DEF OwnedBy, Moves, Kept
<1>3. ASSUME r.pc = "load", r.vm \in U2, r.lic \notin c2
      PROVE  Kept(u2, r.vm, r.lic)
  <2>1. r.lic \in License
    BY <1>3 DEF HeldBy
  <2> QED BY <1>3, <2>1 DEF OwnedBy, Moves, Kept
<1>4. ASSUME r.pc = "handOverWrite"
      PROVE  /\ r.snap.vm \notin U2
             /\ u2[r.lic] # Absent /\ u2[r.lic].etag = r.snap.etag
                   => u2[r.lic].vm = r.snap.vm
  <2>1. r.lic \in License /\ r.snap.etag \in InUse
    BY <1>4 DEF HeldBy
  <2> QED BY <1>4, <2>1 DEF OwnedBy, Moves
<1> QED BY <1>1, <1>2, <1>3, <1>4 DEF OwnedBy

\* A step of one invocation keeps Owned, if the invocation itself does.
LEMMA OwnedStep ==
    ASSUME Shape, Owned, NEW i \in Invocation, NEW r, Becomes(i, r),
           OwnedBy(r, usage', up', clashed'), HolderOwns',
           Moves(usage, up, clashed, usage', up', clashed')
    PROVE  Owned'
<1>1. ASSUME NEW j \in Invocation PROVE OwnedBy(h'[j], usage', up', clashed')
  <2>1. h'[j] = IF j = i THEN r ELSE h[j]
    BY DEF Shape, Becomes
  <2>2. h[j] \in Handler /\ HeldBy(h[j]) /\ OwnedBy(h[j], usage, up, clashed)
    BY DEF Shape, Owned
  <2>3. h[j].snap # Absent => h[j].snap.etag \in InUse
    BY DEF InUse
  <2>4. OwnedBy(h[j], usage', up', clashed')
    BY <2>2, <2>3, OwnedByKept
  <2> QED BY <2>1, <2>4
<1> QED BY <1>1 DEF Owned, Moves

\* Licenses that nobody is given or loses stay owned.
LEMMA HoldersKept ==
    ASSUME Shape, Owned, holds' = holds,
           Moves(usage, up, clashed, usage', up', clashed')
    PROVE  HolderOwns'
<1> SUFFICES ASSUME NEW v \in up', holds[v] # None, holds[v] \notin clashed'
             PROVE  Kept(usage', v, holds[v])
  BY DEF HolderOwns, Kept
<1>1. v \in VM /\ v \in up /\ holds[v] \in License /\ holds[v] \notin clashed
  BY DEF Shape, TablesOK, Moves
<1>2. Kept(usage, v, holds[v])
  BY <1>1 DEF Owned, HolderOwns, Kept
<1> QED BY <1>1, <1>2 DEF Moves, Kept

\* Nothing changed.
LEMMA MovesNot ==
    ASSUME Shape, Owned, usage' = usage, up' = up, clashed' = clashed
    PROVE  Moves(usage, up, clashed, usage', up', clashed')
BY DEF Moves, Owned, Kept

\* A step that leaves the tables and the VMs alone keeps Owned if its own
\* invocation does not claim more than it did.
LEMMA OwnedLocal ==
    ASSUME Shape, Owned, NEW i \in Invocation, NEW r, Becomes(i, r),
           usage' = usage, up' = up, clashed' = clashed, holds' = holds,
           OwnedBy(r, usage, up, clashed)
    PROVE  Owned'
BY MovesNot, HoldersKept, OwnedStep

\* The write of a record for a VM, over none, over one of a VM that has gone or
\* in a clash.
LEMMA MovesWrite ==
    ASSUME Shape, Owned, NEW l \in License, NEW v \in VM, NEW b \in BOOLEAN,
           usage' = [usage EXCEPT ![l] = [vm |-> v, inSync |-> b, etag |-> FreshEtag]],
           ~b => v \notin up,
           up' = up, clashed \subseteq clashed',
           \/ usage[l] = Absent \/ usage[l].vm \notin up \/ usage[l].vm = v
           \/ l \in clashed'
    PROVE  /\ Moves(usage, up, clashed, usage', up', clashed')
           /\ Kept(usage', v, l)
<1> DEFINE rec == [vm |-> v, inSync |-> b, etag |-> FreshEtag]
<1>1. /\ rec # Absent /\ rec.vm = v /\ rec.inSync = b
      /\ rec.etag \notin InUse
  BY RecordShape, FreshEtagExists
<1> HIDE DEF rec
<1>2. \A k \in License : usage'[k] = IF k = l THEN rec ELSE usage[k]
  BY DEF rec, Shape, TablesOK
<1>3. Kept(usage', v, l)
  BY <1>1, <1>2 DEF Kept
<1>4. GoneIfOut(usage', up')
  BY <1>1, <1>2 DEF Owned, GoneIfOut
<1>5. ASSUME NEW k \in License \ clashed', usage[k] # Absent, usage[k].vm \in up'
      PROVE  Kept(usage', usage[k].vm, k)
  BY <1>1, <1>2, <1>5 DEF Kept
<1> QED BY <1>1, <1>2, <1>3, <1>4, <1>5 DEF Moves

\* An invocation without records, license or snapshot relies on nothing.
LEMMA IdleOwned == \A u, U, c : OwnedBy(IdleHandler, u, U, c)
BY DEF OwnedBy, GoneIfOut, IdleHandler, NothingKnown

\* What OwnedBy says of an invocation depends on its records alone until it has
\* a license or is about to write over one.
LEMMA OwnedByRecords ==
    ASSUME NEW r, NEW s, OwnedBy(s, usage, up, clashed), r.known = s.known,
           r.pc \notin {"load", "handOverWrite"}
    PROVE  OwnedBy(r, usage, up, clashed)
BY DEF OwnedBy

\* The records that a listing returns are as good as the table.
LEMMA ListOwned ==
    ASSUME Shape, Owned, NEW r, r.known = UsageList,
           r.pc \notin {"load", "handOverWrite"}
    PROVE  OwnedBy(r, usage, up, clashed)
<1>1. \A l \in License :
         /\ UsageList[l] # Absent => usage[l] # Absent
         /\ usage[l] # Absent => /\ UsageList[l].vm = usage[l].vm
                                 /\ UsageList[l].inSync = usage[l].inSync
  BY DEF UsageList
<1> QED BY <1>1 DEF OwnedBy, Owned, GoneIfOut, Kept

LEMMA RetryOwned ==
    ASSUME Shape, Owned, NEW i \in Invocation, h[i].pc \in {"handOver", "handOverWrite"}
    PROVE  OwnedBy(Retry(i), usage, up, clashed)
<1>1. CASE Retry(i) = IdleHandler
  BY <1>1, IdleOwned
<1>2. CASE Retry(i).pc = "handOver" /\ Retry(i).known = h[i].known
  BY <1>2, OwnedByRecords DEF Owned
<1> QED BY <1>1, <1>2, RetryShape

\* A license found is owned by the VM that asks.
LEMMA FoundOwned ==
    ASSUME NEW i \in Invocation, NEW l \in License, NEW u, NEW U, NEW c,
           h[i].vm \in U /\ l \notin c => Kept(u, h[i].vm, l)
    PROVE  OwnedBy(Found(i, l), u, U, c)
BY DEF OwnedBy, GoneIfOut, Found, IdleHandler, NothingKnown

-----------------------------------------------------------------------------
\* Whatever requests, retries, hand-overs and status syncs overlap, what each
\* invocation relies on stays true.
LEMMA OwnedInductive == Spec => []Owned
<1>1. Init => Owned
  BY IdleOwned DEF Init, Owned, HolderOwns, GoneIfOut
<1>2. Shape /\ Owned /\ [Next]_vars => Owned'
  <2> SUFFICES ASSUME Shape, Owned, [Next]_vars PROVE Owned'
    OBVIOUS
  <2> USE DEF tables, world
  <2>1. ASSUME NEW i \in Invocation, NEW v \in VM, Receive(i, v) PROVE Owned'
    <3> DEFINE r == [IdleHandler EXCEPT !.pc = "list", !.vm = v]
    <3>1. Becomes(i, r)
      BY <2>1 DEF Receive
    <3>2. r.known = IdleHandler.known /\ r.pc = "list"
      BY DEF IdleHandler
    <3>3. UNCHANGED <<usage, up, clashed, holds>>
      BY <2>1 DEF Receive
    <3> HIDE DEF r
    <3> QED BY <3>1, <3>2, <3>3, IdleOwned, OwnedByRecords, OwnedLocal
  <2>2. ASSUME NEW i \in Invocation, List(i) PROVE Owned'
    <3> DEFINE r == [h[i] EXCEPT !.pc = "stockRead", !.files = files, !.known = UsageList]
    <3>1. Becomes(i, r) /\ UNCHANGED <<usage, up, clashed, holds>>
      BY <2>2 DEF List
    <3>2. h[i] \in Handler
      BY DEF Shape
    <3>3. r.known = UsageList /\ r.pc = "stockRead"
      BY <3>2 DEF Handler
    <3> HIDE DEF r
    <3> QED BY <3>1, <3>3, ListOwned, OwnedLocal
  <2>3. ASSUME NEW i \in Invocation, ListFilesFails(i) PROVE Owned'
    <3> DEFINE r == [h[i] EXCEPT !.pc = "stockRead", !.known = UsageList]
    <3>1. Becomes(i, r) /\ UNCHANGED <<usage, up, clashed, holds>>
      BY <2>3 DEF ListFilesFails
    <3>2. h[i] \in Handler
      BY DEF Shape
    <3>3. r.known = UsageList /\ r.pc = "stockRead"
      BY <3>2 DEF Handler
    <3> HIDE DEF r
    <3> QED BY <3>1, <3>3, ListOwned, OwnedLocal
  <2>4. ASSUME NEW i \in Invocation, StockRead(i) PROVE Owned'
    <3> DEFINE r == [h[i] EXCEPT !.pc = "stockWrite", !.stock = stock]
    <3>1. Becomes(i, r) /\ UNCHANGED <<usage, up, clashed, holds>>
      BY <2>4 DEF StockRead
    <3>2. h[i] \in Handler /\ OwnedBy(h[i], usage, up, clashed)
      BY DEF Shape, Owned
    <3>3. r.known = h[i].known /\ r.pc = "stockWrite"
      BY <3>2 DEF Handler
    <3> HIDE DEF r
    <3> QED BY <3>1, <3>2, <3>3, OwnedByRecords, OwnedLocal
  <2>5. ASSUME NEW i \in Invocation, StockWrite(i) PROVE Owned'
    <3> DEFINE r == [h[i] EXCEPT !.pc = "choose"]
    <3>1. Becomes(i, r) /\ UNCHANGED <<usage, up, clashed, holds>>
      BY <2>5 DEF StockWrite
    <3>2. h[i] \in Handler /\ OwnedBy(h[i], usage, up, clashed)
      BY DEF Shape, Owned
    <3>3. r.known = h[i].known /\ r.pc = "choose"
      BY <3>2 DEF Handler
    <3> HIDE DEF r
    <3> QED BY <3>1, <3>2, <3>3, OwnedByRecords, OwnedLocal
  <2>6. ASSUME NEW i \in Invocation, StockWriteFails(i) PROVE Owned'
    <3>1. Becomes(i, IdleHandler) /\ UNCHANGED <<usage, up, clashed, holds>>
      BY <2>6 DEF StockWriteFails
    <3> QED BY <3>1, IdleOwned, OwnedLocal
  <2>7. ASSUME NEW i \in Invocation, Choose(i) PROVE Owned'
    <3> DEFINE known == [l \in License |-> IF l \in stock THEN h[i].known[l] ELSE Absent]
               seen == [h[i] EXCEPT !.known = known, !.files = {}, !.stock = {}]
               unused == {l \in stock : known[l] = Absent}
               reuse == [seen EXCEPT !.pc = "reuse"]
               claim == [seen EXCEPT !.pc = "claim", !.unused = unused]
    <3>1. \/ Becomes(i, IdleHandler)
          \/ \E l \in License : /\ Becomes(i, Found(i, l))
                                 /\ h[i].known[l] # Absent /\ h[i].known[l].vm = h[i].vm
          \/ Becomes(i, reuse)
          \/ Becomes(i, claim)
      BY <2>7 DEF Choose
    <3>2. UNCHANGED <<usage, up, clashed, holds>>
      BY <2>7 DEF Choose
    <3>3. h[i] \in Handler /\ OwnedBy(h[i], usage, up, clashed)
      BY DEF Shape, Owned
    <3>4. \A l \in License : known[l] # Absent => known[l] = h[i].known[l]
      OBVIOUS
    <3> HIDE DEF known, unused
    <3>5. /\ reuse.known = known /\ reuse.pc = "reuse"
          /\ claim.known = known /\ claim.pc = "claim"
      BY <3>3 DEF Handler
    <3> HIDE DEF reuse, claim
    <3>6. OwnedBy(reuse, usage, up, clashed) /\ OwnedBy(claim, usage, up, clashed)
      BY <3>3, <3>4, <3>5 DEF OwnedBy, GoneIfOut
    <3>7. ASSUME NEW l \in License, Becomes(i, Found(i, l)),
                 h[i].known[l] # Absent, h[i].known[l].vm = h[i].vm
          PROVE  Owned'
      <4>1. h[i].vm \in up /\ l \notin clashed => Kept(usage, h[i].vm, l)
        BY <3>3, <3>7 DEF OwnedBy
      <4> QED BY <3>2, <3>7, <4>1, FoundOwned, OwnedLocal
    <3> QED BY <3>1, <3>2, <3>6, <3>7, IdleOwned, OwnedLocal
  <2>8. ASSUME NEW i \in Invocation, Claim(i) PROVE Owned'
    <3>1. PICK l \in h[i].unused, pc \in {"claim", "reuse"} :
             LET left == h[i].unused \ {l}
             IN \/ Becomes(i, [h[i] EXCEPT !.pc = "claimWrite", !.lic = l, !.unused = left])
                \/ Becomes(i, [h[i] EXCEPT !.pc = pc, !.unused = left])
      BY <2>8 DEF Claim
    <3> DEFINE left == h[i].unused \ {l}
               r1 == [h[i] EXCEPT !.pc = "claimWrite", !.lic = l, !.unused = left]
               r2 == [h[i] EXCEPT !.pc = pc, !.unused = left]
    <3>2. Becomes(i, r1) \/ Becomes(i, r2)
      BY <3>1
    <3>3. UNCHANGED <<usage, up, clashed, holds>>
      BY <2>8 DEF Claim
    <3>4. h[i] \in Handler /\ OwnedBy(h[i], usage, up, clashed)
      BY DEF Shape, Owned
    <3>5. /\ r1.known = h[i].known /\ r1.pc = "claimWrite"
          /\ r2.known = h[i].known /\ r2.pc = pc
      BY <3>4 DEF Handler
    <3> HIDE DEF r1, r2
    <3> QED BY <3>2, <3>3, <3>4, <3>5, OwnedByRecords, OwnedLocal
  <2>9. ASSUME NEW i \in Invocation, ClaimWrite(i) PROVE Owned'
    <3> DEFINE l == h[i].lic
    <3>1. l \in License /\ h[i].vm \in VM
      BY <2>9 DEF ClaimWrite, At, Shape, HeldBy
    <3>2. /\ usage' = [usage EXCEPT ![l] =
                          [vm |-> h[i].vm, inSync |-> TRUE, etag |-> FreshEtag]]
          /\ clashed \subseteq clashed' /\ (usage[l] = Absent \/ l \in clashed')
          /\ Becomes(i, Found(i, l)) /\ up' = up /\ holds' = holds
      BY <2>9 DEF ClaimWrite
    <3> HIDE DEF l
    <3>3. Moves(usage, up, clashed, usage', up', clashed') /\ Kept(usage', h[i].vm, l)
      BY <3>1, <3>2, MovesWrite
    <3>4. OwnedBy(Found(i, l), usage', up', clashed')
      BY <3>1, <3>3, FoundOwned
    <3> QED BY <3>2, <3>3, <3>4, HoldersKept, OwnedStep
  <2>10. ASSUME NEW i \in Invocation, NEW saved \in BOOLEAN, ClaimFails(i, saved)
         PROVE  Owned'
    <3> DEFINE l == h[i].lic
               r == [h[i] EXCEPT !.pc = IF h[i].unused = {} THEN "reuse" ELSE "claim",
                                 !.lic = None]
    <3>1. l \in License /\ h[i].vm \in VM /\ h[i].pc = "claimWrite"
      BY <2>10 DEF ClaimFails, At, Shape, HeldBy
    <3>2. /\ \/ /\ usage' = [usage EXCEPT ![l] =
                                [vm |-> h[i].vm, inSync |-> TRUE, etag |-> FreshEtag]]
                /\ clashed \subseteq clashed' /\ (usage[l] = Absent \/ l \in clashed')
             \/ usage' = usage /\ clashed' = clashed
          /\ Becomes(i, r) /\ up' = up /\ holds' = holds
      BY <2>10 DEF ClaimFails
    <3> HIDE DEF l
    <3>3. Moves(usage, up, clashed, usage', up', clashed')
      BY <3>1, <3>2, MovesWrite, MovesNot
    <3>4. /\ h[i] \in Handler /\ HeldBy(h[i]) /\ OwnedBy(h[i], usage, up, clashed)
          /\ (h[i].snap # Absent => h[i].snap.etag \in InUse)
      BY DEF Shape, Owned, InUse
    <3>5. OwnedBy(h[i], usage', up', clashed')
      BY <3>3, <3>4, OwnedByKept
    <3>6. r.known = h[i].known /\ r.pc \notin {"load", "handOverWrite"}
      BY <3>4 DEF Handler
    <3> HIDE DEF r
    <3>7. OwnedBy(r, usage', up', clashed')
      BY <3>5, <3>6 DEF OwnedBy
    <3> QED BY <3>2, <3>3, <3>7, HoldersKept, OwnedStep
  <2>11. ASSUME NEW i \in Invocation, Reuse(i) PROVE Owned'
    <3>1. /\ h[i] \in Handler /\ Recorded(h[i].known, usage) /\ HeldBy(h[i])
          /\ h[i].pc = "reuse" /\ OwnedBy(h[i], usage, up, clashed)
      BY <2>11 DEF Reuse, At, Shape, Owned
    <3>2. UNCHANGED <<usage, up, clashed, holds>>
      BY <2>11 DEF Reuse
    <3>3. h[i].unused = {} /\ h[i].known \in [License -> Listed \cup {Absent}]
      BY <3>1 DEF HeldBy, Handler
    <3>4. CASE Pick(i, h[i].known)
      <4>1. PICK r \in Handler :
               Becomes(i, r) /\ r.pc = "handOver" /\ r.known = h[i].known
        BY <3>1, <3>3, <3>4, PickShape
      <4> QED BY <3>1, <3>2, <4>1, OwnedByRecords, OwnedLocal
    <3>5. CASE ~Pick(i, h[i].known)
      <4> DEFINE r == [h[i] EXCEPT !.pc = "sync",
                                   !.unused = {l \in License : h[i].known[l] # Absent}]
      <4>1. Becomes(i, r)
        BY <2>11, <3>5 DEF Reuse
      <4>2. r.known = h[i].known /\ r.pc = "sync"
        BY <3>1 DEF Handler
      <4> HIDE DEF r
      <4> QED BY <3>1, <3>2, <4>1, <4>2, OwnedByRecords, OwnedLocal
    <3> QED BY <3>4, <3>5
  <2>12. ASSUME NEW i \in Invocation, SyncStatus(i) PROVE Owned'
    <3>1. PICK l \in h[i].unused :
             /\ \/ \E b \in BOOLEAN :
                      /\ ~b => usage[l].vm \notin up
                      /\ usage' = [usage EXCEPT ![l] =
                            [vm |-> usage[l].vm, inSync |-> b, etag |-> FreshEtag]]
                \/ usage' = usage
             /\ Becomes(i, [h[i] EXCEPT !.unused = @ \ {l}])
             /\ clashed' = clashed /\ up' = up /\ holds' = holds
      BY <2>12 DEF SyncStatus
    <3> DEFINE r == [h[i] EXCEPT !.unused = @ \ {l}]
    <3>2. /\ h[i] \in Handler /\ HeldBy(h[i]) /\ OwnedBy(h[i], usage, up, clashed)
          /\ Recorded(h[i].known, usage) /\ h[i].pc = "sync"
          /\ (h[i].snap # Absent => h[i].snap.etag \in InUse)
      BY <2>12 DEF SyncStatus, At, Shape, Owned, InUse
    <3>3. l \in License /\ usage[l].vm \in VM
      <4>1. l \in License /\ usage[l] # Absent
        BY <3>2 DEF HeldBy, Handler, Recorded
      <4>2. usage[l].vm \in VM
        BY <4>1 DEF Shape, TablesOK, UsageRecord
      <4> QED BY <4>1, <4>2
    <3>4. Moves(usage, up, clashed, usage', up', clashed')
      BY <3>1, <3>3, MovesWrite, MovesNot
    <3>5. OwnedBy(h[i], usage', up', clashed')
      BY <3>2, <3>4, OwnedByKept
    <3>6. Becomes(i, r) /\ r.known = h[i].known /\ r.pc = "sync"
      BY <3>1, <3>2 DEF Handler
    <3> HIDE DEF r
    <3>7. OwnedBy(r, usage', up', clashed')
      BY <3>5, <3>6 DEF OwnedBy
    <3> QED BY <3>1, <3>4, <3>6, <3>7, HoldersKept, OwnedStep
  <2>13. ASSUME NEW i \in Invocation, Relist(i) PROVE Owned'
    <3>1. /\ h[i].pc = "sync" /\ h[i].unused = {}
          /\ UNCHANGED <<usage, up, clashed, holds>>
      BY <2>13 DEF Relist, At
    <3>2. UsageList \in [License -> Listed \cup {Absent}] /\ Recorded(UsageList, usage)
      BY UsageListShape DEF Shape
    <3>3. CASE Pick(i, UsageList)
      <4>1. PICK r \in Handler :
               Becomes(i, r) /\ r.pc = "handOver" /\ r.known = UsageList
        BY <3>1, <3>2, <3>3, PickShape
      <4> QED BY <3>1, <4>1, ListOwned, OwnedLocal
    <3>4. CASE Becomes(i, IdleHandler)
      BY <3>1, <3>4, IdleOwned, OwnedLocal
    <3> QED BY <2>13, <3>3, <3>4 DEF Relist
  <2>14. ASSUME NEW i \in Invocation, HandOver(i) PROVE Owned'
    <3> DEFINE l == h[i].lic
               r == [h[i] EXCEPT !.pc = "handOverWrite", !.snap = usage[h[i].lic]]
    <3>1. /\ h[i].pc = "handOver" /\ h[i] \in Handler /\ HeldBy(h[i])
          /\ Recorded(h[i].known, usage) /\ OwnedBy(h[i], usage, up, clashed)
          /\ UNCHANGED <<usage, up, clashed, holds>>
      BY <2>14 DEF HandOver, At, Shape, Owned
    <3>2. l \in License /\ h[i].known[l] # Absent /\ h[i].known[l].vm \notin up
      BY <3>1 DEF HeldBy, Reusable, OwnedBy, GoneIfOut
    <3>3. usage[l] # Absent
      BY <3>1, <3>2 DEF Recorded
    <3>4. \/ Becomes(i, r) /\ usage[l].vm = h[i].known[l].vm
          \/ Becomes(i, Retry(i))
      BY <2>14, <3>3 DEF HandOver, SaveError
    <3>5. /\ r.known = h[i].known /\ r.pc = "handOverWrite" /\ r.lic = l
          /\ r.snap = usage[l]
      BY <3>1 DEF Handler
    <3> HIDE DEF r
    <3>6. usage[l].vm = h[i].known[l].vm => OwnedBy(r, usage, up, clashed)
      BY <3>1, <3>2, <3>5 DEF OwnedBy
    <3> QED BY <3>1, <3>4, <3>6, RetryOwned, OwnedLocal
  <2>15. ASSUME NEW i \in Invocation, HandOverWrite(i) PROVE Owned'
    <3> DEFINE l == h[i].lic
    <3>1. /\ l \in License /\ h[i].vm \in VM /\ h[i].pc = "handOverWrite"
          /\ h[i].snap # Absent /\ usage[l] # Absent
          /\ OwnedBy(h[i], usage, up, clashed)
      BY <2>15 DEF HandOverWrite, At, Shape, HeldBy, Owned, Recorded, Reusable
    <3>2. usage[l].etag = h[i].snap.etag
      BY <2>15, <3>1 DEF HandOverWrite, UpsertMayWrite, Conditional
    <3>3. usage[l].vm \notin up
      BY <3>1, <3>2 DEF OwnedBy
    <3>4. /\ usage' = [usage EXCEPT ![l] =
                          [vm |-> h[i].vm, inSync |-> TRUE, etag |-> FreshEtag]]
          /\ clashed' = clashed /\ Becomes(i, Found(i, l)) /\ up' = up /\ holds' = holds
      BY <2>15 DEF HandOverWrite
    <3> HIDE DEF l
    <3>5. Moves(usage, up, clashed, usage', up', clashed') /\ Kept(usage', h[i].vm, l)
      BY <3>1, <3>3, <3>4, MovesWrite
    <3>6. OwnedBy(Found(i, l), usage', up', clashed')
      BY <3>1, <3>5, FoundOwned
    <3> QED BY <3>4, <3>5, <3>6, HoldersKept, OwnedStep
  <2>16. ASSUME NEW i \in Invocation, HandOverWriteFails(i) PROVE Owned'
    <3>1. /\ h[i].pc = "handOverWrite" /\ Becomes(i, Retry(i))
          /\ UNCHANGED <<usage, up, clashed, holds>>
      BY <2>16 DEF HandOverWriteFails, At
    <3> QED BY <3>1, RetryOwned, OwnedLocal
  <2>17. ASSUME NEW i \in Invocation, Load(i) PROVE Owned'
    <3> DEFINE v == h[i].vm
               l == h[i].lic
    <3>1. /\ v \in VM /\ l \in License /\ h[i].pc = "load"
          /\ OwnedBy(h[i], usage, up, clashed)
      BY <2>17 DEF Load, At, Shape, HeldBy, Owned
    <3>2. /\ UNCHANGED <<usage, up, clashed>> /\ Becomes(i, IdleHandler)
          /\ holds' = (IF l \in files /\ v \in up THEN [holds EXCEPT ![v] = l] ELSE holds)
      BY <2>17 DEF Load
    <3>3. v \in up /\ l \notin clashed => Kept(usage, v, l)
      BY <3>1 DEF OwnedBy
    <3>4. holds \in [VM -> License \cup {None}] /\ up \subseteq VM
      BY DEF Shape, TablesOK
    <3> HIDE DEF v, l
    <3>5. HolderOwns'
      <4> SUFFICES ASSUME NEW w \in up, holds'[w] # None, holds'[w] \notin clashed
                   PROVE  Kept(usage, w, holds'[w])
        BY <3>2 DEF HolderOwns, Kept
      <4>1. CASE holds'[w] = holds[w]
        BY <4>1 DEF Owned, HolderOwns, Kept
      <4>2. CASE w = v /\ holds'[w] = l
        BY <3>3, <4>2
      <4> QED BY <3>1, <3>2, <3>4, <4>1, <4>2
    <3> QED BY <3>2, <3>5, MovesNot, IdleOwned, OwnedStep
  <2>18. ASSUME NEW i \in Invocation, Crash(i) PROVE Owned'
    <3>1. Becomes(i, IdleHandler) /\ UNCHANGED <<usage, up, clashed, holds>>
      BY <2>18 DEF Crash
    <3> QED BY <3>1, IdleOwned, OwnedLocal
  <2>19. ASSUME NEW v \in VM, Leave(v) PROVE Owned'
    <3>1. /\ up' \subseteq up /\ v \notin up' /\ holds' = [holds EXCEPT ![v] = None]
          /\ usage' = usage /\ clashed' = clashed /\ h' = h
      BY <2>19 DEF Leave
    <3>2. Moves(usage, up, clashed, usage', up', clashed')
      BY <3>1 DEF Moves, Owned, GoneIfOut, Kept
    <3>3. HolderOwns'
      BY <3>1 DEF Owned, HolderOwns, Shape, TablesOK
    <3>4. ASSUME NEW i \in Invocation PROVE OwnedBy(h'[i], usage', up', clashed')
      <4>1. /\ h[i] \in Handler /\ HeldBy(h[i]) /\ OwnedBy(h[i], usage, up, clashed)
            /\ (h[i].snap # Absent => h[i].snap.etag \in InUse)
        BY DEF Shape, Owned, InUse
      <4> QED BY <3>1, <3>2, <4>1, OwnedByKept
    <3> QED BY <3>2, <3>3, <3>4 DEF Owned, Moves
  <2>20. ASSUME NEW l \in License, RemoveFile(l) \/ AddFile(l) PROVE Owned'
    BY <2>20 DEF RemoveFile, AddFile, Owned, HolderOwns
  <2>21. CASE UNCHANGED vars
    BY <2>21 DEF vars, Owned, HolderOwns
  <2> QED
    BY <2>1, <2>2, <2>3, <2>4, <2>5, <2>6, <2>7, <2>8, <2>9, <2>10, <2>11,
       <2>12, <2>13, <2>14, <2>15, <2>16, <2>17, <2>18, <2>19, <2>20, <2>21
       DEF Next, Run
<1> QED BY <1>1, <1>2, ShapeInductive, PTL DEF Spec

\* However many requests, retries, hand-overs and status syncs overlap, a license
\* that a living FortiGate was given is registered to it, unless two first uses
\* of the license clashed.
THEOREM HolderOwnsCorrect == Spec => []HolderOwns
<1>1. Owned => HolderOwns
  BY DEF Owned
<1> QED BY <1>1, OwnedInductive, PTL

-----------------------------------------------------------------------------
(* A VM locks one license.  Behind it: a request that is about to lock a     *)
(* license has seen that its VM has none, and nobody else locks one for the  *)
(* VM meanwhile.                                                             *)

\* What an invocation with local variables r knows of the license of its VM,
\* given the usage table u.
KnowsOwn(r, u) ==
    /\ r.pc \in {"stockRead", "stockWrite", "choose"} =>
          \A l \in License : Kept(u, r.vm, l) => Kept(r.known, r.vm, l)
    /\ r.pc \in {"claim", "claimWrite", "reuse", "sync", "handOver", "handOverWrite"} =>
          \A l \in License : ~Kept(u, r.vm, l)

Alone ==
    \A i, j \in Invocation : h[i].vm \in VM \ doubled /\ h[i].vm = h[j].vm => i = j

\* LocksOne, strengthened until every step preserves it.
Single ==
    /\ LocksOne
    /\ Alone
    /\ \A i \in Invocation : h[i].vm \in VM \ doubled => KnowsOwn(h[i], usage)

\* A step that registers licenses to no other VM than that of the request that
\* takes it.
LEMMA SingleStep ==
    ASSUME Shape, Single, NEW i \in Invocation, NEW r, Becomes(i, r),
           r.vm = h[i].vm \/ r = IdleHandler, doubled \subseteq doubled', LocksOne',
           \A l \in License : \A v \in VM :
              Kept(usage', v, l) => Kept(usage, v, l) \/ v = h[i].vm,
           r.vm \in VM \ doubled' => KnowsOwn(r, usage')
    PROVE  Single'
<1>1. \A j \in Invocation : h'[j] = IF j = i THEN r ELSE h[j]
  BY DEF Becomes, Shape
<1>2. IdleHandler.vm \notin VM
  BY LicensingAssumption DEF IdleHandler
<1>3. Alone'
  BY <1>1, <1>2 DEF Single, Alone
<1>4. ASSUME NEW j \in Invocation, h'[j].vm \in VM \ doubled'
      PROVE  KnowsOwn(h'[j], usage')
  <2>1. CASE j = i
    BY <1>1, <1>4, <2>1
  <2>2. CASE j # i
    <3>1. h'[j] = h[j] /\ h[j].vm \in VM \ doubled /\ h[j].vm # h[i].vm
      BY <1>1, <1>4, <2>2 DEF Single, Alone
    <3>2. \A l \in License : Kept(usage', h[j].vm, l) => Kept(usage, h[j].vm, l)
      BY <3>1
    <3> QED BY <3>1, <3>2 DEF Single, KnowsOwn
  <2> QED BY <2>1, <2>2
<1> QED BY <1>3, <1>4 DEF Single

\* A step that leaves the table alone.
LEMMA SingleLocal ==
    ASSUME Shape, Single, NEW i \in Invocation, NEW r, Becomes(i, r),
           r.vm = h[i].vm \/ r = IdleHandler, UNCHANGED <<usage, doubled>>,
           r.vm \in VM \ doubled => KnowsOwn(r, usage')
    PROVE  Single'
<1>1. LocksOne'
  BY DEF Single, LocksOne, Kept
<1> QED BY <1>1, SingleStep

\* The write of a record by a request that has seen that its VM has none.
LEMMA SingleWrite ==
    ASSUME Shape, Single, NEW i \in Invocation, NEW r, Becomes(i, r),
           r.vm = h[i].vm, NEW l \in License,
           usage' = [usage EXCEPT ![l] =
                        [vm |-> h[i].vm, inSync |-> TRUE, etag |-> FreshEtag]],
           h[i].pc \in {"claimWrite", "handOverWrite"},
           \/ r.pc = "load" /\ doubled' = doubled
           \/ doubled' = doubled \cup {h[i].vm}
    PROVE  Single'
<1> DEFINE rec == [vm |-> h[i].vm, inSync |-> TRUE, etag |-> FreshEtag]
<1>1. rec.vm = h[i].vm
  OBVIOUS
<1> HIDE DEF rec
<1>2. \A k \in License : usage'[k] = IF k = l THEN rec ELSE usage[k]
  BY DEF rec, Shape, TablesOK
<1>3. \A k \in License : \A v \in VM :
         Kept(usage', v, k) => Kept(usage, v, k) \/ (v = h[i].vm /\ k = l)
  BY <1>1, <1>2 DEF Kept
<1>4. h[i].vm \in VM \ doubled => \A k \in License : ~Kept(usage, h[i].vm, k)
  BY DEF Single, KnowsOwn
<1>5. LocksOne'
  <2> SUFFICES ASSUME NEW v \in VM \ doubled', NEW k \in License, NEW m \in License,
                      Kept(usage', v, k), Kept(usage', v, m)
               PROVE  k = m
    BY DEF LocksOne, Kept
  <2>1. v \in VM \ doubled
    OBVIOUS
  <2>2. CASE v = h[i].vm
    BY <1>3, <1>4, <2>1, <2>2
  <2>3. CASE v # h[i].vm
    BY <1>3, <2>1, <2>3 DEF Single, LocksOne, Kept
  <2> QED BY <2>2, <2>3
<1>6. r.vm \in VM \ doubled' => KnowsOwn(r, usage')
  BY DEF KnowsOwn
<1> QED BY <1>3, <1>5, <1>6, SingleStep

\* A request that has its license relies on nothing more.
LEMMA FoundKnows ==
    ASSUME NEW i \in Invocation, NEW l, NEW u
    PROVE  /\ Found(i, l).vm = h[i].vm /\ Found(i, l).pc = "load"
           /\ KnowsOwn(Found(i, l), u)
<1>1. Found(i, l).vm = h[i].vm /\ Found(i, l).pc = "load"
  BY DEF Found, IdleHandler
<1> QED BY <1>1 DEF KnowsOwn

\* A listing shows to whom licenses are registered.
LEMMA UsageListIs ==
    ASSUME TablesOK, NEW l \in License, NEW v, Kept(usage, v, l)
    PROVE  Kept(UsageList, v, l)
<1>1. UsageList[l] = [vm |-> usage[l].vm, inSync |-> usage[l].inSync]
  BY DEF Kept, UsageList
<1>2. UsageList[l] \in Listed
  BY <1>1 DEF Kept, TablesOK, UsageRecord, Listed
<1> QED BY <1>1, <1>2, AbsentAssumption DEF Kept

-----------------------------------------------------------------------------
LEMMA SingleInductive == Spec => []Single
<1>1. Init => Single
  <2> SUFFICES ASSUME Init PROVE Single
    OBVIOUS
  <2>1. \A i \in Invocation : h[i].vm \notin VM
    BY LicensingAssumption DEF Init, IdleHandler
  <2> QED BY <2>1 DEF Init, Single, LocksOne, Alone
<1>2. Shape /\ Single /\ [Next]_vars => Single'
  <2> SUFFICES ASSUME Shape, Single, [Next]_vars PROVE Single'
    OBVIOUS
  <2> USE DEF tables, world
  <2>0. /\ \A i \in Invocation : h[i] \in Handler /\ HeldBy(h[i])
        /\ IdleHandler.vm \notin VM
    BY LicensingAssumption DEF Shape, IdleHandler
  <2>1. ASSUME NEW i \in Invocation, NEW v \in VM, Receive(i, v) PROVE Single'
    <3>1. \A j \in Invocation :
             h'[j] = IF j = i THEN [IdleHandler EXCEPT !.pc = "list", !.vm = v] ELSE h[j]
      BY <2>1 DEF Receive, Becomes, Shape
    <3>2. h'[i].pc = "list" /\ h'[i].vm = v /\ \A j \in Invocation \ {i} : h'[j] = h[j]
      BY <3>1 DEF IdleHandler
    <3>3. /\ usage' = usage /\ doubled \subseteq doubled'
          /\ v \notin doubled' => \A j \in Invocation : h[j].vm # v
      BY <2>1 DEF Receive
    <3>4. Alone'
      BY <3>2, <3>3 DEF Single, Alone
    <3>5. LocksOne'
      BY <3>3 DEF Single, LocksOne
    <3> QED BY <3>2, <3>3, <3>4, <3>5 DEF Single, KnowsOwn
  <2>2. ASSUME NEW i \in Invocation, List(i) \/ ListFilesFails(i) PROVE Single'
    <3>1. PICK fs \in {files, h[i].files} :
             Becomes(i, [h[i] EXCEPT !.pc = "stockRead", !.files = fs, !.known = UsageList])
      BY <2>0, <2>2 DEF List, ListFilesFails, Handler
    <3> DEFINE r == [h[i] EXCEPT !.pc = "stockRead", !.files = fs, !.known = UsageList]
    <3>2. r.pc = "stockRead" /\ r.vm = h[i].vm /\ r.known = UsageList
      BY <2>0 DEF Handler
    <3>3. Becomes(i, r) /\ UNCHANGED <<usage, doubled>>
      BY <2>2, <3>1 DEF List, ListFilesFails
    <3> HIDE DEF r
    <3>4. KnowsOwn(r, usage)
      BY <3>2, UsageListIs DEF KnowsOwn, Shape
    <3> QED BY <3>2, <3>3, <3>4, SingleLocal
  <2>3. ASSUME NEW i \in Invocation, StockRead(i) \/ StockWrite(i) PROVE Single'
    <3> DEFINE r1 == [h[i] EXCEPT !.pc = "stockWrite", !.stock = stock]
               r2 == [h[i] EXCEPT !.pc = "choose"]
    <3>1. PICK r : /\ Becomes(i, r) /\ r.vm = h[i].vm /\ r.known = h[i].known
                   /\ r.pc \in {"stockWrite", "choose"}
      <4>1. \A r \in {r1, r2} : /\ r.vm = h[i].vm /\ r.known = h[i].known
                                /\ r.pc \in {"stockWrite", "choose"}
        BY <2>0 DEF Handler
      <4>2. Becomes(i, r1) \/ Becomes(i, r2)
        BY <2>3 DEF StockRead, StockWrite
      <4> HIDE DEF r1, r2
      <4> QED BY <4>1, <4>2
    <3>2. UNCHANGED <<usage, doubled>> /\ h[i].pc \in {"stockRead", "stockWrite"}
      BY <2>3 DEF StockRead, StockWrite, At
    <3>3. r.vm \in VM \ doubled => KnowsOwn(r, usage)
      BY <3>1, <3>2 DEF Single, KnowsOwn
    <3> QED BY <3>1, <3>2, <3>3, SingleLocal
  <2>4. ASSUME NEW i \in Invocation, Becomes(i, IdleHandler), UNCHANGED <<usage, doubled>>
        PROVE  Single'
    BY <2>0, <2>4, SingleLocal
  <2>5. ASSUME NEW i \in Invocation, Choose(i) PROVE Single'
    <3> DEFINE known == [l \in License |-> IF l \in stock THEN h[i].known[l] ELSE Absent]
               unused == {l \in stock : known[l] = Absent}
               seen == [h[i] EXCEPT !.known = known, !.files = {}, !.stock = {}]
               reuse == [seen EXCEPT !.pc = "reuse"]
               claim == [seen EXCEPT !.pc = "claim", !.unused = unused]
    <3>1. UNCHANGED <<usage, doubled>> /\ h[i].pc = "choose"
      BY <2>5 DEF Choose, At
    <3>2. \/ Becomes(i, IdleHandler)
          \/ \E l \in License : Becomes(i, Found(i, l))
          \/ /\ \A l \in License : ~Kept(h[i].known, h[i].vm, l)
             /\ Becomes(i, reuse) \/ Becomes(i, claim)
      BY <2>5 DEF Choose, Kept
    <3>3. ASSUME NEW l \in License, Becomes(i, Found(i, l)) PROVE Single'
      BY <3>1, <3>3, FoundKnows, SingleLocal
    <3>4. /\ reuse.vm = h[i].vm /\ claim.vm = h[i].vm
          /\ reuse.pc = "reuse" /\ claim.pc = "claim"
      BY <2>0 DEF Handler
    <3> HIDE DEF reuse, claim
    <3>5. ASSUME \A l \in License : ~Kept(h[i].known, h[i].vm, l),
                 NEW r \in {reuse, claim}, r.vm \in VM \ doubled
          PROVE  KnowsOwn(r, usage)
      BY <3>1, <3>4, <3>5 DEF Single, KnowsOwn
    <3> QED BY <2>4, <3>1, <3>2, <3>3, <3>4, <3>5, SingleLocal
  <2>6. ASSUME NEW i \in Invocation, Claim(i) PROVE Single'
    <3> DEFINE rec(p, l) == [h[i] EXCEPT !.pc = p, !.lic = l, !.unused = @ \ {l}]
               rest(p, l) == [h[i] EXCEPT !.pc = p, !.unused = @ \ {l}]
    <3>1. PICK r : /\ Becomes(i, r) /\ r.vm = h[i].vm
                   /\ r.pc \in {"claimWrite", "reuse", "claim"}
      <4>1. PICK l \in h[i].unused :
               \/ Becomes(i, rec("claimWrite", l))
               \/ Becomes(i, rest("reuse", l))
               \/ Becomes(i, rest("claim", l))
        BY <2>0, <2>6 DEF Claim, Handler
      <4>2. \A r \in {rec("claimWrite", l), rest("reuse", l), rest("claim", l)} :
               r.vm = h[i].vm /\ r.pc \in {"claimWrite", "reuse", "claim"}
        BY <2>0 DEF Handler
      <4> HIDE DEF rec, rest
      <4> QED BY <4>1, <4>2
    <3>2. UNCHANGED <<usage, doubled>> /\ h[i].pc = "claim"
      BY <2>6 DEF Claim, At
    <3>3. r.vm \in VM \ doubled => KnowsOwn(r, usage)
      BY <3>1, <3>2 DEF Single, KnowsOwn
    <3> QED BY <3>1, <3>2, <3>3, SingleLocal
  <2>7. ASSUME NEW i \in Invocation, ClaimWrite(i) \/ HandOverWrite(i) PROVE Single'
    <3>1. /\ h[i].pc \in {"claimWrite", "handOverWrite"} /\ h[i].lic \in License
          /\ usage' = [usage EXCEPT ![h[i].lic] =
                          [vm |-> h[i].vm, inSync |-> TRUE, etag |-> FreshEtag]]
          /\ doubled' = doubled /\ Becomes(i, Found(i, h[i].lic))
      BY <2>0, <2>7 DEF ClaimWrite, HandOverWrite, At, HeldBy
    <3> QED BY <3>1, FoundKnows, SingleWrite
  <2>8. ASSUME NEW i \in Invocation, NEW saved \in BOOLEAN, ClaimFails(i, saved) PROVE Single'
    <3> DEFINE p == IF h[i].unused = {} THEN "reuse" ELSE "claim"
               r == [h[i] EXCEPT !.pc = p, !.lic = None]
    <3>1. r.vm = h[i].vm /\ r.pc = p /\ h[i].pc = "claimWrite" /\ h[i].lic \in License
      BY <2>0, <2>8 DEF ClaimFails, At, HeldBy, Handler
    <3>2. Becomes(i, r)
      BY <2>8 DEF ClaimFails
    <3> HIDE DEF r
    <3>3. CASE saved
      <4>1. /\ usage' = [usage EXCEPT ![h[i].lic] =
                            [vm |-> h[i].vm, inSync |-> TRUE, etag |-> FreshEtag]]
            /\ doubled' = doubled \cup {h[i].vm}
        BY <2>8, <3>3 DEF ClaimFails
      <4> QED BY <3>1, <3>2, <4>1, SingleWrite
    <3>4. CASE ~saved
      <4>1. UNCHANGED <<usage, doubled>>
        BY <2>8, <3>4 DEF ClaimFails
      <4>2. r.vm \in VM \ doubled => KnowsOwn(r, usage)
        BY <3>1 DEF Single, KnowsOwn
      <4> QED BY <3>1, <3>2, <4>1, <4>2, SingleLocal
    <3> QED BY <3>3, <3>4
  <2>9. ASSUME NEW i \in Invocation, NEW known \in [License -> Listed \cup {Absent}],
               Recorded(known, usage), h[i].pc \in {"reuse", "sync"}, h[i].unused = {},
               Pick(i, known), UNCHANGED <<usage, doubled>>
        PROVE  Single'
    <3>1. PICK r \in Handler : Becomes(i, r) /\ r.pc = "handOver" /\ r.vm = h[i].vm
      BY <2>9, PickShape
    <3>2. r.vm \in VM \ doubled => KnowsOwn(r, usage)
      BY <2>9, <3>1 DEF Single, KnowsOwn
    <3> QED BY <2>9, <3>1, <3>2, SingleLocal
  <2>10. ASSUME NEW i \in Invocation, Reuse(i) PROVE Single'
    <3>1. /\ h[i].pc = "reuse" /\ h[i].unused = {} /\ UNCHANGED <<usage, doubled>>
          /\ h[i].known \in [License -> Listed \cup {Absent}] /\ Recorded(h[i].known, usage)
      BY <2>0, <2>10 DEF Reuse, At, HeldBy, Handler, Shape
    <3>2. CASE Pick(i, h[i].known)
      BY <2>9, <3>1, <3>2
    <3>3. CASE ~Pick(i, h[i].known)
      <4> DEFINE r == [h[i] EXCEPT !.pc = "sync",
                                   !.unused = {l \in License : h[i].known[l] # Absent}]
      <4>1. Becomes(i, r)
        BY <2>10, <3>3 DEF Reuse
      <4>2. r.pc = "sync" /\ r.vm = h[i].vm
        BY <2>0 DEF Handler
      <4> HIDE DEF r
      <4>3. r.vm \in VM \ doubled => KnowsOwn(r, usage)
        BY <3>1, <4>2 DEF Single, KnowsOwn
      <4> QED BY <3>1, <4>1, <4>2, <4>3, SingleLocal
    <3> QED BY <3>2, <3>3
  <2>11. ASSUME NEW i \in Invocation, SyncStatus(i) PROVE Single'
    <3>1. PICK l \in h[i].unused :
             /\ \/ \E b \in BOOLEAN : usage' = [usage EXCEPT ![l] =
                            [vm |-> usage[l].vm, inSync |-> b, etag |-> FreshEtag]]
                \/ UNCHANGED usage
             /\ Becomes(i, [h[i] EXCEPT !.unused = @ \ {l}])
      BY <2>11 DEF SyncStatus
    <3>2. /\ h[i].pc = "sync" /\ l \in License /\ usage[l] # Absent /\ doubled' = doubled
      BY <2>0, <2>11, <3>1 DEF SyncStatus, At, HeldBy, Handler, Recorded, Shape
    <3>3. \A k \in License : \A v \in VM : Kept(usage', v, k) => Kept(usage, v, k)
      BY <3>1, <3>2 DEF Kept, Shape, TablesOK
    <3> DEFINE r == [h[i] EXCEPT !.unused = @ \ {l}]
    <3>4. r.pc = "sync" /\ r.vm = h[i].vm /\ Becomes(i, r)
      BY <2>0, <3>1, <3>2 DEF Handler
    <3> HIDE DEF r
    <3>5. LocksOne'
      BY <3>2, <3>3 DEF Single, LocksOne, Kept
    <3>6. r.vm \in VM \ doubled => KnowsOwn(r, usage')
      BY <3>2, <3>3, <3>4 DEF Single, KnowsOwn
    <3> QED BY <3>2, <3>3, <3>4, <3>5, <3>6, SingleStep
  <2>12. ASSUME NEW i \in Invocation, Relist(i) PROVE Single'
    <3>1. h[i].pc = "sync" /\ h[i].unused = {} /\ UNCHANGED <<usage, doubled>>
      BY <2>12 DEF Relist, At
    <3>2. UsageList \in [License -> Listed \cup {Absent}] /\ Recorded(UsageList, usage)
      BY UsageListShape DEF Shape
    <3>3. Pick(i, UsageList) \/ Becomes(i, IdleHandler)
      BY <2>12 DEF Relist
    <3> QED BY <2>4, <2>9, <3>1, <3>2, <3>3
  <2>13. ASSUME NEW i \in Invocation, HandOver(i) \/ HandOverWriteFails(i) PROVE Single'
    <3>1. h[i].pc \in {"handOver", "handOverWrite"} /\ UNCHANGED <<usage, doubled>>
      BY <2>13 DEF HandOver, HandOverWriteFails, At
    <3> DEFINE r == [h[i] EXCEPT !.pc = "handOverWrite", !.snap = usage[h[i].lic]]
    <3>2. Becomes(i, Retry(i)) \/ Becomes(i, r)
      BY <2>13 DEF HandOver, HandOverWriteFails
    <3>3. r.pc = "handOverWrite" /\ r.vm = h[i].vm
      BY <2>0 DEF Handler
    <3> HIDE DEF r
    <3>4. CASE Becomes(i, r)
      <4>1. r.vm \in VM \ doubled => KnowsOwn(r, usage)
        BY <3>1, <3>3 DEF Single, KnowsOwn
      <4> QED BY <3>1, <3>3, <3>4, <4>1, SingleLocal
    <3>5. CASE Becomes(i, Retry(i))
      <4>1. CASE Retry(i) = IdleHandler
        BY <2>4, <3>1, <3>5, <4>1
      <4>2. CASE Retry(i).pc = "handOver" /\ Retry(i).vm = h[i].vm
        <5>1. Retry(i).vm \in VM \ doubled => KnowsOwn(Retry(i), usage)
          BY <3>1, <4>2 DEF Single, KnowsOwn
        <5> QED BY <3>1, <3>5, <4>2, <5>1, SingleLocal
      <4> QED BY <3>1, <4>1, <4>2, RetryShape
    <3> QED BY <3>2, <3>4, <3>5
  <2>14. ASSUME NEW i \in Invocation, StockWriteFails(i) \/ Load(i) \/ Crash(i) PROVE Single'
    BY <2>4, <2>14 DEF StockWriteFails, Load, Crash
  <2>15. CASE UNCHANGED <<usage, doubled, h>>
    BY <2>15 DEF Single, LocksOne, Alone
  <2>16. ASSUME NEW v \in VM, Leave(v) PROVE Single'
    BY <2>15, <2>16 DEF Leave
  <2>17. ASSUME NEW l \in License, RemoveFile(l) \/ AddFile(l) PROVE Single'
    BY <2>15, <2>17 DEF RemoveFile, AddFile
  <2>18. CASE UNCHANGED vars
    BY <2>15, <2>18 DEF vars
  <2> QED
    BY <2>1, <2>2, <2>3, <2>5, <2>6, <2>7, <2>8, <2>10, <2>11, <2>12, <2>13, <2>14,
       <2>16, <2>17, <2>18 DEF Next, Run
<1> QED BY <1>1, <1>2, ShapeInductive, PTL DEF Spec

\* A VM locks one license unless two of its own requests overlap or a save goes
\* through unnoticed, for any number of licenses, requests, retries and faults.
THEOREM LocksOneCorrect == Spec => []LocksOne
<1>1. Single => LocksOne
  BY DEF Single
<1> QED BY <1>1, SingleInductive, PTL

-----------------------------------------------------------------------------
(* Usage records are leases: the implementation of LicenseLease.           *)

\* Writing a record registers the license to its VM, and changes nothing else.
LEMMA OwnerWrite ==
    ASSUME Shape, NEW l \in License, NEW v \in VM, NEW b \in BOOLEAN,
           usage' = [usage EXCEPT ![l] = [vm |-> v, inSync |-> b, etag |-> FreshEtag]]
    PROVE  Owner' = [Owner EXCEPT ![l] = v]
<1> DEFINE rec == [vm |-> v, inSync |-> b, etag |-> FreshEtag]
<1>1. rec # Absent /\ rec.vm = v
  BY RecordShape
<1> HIDE DEF rec
<1>2. \A k \in License : usage'[k] = IF k = l THEN rec ELSE usage[k]
  BY DEF rec, Shape, TablesOK
<1>3. ASSUME NEW k \in License
      PROVE  (IF usage'[k] = Absent THEN None ELSE usage'[k].vm)
                = IF k = l THEN v ELSE Owner[k]
  BY <1>1, <1>2 DEF Owner
<1>4. Owner' = [k \in License |-> IF k = l THEN v ELSE Owner[k]]
  BY <1>3 DEF Owner
<1>5. DOMAIN Owner = License
  BY DEF Owner
<1> QED BY <1>4, <1>5

\* A write over no record, or over one of a VM that has gone, is a lease; one
\* over a record of a VM that is there contests the license.
LEMMA WriteLeases ==
    ASSUME Shape, NEW l \in License, NEW v \in VM, NEW b \in BOOLEAN,
           usage' = [usage EXCEPT ![l] = [vm |-> v, inSync |-> b, etag |-> FreshEtag]],
           UNCHANGED <<up, holds>>,
           \/ clashed' = clashed /\ (usage[l] = Absent \/ usage[l].vm \notin up)
           \/ clashed' = clashed \cup {l} /\ usage[l] # Absent
    PROVE  Leases!Next
<1>1. Owner' = [Owner EXCEPT ![l] = v]
  BY OwnerWrite
<1>2. /\ usage[l] = Absent => Owner[l] = None
      /\ usage[l] # Absent => Owner[l] = usage[l].vm /\ usage[l].vm \in VM
  BY DEF Owner, Shape, TablesOK, UsageRecord
<1>3. None \notin VM /\ up \subseteq VM
  BY LicensingAssumption DEF Shape, TablesOK
<1>4. CASE clashed' = clashed /\ (usage[l] = Absent \/ usage[l].vm \notin up)
  <2>1. Leases!Lease(l, v)
    BY <1>1, <1>2, <1>3, <1>4 DEF Leases!Lease
  <2> QED BY <2>1 DEF Leases!Next
<1>5. CASE clashed' = clashed \cup {l} /\ usage[l] # Absent
  <2>1. Leases!Contest(l, v)
    BY <1>1, <1>2, <1>3, <1>5 DEF Leases!Contest
  <2> QED BY <2>1 DEF Leases!Next
<1> QED BY <1>4, <1>5

\* Every step is a step of LicenseLease, or does not show there.
LEMMA LeaseStep ==
    ASSUME Shape, Owned, [Next]_vars
    PROVE  [Leases!Next]_<<up, Owner, holds, clashed>>
<1> SUFFICES Leases!Next \/ UNCHANGED <<up, Owner, holds, clashed>>
  OBVIOUS
<1>1. ASSUME UNCHANGED <<up, usage, holds, clashed>>
      PROVE  UNCHANGED <<up, Owner, holds, clashed>>
  BY <1>1 DEF Owner
<1>2. ASSUME NEW i \in Invocation,
             \/ \E v \in VM : Receive(i, v)
             \/ List(i) \/ ListFilesFails(i) \/ StockRead(i) \/ StockWrite(i)
             \/ StockWriteFails(i) \/ Choose(i) \/ Claim(i) \/ Reuse(i) \/ Relist(i)
             \/ HandOver(i) \/ HandOverWriteFails(i) \/ Crash(i)
      PROVE  UNCHANGED <<up, usage, holds, clashed>>
  BY <1>2 DEF Receive, List, ListFilesFails, StockRead, StockWrite, StockWriteFails, Choose,
              Claim, Reuse, Relist, HandOver, HandOverWriteFails, Crash, tables, world
<1>3. ASSUME NEW i \in Invocation, ClaimWrite(i) PROVE Leases!Next
  <2>1. h[i].lic \in License /\ h[i].vm \in VM
    BY <1>3 DEF ClaimWrite, At, Shape, HeldBy
  <2>2. /\ usage' = [usage EXCEPT ![h[i].lic] =
                        [vm |-> h[i].vm, inSync |-> TRUE, etag |-> FreshEtag]]
        /\ clashed' = IF usage[h[i].lic] = Absent THEN clashed ELSE clashed \cup {h[i].lic}
        /\ UNCHANGED <<up, holds>>
    BY <1>3 DEF ClaimWrite, world
  <2> QED BY <2>1, <2>2, WriteLeases
<1>4. ASSUME NEW i \in Invocation, NEW saved \in BOOLEAN, ClaimFails(i, saved)
      PROVE  Leases!Next \/ UNCHANGED <<up, usage, holds, clashed>>
  <2>1. h[i].lic \in License /\ h[i].vm \in VM
    BY <1>4 DEF ClaimFails, At, Shape, HeldBy
  <2>2. CASE saved
    <3>1. /\ usage' = [usage EXCEPT ![h[i].lic] =
                          [vm |-> h[i].vm, inSync |-> TRUE, etag |-> FreshEtag]]
          /\ clashed' = IF usage[h[i].lic] = Absent THEN clashed ELSE clashed \cup {h[i].lic}
          /\ UNCHANGED <<up, holds>>
      BY <1>4, <2>2 DEF ClaimFails
    <3> QED BY <2>1, <3>1, WriteLeases
  <2>3. CASE ~saved
    BY <1>4, <2>3 DEF ClaimFails
  <2> QED BY <2>2, <2>3
<1>5. ASSUME NEW i \in Invocation, SyncStatus(i)
      PROVE  UNCHANGED <<up, Owner, holds, clashed>>
  <2>1. PICK l \in h[i].unused, b \in BOOLEAN :
           \/ usage' = [usage EXCEPT ![l] =
                           [vm |-> usage[l].vm, inSync |-> b, etag |-> FreshEtag]]
           \/ usage' = usage
    BY <1>5 DEF SyncStatus
  <2>2. l \in License /\ usage[l] # Absent /\ usage[l].vm \in VM
    <3>1. /\ h[i] \in Handler /\ HeldBy(h[i]) /\ Recorded(h[i].known, usage)
          /\ h[i].pc = "sync"
      BY <1>5 DEF SyncStatus, At, Shape
    <3>2. l \in License /\ usage[l] # Absent
      BY <2>1, <3>1 DEF HeldBy, Handler, Recorded
    <3> QED BY <3>2 DEF Shape, TablesOK, UsageRecord
  <2>3. CASE usage' = [usage EXCEPT ![l] =
                          [vm |-> usage[l].vm, inSync |-> b, etag |-> FreshEtag]]
    <3>1. Owner' = [Owner EXCEPT ![l] = usage[l].vm]
      BY <2>2, <2>3, OwnerWrite
    <3>2. Owner[l] = usage[l].vm
      BY <2>2 DEF Owner
    <3>3. Owner' = Owner
      BY <3>1, <3>2 DEF Owner
    <3> QED BY <1>5, <3>3 DEF SyncStatus, world
  <2>4. CASE usage' = usage
    BY <1>1, <1>5, <2>4 DEF SyncStatus, world
  <2> QED BY <2>1, <2>3, <2>4
<1>6. ASSUME NEW i \in Invocation, HandOverWrite(i) PROVE Leases!Next
  <2>1. /\ h[i].lic \in License /\ h[i].vm \in VM /\ h[i].pc = "handOverWrite"
        /\ h[i].snap # Absent /\ usage[h[i].lic] # Absent
        /\ OwnedBy(h[i], usage, up, clashed)
    BY <1>6 DEF HandOverWrite, At, Shape, HeldBy, Owned, Recorded, Reusable
  <2>2. usage[h[i].lic].etag = h[i].snap.etag
    BY <1>6, <2>1 DEF HandOverWrite, UpsertMayWrite, Conditional
  <2>3. usage[h[i].lic].vm \notin up
    BY <2>1, <2>2 DEF OwnedBy
  <2>4. /\ usage' = [usage EXCEPT ![h[i].lic] =
                        [vm |-> h[i].vm, inSync |-> TRUE, etag |-> FreshEtag]]
        /\ UNCHANGED <<up, holds, clashed>>
    BY <1>6 DEF HandOverWrite, world
  <2> QED BY <2>1, <2>3, <2>4, WriteLeases
<1>7. ASSUME NEW i \in Invocation, Load(i)
      PROVE  Leases!Next \/ UNCHANGED <<up, usage, holds, clashed>>
  <2> DEFINE v == h[i].vm
             l == h[i].lic
  <2>1. /\ v \in VM /\ l \in License /\ h[i].pc = "load"
        /\ OwnedBy(h[i], usage, up, clashed)
    BY <1>7 DEF Load, At, Shape, HeldBy, Owned
  <2>2. /\ UNCHANGED <<up, usage, clashed>>
        /\ holds' = IF l \in files /\ v \in up THEN [holds EXCEPT ![v] = l] ELSE holds
    BY <1>7 DEF Load, tables
  <2>3. CASE l \in files /\ v \in up
    <3>1. l \notin clashed => Kept(usage, v, l)
      BY <2>1, <2>3 DEF OwnedBy
    <3>2. Owner[l] = v \/ l \in clashed
      BY <2>1, <3>1 DEF Kept, Owner
    <3>3. Owner' = Owner
      BY <2>2 DEF Owner
    <3> HIDE DEF v, l
    <3>4. Leases!Give(l, v)
      BY <2>2, <2>3, <3>2, <3>3 DEF Leases!Give
    <3> QED BY <2>1, <3>4 DEF Leases!Next
  <2>4. CASE ~(l \in files /\ v \in up)
    BY <2>2, <2>4
  <2> QED BY <2>3, <2>4
<1>8. ASSUME NEW v \in VM, Leave(v) PROVE Leases!Next
  <2>1. Owner' = Owner
    BY <1>8 DEF Leave, tables, Owner
  <2>2. Leases!Depart(v)
    BY <1>8, <2>1 DEF Leave, tables, Leases!Depart
  <2> QED BY <2>2 DEF Leases!Next
<1>9. ASSUME NEW l \in License, RemoveFile(l) \/ AddFile(l)
      PROVE  UNCHANGED <<up, usage, holds, clashed>>
  BY <1>9 DEF RemoveFile, AddFile, tables
<1>10. CASE UNCHANGED vars
  BY <1>1, <1>10 DEF vars
<1> QED
  BY <1>1, <1>2, <1>3, <1>4, <1>5, <1>6, <1>7, <1>8, <1>9, <1>10 DEF Next, Run

\* The usage table with its conditional writes, its listings and its retries
\* implements leases, with any number of VMs, licenses, requests and faults.
THEOREM LicensesAreLeasedCorrect == Spec => LicensesAreLeased
<1>1. Init => Leases!Init
  BY DEF Init, Leases!Init, Owner
<1>2. Shape /\ Owned /\ [Next]_vars => [Leases!Next]_<<up, Owner, holds, clashed>>
  BY LeaseStep
<1> QED BY <1>1, <1>2, ShapeInductive, OwnedInductive, PTL
        DEF Spec, Leases!Spec, Leases!vars, LicensesAreLeased

-----------------------------------------------------------------------------
(* Requests run out of steps.                                              *)

LEMMA StageValues ==
    /\ StageSteps["idle"] = 0
    /\ StageSteps["load"] = 1
    /\ StageSteps["handOverWrite"] = 0
    /\ StageSteps["handOver"] = 1
    /\ StageSteps["sync"] = 2 * n + 2
    /\ StageSteps["reuse"] = 4 * n + 3
    /\ StageSteps["claim"] = 4 * n + 3
    /\ StageSteps["claimWrite"] = 4 * n + 4
    /\ StageSteps["choose"] = 6 * n + 4
    /\ StageSteps["stockWrite"] = 6 * n + 5
    /\ StageSteps["stockRead"] = 6 * n + 6
    /\ StageSteps["list"] = 6 * n + 7
BY DEF StageSteps, n

\* What the licenses and attempts left of an invocation come to.
LEMMA UnusedCount ==
    ASSUME NEW r \in Handler
    PROVE  /\ IsFiniteSet(r.unused) /\ Cardinality(r.unused) \in 0..n
           /\ r.unused = {} <=> Cardinality(r.unused) = 0
           /\ \A l \in r.unused :
                 Cardinality(r.unused \ {l}) = Cardinality(r.unused) - 1
<1>1. r.unused \in SUBSET License
  BY DEF Handler
<1>2. IsFiniteSet(r.unused) /\ Cardinality(r.unused) \in 0..n
  BY <1>1, LicenseCount
<1> QED BY <1>2, FS_EmptySet, FS_RemoveElement

\* An invocation that is not idle has a step left, and one that is has none.
LEMMA IdleIsLeast ==
    /\ StepsLeft(IdleHandler) = 0
    /\ \A r \in Handler : HeldBy(r) /\ r.pc # "idle" => StepsLeft(r) > 0
<1>1. n \in Nat
  BY LicenseCount
<1>2. StepsLeft(IdleHandler) = 0
  BY StageValues, FS_EmptySet DEF StepsLeft, IdleHandler
<1>3. ASSUME NEW r \in Handler, HeldBy(r), r.pc # "idle" PROVE StepsLeft(r) > 0
  <2>1. Cardinality(r.unused) \in Nat /\ r.tries \in Nat /\ r.pc \in Steps
    BY <1>1, UnusedCount DEF Handler
  <2>2. r.pc = "handOverWrite" => r.tries >= 1
    BY <1>1, <1>3 DEF HeldBy
  <2>3. StageSteps[r.pc] \in Nat /\ (r.pc # "handOverWrite" => StageSteps[r.pc] >= 1)
    BY <1>1, <1>3, <2>1, StageValues DEF Steps
  <2> QED BY <2>1, <2>2, <2>3 DEF StepsLeft
<1> QED BY <1>2, <1>3

\* The steps left of an invocation that has neither licenses nor attempts left.
LEMMA StageOnly ==
    ASSUME NEW r \in Handler, r.unused = {}, r.tries = 0
    PROVE  StepsLeft(r) = StageSteps[r.pc]
<1>1. StageSteps[r.pc] \in Nat
  BY LicenseCount, StageValues DEF Handler, Steps
<1> QED BY <1>1, FS_EmptySet DEF StepsLeft

\* What RequestsRunOut says of one invocation and one step.
Shorter(i) == ~At(i, "idle") /\ h'[i] # h[i] => StepsLeft(h'[i]) < StepsLeft(h[i])

\* A step of one invocation, which may end it or bring it nearer to its end.
LEMMA ShorterStep ==
    ASSUME Shape, NEW i \in Invocation, NEW r, Becomes(i, r),
           \/ At(i, "idle") \/ r = IdleHandler \/ StepsLeft(r) < StepsLeft(h[i])
    PROVE  \A j \in Invocation : Shorter(j)
<1> SUFFICES ASSUME NEW j \in Invocation PROVE Shorter(j)
  OBVIOUS
<1>1. h'[j] = IF j = i THEN r ELSE h[j]
  BY DEF Shape, Becomes
<1>2. h[i] \in Handler /\ HeldBy(h[i])
  BY DEF Shape
<1> QED BY <1>1, <1>2, IdleIsLeast DEF Shorter, At

\* A pick leaves fewer steps than the stages that lead to it.
LEMMA PickShorter ==
    ASSUME Shape, NEW i \in Invocation, h[i].pc \in {"reuse", "sync"}, h[i].unused = {},
           NEW known \in [License -> Listed \cup {Absent}], Recorded(known, usage),
           Pick(i, known)
    PROVE  \E r : Becomes(i, r) /\ StepsLeft(r) < StepsLeft(h[i])
<1>1. PICK r \in Handler :
         HeldBy(r) /\ Becomes(i, r) /\ r.pc = "handOver" /\ r.unused = {}
  BY PickShape
<1>2. r.tries \in 1..n /\ n \in Nat
  BY <1>1, LicenseCount DEF HeldBy
<1>3. StepsLeft(r) = 1 + 2 * r.tries
  BY <1>1, <1>2, StageValues, FS_EmptySet DEF StepsLeft
<1>4. StepsLeft(h[i]) = StageSteps[h[i].pc]
  BY StageOnly DEF Shape, HeldBy
<1>5. StepsLeft(h[i]) >= 2 * n + 2
  BY <1>2, <1>4, StageValues
<1>6. StepsLeft(h[i]) \in Nat
  BY <1>2, <1>4, StageValues
<1> QED BY <1>1, <1>2, <1>3, <1>5, <1>6

\* A retry leaves fewer steps than the attempt.
LEMMA RetryShorter ==
    ASSUME Shape, NEW i \in Invocation, h[i].pc \in {"handOver", "handOverWrite"}
    PROVE  Retry(i) = IdleHandler \/ StepsLeft(Retry(i)) < StepsLeft(h[i])
<1>1. /\ h[i] \in Handler /\ h[i].unused = {} /\ h[i].tries \in 1..n /\ n \in Nat
  BY LicenseCount DEF Shape, HeldBy
<1>2. StepsLeft(h[i]) = StageSteps[h[i].pc] + 2 * h[i].tries
  BY <1>1, StageValues, FS_EmptySet DEF StepsLeft
<1>3. CASE /\ Retry(i).pc = "handOver" /\ Retry(i).unused = h[i].unused
           /\ Retry(i).tries = h[i].tries - 1
  <2>1. StepsLeft(Retry(i)) = 1 + 2 * (h[i].tries - 1)
    BY <1>1, <1>3, StageValues, FS_EmptySet DEF StepsLeft
  <2> QED BY <1>1, <1>2, <2>1, StageValues
<1> QED BY <1>3, RetryShape

\* No request is retried for ever: each step brings an invocation nearer to its
\* end, with any number of licenses and of other invocations that win them.
THEOREM RequestsRunOutCorrect == Spec => RequestsRunOut
<1>1. Shape /\ [Next]_vars => [\A i \in Invocation : Shorter(i)]_vars
  <2> SUFFICES ASSUME Shape, Next PROVE \A i \in Invocation : Shorter(i)
    BY DEF vars
  <2> USE LicenseCount, StageValues
  <2>1. ASSUME NEW i \in Invocation, NEW v \in VM, Receive(i, v)
        PROVE  \A j \in Invocation : Shorter(j)
    BY <2>1, ShorterStep DEF Receive
  <2>2. ASSUME NEW i \in Invocation, List(i) PROVE \A j \in Invocation : Shorter(j)
    <3> DEFINE r == [h[i] EXCEPT !.pc = "stockRead", !.files = files, !.known = UsageList]
    <3>1. Becomes(i, r) /\ h[i].pc = "list" /\ h[i] \in Handler
      BY <2>2 DEF List, At, Shape
    <3>2. r.pc # h[i].pc /\ r.unused = h[i].unused /\ r.tries = h[i].tries
          /\ StageSteps[r.pc] = StageSteps[h[i].pc] - 1
      BY <3>1 DEF Handler
    <3>3. Cardinality(h[i].unused) \in Nat /\ h[i].tries \in Nat
      BY <3>1, UnusedCount DEF Handler
    <3> HIDE DEF r
    <3>4. StepsLeft(r) < StepsLeft(h[i])
      BY <3>1, <3>2, <3>3 DEF StepsLeft
    <3> QED BY <3>1, <3>4, ShorterStep
  <2>3. ASSUME NEW i \in Invocation, ListFilesFails(i) PROVE \A j \in Invocation : Shorter(j)
    <3> DEFINE r == [h[i] EXCEPT !.pc = "stockRead", !.known = UsageList]
    <3>1. Becomes(i, r) /\ h[i].pc = "list" /\ h[i] \in Handler
      BY <2>3 DEF ListFilesFails, At, Shape
    <3>2. r.pc # h[i].pc /\ r.unused = h[i].unused /\ r.tries = h[i].tries
          /\ StageSteps[r.pc] = StageSteps[h[i].pc] - 1
      BY <3>1 DEF Handler
    <3>3. Cardinality(h[i].unused) \in Nat /\ h[i].tries \in Nat
      BY <3>1, UnusedCount DEF Handler
    <3> HIDE DEF r
    <3>4. StepsLeft(r) < StepsLeft(h[i])
      BY <3>1, <3>2, <3>3 DEF StepsLeft
    <3> QED BY <3>1, <3>4, ShorterStep
  <2>4. ASSUME NEW i \in Invocation, StockRead(i) PROVE \A j \in Invocation : Shorter(j)
    <3> DEFINE r == [h[i] EXCEPT !.pc = "stockWrite", !.stock = stock]
    <3>1. Becomes(i, r) /\ h[i].pc = "stockRead" /\ h[i] \in Handler
      BY <2>4 DEF StockRead, At, Shape
    <3>2. r.pc # h[i].pc /\ r.unused = h[i].unused /\ r.tries = h[i].tries
          /\ StageSteps[r.pc] = StageSteps[h[i].pc] - 1
      BY <3>1 DEF Handler
    <3>3. Cardinality(h[i].unused) \in Nat /\ h[i].tries \in Nat
      BY <3>1, UnusedCount DEF Handler
    <3> HIDE DEF r
    <3>4. StepsLeft(r) < StepsLeft(h[i])
      BY <3>1, <3>2, <3>3 DEF StepsLeft
    <3> QED BY <3>1, <3>4, ShorterStep
  <2>5. ASSUME NEW i \in Invocation, StockWrite(i) PROVE \A j \in Invocation : Shorter(j)
    <3> DEFINE r == [h[i] EXCEPT !.pc = "choose"]
    <3>1. Becomes(i, r) /\ h[i].pc = "stockWrite" /\ h[i] \in Handler
      BY <2>5 DEF StockWrite, At, Shape
    <3>2. r.pc # h[i].pc /\ r.unused = h[i].unused /\ r.tries = h[i].tries
          /\ StageSteps[r.pc] = StageSteps[h[i].pc] - 1
      BY <3>1 DEF Handler
    <3>3. Cardinality(h[i].unused) \in Nat /\ h[i].tries \in Nat
      BY <3>1, UnusedCount DEF Handler
    <3> HIDE DEF r
    <3>4. StepsLeft(r) < StepsLeft(h[i])
      BY <3>1, <3>2, <3>3 DEF StepsLeft
    <3> QED BY <3>1, <3>4, ShorterStep
  <2>6. ASSUME NEW i \in Invocation, StockWriteFails(i) PROVE \A j \in Invocation : Shorter(j)
    BY <2>6, ShorterStep DEF StockWriteFails
  <2>7. ASSUME NEW i \in Invocation, Choose(i) PROVE \A j \in Invocation : Shorter(j)
    <3> DEFINE known == [l \in License |-> IF l \in stock THEN h[i].known[l] ELSE Absent]
               seen == [h[i] EXCEPT !.known = known, !.files = {}, !.stock = {}]
               unused == {l \in stock : known[l] = Absent}
               reuse == [seen EXCEPT !.pc = "reuse"]
               claim == [seen EXCEPT !.pc = "claim", !.unused = unused]
    <3>1. \/ Becomes(i, IdleHandler)
          \/ \E l \in License : Becomes(i, Found(i, l))
          \/ Becomes(i, reuse)
          \/ Becomes(i, claim)
      BY <2>7 DEF Choose
    <3>2. /\ h[i] \in Handler /\ h[i].pc = "choose" /\ h[i].unused = {} /\ h[i].tries = 0
          /\ StepsLeft(h[i]) = 6 * n + 4 /\ h[i].vm \in VM
      BY <2>7, StageOnly DEF Choose, At, Shape, HeldBy
    <3>3. unused \in SUBSET License
      BY DEF Shape, TablesOK
    <3>4. Cardinality(unused) \in Nat /\ Cardinality(unused) <= n
      BY <3>3
    <3> HIDE DEF known, unused
    <3>5. /\ reuse.pc = "reuse" /\ reuse.unused = {} /\ reuse.tries = 0
          /\ claim.pc = "claim" /\ claim.unused = unused /\ claim.tries = 0
      BY <3>2 DEF Handler
    <3> HIDE DEF reuse, claim
    <3>6. StepsLeft(reuse) = 4 * n + 3 /\ StepsLeft(claim) = 4 * n + 3 + 2 * Cardinality(unused)
      BY <3>4, <3>5, FS_EmptySet DEF StepsLeft
    <3>7. \A l \in License : StepsLeft(Found(i, l)) = 1
      BY FS_EmptySet DEF StepsLeft, Found, IdleHandler
    <3>8. /\ StepsLeft(reuse) < StepsLeft(h[i]) /\ StepsLeft(claim) < StepsLeft(h[i])
          /\ \A l \in License : StepsLeft(Found(i, l)) < StepsLeft(h[i])
      BY <3>2, <3>4, <3>6, <3>7
    <3> QED BY <3>1, <3>8, ShorterStep
  <2>8. ASSUME NEW i \in Invocation, Claim(i) PROVE \A j \in Invocation : Shorter(j)
    <3>1. PICK l \in h[i].unused :
             LET left == h[i].unused \ {l}
             IN \/ Becomes(i, [h[i] EXCEPT !.pc = "claimWrite", !.lic = l, !.unused = left])
                \/ Becomes(i, [h[i] EXCEPT !.pc = "reuse", !.unused = left])
                \/ Becomes(i, [h[i] EXCEPT !.pc = "claim", !.unused = left])
      BY <2>8 DEF Claim
    <3> DEFINE left == h[i].unused \ {l}
               r1 == [h[i] EXCEPT !.pc = "claimWrite", !.lic = l, !.unused = left]
               r2 == [h[i] EXCEPT !.pc = "reuse", !.unused = left]
               r3 == [h[i] EXCEPT !.pc = "claim", !.unused = left]
               k == Cardinality(h[i].unused)
    <3>2. h[i] \in Handler /\ h[i].pc = "claim" /\ h[i].tries = 0
      BY <2>8 DEF Claim, At, Shape, HeldBy
    <3>3. Cardinality(left) = k - 1 /\ k \in Nat
      <4>1. k \in 0..n /\ Cardinality(left) = k - 1
        BY <3>1, <3>2, UnusedCount
      <4> HIDE DEF k, left
      <4> QED BY <4>1
    <3>4. Becomes(i, r1) \/ Becomes(i, r2) \/ Becomes(i, r3)
      BY <3>1
    <3> HIDE DEF left
    <3>5. /\ r1.pc = "claimWrite" /\ r1.unused = left /\ r1.tries = 0
          /\ r2.pc = "reuse" /\ r2.unused = left /\ r2.tries = 0
          /\ r3.pc = "claim" /\ r3.unused = left /\ r3.tries = 0
      BY <3>2 DEF Handler
    <3> HIDE DEF r1, r2, r3
    <3>6. /\ StepsLeft(h[i]) = 4 * n + 3 + 2 * k
          /\ StepsLeft(r1) = 4 * n + 4 + 2 * (k - 1)
          /\ StepsLeft(r2) = 4 * n + 3 + 2 * (k - 1)
          /\ StepsLeft(r3) = 4 * n + 3 + 2 * (k - 1)
      BY <3>2, <3>3, <3>5 DEF StepsLeft
    <3> HIDE DEF k
    <3>7. /\ StepsLeft(r1) < StepsLeft(h[i]) /\ StepsLeft(r2) < StepsLeft(h[i])
          /\ StepsLeft(r3) < StepsLeft(h[i])
      BY <3>3, <3>6
    <3> QED BY <3>4, <3>7, ShorterStep
  <2>9. ASSUME NEW i \in Invocation, ClaimWrite(i) PROVE \A j \in Invocation : Shorter(j)
    <3>1. Becomes(i, Found(i, h[i].lic)) /\ h[i] \in Handler /\ h[i].pc = "claimWrite"
      BY <2>9 DEF ClaimWrite, At, Shape
    <3>2. StepsLeft(Found(i, h[i].lic)) = 1
      BY FS_EmptySet DEF StepsLeft, Found, IdleHandler
    <3>3. Cardinality(h[i].unused) \in Nat /\ h[i].tries \in Nat
      BY <3>1, UnusedCount DEF Handler
    <3>4. StepsLeft(h[i]) > 1
      BY <3>1, <3>3 DEF StepsLeft
    <3> QED BY <3>1, <3>2, <3>4, ShorterStep
  <2>10. ASSUME NEW i \in Invocation, NEW saved \in BOOLEAN, ClaimFails(i, saved)
         PROVE  \A j \in Invocation : Shorter(j)
    <3> DEFINE r == [h[i] EXCEPT !.pc = IF h[i].unused = {} THEN "reuse" ELSE "claim",
                                 !.lic = None]
    <3>1. Becomes(i, r) /\ h[i] \in Handler /\ h[i].pc = "claimWrite"
      BY <2>10 DEF ClaimFails, At, Shape
    <3>2. /\ r.pc \in {"reuse", "claim"} /\ r.unused = h[i].unused /\ r.tries = h[i].tries
      BY <3>1 DEF Handler
    <3>3. Cardinality(h[i].unused) \in Nat /\ h[i].tries \in Nat
      BY <3>1, UnusedCount DEF Handler
    <3> HIDE DEF r
    <3>4. StepsLeft(r) < StepsLeft(h[i])
      BY <3>1, <3>2, <3>3 DEF StepsLeft
    <3> QED BY <3>1, <3>4, ShorterStep
  <2>11. ASSUME NEW i \in Invocation, Reuse(i) PROVE \A j \in Invocation : Shorter(j)
    <3>1. /\ h[i] \in Handler /\ Recorded(h[i].known, usage) /\ HeldBy(h[i])
          /\ h[i].pc = "reuse"
      BY <2>11 DEF Reuse, At, Shape
    <3>2. /\ h[i].unused = {} /\ h[i].tries = 0
          /\ h[i].known \in [License -> Listed \cup {Absent}]
      BY <3>1 DEF HeldBy, Handler
    <3>3. CASE Pick(i, h[i].known)
      BY <3>1, <3>2, <3>3, PickShorter, ShorterStep
    <3>4. CASE ~Pick(i, h[i].known)
      <4> DEFINE K == {l \in License : h[i].known[l] # Absent}
                 r == [h[i] EXCEPT !.pc = "sync", !.unused = K]
      <4>1. Becomes(i, r)
        BY <2>11, <3>4 DEF Reuse
      <4>2. K \in SUBSET License
        OBVIOUS
      <4>3. Cardinality(K) \in Nat /\ Cardinality(K) <= n
        BY <4>2
      <4> HIDE DEF K
      <4>4. r.pc = "sync" /\ r.unused = K /\ r.tries = 0
        BY <3>1, <3>2 DEF Handler
      <4> HIDE DEF r
      <4>5. /\ StepsLeft(r) = 2 * n + 2 + 2 * Cardinality(K)
            /\ StepsLeft(h[i]) = 4 * n + 3
        <5>1. StepsLeft(r) = 2 * n + 2 + 2 * Cardinality(K)
          BY <4>3, <4>4 DEF StepsLeft
        <5>2. StepsLeft(h[i]) = StageSteps[h[i].pc]
          BY <3>1, <3>2, StageOnly
        <5> QED BY <3>1, <5>1, <5>2
      <4>6. StepsLeft(r) < StepsLeft(h[i])
        BY <4>3, <4>5
      <4> QED BY <4>1, <4>6, ShorterStep
    <3> QED BY <3>3, <3>4
  <2>12. ASSUME NEW i \in Invocation, SyncStatus(i) PROVE \A j \in Invocation : Shorter(j)
    <3>1. PICK l \in h[i].unused : Becomes(i, [h[i] EXCEPT !.unused = @ \ {l}])
      BY <2>12 DEF SyncStatus
    <3> DEFINE r == [h[i] EXCEPT !.unused = @ \ {l}]
               k == Cardinality(h[i].unused)
    <3>2. h[i] \in Handler /\ h[i].pc = "sync" /\ h[i].tries = 0
      BY <2>12 DEF SyncStatus, At, Shape, HeldBy
    <3>3. Cardinality(h[i].unused \ {l}) = k - 1 /\ k \in Nat
      <4>1. k \in 0..n /\ Cardinality(h[i].unused \ {l}) = k - 1
        BY <3>1, <3>2, UnusedCount
      <4> HIDE DEF k
      <4> QED BY <4>1
    <3>4. Becomes(i, r) /\ r.pc = "sync" /\ r.unused = h[i].unused \ {l} /\ r.tries = 0
      BY <3>1, <3>2 DEF Handler
    <3> HIDE DEF r
    <3>5. /\ StepsLeft(h[i]) = 2 * n + 2 + 2 * k
          /\ StepsLeft(r) = 2 * n + 2 + 2 * (k - 1)
      BY <3>2, <3>3, <3>4 DEF StepsLeft
    <3> HIDE DEF k
    <3>6. StepsLeft(r) < StepsLeft(h[i])
      BY <3>3, <3>5
    <3> QED BY <3>4, <3>6, ShorterStep
  <2>13. ASSUME NEW i \in Invocation, Relist(i) PROVE \A j \in Invocation : Shorter(j)
    <3>1. h[i].pc = "sync" /\ h[i].unused = {}
      BY <2>13 DEF Relist, At
    <3>2. UsageList \in [License -> Listed \cup {Absent}] /\ Recorded(UsageList, usage)
      BY UsageListShape DEF Shape
    <3>3. CASE Pick(i, UsageList)
      BY <3>1, <3>2, <3>3, PickShorter, ShorterStep
    <3>4. CASE Becomes(i, IdleHandler)
      BY <3>4, ShorterStep
    <3> QED BY <2>13, <3>3, <3>4 DEF Relist
  <2>14. ASSUME NEW i \in Invocation, HandOver(i) PROVE \A j \in Invocation : Shorter(j)
    <3> DEFINE r == [h[i] EXCEPT !.pc = "handOverWrite", !.snap = usage[h[i].lic]]
    <3>1. /\ h[i].pc = "handOver" /\ h[i] \in Handler
          /\ (Becomes(i, r) \/ Becomes(i, Retry(i)))
      BY <2>14 DEF HandOver, At, Shape
    <3>2. r.pc = "handOverWrite" /\ r.unused = h[i].unused /\ r.tries = h[i].tries
      BY <3>1 DEF Handler
    <3>3. Cardinality(h[i].unused) \in Nat /\ h[i].tries \in Nat
      BY <3>1, UnusedCount DEF Handler
    <3> HIDE DEF r
    <3>4. StepsLeft(r) < StepsLeft(h[i])
      BY <3>1, <3>2, <3>3 DEF StepsLeft
    <3> QED BY <3>1, <3>4, RetryShorter, ShorterStep
  <2>15. ASSUME NEW i \in Invocation, HandOverWrite(i) PROVE \A j \in Invocation : Shorter(j)
    <3>1. /\ Becomes(i, Found(i, h[i].lic)) /\ h[i] \in Handler /\ h[i].unused = {}
          /\ h[i].pc = "handOverWrite" /\ h[i].tries \in 1..n
      BY <2>15 DEF HandOverWrite, At, Shape, HeldBy
    <3>2. StepsLeft(Found(i, h[i].lic)) = 1
      BY FS_EmptySet DEF StepsLeft, Found, IdleHandler
    <3>3. StepsLeft(h[i]) = 2 * h[i].tries
      BY <3>1, FS_EmptySet DEF StepsLeft
    <3> QED BY <3>1, <3>2, <3>3, ShorterStep
  <2>16. ASSUME NEW i \in Invocation, HandOverWriteFails(i)
         PROVE  \A j \in Invocation : Shorter(j)
    <3>1. h[i].pc = "handOverWrite" /\ Becomes(i, Retry(i))
      BY <2>16 DEF HandOverWriteFails, At
    <3> QED BY <3>1, RetryShorter, ShorterStep
  <2>17. ASSUME NEW i \in Invocation, Load(i) PROVE \A j \in Invocation : Shorter(j)
    BY <2>17, ShorterStep DEF Load
  <2>18. ASSUME NEW i \in Invocation, Crash(i) PROVE \A j \in Invocation : Shorter(j)
    BY <2>18, ShorterStep DEF Crash
  <2>19. ASSUME h' = h PROVE \A j \in Invocation : Shorter(j)
    BY <2>19 DEF Shorter
  <2> QED
    BY <2>1, <2>2, <2>3, <2>4, <2>5, <2>6, <2>7, <2>8, <2>9, <2>10, <2>11,
       <2>12, <2>13, <2>14, <2>15, <2>16, <2>17, <2>18, <2>19
       DEF Next, Run, Leave, RemoveFile, AddFile
<1> QED BY <1>1, ShapeInductive, PTL DEF Spec, RequestsRunOut, Shorter

=============================================================================
