--------------------------- MODULE ApiCache_proofs ---------------------------
(***************************************************************************)
(* What holds of the cached answers for any set of invocations and any set *)
(* of VMs, however many calls are made and crash.                          *)
(***************************************************************************)
EXTENDS ApiCache, TLAPS

Shape ==
    /\ scaleSet \in [VM -> Life]
    /\ listing \in {Absent} \cup SUBSET VM
    /\ described \subseteq VM /\ nics \subseteq VM
    /\ h \in [Invocation -> Handler]

\* Answers are being deleted from the cache in one stage only, and every call
\* is about a VM.
InStage(r) == /\ r.toRead \cup r.toDrop # {} => r.pc = "drop"
              /\ r.pc \notin Ended => r.vm \in VM

\* What has happened to the VM of a description that began while it was there.
\* A list from the API can lack the VM only if the VM is gone by now.
SeesTheLiving(r, s) ==
    r.wasThere => /\ r.vm \in VM /\ s[r.vm] \in {"there", "leaving", "gone"}
                  /\ r.pc = "readList" => ~r.again
                  /\ r.pc = "saveList" /\ r.vm \notin r.seen => s[r.vm] = "gone"

\* Nothing that is left of a VM, in the cache c or in the lists of invocations g.
Unknown(v, s, c, g) == /\ s[v] = "gone"
                       /\ c = Absent \/ v \notin c
                       /\ \A i \in Invocation : v \notin g[i].seen

\* A description of a VM that was forgotten never gets beyond the list.
StopsAtTheList(r, s, c, g) ==
    r.forgotten => \/ r.pc \in {"missing", "failed"}
                   \/ /\ r.pc \in {"readList", "listApi", "saveList"}
                      /\ r.op = "describe" /\ r.vm \in VM /\ Unknown(r.vm, s, c, g)

Inv ==
    /\ Shape
    /\ \A i \in Invocation : InStage(h[i])
    /\ \A i \in Invocation : SeesTheLiving(h[i], scaleSet)
    /\ \A i \in Invocation : StopsAtTheList(h[i], scaleSet, listing, h)

\* A step of the invocation i that leaves the scaling group alone.
Stage(i) ==
    \/ \E op \in Operation, v \in VM : Call(i, op, v)
    \/ ReadList(i) \/ ListApi(i) \/ SaveList(i)
    \/ ReadDescription(i) \/ DescriptionApi(i) \/ SaveDescription(i)
    \/ ReadNics(i) \/ NicsApi(i) \/ SaveNics(i)
    \/ \E k \in CacheKey : DropRead(i, k) \/ Drop(i, k)
    \/ DropsDone(i) \/ ApiFails(i) \/ Crash(i)

-----------------------------------------------------------------------------
LEMMA NextIsStages ==
    Next <=> \/ \E i \in Invocation : Stage(i) \/ DeleteVm(i)
             \/ \E v \in VM : Launch(v) \/ Leave(v)
BY DEF Next, Stage

LEMMA IdleHandlerType == IdleHandler \in Handler
BY DEF IdleHandler, Handler, Steps, Ended, Operation

LEMMA EndType ==
    ASSUME NEW r \in Handler, NEW outcome \in Ended
    PROVE  /\ End(r, outcome) \in Handler
           /\ End(r, outcome).pc = outcome
           /\ End(r, outcome).toRead = {} /\ End(r, outcome).toDrop = {}
           /\ End(r, outcome).seen = {} /\ ~End(r, outcome).wasThere
           /\ End(r, outcome).forgotten = r.forgotten
BY DEF End, IdleHandler, Handler, Steps, Operation

\* What becomes of an invocation that has a list in hand.
LEMMA AfterListShape ==
    ASSUME NEW r \in Handler, NEW list \in SUBSET VM, InStage(r), r.pc \in {"readList", "saveList"}
    PROVE  /\ AfterList(r, list) \in Handler
           /\ InStage(AfterList(r, list))
           /\ AfterList(r, list).seen = {}
           /\ AfterList(r, list).forgotten = r.forgotten
<1>1. CASE r.op = "list" \/ (r.op = "delete" /\ r.vm \notin list)
  BY <1>1, EndType DEF AfterList, InStage, Ended
<1>2. CASE r.op = "delete" /\ r.vm \in list
  BY <1>2 DEF AfterList, InStage, Handler, Steps, CacheKey, Ended
<1>3. CASE r.op \notin {"list", "delete"} /\ r.vm \notin list /\ r.again
  BY <1>3, EndType DEF AfterList, InStage, Ended
<1>4. CASE r.op \notin {"list", "delete"} /\ ~(r.vm \notin list /\ r.again)
  BY <1>4 DEF AfterList, InStage, Handler, Steps, Ended
<1>5. QED
  BY <1>1, <1>2, <1>3, <1>4

-----------------------------------------------------------------------------
(* Types.                                                                  *)

LEMMA InitInv == Init => Inv
<1> SUFFICES ASSUME Init PROVE Inv
  OBVIOUS
<1>1. Shape
  <2>1. scaleSet \in [VM -> Life]
    BY DEF Init, Life
  <2>2. listing = Absent /\ described = {} /\ nics = {}
    BY DEF Init
  <2>3. h \in [Invocation -> Handler]
    BY IdleHandlerType DEF Init
  <2>4. QED
    BY <2>1, <2>2, <2>3 DEF Shape
<1>2. ASSUME NEW i \in Invocation
      PROVE  /\ InStage(h[i]) /\ SeesTheLiving(h[i], scaleSet)
             /\ StopsAtTheList(h[i], scaleSet, listing, h)
  BY DEF Init, IdleHandler, InStage, Ended, SeesTheLiving, StopsAtTheList
<1>3. QED
  BY <1>1, <1>2 DEF Inv

\* A step of one invocation changes the local variables of that one.
LEMMA BecomesOnly ==
    ASSUME h \in [Invocation -> Handler], NEW i \in Invocation, NEW r, Becomes(i, r)
    PROVE  /\ h'[i] = r /\ \A j \in Invocation \ {i} : h'[j] = h[j]
           /\ r \in Handler => h' \in [Invocation -> Handler]
BY DEF Becomes

\* The tables keep their types.
LEMMA StageTables ==
    ASSUME Shape, NEW i \in Invocation, InStage(h[i]), Stage(i) \/ DeleteVm(i)
    PROVE  /\ scaleSet' \in [VM -> Life]
           /\ listing' \in {Absent} \cup SUBSET VM
           /\ described' \subseteq VM /\ nics' \subseteq VM
<1> USE DEF Shape
<1>1. h[i] \in Handler /\ h[i].seen \in SUBSET VM
  BY DEF Handler
<1>2. CASE UNCHANGED <<scaleSet, caches>>
  BY <1>2 DEF caches
<1>3. CASE SaveList(i)
  BY <1>1, <1>3 DEF SaveList
<1>4. CASE SaveDescription(i) \/ SaveNics(i)
  <2>1. h[i].vm \in VM
    BY <1>4 DEF SaveDescription, SaveNics, InStage, At, Ended
  <2>2. QED
    BY <1>4, <2>1 DEF SaveDescription, SaveNics
<1>5. ASSUME NEW k \in CacheKey, Drop(i, k)
      PROVE  /\ scaleSet' \in [VM -> Life] /\ listing' \in {Absent} \cup SUBSET VM
             /\ described' \subseteq VM /\ nics' \subseteq VM
  <2>1. scaleSet' = scaleSet /\ described' = described
    BY <1>5 DEF Drop
  <2>2. listing' \in {listing, Absent} /\ nics' \subseteq nics
    BY <1>5 DEF Drop
  <2>3. QED
    BY <2>1, <2>2
<1>6. CASE DeleteVm(i)
  BY <1>6 DEF DeleteVm, caches, Life
<1>7. CASE Stage(i) /\ ~UNCHANGED <<scaleSet, caches>>
  BY <1>3, <1>4, <1>5, <1>7
  DEF Stage, Call, ReadList, ListApi, ReadDescription, DescriptionApi, ReadNics, NicsApi,
      DropRead, DropsDone, ApiFails, Crash
<1>8. QED
  BY <1>2, <1>6, <1>7

\* An invocation as a step leaves it.
Fine(r) == r \in Handler /\ InStage(r)

LEMMA FineEnd ==
    ASSUME NEW r \in Handler, NEW outcome \in Ended
    PROVE  Fine(End(r, outcome))
  BY EndType DEF InStage, Fine

\* A stage leaves a well-typed invocation behind.
LEMMA StageFine ==
    ASSUME Shape, NEW i \in Invocation, InStage(h[i]), Stage(i) \/ DeleteVm(i)
    PROVE  Fine(h'[i]) /\ h' \in [Invocation -> Handler]
<1> USE DEF Shape
<1>0. \A r : Becomes(i, r) /\ Fine(r) => Fine(h'[i]) /\ h' \in [Invocation -> Handler]
  BY BecomesOnly DEF Fine
<1>1. h[i] \in Handler
  OBVIOUS
<1> DEFINE r == h[i]
<1>a. ASSUME NEW op \in Operation, NEW v \in VM, Call(i, op, v)
      PROVE  Fine(h'[i]) /\ h' \in [Invocation -> Handler]
  <2> DEFINE was == op = "describe" /\ v \in Present
             lost == op = "describe" /\ Forgotten(v)
             q == [IdleHandler EXCEPT !.pc = IF op = "nics" THEN "readNics" ELSE "readList",
                                      !.op = op, !.vm = v, !.wasThere = was, !.forgotten = lost]
  <2>1. was \in BOOLEAN /\ lost \in BOOLEAN
    OBVIOUS
  <2> HIDE DEF was, lost
  <2>2. Fine(q)
    BY <2>1 DEF Fine, InStage, IdleHandler, Handler, Steps, Operation
  <2>3. Becomes(i, q)
    BY <1>a DEF Call, was, lost
  <2>4. QED
    BY <1>0, <2>2, <2>3
<1>b. CASE ReadList(i)
  <2>1. CASE listing = Absent
    <3>1. Fine([r EXCEPT !.pc = "listApi"])
      BY <1>b DEF ReadList, Fine, InStage, Handler, Steps, At, Ended
    <3>2. QED
      BY <1>0, <1>b, <2>1, <3>1 DEF ReadList
  <2>2. CASE listing # Absent
    <3>1. Becomes(i, AfterList(h[i], listing))
      BY <1>b, <2>2 DEF ReadList
    <3>2. h[i] \in Handler /\ InStage(h[i]) /\ h[i].pc = "readList"
      BY <1>b DEF Handler, InStage, ReadList, At, Ended
    <3>3. listing \in SUBSET VM
      BY <2>2
    <3>4. Fine(AfterList(h[i], listing))
      BY <3>2, <3>3, AfterListShape DEF Fine
    <3>5. QED
      BY <1>0, <3>1, <3>4
  <2>3. QED
    BY <2>1, <2>2
<1>c. CASE ListApi(i)
  <2>1. Fine([r EXCEPT !.pc = "saveList", !.seen = Present])
    BY <1>c DEF ListApi, Fine, Ended, InStage, Handler, Steps, At, Present
  <2>2. QED
    BY <1>0, <1>c, <2>1 DEF ListApi
<1>d. CASE SaveList(i)
  <2>1. h[i].seen \in SUBSET VM
    BY DEF Handler
  <2>2. Fine(AfterList(h[i], h[i].seen))
    BY <1>d, <2>1, AfterListShape DEF SaveList, At, Fine
  <2>3. QED
    BY <1>0, <1>d, <2>2 DEF SaveList
<1>e. CASE ReadDescription(i) \/ ReadNics(i)
  <2>1. Fine([r EXCEPT !.pc = "descriptionApi"]) /\ Fine([r EXCEPT !.pc = "nicsApi"])
    BY <1>e DEF ReadDescription, ReadNics, Fine, Ended, InStage, Handler, Steps, At
  <2>2. QED
    BY <1>0, <1>e, <2>1, FineEnd DEF ReadDescription, ReadNics, Ended
<1>f. CASE DescriptionApi(i) \/ NicsApi(i)
  <2>1. /\ Fine([r EXCEPT !.pc = "saveDescription"])
        /\ Fine([r EXCEPT !.pc = "saveNics"])
    BY <1>f DEF DescriptionApi, NicsApi, Fine, Ended, InStage, Handler, Steps, At
  <2>2. QED
    BY <1>0, <1>f, <2>1 DEF DescriptionApi, NicsApi
<1>g. CASE SaveDescription(i) \/ SaveNics(i) \/ DeleteVm(i) \/ ApiFails(i)
  BY <1>0, <1>g, FineEnd DEF SaveDescription, SaveNics, DeleteVm, ApiFails, Ended
<1>h. ASSUME NEW k \in CacheKey, DropRead(i, k)
      PROVE  Fine(h'[i]) /\ h' \in [Invocation -> Handler]
  <2> DEFINE q == [r EXCEPT !.toRead = @ \ {k},
                            !.toDrop = IF Cached(k, h[i].vm) THEN @ \cup {k} ELSE @]
  <2>1. Fine(q)
    BY <1>h DEF DropRead, Fine, Ended, InStage, Handler, At
  <2>2. QED
    BY <1>0, <1>h, <2>1 DEF DropRead
<1>i. ASSUME NEW k \in CacheKey, Drop(i, k)
      PROVE  Fine(h'[i]) /\ h' \in [Invocation -> Handler]
  <2> DEFINE bad == h[i].failed \/ ~Cached(k, h[i].vm)
             q == [r EXCEPT !.toDrop = @ \ {k}, !.failed = bad]
  <2>1. bad \in BOOLEAN
    OBVIOUS
  <2> HIDE DEF bad
  <2>2. Fine(q)
    BY <1>i, <2>1 DEF Drop, Fine, Ended, InStage, Handler, At
  <2>3. Becomes(i, q)
    BY <1>i DEF Drop, bad
  <2>4. QED
    BY <1>0, <2>2, <2>3
<1>j. CASE DropsDone(i)
  <2>1. Fine([r EXCEPT !.pc = "deleteVm"])
    BY <1>j DEF DropsDone, Fine, Ended, InStage, Handler, Steps, At
  <2>2. QED
    BY <1>0, <1>j, <2>1, FineEnd DEF DropsDone, Ended
<1>k. CASE Crash(i)
  <2>1. Fine(IdleHandler)
    BY IdleHandlerType DEF Fine, InStage, IdleHandler, Ended
  <2>2. QED
    BY <1>0, <1>k, <2>1 DEF Crash
<1>l. QED
  BY <1>a, <1>b, <1>c, <1>d, <1>e, <1>f, <1>g, <1>h, <1>i, <1>j, <1>k DEF Stage

LEMMA ShapeKept ==
    ASSUME Shape, \A j \in Invocation : InStage(h[j]), Next
    PROVE  Shape' /\ \A j \in Invocation : InStage(h[j])'
<1>1. ASSUME NEW i \in Invocation, Stage(i) \/ DeleteVm(i)
      PROVE  Shape' /\ \A j \in Invocation : InStage(h[j])'
  <2>1. Fine(h'[i]) /\ h' \in [Invocation -> Handler]
    BY <1>1, StageFine
  <2>2. \E r : Becomes(i, r)
    BY <1>1 DEF Stage, Call, ReadList, ListApi, SaveList, ReadDescription, DescriptionApi,
                SaveDescription, ReadNics, NicsApi, SaveNics, DropRead, Drop, DropsDone,
                DeleteVm, ApiFails, Crash
  <2>3. \A j \in Invocation \ {i} : h'[j] = h[j]
    BY <2>2, BecomesOnly DEF Shape
  <2>4. QED
    BY <1>1, <2>1, <2>3, StageTables DEF Shape, Fine
<1>2. ASSUME NEW v \in VM, Launch(v) \/ Leave(v)
      PROVE  Shape' /\ \A j \in Invocation : InStage(h[j])'
  <2>1. scaleSet' \in [VM -> Life]
    BY <1>2 DEF Shape, Launch, Leave, Life
  <2>2. QED
    BY <1>2, <2>1 DEF Shape, Launch, Leave, caches
<1>3. QED
  BY <1>1, <1>2, NextIsStages

-----------------------------------------------------------------------------
(* What the steps do to VMs and to what is known of them.                  *)

LEMMA LifeGoesOn ==
    ASSUME Shape, Next, NEW v \in VM
    PROVE  /\ scaleSet[v] = "gone" => scaleSet'[v] = "gone"
           /\ scaleSet[v] \in {"there", "leaving", "gone"}
              => scaleSet'[v] \in {"there", "leaving", "gone"}
<1>1. ASSUME NEW i \in Invocation, Stage(i) PROVE scaleSet' = scaleSet
  BY <1>1 DEF Stage, Call, ReadList, ListApi, SaveList, ReadDescription, DescriptionApi,
              SaveDescription, ReadNics, NicsApi, SaveNics, DropRead, Drop, DropsDone,
              ApiFails, Crash
<1>2. ASSUME NEW i \in Invocation, DeleteVm(i)
      PROVE  scaleSet'[v] = scaleSet[v]
             \/ (scaleSet[v] = "there" /\ scaleSet'[v] = "leaving")
  BY <1>2 DEF DeleteVm, Shape
<1>3. ASSUME NEW w \in VM, Launch(w) \/ Leave(w)
      PROVE  \/ scaleSet'[v] = scaleSet[v]
             \/ scaleSet[v] = "none"
             \/ scaleSet[v] \in {"there", "leaving"} /\ scaleSet'[v] \in {"leaving", "gone"}
  BY <1>3 DEF Launch, Leave, Shape
<1>4. QED
  BY <1>1, <1>2, <1>3, NextIsStages

\* Where an invocation is once it has dealt with a list.
LEMMA AfterListTraces ==
    ASSUME NEW r \in Handler, NEW list \in SUBSET VM
    PROVE  LET q == AfterList(r, list) IN
           /\ q.pc \notin {"readList", "saveList"}
           /\ q.wasThere => r.wasThere /\ q.vm = r.vm
           /\ r.op = "describe" /\ r.vm \notin list
              => \/ q.pc = "missing"
                 \/ q.pc = "listApi" /\ q.op = "describe" /\ q.vm = r.vm
           /\ q.forgotten => r.forgotten
           /\ q.pc = "missing" => r.vm \notin list /\ r.again
<1>1. CASE r.op = "list" \/ (r.op = "delete" /\ r.vm \notin list)
  BY <1>1, EndType DEF AfterList, Ended
<1>2. CASE r.op = "delete" /\ r.vm \in list
  BY <1>2 DEF AfterList, Handler
<1>3. CASE r.op \notin {"list", "delete"} /\ r.vm \notin list /\ r.again
  BY <1>3, EndType DEF AfterList, Ended
<1>4. CASE r.op \notin {"list", "delete"} /\ ~(r.vm \notin list /\ r.again)
  BY <1>4 DEF AfterList, Handler
<1>5. QED
  BY <1>1, <1>2, <1>3, <1>4

\* What a stage takes over from an API answer into the lists.
LEMMA ListsTraces ==
    ASSUME Shape, NEW i \in Invocation, InStage(h[i]), Stage(i) \/ DeleteVm(i)
    PROVE  /\ h'[i].seen \in {{}, h[i].seen, Present}
           /\ listing' \in {listing, Absent, h[i].seen}
           /\ \A j \in Invocation \ {i} : h'[j] = h[j]
<1> USE DEF Shape
<1>0. /\ \A r : Becomes(i, r) => h'[i] = r /\ \A j \in Invocation \ {i} : h'[j] = h[j]
      /\ h[i] \in Handler /\ h[i].seen \in SUBSET VM
  BY BecomesOnly DEF Handler
<1>e. ASSUME NEW outcome \in Ended
      PROVE  End(h[i], outcome).seen = {}
  BY DEF End, IdleHandler
<1>1. CASE ReadList(i)
  <2>1. CASE listing = Absent
    BY <1>0, <1>1, <2>1 DEF ReadList, caches, Handler
  <2>2. CASE listing # Absent
    <3>1. Becomes(i, AfterList(h[i], listing))
      BY <1>1, <2>2 DEF ReadList
    <3>2. h[i] \in Handler /\ InStage(h[i]) /\ h[i].pc = "readList"
      BY <1>1 DEF Handler, InStage, ReadList, At, Ended
    <3>3. listing \in SUBSET VM
      BY <2>2
    <3>4. AfterList(h[i], listing).seen = {}
      BY <3>2, <3>3, AfterListShape
    <3>5. QED
      BY <1>0, <1>1, <3>1, <3>4 DEF ReadList, caches
  <2>3. QED
    BY <2>1, <2>2
<1>2. CASE SaveList(i)
  <2>1. AfterList(h[i], h[i].seen).seen = {}
    BY <1>0, <1>2, AfterListShape DEF SaveList, At
  <2>2. QED
    BY <1>0, <1>2, <2>1 DEF SaveList
<1>3. CASE ListApi(i)
  <2>1. [h[i] EXCEPT !.pc = "saveList", !.seen = Present].seen = Present
    BY <1>0 DEF Handler
  <2>2. QED
    BY <1>0, <1>3, <2>1 DEF ListApi, caches
<1>4. ASSUME NEW op \in Operation, NEW v \in VM, Call(i, op, v)
      PROVE  /\ h'[i].seen \in {{}, h[i].seen, Present}
             /\ listing' \in {listing, Absent, h[i].seen}
             /\ \A j \in Invocation \ {i} : h'[j] = h[j]
  <2> DEFINE was == op = "describe" /\ v \in Present
             lost == op = "describe" /\ Forgotten(v)
             q == [IdleHandler EXCEPT !.pc = IF op = "nics" THEN "readNics" ELSE "readList",
                                      !.op = op, !.vm = v, !.wasThere = was, !.forgotten = lost]
  <2>1. q.seen = {}
    BY DEF IdleHandler
  <2>2. Becomes(i, q) /\ listing' = listing
    BY <1>4 DEF Call, caches
  <2>3. QED
    BY <1>0, <2>1, <2>2
<1>5. CASE ReadDescription(i) \/ ReadNics(i)
  <2>1. /\ [h[i] EXCEPT !.pc = "descriptionApi"].seen = h[i].seen
        /\ [h[i] EXCEPT !.pc = "nicsApi"].seen = h[i].seen
    BY <1>0 DEF Handler
  <2>2. QED
    BY <1>0, <1>5, <1>e, <2>1 DEF ReadDescription, ReadNics, caches, Ended
<1>6. CASE DescriptionApi(i) \/ NicsApi(i)
  <2>1. /\ [h[i] EXCEPT !.pc = "saveDescription"].seen = h[i].seen
        /\ [h[i] EXCEPT !.pc = "saveNics"].seen = h[i].seen
    BY <1>0 DEF Handler
  <2>2. QED
    BY <1>0, <1>6, <2>1 DEF DescriptionApi, NicsApi, caches
<1>7. CASE SaveDescription(i) \/ SaveNics(i) \/ DeleteVm(i) \/ ApiFails(i)
  BY <1>0, <1>7, <1>e DEF SaveDescription, SaveNics, DeleteVm, ApiFails, caches, Ended
<1>8. ASSUME NEW k \in CacheKey, DropRead(i, k) \/ Drop(i, k)
      PROVE  /\ h'[i].seen \in {{}, h[i].seen, Present}
             /\ listing' \in {listing, Absent, h[i].seen}
             /\ \A j \in Invocation \ {i} : h'[j] = h[j]
  <2> DEFINE bad == h[i].failed \/ ~Cached(k, h[i].vm)
             left == IF Cached(k, h[i].vm) THEN h[i].toDrop \cup {k} ELSE h[i].toDrop
             q == [h[i] EXCEPT !.toRead = @ \ {k}, !.toDrop = left]
             p == [h[i] EXCEPT !.toDrop = @ \ {k}, !.failed = bad]
  <2>1. q.seen = h[i].seen /\ p.seen = h[i].seen
    BY <1>0 DEF Handler
  <2>2. Becomes(i, q) \/ Becomes(i, p)
    BY <1>8 DEF DropRead, Drop
  <2>3. listing' \in {listing, Absent}
    BY <1>8 DEF DropRead, Drop, caches
  <2>4. QED
    BY <1>0, <2>1, <2>2, <2>3
<1>9. CASE DropsDone(i) \/ Crash(i)
  <2>1. [h[i] EXCEPT !.pc = "deleteVm"].seen = h[i].seen /\ IdleHandler.seen = {}
    BY <1>0 DEF Handler, IdleHandler
  <2>2. QED
    BY <1>0, <1>9, <1>e, <2>1 DEF DropsDone, Crash, caches, Ended
<1>10. QED
  BY <1>1, <1>2, <1>3, <1>4, <1>5, <1>6, <1>7, <1>8, <1>9 DEF Stage

\* What is forgotten stays forgotten.
LEMMA UnknownKept ==
    ASSUME Shape, \A j \in Invocation : InStage(h[j]), Next,
           NEW v \in VM, Unknown(v, scaleSet, listing, h)
    PROVE  Unknown(v, scaleSet', listing', h')
<1>1. scaleSet'[v] = "gone" /\ v \notin Present
  BY LifeGoesOn DEF Unknown, Present
<1>2. ASSUME NEW i \in Invocation, Stage(i) \/ DeleteVm(i)
      PROVE  (listing' = Absent \/ v \notin listing') /\ \A j \in Invocation : v \notin h'[j].seen
  <2>1. /\ h'[i].seen \in {{}, h[i].seen, Present}
        /\ listing' \in {listing, Absent, h[i].seen}
        /\ \A j \in Invocation \ {i} : h'[j] = h[j]
    BY <1>2, ListsTraces
  <2>2. QED
    BY <1>1, <2>1 DEF Unknown
<1>3. ASSUME NEW w \in VM, Launch(w) \/ Leave(w)
      PROVE  (listing' = Absent \/ v \notin listing') /\ \A j \in Invocation : v \notin h'[j].seen
  BY <1>3 DEF Launch, Leave, caches, Unknown
<1>4. QED
  BY <1>1, <1>2, <1>3, NextIsStages DEF Unknown

-----------------------------------------------------------------------------
(* Descriptions.                                                           *)

\* What one stage does to a description.  Only ListApi and Call lead to a step
\* at which there is a list to be looked into.
Looking(r) == r.pc \in {"readList", "saveList"}

LEMMA StageTraces ==
    ASSUME Shape, NEW i \in Invocation, InStage(h[i]), Stage(i) \/ DeleteVm(i)
    PROVE  \/ \E op \in Operation, v \in VM : Call(i, op, v)
           \/ ListApi(i)
           \/ /\ ~Looking(h'[i])
              /\ h'[i].wasThere => h[i].wasThere /\ h'[i].vm = h[i].vm
              /\ h'[i].forgotten => h[i].forgotten
              /\ h'[i].pc = "missing" => ReadList(i) \/ SaveList(i)
<1> USE DEF Shape
<1>0. /\ \A r : Becomes(i, r) => h'[i] = r
      /\ h[i] \in Handler /\ h[i].seen \in SUBSET VM
  BY BecomesOnly DEF Handler
<1> DEFINE Moved(q) == /\ ~Looking(q)
                       /\ q.wasThere => h[i].wasThere /\ q.vm = h[i].vm
                       /\ q.forgotten => h[i].forgotten
                       /\ q.pc = "missing" => ReadList(i) \/ SaveList(i)
<1>e. ASSUME NEW outcome \in {"found", "done", "failed"}
      PROVE  Moved(End(h[i], outcome))
  BY DEF End, IdleHandler, Ended, Looking
<1>1. CASE ReadList(i)
  <2>1. CASE listing = Absent
    <3>1. Moved([h[i] EXCEPT !.pc = "listApi"])
      BY <1>0 DEF Handler, Looking
    <3>2. QED
      BY <1>0, <1>1, <2>1, <3>1 DEF ReadList
  <2>2. CASE listing # Absent
    <3>1. Becomes(i, AfterList(h[i], listing))
      BY <1>1, <2>2 DEF ReadList
    <3>2. h[i] \in Handler
      BY <1>0 DEF Handler
    <3>3. listing \in SUBSET VM
      BY <2>2
    <3>4. Moved(AfterList(h[i], listing))
      BY <1>1, <3>2, <3>3, AfterListTraces DEF Looking
    <3>5. QED
      BY <1>0, <3>1, <3>4
  <2>3. QED
    BY <2>1, <2>2
<1>2. CASE SaveList(i)
  <2>1. Moved(AfterList(h[i], h[i].seen))
    BY <1>0, <1>2, AfterListTraces DEF Looking
  <2>2. QED
    BY <1>0, <1>2, <2>1 DEF SaveList
<1>3. CASE ReadDescription(i) \/ ReadNics(i)
  <2>1. Moved([h[i] EXCEPT !.pc = "descriptionApi"]) /\ Moved([h[i] EXCEPT !.pc = "nicsApi"])
    BY <1>0 DEF Handler, Looking
  <2>2. QED
    BY <1>0, <1>3, <1>e, <2>1 DEF ReadDescription, ReadNics, Ended
<1>4. CASE DescriptionApi(i) \/ NicsApi(i)
  <2>1. /\ Moved([h[i] EXCEPT !.pc = "saveDescription"])
        /\ Moved([h[i] EXCEPT !.pc = "saveNics"])
    BY <1>0 DEF Handler, Looking
  <2>2. QED
    BY <1>0, <1>4, <2>1 DEF DescriptionApi, NicsApi
<1>5. CASE SaveDescription(i) \/ SaveNics(i) \/ DeleteVm(i) \/ ApiFails(i)
  BY <1>0, <1>5, <1>e DEF SaveDescription, SaveNics, DeleteVm, ApiFails, Ended
<1>6. ASSUME NEW k \in CacheKey, DropRead(i, k) \/ Drop(i, k)
      PROVE  Moved(h'[i])
  <2> DEFINE bad == h[i].failed \/ ~Cached(k, h[i].vm)
             left == IF Cached(k, h[i].vm) THEN h[i].toDrop \cup {k} ELSE h[i].toDrop
             q == [h[i] EXCEPT !.toRead = @ \ {k}, !.toDrop = left]
             p == [h[i] EXCEPT !.toDrop = @ \ {k}, !.failed = bad]
  <2>1. Moved(q) /\ Moved(p)
    BY <1>0, <1>6 DEF Handler, Looking, DropRead, Drop, At
  <2>2. Becomes(i, q) \/ Becomes(i, p)
    BY <1>6 DEF DropRead, Drop
  <2>3. QED
    BY <1>0, <2>1, <2>2
<1>7. CASE DropsDone(i) \/ Crash(i)
  <2>1. Moved([h[i] EXCEPT !.pc = "deleteVm"]) /\ Moved(IdleHandler)
    BY <1>0 DEF Handler, Looking, IdleHandler
  <2>2. QED
    BY <1>0, <1>7, <1>e, <2>1 DEF DropsDone, Crash, Ended
<1>8. QED
  BY <1>1, <1>2, <1>3, <1>4, <1>5, <1>6, <1>7 DEF Stage

\* A description that began while its VM was there.
LEMMA LivingSeen ==
    ASSUME Inv, Next, NEW j \in Invocation
    PROVE  SeesTheLiving(h'[j], scaleSet')
<1> USE DEF Inv
<1>1. CASE h'[j] = h[j]
  BY <1>1, LifeGoesOn DEF SeesTheLiving
<1>2. CASE Stage(j) \/ DeleteVm(j)
  <2>0. h[j] \in Handler /\ SeesTheLiving(h[j], scaleSet)
    BY DEF Shape
  <2>1. CASE \E op \in Operation, v \in VM : Call(j, op, v)
    <3>1. PICK op \in Operation, v \in VM : Call(j, op, v)
      BY <2>1
    <3> DEFINE was == op = "describe" /\ v \in Present
               lost == op = "describe" /\ Forgotten(v)
               q == [IdleHandler EXCEPT !.pc = IF op = "nics" THEN "readNics" ELSE "readList",
                                        !.op = op, !.vm = v, !.wasThere = was,
                                        !.forgotten = lost]
    <3>2. /\ q.vm = v /\ ~q.again /\ q.pc # "saveList"
          /\ q.wasThere => v \in Present
      BY DEF IdleHandler
    <3>3. h'[j] = q /\ scaleSet' = scaleSet
      BY <3>1, BecomesOnly DEF Call, Shape
    <3>4. QED
      BY <3>2, <3>3 DEF SeesTheLiving, Present
  <2>2. CASE ListApi(j)
    <3> DEFINE q == [h[j] EXCEPT !.pc = "saveList", !.seen = Present]
    <3>1. q.pc = "saveList" /\ q.seen = Present /\ q.vm = h[j].vm /\ q.wasThere = h[j].wasThere
      BY <2>0 DEF Handler
    <3>2. h'[j] = q /\ scaleSet' = scaleSet
      BY <2>2, BecomesOnly DEF ListApi, Shape
    <3>3. QED
      BY <2>0, <3>1, <3>2 DEF SeesTheLiving, Present
  <2>3. CASE ~Looking(h'[j]) /\ (h'[j].wasThere => h[j].wasThere /\ h'[j].vm = h[j].vm)
    BY <2>0, <2>3, LifeGoesOn DEF SeesTheLiving, Looking
  <2>4. QED
    BY <1>2, <2>1, <2>2, <2>3, StageTraces
<1>3. CASE h'[j] # h[j]
  <2>1. ASSUME NEW i \in Invocation, Stage(i) \/ DeleteVm(i) PROVE i = j
    BY <1>3, <2>1, ListsTraces
  <2>2. ~\E v \in VM : Launch(v) \/ Leave(v)
    BY <1>3 DEF Launch, Leave
  <2>3. QED
    BY <1>2, <2>1, <2>2, NextIsStages
<1>4. QED
  BY <1>1, <1>3

\* A description of a VM that was forgotten, before its tables change.
LEMMA ForgottenStage ==
    ASSUME Inv, NEW i \in Invocation, Stage(i) \/ DeleteVm(i), h'[i].forgotten
    PROVE  \/ h'[i].pc \in {"missing", "failed"}
           \/ /\ h'[i].pc \in {"readList", "listApi", "saveList"}
              /\ h'[i].op = "describe" /\ h'[i].vm \in VM
              /\ Unknown(h'[i].vm, scaleSet, listing, h)
<1> DEFINE r == h[i]
           Stopped(q) == q.forgotten =>
               \/ q.pc \in {"missing", "failed"}
               \/ /\ q.pc \in {"readList", "listApi", "saveList"}
                  /\ q.op = "describe" /\ q.vm \in VM /\ Unknown(q.vm, scaleSet, listing, h)
<1>0. SUFFICES \E q : Becomes(i, q) /\ Stopped(q)
  BY BecomesOnly DEF Inv, Shape
<1>1. /\ r \in Handler /\ InStage(r) /\ r.seen \in SUBSET VM
      /\ StopsAtTheList(r, scaleSet, listing, h) /\ listing \in {Absent} \cup SUBSET VM
  BY DEF Inv, Shape, Handler
<1>2. CASE \E op \in Operation, v \in VM : Call(i, op, v)
  <2>1. PICK op \in Operation, v \in VM : Call(i, op, v)
    BY <1>2
  <2> DEFINE was == op = "describe" /\ v \in Present
             lost == op = "describe" /\ Forgotten(v)
             q == [IdleHandler EXCEPT !.pc = IF op = "nics" THEN "readNics" ELSE "readList",
                                      !.op = op, !.vm = v, !.wasThere = was, !.forgotten = lost]
  <2>2. Becomes(i, q)
    BY <2>1 DEF Call
  <2>3. /\ q.forgotten = lost /\ q.vm = v /\ q.op = op
        /\ q.pc = IF op = "nics" THEN "readNics" ELSE "readList"
    BY DEF IdleHandler
  <2>4. lost => op = "describe" /\ Unknown(v, scaleSet, listing, h)
    BY DEF Forgotten, Unknown
  <2> HIDE DEF lost, q
  <2>5. Stopped(q)
    BY <2>3, <2>4
  <2>6. QED
    BY <2>2, <2>5
<1>3. CASE Crash(i)
  <2>1. Stopped(IdleHandler)
    BY DEF IdleHandler
  <2>2. QED
    BY <1>3, <2>1 DEF Crash
<1>4. CASE ApiFails(i)
  <2>1. Stopped(End(r, "failed"))
    BY <1>1, EndType DEF Ended
  <2>2. QED
    BY <1>4, <2>1 DEF ApiFails
<1>5. CASE ListApi(i)
  <2> DEFINE q == [r EXCEPT !.pc = "saveList", !.seen = Present]
  <2>1. q.pc = "saveList" /\ q.op = r.op /\ q.vm = r.vm /\ q.forgotten = r.forgotten
    BY <1>1 DEF Handler
  <2>2. Becomes(i, q) /\ r.pc = "listApi"
    BY <1>5 DEF ListApi, At
  <2> HIDE DEF q
  <2>3. Stopped(q)
    BY <1>1, <2>1, <2>2 DEF StopsAtTheList
  <2>4. QED
    BY <2>2, <2>3
<1>6. ASSUME NEW q \in Handler, NEW list \in SUBSET VM,
             r.pc \in {"readList", "saveList"}, q.pc = r.pc, q.op = r.op, q.vm = r.vm,
             q.forgotten = r.forgotten, q.toRead = r.toRead, q.toDrop = r.toDrop,
             Unknown(r.vm, scaleSet, listing, h) => r.vm \notin list
      PROVE  Stopped(AfterList(q, list))
  <2>1. InStage(q)
    BY <1>1, <1>6 DEF InStage, Ended
  <2>2. AfterList(q, list).forgotten = r.forgotten
    BY <1>6, <2>1, AfterListShape
  <2>3. r.forgotten => r.op = "describe" /\ r.vm \in VM /\ Unknown(r.vm, scaleSet, listing, h)
    BY <1>1, <1>6 DEF StopsAtTheList
  <2>4. r.forgotten => \/ AfterList(q, list).pc = "missing"
                       \/ /\ AfterList(q, list).pc = "listApi"
                          /\ AfterList(q, list).op = "describe"
                          /\ AfterList(q, list).vm = r.vm
    BY <1>6, <2>3, AfterListTraces
  <2>5. QED
    BY <2>2, <2>3, <2>4
<1>7. CASE SaveList(i)
  <2>1. Stopped(AfterList(r, r.seen))
    BY <1>1, <1>6, <1>7 DEF SaveList, At, Unknown
  <2>2. QED
    BY <1>7, <2>1 DEF SaveList
<1>8. CASE ReadList(i)
  <2>1. CASE listing = Absent
    <3> DEFINE q == [r EXCEPT !.pc = "listApi"]
    <3>1. q.pc = "listApi" /\ q.op = r.op /\ q.vm = r.vm /\ q.forgotten = r.forgotten
      BY <1>1 DEF Handler
    <3>2. Becomes(i, q) /\ r.pc = "readList"
      BY <1>8, <2>1 DEF ReadList, At
    <3> HIDE DEF q
    <3>3. Stopped(q)
      BY <1>1, <3>1, <3>2 DEF StopsAtTheList
    <3>4. QED
      BY <3>2, <3>3
  <2>2. CASE listing # Absent
    <3>1. Becomes(i, AfterList(r, listing))
      BY <1>8, <2>2 DEF ReadList
    <3>2. r \in Handler
      BY <1>1 DEF Handler
    <3>3. /\ listing \in SUBSET VM /\ r.pc \in {"readList", "saveList"}
          /\ Unknown(r.vm, scaleSet, listing, h) => r.vm \notin listing
      BY <1>1, <1>8, <2>2 DEF Unknown, ReadList, At
    <3>4. Stopped(AfterList(r, listing))
      BY <1>6, <3>2, <3>3
    <3>5. QED
      BY <3>1, <3>4
  <2>3. QED
    BY <2>1, <2>2
<1>9. CASE ~r.forgotten
  <2>1. \/ \E op \in Operation, v \in VM : Call(i, op, v)
        \/ ListApi(i)
        \/ h'[i].forgotten => r.forgotten
    BY <1>1, StageTraces DEF Inv
  <2>2. QED
    BY <1>2, <1>5, <1>9, <2>1
<1>10. CASE r.forgotten
  <2>1. r.pc \in {"missing", "failed", "readList", "listApi", "saveList"}
    BY <1>1, <1>10 DEF StopsAtTheList
  <2>2. ~\E k \in CacheKey : DropRead(i, k) \/ Drop(i, k)
    BY <2>1 DEF DropRead, Drop, At
  <2>3. /\ ~ReadDescription(i) /\ ~DescriptionApi(i) /\ ~SaveDescription(i)
        /\ ~ReadNics(i) /\ ~NicsApi(i) /\ ~SaveNics(i) /\ ~DropsDone(i) /\ ~DeleteVm(i)
    BY <2>1 DEF ReadDescription, DescriptionApi, SaveDescription, ReadNics, NicsApi, SaveNics,
                DropsDone, DeleteVm, At
  <2>4. QED
    BY <1>2, <1>3, <1>4, <1>5, <1>7, <1>8, <2>2, <2>3 DEF Stage
<1>11. QED
  BY <1>9, <1>10

LEMMA ForgottenStops ==
    ASSUME Inv, Next, NEW j \in Invocation
    PROVE  StopsAtTheList(h'[j], scaleSet', listing', h')
<1>0. /\ Shape /\ \A i \in Invocation : InStage(h[i])
      /\ StopsAtTheList(h[j], scaleSet, listing, h)
  BY DEF Inv
<1>1. CASE h'[j] = h[j]
  BY <1>0, <1>1, UnknownKept DEF StopsAtTheList
<1>2. CASE Stage(j) \/ DeleteVm(j)
  BY <1>0, <1>2, ForgottenStage, UnknownKept DEF StopsAtTheList
<1>3. CASE h'[j] # h[j]
  <2>1. ASSUME NEW i \in Invocation, Stage(i) \/ DeleteVm(i) PROVE i = j
    BY <1>0, <1>3, <2>1, ListsTraces
  <2>2. ~\E v \in VM : Launch(v) \/ Leave(v)
    BY <1>3 DEF Launch, Leave
  <2>3. QED
    BY <1>2, <2>1, <2>2, NextIsStages
<1>4. QED
  BY <1>1, <1>3

-----------------------------------------------------------------------------
THEOREM InvInductive == Spec => []Inv
<1>1. Inv /\ [Next]_vars => Inv'
  <2> SUFFICES ASSUME Inv, [Next]_vars PROVE Inv'
    OBVIOUS
  <2>1. CASE Next
    <3>1. Shape' /\ \A j \in Invocation : InStage(h[j])'
      BY <2>1, ShapeKept DEF Inv
    <3>2. \A j \in Invocation : /\ SeesTheLiving(h[j], scaleSet)'
                                /\ StopsAtTheList(h[j], scaleSet, listing, h)'
      BY <2>1, LivingSeen, ForgottenStops
    <3>3. QED
      BY <3>1, <3>2 DEF Inv
  <2>2. CASE UNCHANGED vars
    BY <2>2 DEF vars, caches, Inv, Shape, InStage, SeesTheLiving, StopsAtTheList, Unknown
  <2>3. QED
    BY <2>1, <2>2
<1>2. QED
  BY <1>1, InitInv, PTL DEF Spec

(* Whatever the invocations do, the tables and their local variables keep  *)
(* their types, and cached answers are deleted in one stage only           *)
(* (deleteInstanceFromVmss).                                               *)
THEOREM TypeCorrect == Spec => []TypeOK
<1>1. Inv => TypeOK
  BY DEF Inv, Shape, InStage, TypeOK, At
<1>2. QED
  BY <1>1, InvInductive, PTL

(* describeInstance describes no VM that the group and all lists, cached   *)
(* or yet to be saved, had lost when it was called, although the VM's old  *)
(* description is still cached.                                            *)
THEOREM GoneVmIsNotDescribedCorrect == Spec => []GoneVmIsNotDescribed
<1>1. Inv => GoneVmIsNotDescribed
  BY DEF Inv, StopsAtTheList, GoneVmIsNotDescribed, At
<1>2. QED
  BY <1>1, InvInductive, PTL

\* Only a list without the VM, from the cache at the first try or from the API
\* at the second, makes the VM missing.
LEMMA MissingMeansUnlisted ==
    ASSUME Inv, Next, NEW i \in Invocation, ~At(i, "missing"), h'[i].pc = "missing",
           h[i].wasThere
    PROVE  scaleSet[h[i].vm] = "gone"
<1>1. Stage(i) \/ DeleteVm(i)
  <2>1. ASSUME NEW j \in Invocation, Stage(j) \/ DeleteVm(j) PROVE j = i
    BY <2>1, ListsTraces DEF Inv, At
  <2>2. ~\E v \in VM : Launch(v) \/ Leave(v)
    BY DEF Launch, Leave, At
  <2>3. QED
    BY <2>1, <2>2, NextIsStages
<1>2. h[i] \in Handler /\ SeesTheLiving(h[i], scaleSet) /\ h[i].seen \in SUBSET VM
  BY DEF Inv, Shape, Handler
<1>3. CASE ReadList(i)
  <2>1. CASE listing = Absent
    <3>1. h'[i].pc = "listApi"
      BY <1>2, <1>3, <2>1, BecomesOnly DEF ReadList, Inv, Shape, Handler
    <3>2. QED
      BY <3>1
  <2>2. CASE listing # Absent
    <3>1. Becomes(i, AfterList(h[i], listing))
      BY <1>3, <2>2 DEF ReadList
    <3>2. h[i] \in Handler
      BY <1>2 DEF Handler
    <3>3. listing \in SUBSET VM /\ h'[i] = AfterList(h[i], listing)
      BY <2>2, <3>1, BecomesOnly DEF Inv, Shape
    <3>4. h[i].again
      BY <3>2, <3>3, AfterListTraces
    <3>5. QED
      BY <1>2, <1>3, <3>4 DEF SeesTheLiving, ReadList, At
  <2>3. QED
    BY <2>1, <2>2
<1>4. CASE SaveList(i)
  <2>1. h'[i] = AfterList(h[i], h[i].seen)
    BY <1>4, BecomesOnly DEF SaveList, Inv, Shape
  <2>2. h[i].vm \notin h[i].seen
    BY <1>2, <2>1, AfterListTraces
  <2>3. QED
    BY <1>2, <1>4, <2>2 DEF SeesTheLiving, SaveList, At
<1>5. CASE \E op \in Operation, v \in VM : Call(i, op, v)
  <2>1. PICK op \in Operation, v \in VM : Call(i, op, v)
    BY <1>5
  <2> DEFINE was == op = "describe" /\ v \in Present
             lost == op = "describe" /\ Forgotten(v)
             q == [IdleHandler EXCEPT !.pc = IF op = "nics" THEN "readNics" ELSE "readList",
                                      !.op = op, !.vm = v, !.wasThere = was, !.forgotten = lost]
  <2>2. h'[i] = q
    BY <2>1, BecomesOnly DEF Call, Inv, Shape
  <2>3. q.pc # "missing"
    BY DEF IdleHandler
  <2>4. QED
    BY <2>2, <2>3
<1>6. CASE ListApi(i)
  <2>1. h'[i] = [h[i] EXCEPT !.pc = "saveList", !.seen = Present]
    BY <1>6, BecomesOnly DEF ListApi, Inv, Shape
  <2>2. QED
    BY <1>2, <2>1 DEF Handler
<1>7. QED
  BY <1>1, <1>3, <1>4, <1>5, <1>6, StageTraces DEF Inv

(* describeInstance reports no VM missing that was in the scaling group    *)
(* from the call to the answer, whatever the cached list said and whatever *)
(* other invocations did to the cache meanwhile.                           *)
THEOREM LivingVmIsFoundCorrect == Spec => LivingVmIsFound
<1> DEFINE Found == \A i \in Invocation :
                       ~At(i, "missing") /\ h'[i].pc = "missing" /\ h[i].wasThere
                       => h[i].vm \notin Present
<1>1. Inv /\ [Next]_vars => [Found]_vars
  BY MissingMeansUnlisted DEF Present
<1>2. QED
  BY <1>1, InvInductive, PTL DEF Spec, LivingVmIsFound
=============================================================================
