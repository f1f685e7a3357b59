------------------------ MODULE CosmosStore_proofs -------------------------
(***************************************************************************)
(* What holds of saveItemToDb and deleteItemFromDb for any number of       *)
(* invocations, keys, items and calls.  The argument: an etag determines a *)
(* version, which is what is assumed of the service (EtagsIdentifyVersions *)
(* puts it into the terms of the model), so a conditional write that the   *)
(* service accepts replaces exactly the document the checker has seen.     *)
(***************************************************************************)
EXTENDS CosmosStore, TLAPS

\* What a fresh etag for every version gives: if what an invocation read and what
\* is stored now have the same etag, they are the same document, however many
\* saves, deletions and re-insertions went by in between.
EtagsIdentifyVersions ==
    /\ \A k \in Key : table[k] # Absent => table[k].etag <= lastEtag
    /\ \A c \in Client : snap[c] # Absent =>
          /\ snap[c].etag <= lastEtag
          /\ LET stored == table[req[c].key]
             IN stored # Absent /\ stored.etag = snap[c].etag => stored = snap[c]

\* A call that is past its first step belongs to the operation it was made for,
\* and a save reaches its write only with the checker's consent.
CallsAreChecked ==
    \A c \in Client :
        /\ pc[c] \in {"readForSave", "upsert"} => req[c].op = "save"
        /\ pc[c] \in {"readForDelete", "delete"} => req[c].op = "delete"
        /\ pc[c] = "upsert" =>
              /\ req[c].condition = "UpdateOnly" => snap[c] # Absent
              /\ req[c].integrity = "checker" /\ snap[c] # Absent =>
                    Passes(req[c].item, snap[c].item)

IInv == TypeOK /\ EtagsIdentifyVersions /\ CallsAreChecked

USE DEF Document, Ended

LEMMA RequestFields ==
    ASSUME NEW r \in Requests
    PROVE  /\ r.key \in Key /\ r.item \in Item
           /\ r.op \in {"save", "delete"}
           /\ r.condition \in SaveCondition
           /\ r.integrity \in Integrity
BY RequestsAssumption DEF Request

\* Every variable keeps its type: whatever the invocations do, the table holds
\* documents and an invocation ends with one of the known outcomes.
THEOREM TypeCorrect == Spec => []TypeOK
<1>1. Init => TypeOK
  <2> SUFFICES ASSUME Init PROVE TypeOK
    OBVIOUS
  <2>1. table \in [Key -> Document \cup {Absent}]
    BY DEF Init
  <2> QED BY <2>1 DEF Init, TypeOK
<1>2. TypeOK /\ [Next]_vars => TypeOK'
  <2> SUFFICES ASSUME TypeOK, [Next]_vars PROVE TypeOK'
    OBVIOUS
  <2>1. ASSUME NEW c \in Client, NEW r \in Requests, Call(c, r) PROVE TypeOK'
    BY <2>1 DEF TypeOK, Call
  <2>2. ASSUME NEW c \in Client, ReadForSave(c) PROVE TypeOK'
    <3>1. req[c] \in Requests /\ req[c].key \in Key
      BY RequestFields DEF TypeOK
    <3>2. table[req[c].key] \in Document \cup {Absent}
      BY <3>1 DEF TypeOK
    <3>3. snap' \in [Client -> Document \cup {Absent}]
      BY <2>2, <3>2 DEF TypeOK, ReadForSave
    <3>4. pc' \in [Client -> Ended \cup {"readForSave", "upsert", "readForDelete", "delete"}]
      BY <2>2 DEF TypeOK, ReadForSave, SaveError
    <3> QED BY <2>2, <3>3, <3>4 DEF TypeOK, ReadForSave
  <2>3. ASSUME NEW c \in Client, UpsertWrites(c) PROVE TypeOK'
    <3>1. req[c] \in Requests /\ req[c].key \in Key /\ req[c].item \in Item
      BY RequestFields DEF TypeOK
    <3> QED BY <2>3, <3>1 DEF TypeOK, UpsertWrites
  <2>4. ASSUME NEW c \in Client, UpsertFails(c) PROVE TypeOK'
    BY <2>4 DEF TypeOK, UpsertFails
  <2>5. ASSUME NEW c \in Client, ReadForDelete(c) PROVE TypeOK'
    <3>1. req[c] \in Requests /\ req[c].key \in Key
      BY RequestFields DEF TypeOK
    <3>2. table[req[c].key] \in Document \cup {Absent}
      BY <3>1 DEF TypeOK
    <3> QED BY <2>5, <3>2 DEF TypeOK, ReadForDelete
  <2>6. ASSUME NEW c \in Client, Delete(c) \/ DeleteFails(c) PROVE TypeOK'
    <3>1. table' \in {table, [table EXCEPT ![req[c].key] = Absent]}
      BY <2>6 DEF Delete, DeleteFails
    <3>2. table' \in [Key -> Document \cup {Absent}]
      BY <3>1 DEF TypeOK
    <3>3. pc' \in [Client -> Ended \cup {"readForSave", "upsert", "readForDelete", "delete"}]
      BY <2>6 DEF TypeOK, Delete, DeleteFails
    <3> QED BY <2>6, <3>2, <3>3 DEF TypeOK, Delete, DeleteFails
  <2>7. ASSUME NEW c \in Client, Abandon(c) \/ ReadFails(c) PROVE TypeOK'
    BY <2>7 DEF TypeOK, Abandon, ReadFails
  <2>8. CASE UNCHANGED vars
    BY <2>8 DEF TypeOK, vars
  <2> QED
    BY <2>1, <2>2, <2>3, <2>4, <2>5, <2>6, <2>7, <2>8 DEF Next
<1> QED BY <1>1, <1>2, PTL DEF Spec

\* The inductive invariant.
LEMMA Inductive == Spec => []IInv
<1>1. Init => EtagsIdentifyVersions /\ CallsAreChecked
  BY AbsentAssumption DEF Init, EtagsIdentifyVersions, CallsAreChecked
<1>2. TypeOK /\ TypeOK' /\ EtagsIdentifyVersions /\ [Next]_vars => EtagsIdentifyVersions'
  <2> SUFFICES ASSUME TypeOK, TypeOK', EtagsIdentifyVersions, [Next]_vars
               PROVE  EtagsIdentifyVersions'
    OBVIOUS
  <2>0. \A c \in Client : req[c] \in Requests /\ req[c].key \in Key
    BY RequestFields DEF TypeOK
  <2>1. ASSUME NEW c \in Client, NEW r \in Requests, Call(c, r)
        PROVE  EtagsIdentifyVersions'
    BY <2>1 DEF TypeOK, EtagsIdentifyVersions, Call
  <2>2. ASSUME NEW c \in Client, ReadForSave(c) PROVE EtagsIdentifyVersions'
    <3>1. snap' = [snap EXCEPT ![c] = table[req[c].key]]
      BY <2>2 DEF ReadForSave
    <3>2. UNCHANGED <<table, lastEtag, req>>
      BY <2>2 DEF ReadForSave
    <3> QED BY <2>0, <3>1, <3>2 DEF TypeOK, EtagsIdentifyVersions
  <2>3. ASSUME NEW c \in Client, UpsertWrites(c) PROVE EtagsIdentifyVersions'
    <3>1. /\ lastEtag' = lastEtag + 1 /\ UNCHANGED <<req, snap>>
          /\ table' = [table EXCEPT ![req[c].key] =
                          [etag |-> lastEtag + 1, item |-> req[c].item]]
      BY <2>3 DEF UpsertWrites
    <3>2. ASSUME NEW k \in Key, table'[k] # Absent PROVE table'[k].etag <= lastEtag'
      BY <2>0, <3>1, <3>2 DEF TypeOK, EtagsIdentifyVersions
    <3>3. ASSUME NEW d \in Client, snap'[d] # Absent
          PROVE  /\ snap'[d].etag <= lastEtag'
                 /\ LET stored == table'[req'[d].key]
                    IN stored # Absent /\ stored.etag = snap'[d].etag => stored = snap'[d]
      <4>1. snap'[d] = snap[d] /\ snap[d] \in Document /\ snap[d].etag <= lastEtag
        BY <3>1, <3>3 DEF TypeOK, EtagsIdentifyVersions
      <4>2. CASE req[d].key = req[c].key
        BY <2>0, <3>1, <4>1, <4>2 DEF TypeOK
      <4>3. CASE req[d].key # req[c].key
        <5>1. table'[req'[d].key] = table[req[d].key]
          BY <2>0, <3>1, <4>3 DEF TypeOK
        <5> QED BY <3>1, <3>3, <4>1, <5>1 DEF TypeOK, EtagsIdentifyVersions
      <4> QED BY <4>1, <4>2, <4>3, <3>1 DEF TypeOK
    <3> QED BY <3>2, <3>3 DEF EtagsIdentifyVersions
  <2>4. ASSUME NEW c \in Client, UpsertFails(c) PROVE EtagsIdentifyVersions'
    BY <2>4 DEF EtagsIdentifyVersions, UpsertFails
  <2>5. ASSUME NEW c \in Client, ReadForDelete(c) PROVE EtagsIdentifyVersions'
    <3>1. snap' = [snap EXCEPT ![c] = table[req[c].key]]
      BY <2>5 DEF ReadForDelete
    <3>2. UNCHANGED <<table, lastEtag, req>>
      BY <2>5 DEF ReadForDelete
    <3> QED BY <2>0, <3>1, <3>2 DEF TypeOK, EtagsIdentifyVersions
  <2>6. ASSUME NEW c \in Client, Delete(c) \/ DeleteFails(c) PROVE EtagsIdentifyVersions'
    <3>1. /\ table' \in {table, [table EXCEPT ![req[c].key] = Absent]}
          /\ UNCHANGED <<lastEtag, req, snap>>
      BY <2>6 DEF Delete, DeleteFails
    <3> QED BY <2>0, <3>1 DEF TypeOK, EtagsIdentifyVersions
  <2>7. ASSUME NEW c \in Client, Abandon(c) \/ ReadFails(c) PROVE EtagsIdentifyVersions'
    BY <2>7 DEF EtagsIdentifyVersions, Abandon, ReadFails
  <2>8. CASE UNCHANGED vars
    BY <2>8 DEF EtagsIdentifyVersions, vars
  <2> QED
    BY <2>1, <2>2, <2>3, <2>4, <2>5, <2>6, <2>7, <2>8 DEF Next
<1>3. TypeOK /\ CallsAreChecked /\ [Next]_vars => CallsAreChecked'
  <2> SUFFICES ASSUME TypeOK, CallsAreChecked, [Next]_vars PROVE CallsAreChecked'
    OBVIOUS
  <2>0. \A c \in Client :
          /\ req[c] \in Requests /\ req[c].key \in Key /\ req[c].item \in Item
          /\ table[req[c].key] \in Document \cup {Absent}
    BY RequestFields DEF TypeOK
  <2>1. ASSUME NEW c \in Client, NEW r \in Requests, Call(c, r)
        PROVE  CallsAreChecked'
    <3>1. r.op \in {"save", "delete"}
      BY RequestFields
    <3>2. ASSUME NEW d \in Client, d # c
          PROVE  pc'[d] = pc[d] /\ req'[d] = req[d] /\ snap'[d] = snap[d]
      BY <2>1, <3>2 DEF TypeOK, Call
    <3>3. req'[c] = r /\ pc'[c] # "upsert" /\ snap'[c] = Absent
      BY <2>1, <3>1 DEF TypeOK, Call
    <3>4. /\ pc'[c] \in {"readForSave", "upsert"} => r.op = "save"
          /\ pc'[c] \in {"readForDelete", "delete"} => r.op = "delete"
      BY <2>1, <3>1 DEF TypeOK, Call
    <3>5. ASSUME NEW d \in Client
          PROVE  /\ pc'[d] \in {"readForSave", "upsert"} => req'[d].op = "save"
                 /\ pc'[d] \in {"readForDelete", "delete"} => req'[d].op = "delete"
                 /\ pc'[d] = "upsert" =>
                       /\ req'[d].condition = "UpdateOnly" => snap'[d] # Absent
                       /\ req'[d].integrity = "checker" /\ snap'[d] # Absent =>
                             Passes(req'[d].item, snap'[d].item)
      <4>1. CASE d = c
        BY <3>3, <3>4, <4>1
      <4>2. CASE d # c
        BY <3>2, <4>2 DEF CallsAreChecked
      <4> QED BY <4>1, <4>2
    <3> QED BY <3>5 DEF CallsAreChecked
  <2>2. ASSUME NEW c \in Client, ReadForSave(c) PROVE CallsAreChecked'
    <3> DEFINE s == table[req[c].key]
               passes == s = Absent \/ Passes(req[c].item, s.item)
               error == SaveError(req[c].condition, s, req[c].integrity, passes)
    <3>1. /\ snap' = [snap EXCEPT ![c] = s]
          /\ pc' = [pc EXCEPT ![c] = IF error = "none" THEN "upsert" ELSE error]
          /\ pc[c] = "readForSave" /\ UNCHANGED req
      BY <2>2 DEF ReadForSave
    <3>2. error = "none" => /\ req[c].condition = "UpdateOnly" => s # Absent
                            /\ req[c].integrity = "checker" /\ s # Absent =>
                                  Passes(req[c].item, s.item)
      BY DEF SaveError
    <3>3. error \in {"none", "NotFound", "KeyConflict", "InconsistentData"}
      BY DEF SaveError
    <3> QED BY <3>1, <3>2, <3>3 DEF TypeOK, CallsAreChecked
  <2>3. ASSUME NEW c \in Client, UpsertWrites(c) PROVE CallsAreChecked'
    BY <2>3 DEF TypeOK, CallsAreChecked, UpsertWrites
  <2>4. ASSUME NEW c \in Client, UpsertFails(c) PROVE CallsAreChecked'
    BY <2>4 DEF TypeOK, CallsAreChecked, UpsertFails
  <2>5. ASSUME NEW c \in Client, ReadForDelete(c) PROVE CallsAreChecked'
    BY <2>5 DEF TypeOK, CallsAreChecked, ReadForDelete
  <2>6. ASSUME NEW c \in Client, Delete(c) \/ DeleteFails(c) PROVE CallsAreChecked'
    BY <2>6 DEF TypeOK, CallsAreChecked, Delete, DeleteFails
  <2>7. ASSUME NEW c \in Client, Abandon(c) \/ ReadFails(c) PROVE CallsAreChecked'
    BY <2>7 DEF TypeOK, CallsAreChecked, Abandon, ReadFails
  <2>8. CASE UNCHANGED vars
    BY <2>8 DEF CallsAreChecked, vars
  <2> QED
    BY <2>1, <2>2, <2>3, <2>4, <2>5, <2>6, <2>7, <2>8 DEF Next
<1> QED BY <1>1, <1>2, <1>3, TypeCorrect, PTL DEF Spec, IInv

\* A write the service accepts in place of a stored document, by a save with a
\* checker that has read something, replaces what was read and checked.
LEMMA AcceptedWrite ==
    ASSUME IInv, NEW c \in Client, UpsertWrites(c),
           snap[c] # Absent, req[c].integrity = "checker",
           table[req[c].key] # Absent
    PROVE  Passes(req[c].item, table[req[c].key].item)
<1>1. Conditional(snap[c], req[c].integrity)
  BY DEF Conditional
<1>2. table[req[c].key].etag = snap[c].etag
  BY <1>1 DEF UpsertWrites, UpsertMayWrite
<1>3. table[req[c].key] = snap[c]
  BY <1>2 DEF IInv, EtagsIdentifyVersions
<1>4. Passes(req[c].item, snap[c].item)
  BY DEF IInv, CallsAreChecked, UpsertWrites
<1> QED BY <1>3, <1>4

LEMMA OnlyUpsertWrites ==
    ASSUME TypeOK, [Next]_vars, NEW c \in Client,
           pc[c] = "upsert", pc'[c] # "upsert", table' # table
    PROVE  UpsertWrites(c)
<1>1. ASSUME NEW d \in Client, d # c,
             \/ \E r \in Requests : Call(d, r)
             \/ ReadForSave(d) \/ ReadFails(d) \/ UpsertWrites(d) \/ UpsertFails(d)
             \/ ReadForDelete(d) \/ Delete(d) \/ DeleteFails(d) \/ Abandon(d)
      PROVE  FALSE
  BY <1>1 DEF TypeOK, Call, ReadForSave, ReadFails, UpsertWrites, UpsertFails, ReadForDelete,
              Delete, DeleteFails, Abandon
<1>2. ~ UNCHANGED vars
  BY DEF vars
<1>3. ~ (\E r \in Requests : Call(c, r))
  BY DEF Call
<1>4. ~ (ReadForSave(c) \/ ReadFails(c) \/ UpsertFails(c) \/ ReadForDelete(c)
         \/ Delete(c) \/ DeleteFails(c) \/ Abandon(c))
  BY DEF ReadForSave, ReadFails, UpsertFails, ReadForDelete, Delete, DeleteFails, Abandon
<1> QED BY <1>1, <1>2, <1>3, <1>4 DEF Next

\* A save with a checker never overwrites a document its checker would refuse.
THEOREM CheckedOverwriteCorrect == Spec => CheckedOverwrite
<1> DEFINE Step == \A c \in Client :
                     LET k == req[c].key IN
                     /\ pc[c] = "upsert" /\ pc'[c] # "upsert" /\ table' # table
                     /\ snap[c] # Absent /\ req[c].integrity = "checker"
                     /\ table[k] # Absent
                     => Passes(table'[k].item, table[k].item)
<1>1. IInv /\ [Next]_vars => Step
  <2> SUFFICES ASSUME IInv, [Next]_vars, NEW c \in Client,
                      pc[c] = "upsert", pc'[c] # "upsert", table' # table,
                      snap[c] # Absent,
                      req[c].integrity = "checker", table[req[c].key] # Absent
               PROVE  Passes(table'[req[c].key].item, table[req[c].key].item)
    BY Zenon
  <2>1. UpsertWrites(c)
    BY OnlyUpsertWrites DEF IInv
  <2>2. req[c].key \in Key
    BY RequestFields DEF IInv, TypeOK
  <2>3. table'[req[c].key].item = req[c].item
    BY <2>1, <2>2 DEF UpsertWrites, IInv, TypeOK
  <2> QED BY <2>1, <2>3, AcceptedWrite
<1>2. IInv /\ [Next]_vars => [Step]_vars
  BY <1>1
<1> QED BY <1>2, Inductive, PTL DEF Spec, CheckedOverwrite

-----------------------------------------------------------------------------
\* Refinement: on keys that are only ever saved with UpdateOnly and a checker,
\* the two round trips implement AtomicTable's single step.

\* Nobody deletes a document under a guarded key, so what was read there is
\* still there in some version.
GuardedDocumentsStay ==
    \A c \in Client :
        req[c].key \in GuardedKeys /\ snap[c] # Absent => table[req[c].key] # Absent

LEMMA GuardedStay == Spec => []GuardedDocumentsStay
<1>1. Init => GuardedDocumentsStay
  BY DEF Init, GuardedDocumentsStay
<1>2. IInv /\ GuardedDocumentsStay /\ [Next]_vars => GuardedDocumentsStay'
  <2> SUFFICES ASSUME IInv, GuardedDocumentsStay, [Next]_vars
               PROVE  GuardedDocumentsStay'
    OBVIOUS
  <2>0. \A c \in Client : /\ req[c] \in Requests /\ req[c].key \in Key
                          /\ req[c].item \in Item
    BY RequestFields DEF IInv, TypeOK
  <2>1. ASSUME NEW c \in Client, NEW r \in Requests, Call(c, r)
        PROVE  GuardedDocumentsStay'
    BY <2>1 DEF Call, GuardedDocumentsStay, GuardedKeys, IInv, TypeOK
  <2>2. ASSUME NEW c \in Client, ReadForSave(c) \/ ReadForDelete(c)
        PROVE  GuardedDocumentsStay'
    <3>1. /\ snap' = [snap EXCEPT ![c] = table[req[c].key]]
          /\ UNCHANGED <<table, req>>
      BY <2>2 DEF ReadForSave, ReadForDelete
    <3> QED BY <2>0, <3>1 DEF GuardedDocumentsStay, GuardedKeys, IInv, TypeOK
  <2>3. ASSUME NEW c \in Client, UpsertWrites(c) PROVE GuardedDocumentsStay'
    <3>1. /\ table' = [table EXCEPT ![req[c].key] =
                          [etag |-> lastEtag + 1, item |-> req[c].item]]
          /\ UNCHANGED <<req, snap>>
      BY <2>3 DEF UpsertWrites
    <3>2. [etag |-> lastEtag + 1, item |-> req[c].item] # Absent
      BY <2>0, AbsentAssumption DEF IInv, TypeOK
    <3> QED BY <2>0, <3>1, <3>2 DEF GuardedDocumentsStay, GuardedKeys, IInv, TypeOK
  <2>4. ASSUME NEW c \in Client, Delete(c) \/ DeleteFails(c) PROVE GuardedDocumentsStay'
    <3>1. req[c].op = "delete"
      BY <2>4 DEF IInv, CallsAreChecked, Delete, DeleteFails
    <3>2. req[c].key \notin GuardedKeys
      BY <2>0, <3>1 DEF GuardedKeys
    <3>3. /\ table' \in {table, [table EXCEPT ![req[c].key] = Absent]}
          /\ UNCHANGED <<req, snap>>
      BY <2>4 DEF Delete, DeleteFails
    <3> QED BY <2>0, <3>2, <3>3 DEF GuardedDocumentsStay, GuardedKeys, IInv, TypeOK
  <2>5. ASSUME NEW c \in Client, UpsertFails(c) \/ Abandon(c) \/ ReadFails(c)
        PROVE  GuardedDocumentsStay'
    BY <2>5 DEF UpsertFails, Abandon, ReadFails, GuardedDocumentsStay, GuardedKeys
  <2>6. CASE UNCHANGED vars
    BY <2>6 DEF vars, GuardedDocumentsStay, GuardedKeys
  <2> QED BY <2>1, <2>2, <2>3, <2>4, <2>5, <2>6 DEF Next
<1> QED BY <1>1, <1>2, Inductive, PTL DEF Spec

LEMMA ContentsStep ==
    ASSUME IInv, GuardedDocumentsStay, [Next]_vars
    PROVE  [Atomic!Next]_Contents
<1>0. \A c \in Client : /\ req[c] \in Requests /\ req[c].key \in Key
                        /\ req[c].item \in Item
  BY RequestFields DEF IInv, TypeOK
<1>1. ASSUME UNCHANGED table PROVE UNCHANGED Contents
  BY <1>1 DEF Contents
<1>2. ASSUME NEW c \in Client, UpsertWrites(c) PROVE [Atomic!Next]_Contents
  <2> DEFINE k == req[c].key
             i == req[c].item
  <2>1. table' = [table EXCEPT ![k] = [etag |-> lastEtag + 1, item |-> i]]
    BY <1>2 DEF UpsertWrites
  <2>2. CASE k \notin GuardedKeys
    <3>1. \A j \in GuardedKeys : table'[j] = table[j]
      BY <2>1, <2>2 DEF GuardedKeys, IInv, TypeOK
    <3> QED BY <3>1 DEF Contents
  <2>3. CASE k \in GuardedKeys
    <3>1. req[c].condition = "UpdateOnly" /\ req[c].integrity = "checker"
      BY <1>0, <2>3 DEF GuardedKeys
    <3>2. snap[c] # Absent
      BY <1>2, <3>1 DEF IInv, CallsAreChecked, UpsertWrites
    <3>3. CASE table[k] # Absent
      <4>1. Passes(i, table[k].item)
        BY <1>2, <3>1, <3>2, <3>3, AcceptedWrite
      <4>2. Contents[k] = table[k].item
        BY <2>3, <3>3 DEF Contents
      <4>3. Contents[k] # Absent
        BY <1>0, <3>3, <4>2, AbsentAssumption DEF IInv, TypeOK
      <4>4. Contents' = [Contents EXCEPT ![k] = i]
        <5>1. table'[k] = [etag |-> lastEtag + 1, item |-> i]
          BY <1>0, <2>1 DEF IInv, TypeOK
        <5>2. table'[k] # Absent /\ table'[k].item = i
          BY <1>0, <5>1, AbsentAssumption DEF IInv, TypeOK
        <5>3. \A j \in GuardedKeys : j # k => table'[j] = table[j]
          BY <2>1 DEF GuardedKeys, IInv, TypeOK
        <5> HIDE DEF k, i
        <5> QED BY <2>3, <5>2, <5>3 DEF Contents
      <4>5. Atomic!Replace(k, i)
        BY <4>1, <4>2, <4>3, <4>4 DEF Atomic!Replace
      <4> QED BY <1>0, <2>3, <4>5 DEF Atomic!Next
    <3>4. CASE table[k] = Absent
      BY <2>3, <3>2, <3>4 DEF GuardedDocumentsStay
    <3> QED BY <3>3, <3>4
  <2> QED BY <2>2, <2>3
<1>3. ASSUME NEW c \in Client, Delete(c) \/ DeleteFails(c) PROVE UNCHANGED Contents
  <2>1. req[c].op = "delete"
    BY <1>3 DEF IInv, CallsAreChecked, Delete, DeleteFails
  <2>2. req[c].key \notin GuardedKeys
    BY <1>0, <2>1 DEF GuardedKeys
  <2>3. \A k \in GuardedKeys : table'[k] = table[k]
    BY <1>3, <2>2 DEF Delete, DeleteFails, GuardedKeys, IInv, TypeOK
  <2> QED BY <2>3 DEF Contents
<1>4. ASSUME NEW c \in Client,
             \/ \E r \in Requests : Call(c, r)
             \/ ReadForSave(c) \/ ReadFails(c) \/ UpsertFails(c) \/ ReadForDelete(c)
             \/ Abandon(c)
      PROVE  UNCHANGED table
  BY <1>4 DEF Call, ReadForSave, ReadFails, UpsertFails, ReadForDelete, Abandon
<1>5. CASE UNCHANGED vars
  BY <1>1, <1>5 DEF vars
<1> QED BY <1>1, <1>2, <1>3, <1>4, <1>5 DEF Next

\* On guarded keys the store implements the atomic table, whatever other calls
\* (unchecked inserts, deletions, abandoned invocations) go on beside them.
THEOREM GuardedSavesAreAtomicCorrect == Spec => GuardedSavesAreAtomic
<1>1. Init => Atomic!Init
  <2> SUFFICES ASSUME Init PROVE Contents \in [GuardedKeys -> Item \cup {Absent}]
    BY DEF Atomic!Init
  <2>1. \A k \in Key : table[k] = Absent \/ table[k].item \in Item
    BY DEF Init
  <2> QED BY <2>1 DEF Contents, GuardedKeys
<1>2. IInv /\ GuardedDocumentsStay /\ [Next]_vars => [Atomic!Next]_Contents
  BY ContentsStep
<1> QED BY <1>1, <1>2, Inductive, GuardedStay, PTL
        DEF Spec, Atomic!Spec, GuardedSavesAreAtomic

=============================================================================
