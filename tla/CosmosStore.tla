---------------------------- MODULE CosmosStore ----------------------------
(***************************************************************************)
(* One Cosmos DB table used by concurrent function invocations through     *)
(* saveItemToDb and deleteItemFromDb.  Both are a read followed by a write *)
(* in a separate round trip, so another invocation can act in between.     *)
(* The service itself (upsert, delete, _etag) is external; it is taken to  *)
(* give every version it stores a fresh etag.                              *)
(***************************************************************************)
EXTENDS CosmosTable

CONSTANTS
    Client,         \* concurrent invocations
    Key, Item,      \* primary keys and item contents
    Passes(_, _),   \* the callers' checker: may item i replace item j ?
    Requests,       \* the calls that invocations make
    MaxEtag         \* bound: no new call starts once this many versions exist

Request ==
    [op : {"save", "delete"}, key : Key, item : Item,
     condition : SaveCondition, integrity : Integrity]

ASSUME RequestsAssumption == Requests \subseteq Request
ASSUME AbsentAssumption == Absent \notin Item /\ Absent \notin [etag : Nat, item : Item]
ASSUME MaxEtagAssumption == MaxEtag \in Nat
ASSUME PassesAssumption == \A i, j \in Item : Passes(i, j) \in BOOLEAN

VARIABLES
    table,      \* the container: key -> document
    lastEtag,   \* etag of the newest version the service has stored
    pc,         \* where each invocation is, or how its last call ended
    req,        \* the arguments of its call
    snap        \* what its read returned

vars == <<table, lastEtag, pc, req, snap>>

Document == [etag : Nat, item : Item]
Ended == {"ready", "ok", "NotFound", "KeyConflict", "InconsistentData",
          "PreconditionFailed", "UnexpectedResponse"}

-----------------------------------------------------------------------------
Init ==
    /\ lastEtag = 1
    /\ \E present \in SUBSET Key, i \in Item :
          table = [k \in Key |-> IF k \in present THEN [etag |-> 1, item |-> i]
                                 ELSE Absent]
    /\ pc = [c \in Client |-> "ready"]
    /\ req \in [Client -> Requests]
    /\ snap = [c \in Client |-> Absent]

\* deleteItemFromDb reads only when ensureDataConsistency is set.
Call(c, r) ==
    /\ pc[c] \in Ended
    /\ lastEtag < MaxEtag
    /\ req' = [req EXCEPT ![c] = r]
    /\ pc' = [pc EXCEPT ![c] = IF r.op = "save" THEN "readForSave"
                               ELSE IF r.integrity = "none" THEN "delete"
                               ELSE "readForDelete"]
    /\ snap' = [snap EXCEPT ![c] = Absent]
    /\ UNCHANGED <<table, lastEtag>>

\* getItemFromDb, the checker and the save condition; all local after the read.
ReadForSave(c) ==
    /\ pc[c] = "readForSave"
    /\ LET r == req[c]
           s == table[r.key]
           passes == s = Absent \/ Passes(r.item, s.item)
           error == SaveError(r.condition, s, r.integrity, passes)
       IN /\ snap' = [snap EXCEPT ![c] = s]
          /\ pc' = [pc EXCEPT ![c] = IF error = "none" THEN "upsert" ELSE error]
    /\ UNCHANGED <<table, lastEtag, req>>

\* The service does not answer the read; a deletion reports that as NotFound.
ReadFails(c) ==
    /\ pc[c] \in {"readForSave", "readForDelete"}
    /\ pc' = [pc EXCEPT ![c] = IF @ = "readForSave" THEN "UnexpectedResponse" ELSE "NotFound"]
    /\ UNCHANGED <<table, lastEtag, req, snap>>

-----------------------------------------------------------------------------
(* Mutant: a plausible slip in the code, used to show that a run can fail. *)

\* A delete that failed reports a status code, which no caller knows.
DeleteUnclassified(c) ==
    /\ pc[c] = "delete"
    /\ table' = [table EXCEPT ![req[c].key] = Absent]
    /\ pc' = [pc EXCEPT ![c] = IF table[req[c].key] = Absent THEN "404" ELSE "ok"]
    /\ UNCHANGED <<lastEtag, req, snap>>

\* The document is written, though the response may not say so.
UpsertWrites(c) ==
    /\ pc[c] = "upsert"
    /\ UpsertMayWrite(table[req[c].key], snap[c], req[c].integrity)
    /\ lastEtag' = lastEtag + 1
    /\ table' = [table EXCEPT ![req[c].key] =
                    [etag |-> lastEtag + 1, item |-> req[c].item]]
    /\ \E result \in {"ok", "UnexpectedResponse"} : pc' = [pc EXCEPT ![c] = result]
    /\ UNCHANGED <<req, snap>>

UpsertFails(c) ==
    /\ pc[c] = "upsert"
    /\ \/ /\ UpsertMayFail(table[req[c].key], snap[c], req[c].integrity)
          /\ pc' = [pc EXCEPT ![c] = "PreconditionFailed"]
       \/ pc' = [pc EXCEPT ![c] = "UnexpectedResponse"]
    /\ UNCHANGED <<table, lastEtag, req, snap>>

\* The full match: nothing to do when the item has gone, an error when it differs.
ReadForDelete(c) ==
    /\ pc[c] = "readForDelete"
    /\ LET s == table[req[c].key]
       IN /\ snap' = [snap EXCEPT ![c] = s]
          /\ pc' = [pc EXCEPT ![c] = IF s = Absent THEN "ok"
                                     ELSE IF s.item = req[c].item THEN "delete"
                                     ELSE "InconsistentData"]
    /\ UNCHANGED <<table, lastEtag, req>>

\* The delete request itself carries no condition.
Delete(c) ==
    /\ pc[c] = "delete"
    /\ table' = [table EXCEPT ![req[c].key] = Absent]
    /\ pc' = [pc EXCEPT ![c] = IF table[req[c].key] = Absent THEN "NotFound" ELSE "ok"]
    /\ UNCHANGED <<lastEtag, req, snap>>

\* Whether the document has gone the response does not say.
DeleteFails(c) ==
    /\ pc[c] = "delete"
    /\ table' \in {table, [table EXCEPT ![req[c].key] = Absent]}
    /\ pc' = [pc EXCEPT ![c] = "UnexpectedResponse"]
    /\ UNCHANGED <<lastEtag, req, snap>>

\* The host stops an invocation (time limit, restart) between two round trips.
Abandon(c) ==
    /\ pc[c] \notin Ended
    /\ pc' = [pc EXCEPT ![c] = "ready"]
    /\ UNCHANGED <<table, lastEtag, req, snap>>

Next ==
    \E c \in Client :
        \/ \E r \in Requests : Call(c, r)
        \/ ReadForSave(c)
        \/ ReadFails(c)
        \/ UpsertWrites(c)
        \/ UpsertFails(c)
        \/ ReadForDelete(c)
        \/ Delete(c)
        \/ DeleteFails(c)
        \/ Abandon(c)

Spec == Init /\ [][Next]_vars

-----------------------------------------------------------------------------
(* Properties *)

\* Every variable has its type.
TypeOK ==
    /\ table \in [Key -> Document \cup {Absent}]
    /\ lastEtag \in Nat
    /\ pc \in [Client -> Ended \cup {"readForSave", "upsert", "readForDelete", "delete"}]
    /\ req \in [Client -> Requests]
    /\ snap \in [Client -> Document \cup {Absent}]

\* A save with a checker that found a document never overwrites a document the
\* checker would have refused, whatever other invocations did between its read
\* and its write (saveItemToDb's promise of data integrity).
CheckedOverwrite ==
    [][\A c \in Client :
          LET k == req[c].key IN
          /\ pc[c] = "upsert" /\ pc'[c] # "upsert" /\ table' # table
          /\ snap[c] # Absent /\ req[c].integrity = "checker"
          /\ table[k] # Absent
          => Passes(table'[k].item, table[k].item)]_vars

\* The keys all of whose users save with UpdateOnly and a checker.
GuardedKeys ==
    {k \in Key : \A r \in Requests : r.key = k =>
        r.op = "save" /\ r.condition = "UpdateOnly" /\ r.integrity = "checker"}

Contents == [k \in GuardedKeys |-> IF table[k] = Absent THEN Absent ELSE table[k].item]

Atomic == INSTANCE AtomicTable WITH Key <- GuardedKeys, items <- Contents

\* On those keys the two round trips of saveItemToDb act as one atomic
\* read-check-replace, although other keys see every kind of call.
GuardedSavesAreAtomic == Atomic!Spec

=============================================================================
