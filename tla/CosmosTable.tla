---------------------------- MODULE CosmosTable ----------------------------
(***************************************************************************)
(* What a single call of saveItemToDb or deleteItemFromDb decides, as      *)
(* operators without state: every module that keeps a Cosmos DB table      *)
(* takes its guards from here.  A stored document is a record              *)
(* [etag, item]; Absent stands for a key with no document.                 *)
(***************************************************************************)
EXTENDS Naturals

CONSTANT Absent

SaveCondition == {"InsertOnly", "UpdateOnly", "Upsert"}

\* The dataIntegrityCheck argument: false, true, or a checker function.
Integrity == {"none", "etag", "checker"}

\* Mutants: the checker is not consulted; the write is never conditional.
SaveErrorNoChecker(condition, snapshot, integrity, passes) ==
    IF condition = "UpdateOnly" /\ snapshot = Absent THEN "NotFound"
    ELSE IF condition = "InsertOnly" /\ snapshot # Absent THEN "KeyConflict"
    ELSE "none"

ConditionalNever(snapshot, integrity) == FALSE

\* The error the read half of a save ends with, "none" when it goes on to write.
SaveError(condition, snapshot, integrity, passes) ==
    IF snapshot # Absent /\ integrity = "checker" /\ ~passes THEN "InconsistentData"
    ELSE IF condition = "UpdateOnly" /\ snapshot = Absent THEN "NotFound"
    ELSE IF condition = "InsertOnly" /\ snapshot # Absent THEN "KeyConflict"
    ELSE "none"

\* The write carries an IfMatch condition only if something was read.
Conditional(snapshot, integrity) == snapshot # Absent /\ integrity # "none"

\* Outcomes of the service's upsert.  What an IfMatch upsert does when the
\* document has gone meanwhile is the service's choice: both are possible.
UpsertMayWrite(stored, snapshot, integrity) ==
    Conditional(snapshot, integrity) /\ stored # Absent =>
        stored.etag = snapshot.etag

UpsertMayFail(stored, snapshot, integrity) ==
    /\ Conditional(snapshot, integrity)
    /\ stored # Absent => stored.etag # snapshot.etag

=============================================================================
