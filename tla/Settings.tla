------------------------------ MODULE Settings ------------------------------
(***************************************************************************)
(* How an invocation comes by its settings: it loads them from the table,  *)
(* and if the table does not say that they are complete it first saves     *)
(* every one of them from the environment, all at once, and then the flag  *)
(* that says so.  Invocations do this concurrently, some fail in the       *)
(* middle, and saves that are under way when another one of the same       *)
(* invocation fails are not stopped by that.                               *)
(*                                                                         *)
(* Saves are those of CosmosStore, with the etag compared; since Cosmos DB *)
(* gives every version an etag of its own, a save only keeps whether its   *)
(* row was written since it was read.  A query shows the rows of one       *)
(* moment.                                                                 *)
(***************************************************************************)
EXTENDS Naturals, FiniteSets

CONSTANTS
    Invocation,
    Setting,    \* the settings that are defined, without the flag
    Flag,       \* AzureFortiGateAutoscaleSettingSaved
    Required,   \* those without which no request is handled
    Editable,   \* those that operators may change in the table
    Null,
    MaxFaults   \* bound on crashes and on calls that fail

ASSUME KeyAssumption == Flag \notin Setting
ASSUME RequiredAssumption == Required \subseteq Setting /\ Editable \subseteq Setting
ASSUME NullAssumption == \A keys \in SUBSET (Setting \cup {Flag}) : keys # Null
ASSUME MaxFaultsAssumption == MaxFaults \in Nat

Key == Setting \cup {Flag}

\* Only a flag of "true" has a truth value; "n/a" is what the environment has for it.
Value(k) == IF k = Flag THEN {"n/a", "true"} ELSE {"environment", "edited"}
FromEnvironment(k) == IF k = Flag THEN "n/a" ELSE "environment"

VARIABLES
    row,        \* the table: key -> value, "absent" if it has no row
    pc,         \* where each invocation is
    loaded,     \* the keys in the settings it has loaded, Null if none are cached
    save,       \* how far it is with saving each key
    faults

vars == <<row, pc, loaded, save, faults>>

Saving == {"read", "absent", "current", "stale"}
Phase == Saving \cup {"idle", "saved"}

Present == {k \in Key : row[k] # "absent"}
Underway(i) == {k \in Key : save[i][k] \in Saving}
Running(i) == pc[i] \notin {"ready", "failed"} \/ Underway(i) # {}

-----------------------------------------------------------------------------
Init ==
    /\ row = [k \in Key |-> "absent"]
    /\ pc = [i \in Invocation |-> "load"]
    /\ loaded = [i \in Invocation |-> Null]
    /\ save = [i \in Invocation |-> [k \in Key |-> "idle"]]
    /\ faults = 0

\* validateSettings, before the request is handled.
Validated(keys) == IF Required \subseteq keys THEN "ready" ELSE "failed"

\* Mutant: settings that differ from the environment's are saved again.
LoadAgain(i) ==
    /\ pc[i] = "load"
    /\ loaded' = [loaded EXCEPT ![i] = Present]
    /\ pc' = [pc EXCEPT ![i] = IF row[Flag] = "true" /\ \A k \in Setting : row[k] = "environment"
                               THEN Validated(Present) ELSE "clear"]
    /\ UNCHANGED <<row, save, faults>>

Load(i) ==
    /\ pc[i] = "load"
    /\ loaded' = [loaded EXCEPT ![i] = Present]
    /\ pc' = [pc EXCEPT ![i] = IF row[Flag] = "true" THEN Validated(Present) ELSE "clear"]
    /\ UNCHANGED <<row, save, faults>>

\* Mutant: the settings that were loaded before stay cached.
BeginSavesCached(i) ==
    /\ pc[i] = "clear"
    /\ save' = [save EXCEPT ![i] = [k \in Key |-> "read"]]
    /\ pc' = [pc EXCEPT ![i] = "saveAll"]
    /\ UNCHANGED <<row, loaded, faults>>

\* saveSettings invalidates the cache, and starts to save every key.
BeginSaves(i) ==
    /\ pc[i] = "clear"
    /\ loaded' = [loaded EXCEPT ![i] = Null]
    /\ save' = [save EXCEPT ![i] = [k \in Key |-> "read"]]
    /\ pc' = [pc EXCEPT ![i] = "saveAll"]
    /\ UNCHANGED <<row, faults>>

\* Mutant: settings are inserted and never replaced.
ReadRowInsertOnly(i, k) ==
    /\ save[i][k] = "read"
    /\ save' = [save EXCEPT ![i][k] = IF row[k] = "absent" THEN "absent" ELSE "stale"]
    /\ UNCHANGED <<row, pc, loaded, faults>>

ReadRow(i, k) ==
    /\ save[i][k] = "read"
    /\ save' = [save EXCEPT ![i][k] = IF row[k] = "absent" THEN "absent" ELSE "current"]
    /\ UNCHANGED <<row, pc, loaded, faults>>

\* A write of a row makes what others have read of it stale.
Write(k, value) == row' = [row EXCEPT ![k] = value]
Overtaken(j, k) == IF save[j][k] = "current" THEN "stale" ELSE save[j][k]
SavesAfter(i, k, end) ==
    [j \in Invocation |->
        [l \in Key |-> IF l # k THEN save[j][l] ELSE IF j = i THEN end ELSE Overtaken(j, k)]]

ValueToSave(i, k) == IF pc[i] = "saveFlag" THEN "true" ELSE FromEnvironment(k)

\* The write is conditional only if a row was read.
WriteRow(i, k) ==
    /\ save[i][k] \in {"absent", "current"}
    /\ Write(k, ValueToSave(i, k))
    /\ save' = SavesAfter(i, k, "saved")
    /\ UNCHANGED <<pc, loaded, faults>>

\* The first save that fails fails the request; the others go on.
RefuseRow(i, k) ==
    /\ save[i][k] = "stale"
    /\ save' = [save EXCEPT ![i][k] = "idle"]
    /\ pc' = [pc EXCEPT ![i] = "failed"]
    /\ UNCHANGED <<row, loaded, faults>>

\* The read or the write of a save fails, or its answer is lost.
RowFails(i, k) ==
    /\ save[i][k] \in Saving
    /\ faults < MaxFaults /\ faults' = faults + 1
    /\ pc' = [pc EXCEPT ![i] = "failed"]
    /\ \/ save' = [save EXCEPT ![i][k] = "idle"] /\ UNCHANGED row
       \/ /\ save[i][k] \in {"absent", "current"}
          /\ Write(k, ValueToSave(i, k)) /\ save' = SavesAfter(i, k, "idle")
    /\ UNCHANGED loaded

\* Mutant: it is enough that all saves have ended.
AllSavedOrNot(i) ==
    /\ pc[i] \in {"saveAll", "failed"} /\ Underway(i) = {} /\ loaded[i] = Null
    /\ pc' = [pc EXCEPT ![i] = "saveFlag"]
    /\ save' = [save EXCEPT ![i] = [k \in Key |-> IF k = Flag THEN "read" ELSE "idle"]]
    /\ UNCHANGED <<row, loaded, faults>>

\* All saves have succeeded; the flag is saved.
AllSaved(i) ==
    /\ pc[i] = "saveAll" /\ \A k \in Key : save[i][k] = "saved"
    /\ pc' = [pc EXCEPT ![i] = "saveFlag"]
    /\ save' = [save EXCEPT ![i] = [k \in Key |-> IF k = Flag THEN "read" ELSE "idle"]]
    /\ UNCHANGED <<row, loaded, faults>>

\* Mutant: the save of the flag is not waited for.
FlagUnawaited(i) ==
    /\ pc[i] = "saveFlag"
    /\ pc' = [pc EXCEPT ![i] = "reload"]
    /\ UNCHANGED <<row, loaded, save, faults>>

FlagSaved(i) ==
    /\ pc[i] = "saveFlag" /\ save[i][Flag] = "saved"
    /\ pc' = [pc EXCEPT ![i] = "reload"]
    /\ UNCHANGED <<row, loaded, save, faults>>

\* loadSettings queries the table only if nothing is cached.
Reload(i) ==
    LET keys == IF loaded[i] = Null THEN Present ELSE loaded[i]
    IN /\ pc[i] = "reload"
       /\ loaded' = [loaded EXCEPT ![i] = keys]
       /\ pc' = [pc EXCEPT ![i] = Validated(keys)]
       /\ UNCHANGED <<row, save, faults>>

\* A new request, once the saves that the last one left behind have ended.
NextRequest(i) ==
    /\ ~Running(i)
    /\ pc' = [pc EXCEPT ![i] = "load"]
    /\ loaded' = [loaded EXCEPT ![i] = Null]
    /\ save' = [save EXCEPT ![i] = [k \in Key |-> "idle"]]
    /\ UNCHANGED <<row, faults>>

\* The host stops an invocation, or a query fails.
Stop(i) ==
    /\ Running(i)
    /\ faults < MaxFaults /\ faults' = faults + 1
    /\ pc' = [pc EXCEPT ![i] = "failed"]
    /\ save' = [save EXCEPT ![i] = [k \in Key |-> "idle"]]
    /\ UNCHANGED <<row, loaded>>

\* An operator changes a setting of the deployed system.
Edit(k) ==
    /\ row[Flag] = "true" /\ row[k] = "environment"
    /\ Write(k, "edited")
    /\ save' = [j \in Invocation |-> [save[j] EXCEPT ![k] = Overtaken(j, k)]]
    /\ UNCHANGED <<pc, loaded, faults>>

Step(i) ==
    \/ Load(i) \/ BeginSaves(i) \/ AllSaved(i) \/ FlagSaved(i) \/ Reload(i) \/ NextRequest(i)
    \/ \E k \in Key : ReadRow(i, k) \/ WriteRow(i, k) \/ RefuseRow(i, k)

Next ==
    \/ \E i \in Invocation : Step(i) \/ Stop(i) \/ \E k \in Key : RowFails(i, k)
    \/ \E k \in Editable : Edit(k)

Spec == Init /\ [][Next]_vars

\* The host runs the invocations, and devices keep sending requests.
FairSpec == Spec /\ \A i \in Invocation : WF_vars(Step(i))

-----------------------------------------------------------------------------
(* Properties *)

\* Every variable has its type; what handles a request has settings; and saves
\* run only while they are waited for, or left behind by a failed request.
TypeOK ==
    /\ row \in [Key -> Value(Flag) \cup {"environment", "edited", "absent"}]
    /\ \A k \in Key : row[k] \in Value(k) \cup {"absent"}
    /\ pc \in [Invocation -> {"load", "clear", "saveAll", "saveFlag", "reload",
                              "ready", "failed"}]
    /\ loaded \in [Invocation -> {Null} \cup SUBSET Key]
    /\ save \in [Invocation -> [Key -> Phase]]
    /\ faults \in 0..MaxFaults
    /\ \A i \in Invocation :
          /\ pc[i] = "ready" => loaded[i] # Null
          /\ Underway(i) # {} => pc[i] \in {"saveAll", "saveFlag", "failed"}

\* When the table says that the settings are saved, all of them are there,
\* although many invocations may have saved some of them, each in its own order,
\* and some of these have failed half way.
FlagMeansAll == row[Flag] = "true" => Present = Key

\* A request is handled with all settings, never with a part of them that another
\* invocation had saved so far (handlers use settings.get(...).value without
\* asking whether the setting is there; only a few are validated).
NobodyActsOnPart == \A i \in Invocation : pc[i] = "ready" => loaded[i] = Key

\* What operators change lasts once the migration is over, that is, once the flag is
\* there and nobody who has missed it is still on the way.  (Before, a late one may
\* take back an edit, and the flag with it, so that others begin to migrate again.)
Migrating(i) == pc[i] \in {"clear", "saveAll", "saveFlag"} \/ Underway(i) # {}
Migrated == row[Flag] = "true" /\ \A i \in Invocation : ~Migrating(i)
EditsLast == [][Migrated =>
    Migrated' /\ \A k \in Setting : row[k] = "edited" => row'[k] = "edited"]_vars

\* However invocations got in each other's way so far: once requests no longer
\* overlap, the settings are saved for good and no request fails for them.  (As
\* long as they overlap, each of two can refuse a row to the other, for ever.)
OneAtATime == Cardinality({i \in Invocation : Running(i)}) <= 1
Settles == <>[]OneAtATime =>
    <>[](row[Flag] = "true" /\ \A i \in Invocation : pc[i] # "failed")

=============================================================================
