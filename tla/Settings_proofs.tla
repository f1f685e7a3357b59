-------------------------- MODULE Settings_proofs --------------------------
(***************************************************************************)
(* Theorems about Settings.                                                *)
(*                                                                         *)
(* The flag is only ever saved as "true" by an invocation that has seen    *)
(* all its saves succeed, and rows never go away; so that invocation's     *)
(* view of the table stays good whatever the others do.                    *)
(***************************************************************************)
EXTENDS Settings, TLAPS

USE KeyAssumption, RequiredAssumption, NullAssumption, MaxFaultsAssumption

\* What an invocation that saves knows of the table.
Knows(i) ==
    /\ pc[i] \in {"saveAll", "saveFlag", "reload"} => loaded[i] = Null
    /\ pc[i] = "saveAll" => \A k \in Key : save[i][k] = "saved" => row[k] # "absent"
    /\ pc[i] \in {"saveFlag", "reload"} => Present = Key
    /\ pc[i] = "saveFlag" => \A k \in Setting : save[i][k] = "idle"

SavedIsThere == \A i \in Invocation : Knows(i)

Inv == TypeOK /\ SavedIsThere /\ FlagMeansAll /\ NobodyActsOnPart

Values == Value(Flag) \cup {"environment", "edited", "absent"}

-----------------------------------------------------------------------------
\* What a change of one phase leaves.
LEMMA OnePhase ==
    ASSUME save \in [Invocation -> [Key -> Phase]], NEW i \in Invocation, NEW k \in Key,
           NEW p \in Phase, save' = [save EXCEPT ![i][k] = p]
    PROVE  /\ save' \in [Invocation -> [Key -> Phase]]
           /\ \A j \in Invocation, l \in Key :
                  save'[j][l] = IF j = i /\ l = k THEN p ELSE save[j][l]
OBVIOUS

\* What setting all phases of one invocation leaves.
LEMMA AllPhases ==
    ASSUME save \in [Invocation -> [Key -> Phase]], NEW i \in Invocation,
           NEW f \in [Key -> Phase], save' = [save EXCEPT ![i] = f]
    PROVE  /\ save' \in [Invocation -> [Key -> Phase]]
           /\ \A j \in Invocation, l \in Key : save'[j][l] = IF j = i THEN f[l] ELSE save[j][l]
OBVIOUS

\* What a write of a row does to the saves of others: no save becomes complete by
\* it, none ends and none begins.
LEMMA WritePhases ==
    ASSUME save \in [Invocation -> [Key -> Phase]], NEW i \in Invocation, NEW k \in Key,
           NEW p \in Phase, save' = SavesAfter(i, k, p)
    PROVE  /\ save' \in [Invocation -> [Key -> Phase]]
           /\ \A j \in Invocation, l \in Key : ~(j = i /\ l = k) =>
                  /\ save'[j][l] \in Saving <=> save[j][l] \in Saving
                  /\ save'[j][l] \in {"idle", "saved"} \/ save[j][l] \in {"idle", "saved"}
                        => save'[j][l] = save[j][l]
           /\ save'[i][k] = p
BY DEF SavesAfter, Overtaken, Phase, Saving

\* A row that is written is there, and all others stay as they are.
LEMMA WriteKeeps ==
    ASSUME TypeOK, NEW k \in Key, NEW value \in Value(k), Write(k, value)
    PROVE  /\ row' \in [Key -> Values] /\ \A l \in Key : row'[l] \in Value(l) \cup {"absent"}
           /\ row'[k] = value /\ value # "absent"
           /\ \A l \in Key : l # k => row'[l] = row[l]
           /\ Present' = Present \cup {k}
<1>1. value \in Values /\ value # "absent"
  BY DEF Value, Values
<1>2. row \in [Key -> Values] /\ \A l \in Key : row[l] \in Value(l) \cup {"absent"}
  BY DEF TypeOK, Values
<1>3. row' = [row EXCEPT ![k] = value]
  BY DEF Write
<1>4. row' \in [Key -> Values] /\ \A l \in Key : row'[l] = IF l = k THEN value ELSE row[l]
  <2> HIDE DEF Values
  <2> QED
    BY <1>1, <1>2, <1>3
<1> QED
  BY <1>1, <1>2, <1>4 DEF Present

-----------------------------------------------------------------------------
LEMMA InitInv == Init => Inv
BY DEF Init, Inv, TypeOK, SavedIsThere, Knows, FlagMeansAll, NobodyActsOnPart, Underway, Saving,
       Phase, Value, Key

\* Steps that leave the table alone, and the saves of others.
LEMMA LocalInv ==
    ASSUME Inv, NEW i \in Invocation, UNCHANGED row,
           save' \in [Invocation -> [Key -> Phase]],
           \A j \in Invocation \ {i}, k \in Key : save'[j][k] = save[j][k],
           NEW p \in {"load", "clear", "saveAll", "saveFlag", "reload", "ready", "failed"},
           NEW s \in {Null} \cup SUBSET Key,
           pc' = [pc EXCEPT ![i] = p], loaded' = [loaded EXCEPT ![i] = s],
           faults' \in 0..MaxFaults,
           p = "ready" => s = Key,
           p \in {"saveAll", "saveFlag", "reload"} => s = Null,
           p = "saveAll" => \A k \in Key : save'[i][k] = "saved" => row[k] # "absent",
           p \in {"saveFlag", "reload"} => Present = Key,
           p = "saveFlag" => \A k \in Setting : save'[i][k] = "idle",
           Underway(i)' # {} => p \in {"saveAll", "saveFlag", "failed"}
    PROVE  Inv'
<1>1. Present' = Present
  BY DEF Present
<1>2. pc' \in [Invocation -> {"load", "clear", "saveAll", "saveFlag", "reload", "ready", "failed"}]
      /\ \A j \in Invocation : pc'[j] = IF j = i THEN p ELSE pc[j]
  BY DEF Inv, TypeOK
<1>3. loaded' \in [Invocation -> {Null} \cup SUBSET Key]
      /\ \A j \in Invocation : loaded'[j] = IF j = i THEN s ELSE loaded[j]
  BY DEF Inv, TypeOK
<1>4. \A j \in Invocation \ {i} : Underway(j)' = Underway(j)
  BY DEF Underway
<1>5. Key # Null
  BY DEF Key
<1>6. TypeOK'
  BY <1>2, <1>3, <1>4, <1>5 DEF Inv, TypeOK
<1>7. SavedIsThere'
  BY <1>1, <1>2, <1>3 DEF Inv, SavedIsThere, Knows, Key
<1>8. FlagMeansAll' /\ NobodyActsOnPart'
  BY <1>1, <1>2, <1>3 DEF Inv, FlagMeansAll, NobodyActsOnPart
<1> QED
  BY <1>6, <1>7, <1>8 DEF Inv

\* Writes of a row, with or without an answer.
LEMMA WriteInv ==
    ASSUME Inv, NEW i \in Invocation, NEW k \in Key,
           save[i][k] \in {"absent", "current"}, Write(k, ValueToSave(i, k)),
           NEW p \in {"saved", "idle"}, save' = SavesAfter(i, k, p),
           NEW q \in {pc[i], "failed"}, p = "saved" \/ q = "failed",
           pc' = [pc EXCEPT ![i] = q], UNCHANGED loaded, faults' \in 0..MaxFaults
    PROVE  Inv'
<1> USE DEF Inv
<1>1. pc[i] \in {"saveAll", "saveFlag", "failed"}
  <2>1. k \in Underway(i)
    BY DEF Underway, Saving
  <2> QED
    BY <2>1 DEF TypeOK
<1>2. /\ ValueToSave(i, k) \in Value(k)
      /\ k = Flag /\ ValueToSave(i, k) = "true" => Present = Key
  <2>1. pc[i] = "saveFlag" => k = Flag
    BY DEF SavedIsThere, Knows, Key
  <2> QED
    BY <2>1 DEF ValueToSave, FromEnvironment, Value, SavedIsThere, Knows
<1>3. /\ row' \in [Key -> Values] /\ \A l \in Key : row'[l] \in Value(l) \cup {"absent"}
      /\ row'[k] = ValueToSave(i, k) /\ row'[k] # "absent"
      /\ \A l \in Key : l # k => row'[l] = row[l]
      /\ Present' = Present \cup {k}
  BY <1>2, WriteKeeps
<1>4. /\ save' \in [Invocation -> [Key -> Phase]]
      /\ \A j \in Invocation, l \in Key : ~(j = i /\ l = k) =>
             /\ save'[j][l] \in Saving <=> save[j][l] \in Saving
             /\ save'[j][l] \in {"idle", "saved"} \/ save[j][l] \in {"idle", "saved"}
                   => save'[j][l] = save[j][l]
      /\ save'[i][k] = p
  <2>1. p \in Phase
    BY DEF Phase
  <2> QED
    BY <2>1, WritePhases DEF TypeOK
<1>5. \A j \in Invocation : pc'[j] = IF j = i THEN q ELSE pc[j]
  BY DEF TypeOK
<1>6. Present \subseteq Key
  BY DEF Present
<1>7. TypeOK'
  <2>1. pc' \in [Invocation -> {"load", "clear", "saveAll", "saveFlag", "reload", "ready", "failed"}]
    BY DEF TypeOK
  <2>2. \A j \in Invocation : Underway(j)' \subseteq Underway(j)
    <3> SUFFICES ASSUME NEW j \in Invocation, NEW l \in Key, save'[j][l] \in Saving
                 PROVE  save[j][l] \in Saving
      BY DEF Underway
    <3> QED
      BY <1>4 DEF Saving
  <2>3. \A j \in Invocation : Underway(j)' # {} => pc'[j] \in {"saveAll", "saveFlag", "failed"}
    BY <1>1, <1>5, <2>2 DEF TypeOK
  <2>4. \A j \in Invocation : pc'[j] = "ready" => loaded'[j] # Null
    BY <1>1, <1>5 DEF TypeOK
  <2> QED
    BY <1>3, <1>4, <2>1, <2>3, <2>4 DEF TypeOK, Values
<1>8. SavedIsThere'
  <2> SUFFICES ASSUME NEW j \in Invocation PROVE Knows(j)'
    BY DEF SavedIsThere, Knows
  <2>1. pc'[j] \in {"saveAll", "saveFlag", "reload"} => loaded'[j] = Null
    BY <1>5 DEF SavedIsThere, Knows
  <2>2. pc'[j] = "saveAll" => \A l \in Key : save'[j][l] = "saved" => row'[l] # "absent"
    BY <1>3, <1>4, <1>5 DEF SavedIsThere, Knows
  <2>3. pc'[j] \in {"saveFlag", "reload"} => Present' = Key
    BY <1>3, <1>5, <1>6 DEF SavedIsThere, Knows
  <2>4. pc'[j] = "saveFlag" => \A l \in Setting : save'[j][l] = "idle"
    <3> SUFFICES ASSUME pc'[j] = "saveFlag", NEW l \in Setting PROVE save'[j][l] = "idle"
      OBVIOUS
    <3>1. save[j][l] = "idle" /\ l \in Key
      BY <1>5 DEF SavedIsThere, Knows, Key
    <3> QED
      BY <1>4, <3>1
  <2> QED
    BY <2>1, <2>2, <2>3, <2>4 DEF Knows
<1>9. FlagMeansAll'
  <2>1. Flag \in Key
    BY DEF Key
  <2> QED
    BY <1>2, <1>3, <1>6, <2>1 DEF FlagMeansAll
<1>10. NobodyActsOnPart'
  BY <1>1, <1>5 DEF NobodyActsOnPart
<1> QED
  BY <1>7, <1>8, <1>9, <1>10

LEMMA EditInv == ASSUME Inv, NEW k \in Editable, Edit(k) PROVE Inv'
<1> USE DEF Inv, Edit
<1>1. k \in Key /\ k # Flag
  BY DEF Key
<1>2. /\ row' \in [Key -> Values] /\ \A l \in Key : row'[l] \in Value(l) \cup {"absent"}
      /\ row'[k] # "absent" /\ \A l \in Key : l # k => row'[l] = row[l]
      /\ Present' = Present
  <2>1. "edited" \in Value(k) /\ k \in Present /\ Write(k, "edited") /\ TypeOK
    BY <1>1 DEF Value, Present
  <2> HIDE DEF Inv, Edit
  <2>2. /\ row' \in [Key -> Values] /\ \A l \in Key : row'[l] \in Value(l) \cup {"absent"}
        /\ row'[k] = "edited"
        /\ \A l \in Key : l # k => row'[l] = row[l]
        /\ Present' = Present \cup {k}
    BY <1>1, <2>1, WriteKeeps
  <2>3. Present \cup {k} = Present
    BY <2>1
  <2> QED
    BY <2>2, <2>3
<1>3. /\ save' \in [Invocation -> [Key -> Phase]]
      /\ \A j \in Invocation, l \in Key :
             /\ save'[j][l] \in Saving <=> save[j][l] \in Saving
             /\ save'[j][l] \in {"idle", "saved"} \/ save[j][l] \in {"idle", "saved"}
                   => save'[j][l] = save[j][l]
  <2>1. save \in [Invocation -> [Key -> Phase]]
    BY DEF TypeOK
  <2>2. \A j \in Invocation : Overtaken(j, k) \in Phase
    BY <1>1, <2>1 DEF Overtaken, Phase, Saving
  <2>3. save' \in [Invocation -> [Key -> Phase]]
        /\ \A j \in Invocation, l \in Key :
               save'[j][l] = IF l = k THEN Overtaken(j, k) ELSE save[j][l]
    BY <1>1, <2>1, <2>2
  <2> QED
    BY <2>1, <2>3 DEF Overtaken, Saving
<1>4. TypeOK'
  <2>1. \A j \in Invocation : Underway(j)' = Underway(j)
    <3> SUFFICES ASSUME NEW j \in Invocation, NEW l \in Key
                 PROVE  save'[j][l] \in Saving <=> save[j][l] \in Saving
      BY DEF Underway
    <3> QED
      BY <1>3
  <2> QED
    BY <1>2, <1>3, <2>1 DEF TypeOK, Values
<1>5. SavedIsThere'
  <2> SUFFICES ASSUME NEW j \in Invocation PROVE Knows(j)'
    BY DEF SavedIsThere
  <2>1. pc'[j] = "saveAll" => \A l \in Key : save'[j][l] = "saved" => row'[l] # "absent"
    BY <1>2, <1>3 DEF SavedIsThere, Knows
  <2>2. pc'[j] = "saveFlag" => \A l \in Setting : save'[j][l] = "idle"
    <3> SUFFICES ASSUME pc'[j] = "saveFlag", NEW l \in Setting PROVE save'[j][l] = "idle"
      OBVIOUS
    <3>1. save[j][l] = "idle" /\ l \in Key
      BY DEF SavedIsThere, Knows, Key
    <3> QED
      BY <1>3, <3>1
  <2> QED
    BY <1>2, <2>1, <2>2 DEF SavedIsThere, Knows
<1>6. FlagMeansAll' /\ NobodyActsOnPart'
  <2>1. Flag \in Key
    BY DEF Key
  <2> QED
    BY <1>1, <1>2, <2>1 DEF FlagMeansAll, NobodyActsOnPart
<1> QED
  BY <1>4, <1>5, <1>6

\* Every step of an invocation, and what may fail in it.
LEMMA NextInv == Inv /\ [Next]_vars => Inv'
<1> SUFFICES ASSUME Inv, [Next]_vars PROVE Inv'
  OBVIOUS
<1>0. /\ save \in [Invocation -> [Key -> Phase]] /\ faults \in 0..MaxFaults
      /\ \A i \in Invocation :
             /\ pc[i] \in {"load", "clear", "saveAll", "saveFlag", "reload", "ready", "failed"}
             /\ loaded[i] \in {Null} \cup SUBSET Key
             /\ pc = [pc EXCEPT ![i] = pc[i]] /\ loaded = [loaded EXCEPT ![i] = loaded[i]]
             /\ Underway(i) # {} => pc[i] \in {"saveAll", "saveFlag", "failed"}
  BY DEF Inv, TypeOK
<1>1. /\ Present \subseteq Key /\ Flag \in Key /\ Setting \subseteq Key
      /\ row[Flag] = "true" => Present = Key
      /\ \A i \in Invocation : Knows(i) /\ (pc[i] = "ready" => loaded[i] = Key)
  BY DEF Present, Inv, FlagMeansAll, SavedIsThere, NobodyActsOnPart, Key
<1>2. ASSUME NEW i \in Invocation, Load(i) PROVE Inv'
  <2>1. save' = save /\ Underway(i)' = {}
    BY <1>0, <1>2 DEF Load, Underway
  <2>2. PICK p \in {"ready", "failed", "clear"} :
            pc' = [pc EXCEPT ![i] = p] /\ (p = "ready" => Present = Key)
    BY <1>1, <1>2 DEF Load, Validated
  <2>3. /\ UNCHANGED row /\ faults' \in 0..MaxFaults /\ save' \in [Invocation -> [Key -> Phase]]
        /\ loaded' = [loaded EXCEPT ![i] = Present] /\ Present \in {Null} \cup SUBSET Key
        /\ \A j \in Invocation \ {i}, k \in Key : save'[j][k] = save[j][k]
    BY <1>0, <1>1, <1>2 DEF Load
  <2> QED
    BY <2>1, <2>2, <2>3, LocalInv
<1>3. ASSUME NEW i \in Invocation, BeginSaves(i) PROVE Inv'
  <2>1. [k \in Key |-> "read"] \in [Key -> Phase]
    BY DEF Phase, Saving
  <2>2. /\ save' \in [Invocation -> [Key -> Phase]]
        /\ \A j \in Invocation, k \in Key : save'[j][k] = IF j = i THEN "read" ELSE save[j][k]
    BY <1>0, <1>3, <2>1, AllPhases DEF BeginSaves
  <2> QED
    BY <1>0, <1>3, <2>2, LocalInv DEF BeginSaves
<1>4. ASSUME NEW i \in Invocation, AllSaved(i) PROVE Inv'
  <2>1. [k \in Key |-> IF k = Flag THEN "read" ELSE "idle"] \in [Key -> Phase]
    BY DEF Phase, Saving
  <2>2. /\ save' \in [Invocation -> [Key -> Phase]]
        /\ \A j \in Invocation, k \in Key :
               save'[j][k] = IF j = i THEN IF k = Flag THEN "read" ELSE "idle" ELSE save[j][k]
    BY <1>0, <1>4, <2>1, AllPhases DEF AllSaved
  <2>3. Present = Key /\ loaded[i] = Null
    BY <1>1, <1>4 DEF AllSaved, Knows, Present
  <2>4. \A k \in Setting : save'[i][k] = "idle"
    BY <1>1, <2>2
  <2>5. \A j \in Invocation \ {i}, k \in Key : save'[j][k] = save[j][k]
    BY <2>2
  <2>6. /\ UNCHANGED row /\ faults' \in 0..MaxFaults /\ save' \in [Invocation -> [Key -> Phase]]
        /\ loaded' = [loaded EXCEPT ![i] = Null] /\ pc' = [pc EXCEPT ![i] = "saveFlag"]
    BY <1>0, <1>4, <2>2, <2>3 DEF AllSaved
  <2> QED
    BY <2>3, <2>4, <2>5, <2>6, LocalInv
<1>5. ASSUME NEW i \in Invocation, FlagSaved(i) PROVE Inv'
  <2>1. Underway(i)' = {}
    BY <1>1, <1>5 DEF FlagSaved, Underway, Knows, Saving, Key
  <2>2. /\ UNCHANGED row /\ faults' \in 0..MaxFaults /\ save' \in [Invocation -> [Key -> Phase]]
        /\ loaded[i] = Null /\ Present = Key
        /\ loaded' = [loaded EXCEPT ![i] = Null] /\ pc' = [pc EXCEPT ![i] = "reload"]
        /\ \A j \in Invocation \ {i}, k \in Key : save'[j][k] = save[j][k]
    BY <1>0, <1>1, <1>5 DEF FlagSaved, Knows
  <2> QED
    BY <2>1, <2>2, LocalInv
<1>6. ASSUME NEW i \in Invocation, Reload(i) PROVE Inv'
  <2>1. save' = save /\ Underway(i)' = {} /\ loaded[i] = Null /\ Present = Key
    BY <1>0, <1>1, <1>6 DEF Reload, Underway, Knows
  <2>2. PICK p \in {"ready", "failed"} : pc' = [pc EXCEPT ![i] = p]
    BY <1>6 DEF Reload, Validated
  <2>3. /\ UNCHANGED row /\ faults' \in 0..MaxFaults /\ save' \in [Invocation -> [Key -> Phase]]
        /\ loaded' = [loaded EXCEPT ![i] = Key] /\ Key \in {Null} \cup SUBSET Key
        /\ \A j \in Invocation \ {i}, k \in Key : save'[j][k] = save[j][k]
    BY <1>0, <1>6, <2>1 DEF Reload
  <2> QED
    BY <2>1, <2>2, <2>3, LocalInv
<1>7. ASSUME NEW i \in Invocation, NextRequest(i) \/ Stop(i) PROVE Inv'
  <2>1. [k \in Key |-> "idle"] \in [Key -> Phase]
    BY DEF Phase
  <2>2. /\ save' \in [Invocation -> [Key -> Phase]]
        /\ \A j \in Invocation, k \in Key : save'[j][k] = IF j = i THEN "idle" ELSE save[j][k]
    BY <1>0, <1>7, <2>1, AllPhases DEF NextRequest, Stop
  <2>3. Underway(i)' = {}
    BY <2>2 DEF Underway, Saving
  <2>4. faults' \in 0..MaxFaults
    BY <1>0, <1>7 DEF NextRequest, Stop
  <2>5. CASE NextRequest(i)
    BY <1>0, <2>2, <2>3, <2>4, <2>5, LocalInv DEF NextRequest
  <2>6. CASE Stop(i)
    BY <1>0, <2>2, <2>3, <2>4, <2>6, LocalInv DEF Stop
  <2> QED
    BY <1>7, <2>5, <2>6
<1>8. ASSUME NEW i \in Invocation, NEW k \in Key, ReadRow(i, k) PROVE Inv'
  <2>1. PICK p \in {"absent", "current"} : save' = [save EXCEPT ![i][k] = p]
    BY <1>8 DEF ReadRow
  <2>2. /\ save' \in [Invocation -> [Key -> Phase]]
        /\ \A j \in Invocation, l \in Key :
               save'[j][l] = IF j = i /\ l = k THEN p ELSE save[j][l]
    BY <1>0, <2>1, OnePhase DEF Phase, Saving
  <2>3. pc[i] \in {"saveAll", "saveFlag", "failed"} /\ (pc[i] = "saveFlag" => k = Flag)
    BY <1>0, <1>1, <1>8 DEF ReadRow, Underway, Saving, Knows, Key
  <2>4. pc[i] = "saveAll" => \A l \in Key : save'[i][l] = "saved" => row[l] # "absent"
    BY <1>1, <2>2 DEF Knows
  <2>5. pc[i] = "saveFlag" => \A l \in Setting : save'[i][l] = "idle"
    BY <1>1, <2>2, <2>3 DEF Knows
  <2>6. \A j \in Invocation \ {i}, l \in Key : save'[j][l] = save[j][l]
    BY <2>2
  <2>7. UNCHANGED <<row, faults>> /\ pc' = [pc EXCEPT ![i] = pc[i]]
        /\ loaded' = [loaded EXCEPT ![i] = loaded[i]]
    BY <1>0, <1>8 DEF ReadRow
  <2>8. /\ pc[i] \in {"saveAll", "saveFlag", "reload"} => loaded[i] = Null
        /\ pc[i] \in {"saveFlag", "reload"} => Present = Key
    BY <1>1 DEF Knows
  <2> QED
    BY <1>0, <1>1, <2>2, <2>3, <2>4, <2>5, <2>6, <2>7, <2>8, LocalInv
<1>9. ASSUME NEW i \in Invocation, NEW k \in Key, WriteRow(i, k) PROVE Inv'
  <2>1. pc' = [pc EXCEPT ![i] = pc[i]] /\ faults' \in 0..MaxFaults
    BY <1>0, <1>9 DEF WriteRow
  <2> QED
    BY <1>9, <2>1, WriteInv DEF WriteRow
<1>10. ASSUME NEW i \in Invocation, NEW k \in Key, RefuseRow(i, k) \/ RowFails(i, k) PROVE Inv'
  <2>1. faults' \in 0..MaxFaults /\ pc' = [pc EXCEPT ![i] = "failed"] /\ UNCHANGED loaded
    BY <1>0, <1>10 DEF RefuseRow, RowFails
  <2>2. CASE UNCHANGED row /\ save' = [save EXCEPT ![i][k] = "idle"]
    <3>1. /\ save' \in [Invocation -> [Key -> Phase]]
          /\ \A j \in Invocation \ {i}, l \in Key : save'[j][l] = save[j][l]
      BY <1>0, <2>2, OnePhase DEF Phase
    <3>2. loaded' = [loaded EXCEPT ![i] = loaded[i]]
      BY <1>0, <2>1
    <3> QED
      BY <1>0, <2>1, <2>2, <3>1, <3>2, LocalInv
  <2>3. CASE /\ save[i][k] \in {"absent", "current"}
             /\ Write(k, ValueToSave(i, k)) /\ save' = SavesAfter(i, k, "idle")
    BY <2>1, <2>3, WriteInv
  <2> QED
    BY <1>10, <2>2, <2>3 DEF RefuseRow, RowFails
<1>11. ASSUME NEW k \in Editable, Edit(k) PROVE Inv'
  BY <1>11, EditInv
<1>12. ASSUME UNCHANGED vars PROVE Inv'
  BY <1>12 DEF vars, Inv, TypeOK, SavedIsThere, Knows, FlagMeansAll, NobodyActsOnPart, Underway,
     Present
<1> QED
  BY <1>2, <1>3, <1>4, <1>5, <1>6, <1>7, <1>8, <1>9, <1>10, <1>11, <1>12 DEF Next, Step

LEMMA InvHolds == Spec => []Inv
BY InitInv, NextInv, PTL DEF Spec

-----------------------------------------------------------------------------
\* Every variable always has its type, and saves only run when they may.
THEOREM TypeCorrect == Spec => []TypeOK
<1>1. Inv => TypeOK
  BY DEF Inv
<1> QED
  BY <1>1, InvHolds, PTL

\* The flag in the table never says more than is true, for any number of
\* invocations and settings.
THEOREM FlagMeansAllCorrect == Spec => []FlagMeansAll
<1>1. Inv => FlagMeansAll
  BY DEF Inv
<1> QED
  BY <1>1, InvHolds, PTL

\* No request is ever handled with a part of the settings.
THEOREM NobodyActsOnPartCorrect == Spec => []NobodyActsOnPart
<1>1. Inv => NobodyActsOnPart
  BY DEF Inv
<1> QED
  BY <1>1, InvHolds, PTL

\* From a table that is migrated and nobody on the way to migrate it, no step begins
\* a migration or takes an edit back: who loads now sees the flag, and only edits
\* are written.
THEOREM EditsLastCorrect == Spec => EditsLast
<1> DEFINE EditsStay == Migrated' /\ \A k \in Setting : row[k] = "edited" => row'[k] = "edited"
<1>1. Inv /\ [Next]_vars => [Migrated => EditsStay]_vars
  <2> SUFFICES ASSUME Inv, Next, Migrated PROVE EditsStay
    OBVIOUS
  <2>1. /\ row[Flag] = "true" /\ Flag \notin Editable
        /\ \A i \in Invocation, k \in Key : save[i][k] \notin Saving
        /\ \A i \in Invocation : pc[i] \notin {"clear", "saveAll", "saveFlag"}
    BY DEF Migrated, Migrating, Underway
  <2>2. pc \in [Invocation -> {"load", "clear", "saveAll", "saveFlag", "reload", "ready", "failed"}]
        /\ save \in [Invocation -> [Key -> Phase]] /\ row \in [Key -> Values]
    BY DEF Inv, TypeOK, Values
  <2>3. ASSUME NEW i \in Invocation, Load(i) \/ Reload(i) \/ NextRequest(i) \/ Stop(i)
        PROVE  EditsStay
    <3>1. /\ row' = row /\ pc'[i] \in {"load", "ready", "failed"}
          /\ \A j \in Invocation \ {i} : pc'[j] = pc[j]
      BY <2>1, <2>2, <2>3 DEF Load, Reload, NextRequest, Stop, Validated
    <3>2. \A j \in Invocation, k \in Key : save'[j][k] \notin Saving
      BY <2>1, <2>2, <2>3 DEF Load, Reload, NextRequest, Stop, Saving
    <3> QED
      BY <2>1, <3>1, <3>2 DEF Migrated, Migrating, Underway
  <2>4. ASSUME NEW k \in Editable, Edit(k) PROVE EditsStay
    <3>1. k \in Key /\ k # Flag /\ Flag \in Key
      BY <2>1 DEF Key
    <3>2. \A j \in Invocation, l \in Key : save'[j][l] \notin Saving
      BY <2>1, <2>2, <2>4, <3>1 DEF Edit, Overtaken, Saving
    <3>3. \A l \in Key : row'[l] = IF l = k THEN "edited" ELSE row[l]
      BY <2>2, <2>4, <3>1 DEF Edit, Write
    <3> QED
      BY <2>1, <2>4, <3>1, <3>2, <3>3 DEF Edit, Migrated, Migrating, Underway, Key
  <2>5. ASSUME NEW i \in Invocation, BeginSaves(i) \/ AllSaved(i) \/ FlagSaved(i) PROVE FALSE
    BY <2>1, <2>5 DEF BeginSaves, AllSaved, FlagSaved
  <2>6. ASSUME NEW i \in Invocation, NEW k \in Key,
               ReadRow(i, k) \/ WriteRow(i, k) \/ RefuseRow(i, k) \/ RowFails(i, k)
        PROVE  FALSE
    BY <2>1, <2>6 DEF ReadRow, WriteRow, RefuseRow, RowFails, Saving
  <2> QED
    BY <2>3, <2>4, <2>5, <2>6 DEF Next, Step
<1> QED
  BY <1>1, InvHolds, PTL DEF Spec, EditsLast

=============================================================================
