------------------------ MODULE ElectionScore_proofs ------------------------
(***************************************************************************)
(* Theorems about ElectionScore and ReportedElection.                      *)
(*                                                                         *)
(* Every pass has an invariant about what it has visited: the largest so   *)
(* far is an upper bound, it is attained, and the flag or count says       *)
(* whether it is attained elsewhere.  At its end that is what the pass is  *)
(* meant to find.  The rest is arithmetic on the weights.                  *)
(***************************************************************************)
EXTENDS ReportedElection, FiniteSetTheorems, TLAPS

USE VMAssumption, NullAssumption

\* What every weight may be.
LEMMA WeightRanges ==
    ASSUME NEW v
    PROVE  /\ haveChecksumWeight(v) \in {0, 1}
           /\ sharedChecksumWeight(v) \in {0, 2}
           /\ groupedChecksumWeight(v) \in {0, 4} /\ MajorWorth(v) \in {0, 4}
           /\ latestSynctimeWeight(v) \in {0, 8}
           /\ lateslGroupChecksumWeight(v) \in {0, 16} /\ LatestWorth(v) \in {0, 16}
           /\ primaryDeviceWeight(v) \in {0, 64}
BY DEF haveChecksumWeight, sharedChecksumWeight, groupedChecksumWeight, MajorWorth,
       latestSynctimeWeight, lateslGroupChecksumWeight, LatestWorth, primaryDeviceWeight

LEMMA WorthIsNatural == ASSUME NEW v PROVE Worth(v) \in Nat /\ Points(v) \in Nat
BY WeightRanges DEF Worth, Points

\* The records of an election are records, of finitely many candidates.
AreRecords == Candidate \in (SUBSET VM) \ {{}} /\ record \in [Candidate -> Record]

LEMMA Records ==
    ASSUME AreRecords
    PROVE  /\ Candidate \subseteq VM /\ Candidate # {} /\ IsFiniteSet(Candidate)
           /\ \A v \in Candidate : record[v] \in Record
           /\ \A v \in Candidate : v \in Nat /\ v # Null
<1>0. Candidate \in (SUBSET VM) \ {{}} /\ \A v \in Candidate : record[v] \in Record
  BY DEF AreRecords
<1>1. Candidate \subseteq VM /\ Candidate # {} /\ \A v \in Candidate : record[v] \in Record
  <2> HIDE DEF Candidate
  <2> QED
    BY <1>0
<1>2. IsFiniteSet(Candidate)
  BY <1>1, VMAssumption, FS_Subset
<1>3. \A v \in Candidate : v \in Nat /\ v # Null
  <2> HIDE DEF Candidate
  <2> QED
    BY <1>1, VMAssumption, NullAssumption
<1> QED
  BY <1>1, <1>2, <1>3

\* A checksum group that is not empty has a size, which is 1 if it is a lone VM.
LEMMA Sizes ==
    ASSUME AreRecords, NEW c
    PROVE  /\ Cardinality(Members(c)) \in Nat
           /\ Cardinality(Members(c)) = 1 <=> \E v \in Candidate : Members(c) = {v}
           /\ c \in ChecksumsOf(Candidate) => Cardinality(Members(c)) > 0
<1>1. IsFiniteSet(Members(c))
  BY Records, FS_Subset DEF Members
<1>2. Cardinality(Members(c)) \in Nat
  BY <1>1, FS_CardinalityType
<1>3. Cardinality(Members(c)) = 1 <=> \E v : Members(c) = {v}
  BY <1>1, FS_Singleton
<1>4. c \in ChecksumsOf(Candidate) => Members(c) # {}
  BY DEF ChecksumsOf, Members
<1>5. Members(c) = {} <=> Cardinality(Members(c)) = 0
  BY <1>1, FS_EmptySet
<1> QED
  BY <1>2, <1>3, <1>4, <1>5 DEF Members

-----------------------------------------------------------------------------
(* The inductive invariant: one part for each pass. *)

\* What a pass over S has visited, while it runs and once it is over.
Visited(pass, S) == S \ (IF pc = pass THEN todo ELSE {})

SyncedVms == {v \in Candidate : Synced(v)}
SyncedChecksums == {c \in Checksum \cup {Null} : syncTimes[c] # 0}

Types ==
    /\ AreRecords
    /\ pc \in {"groups", "syncTimes", "latest", "scores", "oldest", "elected", "undetermined"}
    /\ todo \subseteq CASE pc = "groups" -> ChecksumsOf(Candidate)
                        [] pc = "latest" -> SyncedChecksums
                        [] pc = "syncTimes" -> SyncedVms
                        [] OTHER -> Candidate
    /\ major \in [count : Nat \ {0}, tie : BOOLEAN, checksum : Checksum \cup {Null}]
    /\ syncTimes \in [Checksum \cup {Null} -> Nat]
    /\ latest \in [time : Nat, count : Nat, checksum : Checksum \cup {Null}]
    /\ score \in [Candidate -> Nat]
    /\ best \in [score : Nat, tie : BOOLEAN, vm : Candidate \cup {Null}]
    /\ oldest \in [time : Nat, vm : Candidate \cup {Null}]
    /\ winner \in Candidate \cup {Null}

Size(c) == Cardinality(Members(c))

MajorFound ==
    LET Seen == Visited("groups", ChecksumsOf(Candidate))
    IN /\ \A c \in Seen : Size(c) <= major.count
       /\ major.count = 1 => major.checksum = Null
       /\ major.count > 1 => major.checksum \in Seen /\ Size(major.checksum) = major.count
       /\ major.tie <=> \E c \in Seen : /\ Size(c) = major.count
                                        /\ major.count > 1 => c # major.checksum

\* The latest sync time of each checksum: for passes up to this one none.
SyncTimesFound ==
    LET Seen == IF pc = "groups" THEN {} ELSE Visited("syncTimes", SyncedVms)
    IN /\ \A v \in Seen : record[v].syncTime <= syncTimes[ChecksumOf(v)]
       /\ \A c \in SyncedChecksums : \E v \in Seen :
              ChecksumOf(v) = c /\ record[v].syncTime = syncTimes[c]

LatestFound ==
    LET Seen == IF pc \in {"groups", "syncTimes"} THEN {}
                ELSE Visited("latest", SyncedChecksums)
    IN /\ \A c \in Seen : syncTimes[c] <= latest.time
       /\ latest.count = 0 <=> Seen = {}
       /\ latest.count = 0 => latest.time = 0
       /\ latest.count > 0 => latest.checksum \in Seen /\ syncTimes[latest.checksum] = latest.time
       /\ latest.count > 1 <=> \E c \in Seen \ {latest.checksum} : syncTimes[c] = latest.time

Scored == Weighed => \A v \in Candidate : score[v] = Worth(v)

BestFound ==
    LET Seen == IF Weighed THEN Visited("scores", Candidate) ELSE {}
    IN /\ \A v \in Seen : score[v] <= best.score
       /\ best.score = 0 => best.vm = Null
       /\ best.score > 0 => best.vm \in Seen /\ score[best.vm] = best.score
       /\ best.tie <=> \E v \in Seen \ {best.vm} : score[v] = best.score

OldestFound ==
    LET Seen == IF pc = "oldest" THEN Candidate \ todo ELSE {}
    IN /\ pc = "oldest" => FairApplies /\ ~Outscores
       /\ pc \notin {"oldest", "elected"} => oldest.vm = Null
       /\ pc = "oldest" =>
              /\ oldest.vm = Null <=> Seen = {}
              /\ oldest.vm # Null =>
                     /\ oldest.vm \in Seen /\ oldest.time = record[oldest.vm].sendTime
                     /\ \A w \in Seen \ {oldest.vm} :
                            /\ oldest.time <= record[w].sendTime
                            /\ oldest.time = record[w].sendTime => oldest.vm < w

Outcome ==
    /\ pc = "elected" => winner \in Candidate /\ (Beats(winner) \/ FirstOfEquals(winner))
    /\ pc = "undetermined" => \A v \in Candidate : ~Beats(v) /\ ~FirstOfEquals(v)
    /\ pc # "elected" => winner = Null

Inv == /\ Types /\ MajorFound /\ SyncTimesFound /\ LatestFound
       /\ Scored /\ BestFound /\ OldestFound /\ Outcome

-----------------------------------------------------------------------------
(* What the passes found is what they are meant to find. *)

LEMMA MajorIsMajorGroup ==
    ASSUME Types, MajorFound, pc # "groups", NEW v \in Candidate
    PROVE  groupedChecksumWeight(v) = MajorWorth(v)
<1> DEFINE All == ChecksumsOf(Candidate)
           c == ChecksumOf(v)
           m == major.checksum
<1>1. c \in All /\ c \in Checksum \cup {Null}
  BY Records DEF ChecksumsOf, ChecksumOf, Record, Types
<1>2. \A d : Size(d) \in Nat
  BY Sizes DEF Size, Types
<1>3. major.count \in Nat \ {0} /\ major.tie \in BOOLEAN
  BY DEF Types
<1>4. /\ \A d \in All : Size(d) <= major.count
      /\ major.count = 1 => m = Null
      /\ major.count > 1 => m \in All /\ Size(m) = major.count
      /\ major.tie <=> \E d \in All : Size(d) = major.count /\ (major.count > 1 => d # m)
  BY DEF MajorFound, Visited
<1>5. (~major.tie /\ m = c /\ c # Null)
      <=> (c # Null /\ Size(c) > 1 /\ \A d \in All \ {c} : Size(d) < Size(c))
  <2> HIDE DEF All, c, m
  <2>1. ASSUME ~major.tie, m = c, c # Null
        PROVE  Size(c) > 1 /\ \A d \in All \ {c} : Size(d) < Size(c)
    <3>1. major.count > 1 /\ Size(c) = major.count
      BY <1>3, <1>4, <2>1
    <3>2. ASSUME NEW d \in All \ {c} PROVE Size(d) < Size(c)
      <4>1. Size(d) <= major.count /\ Size(d) # major.count
        BY <1>4, <2>1, <3>1
      <4> QED
        BY <1>2, <1>3, <3>1, <4>1
    <3> QED
      BY <3>1, <3>2
  <2>2. ASSUME c # Null, Size(c) > 1, \A d \in All \ {c} : Size(d) < Size(c)
        PROVE  ~major.tie /\ m = c
    <3>1. major.count > 1 /\ Size(c) <= major.count
      BY <1>1, <1>2, <1>3, <1>4, <2>2
    <3>2. m = c
      BY <1>1, <1>2, <1>3, <1>4, <2>2, <3>1
    <3> QED
      BY <1>1, <1>2, <1>3, <1>4, <2>2, <3>1, <3>2
  <2> QED
    BY <2>1, <2>2
<1> QED
  BY <1>5 DEF groupedChecksumWeight, MajorWorth, MajorGroup, Size

LEMMA LatestIsLatestGroup ==
    ASSUME Types, SyncTimesFound, LatestFound, pc \notin {"groups", "syncTimes"},
           pc = "latest" => todo = {}, NEW v \in Candidate
    PROVE  lateslGroupChecksumWeight(v) = LatestWorth(v)
<1> DEFINE c == ChecksumOf(v)
           m == latest.checksum
           time(w) == record[w].syncTime
<1>1. \A w \in Candidate : /\ ChecksumOf(w) \in Checksum \cup {Null}
                           /\ Synced(w) => time(w) \in Nat \ {0}
  BY Records DEF ChecksumOf, Record, Types, Synced
<1>2. \A d \in Checksum \cup {Null} : syncTimes[d] \in Nat
  BY DEF Types
<1>3. latest.time \in Nat /\ latest.count \in Nat
  BY DEF Types
<1>4. /\ \A w \in Candidate : Synced(w) => time(w) <= syncTimes[ChecksumOf(w)]
      /\ \A d \in SyncedChecksums : \E w \in Candidate :
             Synced(w) /\ ChecksumOf(w) = d /\ time(w) = syncTimes[d]
  BY DEF SyncTimesFound, Visited, SyncedVms
<1>5. /\ \A d \in SyncedChecksums : syncTimes[d] <= latest.time
      /\ latest.count = 0 <=> SyncedChecksums = {}
      /\ latest.count > 0 => m \in SyncedChecksums /\ syncTimes[m] = latest.time
      /\ latest.count > 1 <=> \E d \in SyncedChecksums \ {m} : syncTimes[d] = latest.time
  BY DEF LatestFound, Visited
<1>6. \A w \in Candidate : Synced(w) => ChecksumOf(w) \in SyncedChecksums
  BY <1>1, <1>2, <1>4 DEF SyncedChecksums
<1>7. (latest.count = 1 /\ m = c)
      <=> \E u \in Candidate : /\ ChecksumOf(u) = c /\ Synced(u)
                               /\ \A w \in Candidate : ChecksumOf(w) # c /\ Synced(w)
                                                        => time(w) < time(u)
  <2>1. ASSUME latest.count = 1, m = c
        PROVE  \E u \in Candidate : /\ ChecksumOf(u) = c /\ Synced(u)
                                    /\ \A w \in Candidate : ChecksumOf(w) # c /\ Synced(w)
                                                             => time(w) < time(u)
    <3>1. PICK u \in Candidate : Synced(u) /\ ChecksumOf(u) = c /\ time(u) = latest.time
      BY <1>4, <1>5, <2>1
    <3>2. ASSUME NEW w \in Candidate, ChecksumOf(w) # c, Synced(w) PROVE time(w) < time(u)
      <4>1. syncTimes[ChecksumOf(w)] <= latest.time /\ syncTimes[ChecksumOf(w)] # latest.time
        BY <1>5, <1>6, <2>1, <3>2
      <4> QED
        BY <1>1, <1>2, <1>3, <1>4, <3>1, <3>2, <4>1
    <3> QED
      BY <3>1, <3>2
  <2>2. ASSUME NEW u \in Candidate, ChecksumOf(u) = c, Synced(u),
               \A w \in Candidate : ChecksumOf(w) # c /\ Synced(w) => time(w) < time(u)
        PROVE  latest.count = 1 /\ m = c
    <3>1. c \in SyncedChecksums /\ time(u) <= syncTimes[c] /\ syncTimes[c] <= latest.time
      BY <1>4, <1>5, <1>6, <2>2
    <3>2. \A d \in SyncedChecksums : d # c => syncTimes[d] < latest.time
      <4> SUFFICES ASSUME NEW d \in SyncedChecksums, d # c PROVE syncTimes[d] < latest.time
        OBVIOUS
      <4>1. PICK w \in Candidate : Synced(w) /\ ChecksumOf(w) = d /\ time(w) = syncTimes[d]
        BY <1>4
      <4>2. time(w) < time(u)
        BY <2>2, <4>1
      <4> QED
        BY <1>1, <1>2, <1>3, <2>2, <3>1, <4>1, <4>2
    <3>3. latest.count > 0 /\ m \in SyncedChecksums /\ syncTimes[m] = latest.time
      BY <1>3, <1>5, <3>1
    <3>4. m = c
      BY <1>3, <3>2, <3>3
    <3>5. ~(latest.count > 1)
      BY <1>3, <1>5, <3>2, <3>4
    <3> QED
      BY <1>3, <3>3, <3>4, <3>5
  <2> QED
    BY <2>1, <2>2
<1> QED
  BY <1>7 DEF lateslGroupChecksumWeight, LatestWorth, LatestGroup, Members

LEMMA PointsAreWorth ==
    ASSUME Types, MajorFound, SyncTimesFound, LatestFound,
           pc \notin {"groups", "syncTimes"}, pc = "latest" => todo = {}, NEW v \in Candidate
    PROVE  Points(v) = Worth(v)
BY MajorIsMajorGroup, LatestIsLatestGroup DEF Points, Worth

\* The best score belongs to a candidate that beats all others, if there is one.
LEMMA BestIsBest ==
    ASSUME Types, Scored, BestFound, Weighed, pc = "scores" => todo = {}
    PROVE  /\ Outscores => best.vm \in Candidate /\ Beats(best.vm)
           /\ \A v \in Candidate : Beats(v) => Outscores /\ best.vm = v
<1>1. \A v \in Candidate : score[v] = Worth(v) /\ Worth(v) \in Nat
  BY WorthIsNatural DEF Scored
<1>2. best.score \in Nat /\ best.tie \in BOOLEAN
  BY DEF Types
<1>3. /\ \A v \in Candidate : Worth(v) <= best.score
      /\ best.score > 0 => best.vm \in Candidate /\ Worth(best.vm) = best.score
      /\ best.tie <=> \E v \in Candidate \ {best.vm} : Worth(v) = best.score
  BY <1>1 DEF BestFound, Visited
<1>4. Outscores => best.vm \in Candidate /\ Beats(best.vm)
  BY <1>1, <1>2, <1>3 DEF Outscores, Beats
<1>5. ASSUME NEW v \in Candidate, Beats(v) PROVE Outscores /\ best.vm = v
  <2>1. Worth(v) > 0 /\ \A w \in Candidate \ {v} : Worth(w) < Worth(v)
    BY <1>5 DEF Beats
  <2>2. best.score > 0
    BY <1>1, <1>2, <1>3, <2>1
  <2>3. best.vm = v
    BY <1>1, <1>2, <1>3, <2>1, <2>2
  <2> QED
    BY <1>1, <1>2, <1>3, <2>1, <2>2, <2>3 DEF Outscores
<1> QED
  BY <1>4, <1>5

\* When the oldest send time decides, in terms of checksums and worth.
LEMMA FairMeans ==
    ASSUME Types, Scored, Weighed
    PROVE  FairApplies <=>
             /\ \A v \in Candidate : ~Synced(v)
             /\ \A u, w \in Candidate : u # w => ChecksumOf(u) # ChecksumOf(w)
             /\ \A u, w \in Candidate : Worth(u) = Worth(w)
<1>1. \A v \in Candidate : score[v] = Worth(v)
  BY DEF Scored
<1>2. (\A c \in ChecksumsOf(Candidate) : Cardinality(Members(c)) = 1)
      <=> \A u, w \in Candidate : u # w => ChecksumOf(u) # ChecksumOf(w)
  <2>1. ASSUME \A c \in ChecksumsOf(Candidate) : Cardinality(Members(c)) = 1,
               NEW u \in Candidate, NEW w \in Candidate, u # w
        PROVE  ChecksumOf(u) # ChecksumOf(w)
    <3>1. ChecksumOf(u) \in ChecksumsOf(Candidate)
      BY DEF ChecksumsOf
    <3>2. PICK x \in Candidate : Members(ChecksumOf(u)) = {x}
      BY <2>1, <3>1, Sizes DEF Types
    <3> QED
      BY <2>1, <3>2 DEF Members
  <2>2. ASSUME \A u, w \in Candidate : u # w => ChecksumOf(u) # ChecksumOf(w),
               NEW c \in ChecksumsOf(Candidate)
        PROVE  Cardinality(Members(c)) = 1
    <3>1. PICK u \in Candidate : c = ChecksumOf(u)
      BY DEF ChecksumsOf
    <3>2. Members(c) = {u}
      BY <2>2, <3>1 DEF Members
    <3> QED
      BY <3>2, Sizes DEF Types
  <2> QED
    BY <2>1, <2>2
<1> QED
  BY <1>1, <1>2 DEF FairApplies

-----------------------------------------------------------------------------
(* The invariant is inductive. *)

\* What is derived from the records alone does not change.
LEMMA RecordsStay ==
    ASSUME record' = record
    PROVE  /\ Candidate' = Candidate /\ SyncedVms' = SyncedVms /\ (AreRecords' <=> AreRecords)
           /\ \A c : Members(c)' = Members(c) /\ Size(c)' = Size(c)
           /\ ChecksumsOf(Candidate)' = ChecksumsOf(Candidate)
           /\ \A v : /\ ChecksumOf(v)' = ChecksumOf(v) /\ Synced(v)' = Synced(v)
                    /\ Worth(v)' = Worth(v) /\ Beats(v)' = Beats(v)
                    /\ FirstOfEquals(v)' = FirstOfEquals(v)
<1>1. Candidate' = Candidate /\ \A v : ChecksumOf(v)' = ChecksumOf(v) /\ Synced(v)' = Synced(v)
  BY DEF Candidate, ChecksumOf, Synced
<1>2. \A c : Members(c)' = Members(c)
  BY <1>1 DEF Members
<1>3. ChecksumsOf(Candidate)' = ChecksumsOf(Candidate)
  BY <1>1 DEF ChecksumsOf
<1>4. \A c : MajorGroup(c)' = MajorGroup(c) /\ LatestGroup(c)' = LatestGroup(c)
  BY <1>1, <1>2, <1>3 DEF MajorGroup, LatestGroup
<1>5. \A v : Worth(v)' = Worth(v)
  BY <1>1, <1>2, <1>4 DEF Worth, haveChecksumWeight, sharedChecksumWeight, MajorWorth,
     latestSynctimeWeight, LatestWorth, primaryDeviceWeight
<1>6. \A v : Beats(v)' = Beats(v)
  BY <1>1, <1>5 DEF Beats
<1>7. \A v : FirstOfEquals(v)' = FirstOfEquals(v)
  BY <1>1, <1>5, <1>6 DEF FirstOfEquals
<1> QED
  BY <1>1, <1>2, <1>3, <1>5, <1>6, <1>7 DEF SyncedVms, Size, AreRecords

LEMMA InitInv == Init => Inv
<1> SUFFICES ASSUME Init PROVE Inv
  OBVIOUS
<1> USE DEF Init
<1>0. AreRecords
  BY DEF AreRecords, Candidate
<1>1. Types
  BY <1>0, Records DEF Types
<1>2. MajorFound
  BY DEF MajorFound, Visited
<1>3. SyncTimesFound
  BY DEF SyncTimesFound, SyncedChecksums
<1>4. LatestFound
  BY DEF LatestFound
<1>5. Scored /\ BestFound /\ OldestFound /\ Outcome
  BY DEF Scored, BestFound, OldestFound, Outcome, Weighed
<1> QED
  BY <1>1, <1>2, <1>3, <1>4, <1>5 DEF Inv

LEMMA VisitGroupInv ==
    ASSUME Inv, NEW c \in Checksum \cup {Null}, VisitGroup(c) PROVE Inv'
<1> USE DEF VisitGroup, Visit, Inv
<1>0. record' = record /\ pc = "groups" /\ pc' = "groups" /\ c \in todo /\ todo' = todo \ {c}
  OBVIOUS
<1>1. Size(c) \in Nat /\ major.count \in Nat \ {0} /\ c \in ChecksumsOf(Candidate) /\ Size(c) > 0
  BY <1>0, Sizes DEF Size, Types
<1>2. Types'
  <2>1. major' \in [count : Nat \ {0}, tie : BOOLEAN, checksum : Checksum \cup {Null}]
    <3> DEFINE flag == major.tie \/ Size(c) = major.count
    <3>1. flag \in BOOLEAN
      OBVIOUS
    <3>2. major' = IF Size(c) > major.count
                   THEN [count |-> Size(c), tie |-> FALSE, checksum |-> c]
                   ELSE [major EXCEPT !.tie = flag]
      BY DEF Size
    <3> HIDE DEF flag
    <3> QED
      BY <1>1, <3>1, <3>2 DEF Types
  <2>2. todo' \subseteq ChecksumsOf(Candidate)'
    BY <1>0, RecordsStay DEF Types
  <2> QED
    BY <1>0, <2>1, <2>2, RecordsStay DEF Types
<1>3. MajorFound'
  <2> DEFINE Seen == ChecksumsOf(Candidate) \ todo
             n == Size(c)
  <2>1. Visited("groups", ChecksumsOf(Candidate))' = Seen \cup {c}
    BY <1>0, <1>1, RecordsStay DEF Visited
  <2>2. /\ \A d \in Seen : Size(d) <= major.count /\ Size(d) \in Nat
        /\ major.count = 1 => major.checksum = Null
        /\ major.count > 1 => major.checksum \in Seen /\ Size(major.checksum) = major.count
        /\ major.tie <=> \E d \in Seen : Size(d) = major.count
                                         /\ (major.count > 1 => d # major.checksum)
        /\ major.tie \in BOOLEAN /\ c \notin Seen
    BY <1>0, Sizes DEF MajorFound, Visited, Types, Size
  <2>3. major' = IF n > major.count THEN [count |-> n, tie |-> FALSE, checksum |-> c]
                 ELSE [major EXCEPT !.tie = @ \/ n = major.count]
    BY DEF Size
  <2>4. \A d : Size(d)' = Size(d)
    BY <1>0, RecordsStay
  <2>5. CASE n > major.count
    <3>1. major'.count = n /\ major'.tie = FALSE /\ major'.checksum = c
      BY <2>3, <2>5
    <3>2. \A d \in Seen : Size(d) < n
      BY <1>1, <2>2, <2>5
    <3> HIDE DEF Seen, n
    <3> QED
      BY <1>1, <2>1, <2>2, <2>4, <2>5, <3>1, <3>2 DEF MajorFound, n
  <2>6. CASE ~(n > major.count)
    <3>1. major'.count = major.count /\ major'.checksum = major.checksum
          /\ (major'.tie <=> (major.tie \/ n = major.count))
      BY <2>3, <2>6 DEF Types
    <3>2. n <= major.count
      BY <1>1, <2>6
    <3> HIDE DEF Seen, n
    <3>3. \A d \in Seen \cup {c} : Size(d) <= major.count
      BY <2>2, <3>2 DEF n
    <3>4. (major.tie \/ n = major.count)
          <=> \E d \in Seen \cup {c} : Size(d) = major.count
                                       /\ (major.count > 1 => d # major.checksum)
      BY <2>2 DEF n
    <3> QED
      BY <1>1, <2>1, <2>2, <2>4, <3>1, <3>3, <3>4 DEF MajorFound
  <2> QED
    BY <2>5, <2>6
<1>4. SyncTimesFound' /\ LatestFound'
  BY <1>0 DEF SyncTimesFound, LatestFound, SyncedChecksums
<1>5. Scored' /\ BestFound' /\ OldestFound' /\ Outcome'
  BY <1>0 DEF Scored, BestFound, OldestFound, Outcome, Weighed
<1> QED
  BY <1>2, <1>3, <1>4, <1>5

LEMMA GroupsDoneInv == ASSUME Inv, GroupsDone PROVE Inv'
<1> USE DEF GroupsDone, Finish, Inv
<1>0. /\ record' = record /\ pc = "groups" /\ pc' = "syncTimes"
      /\ todo = {} /\ todo' = SyncedVms
  BY DEF SyncedVms
<1>1. Types'
  BY <1>0, RecordsStay DEF Types
<1>2. MajorFound'
  BY <1>0, RecordsStay DEF MajorFound, Visited
<1>3. SyncTimesFound'
  BY <1>0, RecordsStay DEF SyncTimesFound, Visited, SyncedChecksums
<1>4. LatestFound'
  BY <1>0 DEF LatestFound
<1>5. Scored' /\ BestFound' /\ OldestFound' /\ Outcome'
  BY <1>0 DEF Scored, BestFound, OldestFound, Outcome, Weighed
<1> QED
  BY <1>1, <1>2, <1>3, <1>4, <1>5

LEMMA VisitSyncTimeInv ==
    ASSUME Inv, NEW v \in Candidate, VisitSyncTime(v) PROVE Inv'
<1> USE DEF VisitSyncTime, Visit, Inv
<1> DEFINE c == ChecksumOf(v)
           time(w) == record[w].syncTime
<1>0. record' = record /\ pc = "syncTimes" /\ pc' = "syncTimes" /\ v \in todo /\ todo' = todo \ {v}
  OBVIOUS
<1>1. /\ \A w \in SyncedVms : time(w) \in Nat \ {0} /\ ChecksumOf(w) \in Checksum \cup {Null}
      /\ v \in SyncedVms
  BY <1>0, Records DEF Types, SyncedVms, Synced, Record, ChecksumOf
<1>2. syncTimes' = [syncTimes EXCEPT ![c] = IF time(v) > @ THEN time(v) ELSE @]
  OBVIOUS
<1>3. syncTimes \in [Checksum \cup {Null} -> Nat] /\ syncTimes' \in [Checksum \cup {Null} -> Nat]
  <2> DEFINE t == IF time(v) > syncTimes[c] THEN time(v) ELSE syncTimes[c]
  <2>1. c \in Checksum \cup {Null} /\ syncTimes \in [Checksum \cup {Null} -> Nat]
    BY <1>1 DEF Types
  <2>2. t \in Nat
    <3>1. time(v) \in Nat /\ syncTimes[c] \in Nat
      BY <1>1, <2>1
    <3> HIDE DEF c, time
    <3> QED
      BY <3>1
  <2>3. syncTimes' = [syncTimes EXCEPT ![c] = t]
    BY <1>2, <2>1
  <2> HIDE DEF c, t
  <2> QED
    BY <2>1, <2>2, <2>3
<1>4. Types'
  BY <1>0, <1>3, RecordsStay DEF Types
<1>5. MajorFound'
  BY <1>0, RecordsStay DEF MajorFound, Visited
<1>6. SyncTimesFound'
  <2> DEFINE Seen == SyncedVms \ todo
  <2>1. Visited("syncTimes", SyncedVms)' = Seen \cup {v} /\ Visited("syncTimes", SyncedVms) = Seen
    BY <1>0, <1>1, RecordsStay DEF Visited
  <2>2. /\ \A w \in Seen : time(w) <= syncTimes[ChecksumOf(w)]
        /\ \A d \in SyncedChecksums : \E w \in Seen : ChecksumOf(w) = d /\ time(w) = syncTimes[d]
    BY <1>0, <2>1 DEF SyncTimesFound
  <2>3. \A d \in Checksum \cup {Null} :
            syncTimes'[d] = IF d = c /\ time(v) > syncTimes[d] THEN time(v) ELSE syncTimes[d]
    <3> HIDE DEF c, time
    <3> QED
      BY <1>2, <1>3
  <2>4. \A w \in Seen \cup {v} : time(w) <= syncTimes'[ChecksumOf(w)]
    <3> SUFFICES ASSUME NEW w \in Seen \cup {v} PROVE time(w) <= syncTimes'[ChecksumOf(w)]
      OBVIOUS
    <3>1. w \in SyncedVms
      BY <1>1
    <3>2. syncTimes[ChecksumOf(w)] \in Nat /\ time(w) \in Nat /\ time(v) \in Nat
      BY <1>1, <1>3, <3>1
    <3> QED
      BY <1>1, <2>2, <2>3, <3>1, <3>2
  <2>5. \A d \in SyncedChecksums' : \E w \in Seen \cup {v} :
            ChecksumOf(w) = d /\ time(w) = syncTimes'[d]
    <3> SUFFICES ASSUME NEW d \in Checksum \cup {Null}, syncTimes'[d] # 0
                 PROVE  \E w \in Seen \cup {v} : ChecksumOf(w) = d /\ time(w) = syncTimes'[d]
      BY DEF SyncedChecksums
    <3>1. CASE d = c /\ time(v) > syncTimes[d]
      BY <2>3, <3>1
    <3>2. CASE ~(d = c /\ time(v) > syncTimes[d])
      <4>1. syncTimes'[d] = syncTimes[d] /\ d \in SyncedChecksums
        BY <2>3, <3>2 DEF SyncedChecksums
      <4> QED
        BY <2>2, <4>1
    <3> QED
      BY <3>1, <3>2
  <2> HIDE DEF Seen
  <2> QED
    BY <1>0, <2>1, <2>4, <2>5, RecordsStay DEF SyncTimesFound
<1>7. LatestFound'
  BY <1>0 DEF LatestFound
<1>8. Scored' /\ BestFound' /\ OldestFound' /\ Outcome'
  BY <1>0 DEF Scored, BestFound, OldestFound, Outcome, Weighed
<1> QED
  BY <1>4, <1>5, <1>6, <1>7, <1>8

LEMMA SyncTimesDoneInv == ASSUME Inv, SyncTimesDone PROVE Inv'
<1> USE DEF SyncTimesDone, Finish, Inv
<1>0. /\ record' = record /\ pc = "syncTimes" /\ pc' = "latest"
      /\ todo = {} /\ todo' = SyncedChecksums
  BY DEF SyncedChecksums, Types
<1>1. Types'
  BY <1>0, RecordsStay DEF Types, SyncedChecksums
<1>2. MajorFound'
  BY <1>0, RecordsStay DEF MajorFound, Visited
<1>3. SyncTimesFound'
  BY <1>0, RecordsStay DEF SyncTimesFound, Visited, SyncedChecksums
<1>4. LatestFound'
  BY <1>0 DEF LatestFound, Visited, SyncedChecksums
<1>5. Scored' /\ BestFound' /\ OldestFound' /\ Outcome'
  BY <1>0 DEF Scored, BestFound, OldestFound, Outcome, Weighed
<1> QED
  BY <1>1, <1>2, <1>3, <1>4, <1>5

LEMMA VisitLatestInv ==
    ASSUME Inv, NEW c \in Checksum \cup {Null}, VisitLatest(c) PROVE Inv'
<1> USE DEF VisitLatest, Visit, Inv
<1>0. record' = record /\ pc = "latest" /\ pc' = "latest" /\ c \in todo /\ todo' = todo \ {c}
  OBVIOUS
<1>1. /\ \A d \in Checksum \cup {Null} : syncTimes[d] \in Nat
      /\ latest.time \in Nat /\ latest.count \in Nat /\ latest.checksum \in Checksum \cup {Null}
      /\ c \in SyncedChecksums /\ syncTimes[c] # 0
  BY <1>0 DEF Types, SyncedChecksums
<1>2. Types'
  <2>1. latest' \in [time : Nat, count : Nat, checksum : Checksum \cup {Null}]
    <3>1. CASE syncTimes[c] > latest.time
      <4>1. latest' = [time |-> syncTimes[c], count |-> 1, checksum |-> c]
        BY <3>1
      <4> QED
        BY <1>1, <4>1
    <3>2. CASE ~(syncTimes[c] > latest.time) /\ syncTimes[c] = latest.time
      <4>1. latest' = [latest EXCEPT !.count = latest.count + 1]
        BY <3>2
      <4> QED
        BY <1>1, <4>1 DEF Types
    <3>3. CASE ~(syncTimes[c] > latest.time) /\ syncTimes[c] # latest.time
      BY <3>3 DEF Types
    <3> QED
      BY <3>1, <3>2, <3>3
  <2> QED
    BY <1>0, <2>1, RecordsStay DEF Types, SyncedChecksums
<1>3. MajorFound'
  BY <1>0, RecordsStay DEF MajorFound, Visited
<1>4. SyncTimesFound'
  BY <1>0, RecordsStay DEF SyncTimesFound, Visited, SyncedChecksums
<1>5. LatestFound'
  <2> DEFINE Seen == SyncedChecksums \ todo
  <2>1. Visited("latest", SyncedChecksums)' = Seen \cup {c} /\ c \notin Seen
        /\ Visited("latest", SyncedChecksums) = Seen /\ Seen \subseteq Checksum \cup {Null}
    BY <1>0, <1>1 DEF Visited, SyncedChecksums
  <2>2. /\ \A d \in Seen : syncTimes[d] <= latest.time
        /\ latest.count = 0 <=> Seen = {}
        /\ latest.count = 0 => latest.time = 0
        /\ latest.count > 0 => latest.checksum \in Seen /\ syncTimes[latest.checksum] = latest.time
        /\ latest.count > 1 <=> \E d \in Seen \ {latest.checksum} : syncTimes[d] = latest.time
    BY <1>0, <2>1 DEF LatestFound
  <2>3. \A d \in Seen \cup {c} : syncTimes[d] \in Nat
    BY <1>1, <2>1
  <2>4. CASE syncTimes[c] > latest.time
    <3>1. latest' = [time |-> syncTimes[c], count |-> 1, checksum |-> c]
      BY <2>4
    <3> HIDE DEF Seen
    <3>2. \A d \in Seen : syncTimes[d] < syncTimes[c]
      BY <1>1, <2>2, <2>3, <2>4
    <3> QED
      BY <1>0, <1>1, <2>1, <2>3, <3>1, <3>2 DEF LatestFound
  <2>5. CASE syncTimes[c] = latest.time
    <3>1. latest'.time = latest.time /\ latest'.count = latest.count + 1
          /\ latest'.checksum = latest.checksum
      BY <1>1, <2>5 DEF Types
    <3> HIDE DEF Seen
    <3>2. latest.count > 0 /\ latest.checksum \in Seen /\ latest.checksum # c
      BY <1>1, <2>1, <2>2, <2>5
    <3> QED
      BY <1>0, <1>1, <2>1, <2>2, <2>3, <2>5, <3>1, <3>2 DEF LatestFound
  <2>6. CASE syncTimes[c] < latest.time
    <3>1. latest' = latest
      BY <1>1, <2>6
    <3> HIDE DEF Seen
    <3>2. latest.count > 0
      BY <1>1, <2>2, <2>6
    <3> QED
      BY <1>0, <1>1, <2>1, <2>2, <2>3, <2>6, <3>1, <3>2 DEF LatestFound
  <2> QED
    BY <1>1, <2>4, <2>5, <2>6
<1>6. Scored' /\ BestFound' /\ OldestFound' /\ Outcome'
  BY <1>0 DEF Scored, BestFound, OldestFound, Outcome, Weighed
<1> QED
  BY <1>2, <1>3, <1>4, <1>5, <1>6

LEMMA WeighInv == ASSUME Inv, Weigh PROVE Inv'
<1> USE DEF Weigh, Finish, Inv
<1>0. /\ record' = record /\ pc = "latest" /\ pc' = "scores" /\ todo = {} /\ todo' = Candidate
      /\ score' = [v \in Candidate |-> Points(v)]
  OBVIOUS
<1>1. score' \in [Candidate -> Nat] /\ \A v \in Candidate : score'[v] = Worth(v)
  BY <1>0, PointsAreWorth, WorthIsNatural
<1>2. Types'
  BY <1>0, <1>1, RecordsStay DEF Types
<1>3. MajorFound'
  BY <1>0, RecordsStay DEF MajorFound, Visited
<1>4. SyncTimesFound' /\ LatestFound'
  BY <1>0, RecordsStay DEF SyncTimesFound, LatestFound, Visited, SyncedChecksums
<1>5. Scored'
  BY <1>0, <1>1, RecordsStay DEF Scored
<1>6. BestFound'
  <2>1. Visited("scores", Candidate)' = {} /\ best' = best
    BY <1>0, RecordsStay DEF Visited
  <2>2. best.score = 0 => best.vm = Null
    BY DEF BestFound
  <2>3. ~(best.score > 0) /\ ~best.tie
    BY <1>0 DEF BestFound, Weighed
  <2> QED
    BY <1>0, <2>1, <2>2, <2>3 DEF BestFound, Weighed
<1>7. OldestFound' /\ Outcome'
  BY <1>0 DEF OldestFound, Outcome
<1> QED
  BY <1>2, <1>3, <1>4, <1>5, <1>6, <1>7

LEMMA VisitScoreInv ==
    ASSUME Inv, NEW v \in Candidate, VisitScore(v) PROVE Inv'
<1> USE DEF VisitScore, Visit, Inv
<1>0. record' = record /\ pc = "scores" /\ pc' = "scores" /\ v \in todo /\ todo' = todo \ {v}
  OBVIOUS
<1>1. /\ \A w \in Candidate : score[w] \in Nat /\ w # Null
      /\ best.score \in Nat /\ best.tie \in BOOLEAN /\ best.vm \in Candidate \cup {Null}
  BY Records DEF Types
<1>2. CASE score[v] > best.score
  <2>1. best' = [score |-> score[v], tie |-> FALSE, vm |-> v]
    BY <1>2
  <2>2. best' \in [score : Nat, tie : BOOLEAN, vm : Candidate \cup {Null}]
    <3> DEFINE n == score[v]
    <3>1. n \in Nat
      BY <1>1
    <3> HIDE DEF n
    <3>2. [score |-> n, tie |-> FALSE, vm |-> v]
          \in [score : Nat, tie : BOOLEAN, vm : Candidate \cup {Null}]
      BY <3>1
    <3> QED
      BY <2>1, <3>2 DEF n
  <2>3. BestFound'
    <3> DEFINE Seen == Candidate \ todo
    <3>1. Visited("scores", Candidate)' = Seen \cup {v} /\ Visited("scores", Candidate) = Seen
          /\ Seen \subseteq Candidate
      BY <1>0, RecordsStay DEF Visited
    <3>2. \A w \in Seen : score[w] <= best.score
      BY <1>0, <3>1 DEF BestFound, Weighed
    <3> HIDE DEF Seen
    <3>3. \A w \in Seen : score[w] < score[v]
      BY <1>1, <1>2, <3>1, <3>2
    <3> QED
      BY <1>0, <1>1, <1>2, <2>1, <3>1, <3>3 DEF BestFound, Weighed
  <2> QED
    BY <1>0, <2>2, <2>3, RecordsStay DEF Types, MajorFound, SyncTimesFound, LatestFound,
       Scored, Weighed, OldestFound, Outcome, Visited, SyncedChecksums
<1>3. CASE ~(score[v] > best.score)
  <2> DEFINE flag == best.tie \/ score[v] = best.score
  <2>1. best' = [best EXCEPT !.tie = flag] /\ flag \in BOOLEAN
    BY <1>3
  <2>2. best' \in [score : Nat, tie : BOOLEAN, vm : Candidate \cup {Null}]
        /\ best'.score = best.score /\ best'.vm = best.vm /\ best'.tie = flag
    <3> HIDE DEF flag
    <3> QED
      BY <1>1, <2>1 DEF Types
  <2>3. BestFound'
    <3> DEFINE Seen == Candidate \ todo
    <3>1. Visited("scores", Candidate)' = Seen \cup {v} /\ Visited("scores", Candidate) = Seen
          /\ Seen \subseteq Candidate /\ v \notin Seen
      BY <1>0, RecordsStay DEF Visited
    <3>2. /\ \A w \in Seen : score[w] <= best.score
          /\ best.score = 0 => best.vm = Null
          /\ best.score > 0 => best.vm \in Seen /\ score[best.vm] = best.score
          /\ best.tie <=> \E w \in Seen \ {best.vm} : score[w] = best.score
      BY <1>0, <3>1 DEF BestFound, Weighed
    <3>3. best.vm # v
      BY <1>1, <3>1, <3>2
    <3>4. flag <=> \E w \in (Seen \cup {v}) \ {best.vm} : score[w] = best.score
      <4> HIDE DEF Seen
      <4> QED
        BY <3>2, <3>3
    <3>5. score[v] <= best.score
      BY <1>1, <1>3
    <3> HIDE DEF Seen, flag
    <3> QED
      BY <1>0, <1>1, <2>2, <3>1, <3>2, <3>4, <3>5 DEF BestFound, Weighed
  <2> QED
    BY <1>0, <2>2, <2>3, RecordsStay DEF Types, MajorFound, SyncTimesFound, LatestFound,
       Scored, Weighed, OldestFound, Outcome, Visited, SyncedChecksums
<1> QED
  BY <1>2, <1>3

\* The first of equals is one with which the oldest send time decides.
LEMMA EqualsAreFair ==
    ASSUME Types, Scored, Weighed, NEW v \in Candidate, FirstOfEquals(v)
    PROVE  FairApplies
BY FairMeans DEF FirstOfEquals

LEMMA ElectBestInv == ASSUME Inv, ElectBest PROVE Inv'
<1> USE DEF ElectBest, Finish, Inv
<1>0. /\ record' = record /\ pc = "scores" /\ pc' = "elected" /\ todo = {} /\ todo' = {}
      /\ Outscores /\ winner' = best.vm
  OBVIOUS
<1>1. best.vm \in Candidate /\ Beats(best.vm)
  BY <1>0, BestIsBest DEF Weighed
<1>2. Types'
  BY <1>0, <1>1, RecordsStay DEF Types
<1>3. MajorFound' /\ SyncTimesFound' /\ LatestFound' /\ Scored'
  BY <1>0, RecordsStay DEF MajorFound, SyncTimesFound, LatestFound, Scored, Visited,
     SyncedChecksums, Weighed
<1>4. BestFound'
  BY <1>0, RecordsStay DEF BestFound, Visited, Weighed
<1>5. OldestFound'
  BY <1>0 DEF OldestFound
<1>6. Outcome'
  BY <1>0, <1>1, RecordsStay DEF Outcome
<1> QED
  BY <1>2, <1>3, <1>4, <1>5, <1>6

LEMMA TryFairInv == ASSUME Inv, TryFair PROVE Inv'
<1> USE DEF TryFair, Finish, Inv
<1>0. /\ record' = record /\ pc = "scores" /\ todo = {} /\ ~Outscores
      /\ pc' = IF FairApplies THEN "oldest" ELSE "undetermined"
      /\ todo' = IF FairApplies THEN Candidate ELSE {}
  OBVIOUS
<1>1. pc' \in {"oldest", "undetermined"} /\ todo' \subseteq Candidate
  BY <1>0
<1>2. Types'
  BY <1>0, <1>1, RecordsStay DEF Types
<1>3. MajorFound' /\ SyncTimesFound' /\ LatestFound'
  BY <1>0, <1>1, RecordsStay DEF MajorFound, SyncTimesFound, LatestFound, Visited, SyncedChecksums
<1>4. Scored' /\ BestFound'
  BY <1>0, <1>1, RecordsStay DEF Scored, BestFound, Visited, Weighed
<1>5. FairApplies' = FairApplies /\ Outscores' = Outscores
  BY <1>0, RecordsStay DEF FairApplies, Outscores
<1>6. OldestFound'
  <2>1. CASE FairApplies
    BY <1>0, <1>5, <2>1, RecordsStay DEF OldestFound
  <2>2. CASE ~FairApplies
    BY <1>0, <2>2 DEF OldestFound
  <2> QED
    BY <2>1, <2>2
<1>7. Outcome'
  <2>1. pc' = "undetermined" => \A v \in Candidate : ~Beats(v) /\ ~FirstOfEquals(v)
    BY <1>0, BestIsBest, EqualsAreFair DEF Weighed
  <2> QED
    BY <1>0, <1>1, <2>1, RecordsStay DEF Outcome
<1> QED
  BY <1>2, <1>3, <1>4, <1>6, <1>7

LEMMA VisitSendTimeInv ==
    ASSUME Inv, NEW v \in Candidate, VisitSendTime(v) PROVE Inv'
<1> USE DEF VisitSendTime, Visit, Inv
<1> DEFINE time(w) == record[w].sendTime
<1>0. /\ record' = record /\ pc = "oldest" /\ pc' = "oldest" /\ v \in todo /\ todo' = todo \ {v}
      /\ oldest' = IF Older(v) THEN [time |-> time(v), vm |-> v] ELSE oldest
  OBVIOUS
<1>1. /\ \A w \in Candidate : w \in Nat /\ w # Null /\ time(w) \in Nat
      /\ oldest.time \in Nat /\ oldest.vm \in Candidate \cup {Null}
  BY Records DEF Types, Record
<1>2. oldest' \in [time : Nat, vm : Candidate \cup {Null}]
  <2> HIDE DEF time
  <2> QED
    BY <1>0, <1>1 DEF Types
<1>3. Types'
  BY <1>0, <1>2, RecordsStay DEF Types
<1>4. MajorFound' /\ SyncTimesFound' /\ LatestFound'
  BY <1>0, RecordsStay DEF MajorFound, SyncTimesFound, LatestFound, Visited, SyncedChecksums
<1>5. Scored' /\ BestFound' /\ Outcome'
  BY <1>0, RecordsStay DEF Scored, BestFound, Visited, Weighed, Outcome
<1>6. OldestFound'
  <2> DEFINE Seen == Candidate \ todo
  <2>1. (Candidate \ todo)' = Seen \cup {v} /\ v \notin Seen /\ Seen \subseteq Candidate
    BY <1>0, RecordsStay
  <2>2. FairApplies' /\ ~Outscores'
    BY <1>0, RecordsStay DEF FairApplies, Outscores, OldestFound
  <2>3. /\ oldest.vm = Null <=> Seen = {}
        /\ oldest.vm # Null =>
               /\ oldest.vm \in Seen /\ oldest.time = time(oldest.vm)
               /\ \A w \in Seen \ {oldest.vm} :
                      oldest.time <= time(w) /\ (oldest.time = time(w) => oldest.vm < w)
    BY <1>0 DEF OldestFound
  <2>4. /\ oldest'.vm # Null /\ oldest'.vm \in Seen \cup {v} /\ oldest'.time = time(oldest'.vm)
        /\ \A w \in (Seen \cup {v}) \ {oldest'.vm} :
               oldest'.time <= time(w) /\ (oldest'.time = time(w) => oldest'.vm < w)
    <3> HIDE DEF Seen, time
    <3>1. CASE Older(v)
      <4>1. oldest'.vm = v /\ oldest'.time = time(v)
        BY <1>0, <3>1
      <4>2. \A w \in Seen : time(v) <= time(w) /\ (time(v) = time(w) => v < w)
        BY <1>0, <1>1, <2>1, <2>3, <3>1 DEF Older, time
      <4> QED
        BY <1>1, <4>1, <4>2
    <3>2. CASE ~Older(v)
      <4>1. oldest' = oldest
        BY <1>0, <3>2
      <4>2. oldest.vm # Null /\ oldest.time <= time(v)
            /\ (oldest.time = time(v) => oldest.vm < v)
        BY <1>0, <1>1, <2>1, <2>3, <3>2 DEF Older, time
      <4> QED
        BY <2>3, <4>1, <4>2
    <3> QED
      BY <3>1, <3>2
  <2> HIDE DEF Seen
  <2>5. \A w : record'[w].sendTime = time(w)
    BY <1>0
  <2> HIDE DEF time
  <2> QED
    BY <1>0, <2>1, <2>2, <2>4, <2>5 DEF OldestFound
<1> QED
  BY <1>3, <1>4, <1>5, <1>6

LEMMA ElectOldestInv == ASSUME Inv, ElectOldest PROVE Inv'
<1> USE DEF ElectOldest, Finish, Inv
<1> DEFINE v == oldest.vm
<1>0. /\ record' = record /\ pc = "oldest" /\ pc' = "elected" /\ todo = {} /\ todo' = {}
      /\ winner' = v
  OBVIOUS
<1>1. Candidate # {} /\ Candidate \ todo = Candidate
  BY <1>0, Records DEF Types
<1>2. /\ FairApplies /\ ~Outscores /\ v \in Candidate
      /\ \A w \in Candidate \ {v} :
             /\ record[v].sendTime <= record[w].sendTime
             /\ record[v].sendTime = record[w].sendTime => v < w
  <2> HIDE DEF Candidate, v
  <2> QED
    BY <1>0, <1>1 DEF OldestFound, Types, v
<1>3. FirstOfEquals(v)
  <2>1. \A w \in Candidate : ~Beats(w)
    BY <1>0, <1>2, BestIsBest DEF Weighed
  <2>2. /\ \A w \in Candidate : ~Synced(w)
        /\ \A u, w \in Candidate : u # w => ChecksumOf(u) # ChecksumOf(w)
        /\ \A u, w \in Candidate : Worth(u) = Worth(w)
    BY <1>0, <1>2, FairMeans DEF Weighed
  <2> QED
    BY <1>2, <2>1, <2>2 DEF FirstOfEquals
<1>4. Types'
  BY <1>0, <1>2, RecordsStay DEF Types
<1>5. MajorFound' /\ SyncTimesFound' /\ LatestFound'
  BY <1>0, RecordsStay DEF MajorFound, SyncTimesFound, LatestFound, Visited, SyncedChecksums
<1>6. Scored' /\ BestFound'
  BY <1>0, RecordsStay DEF Scored, BestFound, Visited, Weighed
<1>7. OldestFound' /\ Outcome'
  BY <1>0, <1>2, <1>3, RecordsStay DEF OldestFound, Outcome
<1> QED
  BY <1>4, <1>5, <1>6, <1>7

LEMMA NextInv == Inv /\ [Next]_vars => Inv'
<1> SUFFICES ASSUME Inv, [Next]_vars PROVE Inv'
  OBVIOUS
<1>1. ASSUME NEW c \in Checksum \cup {Null}, VisitGroup(c) \/ VisitLatest(c) PROVE Inv'
  BY <1>1, VisitGroupInv, VisitLatestInv
<1>2. ASSUME NEW v \in Candidate, VisitSyncTime(v) \/ VisitScore(v) \/ VisitSendTime(v) PROVE Inv'
  BY <1>2, VisitSyncTimeInv, VisitScoreInv, VisitSendTimeInv
<1>3. ASSUME GroupsDone \/ SyncTimesDone \/ Weigh \/ ElectBest \/ TryFair \/ ElectOldest PROVE Inv'
  BY <1>3, GroupsDoneInv, SyncTimesDoneInv, WeighInv, ElectBestInv, TryFairInv, ElectOldestInv
<1>4. ASSUME UNCHANGED vars PROVE Inv'
  <2> USE <1>4 DEF vars, Inv
  <2>1. record' = record /\ pc' = pc /\ todo' = todo
    OBVIOUS
  <2>2. Types' /\ MajorFound'
    BY <2>1, RecordsStay DEF Types, MajorFound, Visited, SyncedChecksums
  <2>3. SyncTimesFound' /\ LatestFound'
    BY <2>1, RecordsStay DEF SyncTimesFound, LatestFound, Visited, SyncedChecksums
  <2>4. Scored' /\ BestFound'
    BY <2>1, RecordsStay DEF Scored, BestFound, Visited, Weighed
  <2>5. FairApplies' = FairApplies /\ Outscores' = Outscores
    BY <2>1, RecordsStay DEF FairApplies, Outscores
  <2>6. OldestFound' /\ Outcome'
    BY <2>1, <2>5, RecordsStay DEF OldestFound, Outcome
  <2> QED
    BY <2>2, <2>3, <2>4, <2>6
<1> QED
  BY <1>1, <1>2, <1>3, <1>4 DEF Next

LEMMA InvHolds == Spec => []Inv
BY InitInv, NextInv, PTL DEF Spec

-----------------------------------------------------------------------------
\* Every variable always has its type, and an election that is over has elected
\* a candidate or nobody.
LEMMA TypeFollows == Inv => TypeOK
<1> SUFFICES ASSUME Inv PROVE TypeOK
  OBVIOUS
<1> USE DEF Inv
<1>1. \A v \in Candidate : ChecksumOf(v) \in Checksum \cup {Null}
  BY Records DEF ChecksumOf, Record, Types
<1>2. ChecksumsOf(Candidate) \subseteq Checksum \cup {Null}
  BY <1>1 DEF ChecksumsOf
<1>3. todo \subseteq CASE pc \in {"groups", "latest"} -> Checksum \cup {Null}
                       [] OTHER -> Candidate
  <2>1. CASE pc = "groups"
    BY <1>2, <2>1 DEF Types
  <2>2. CASE pc = "latest"
    BY <2>2 DEF Types, SyncedChecksums
  <2>3. CASE pc \notin {"groups", "latest"}
    BY <2>3 DEF Types, SyncedVms
  <2> QED
    BY <2>1, <2>2, <2>3
<1>4. winner # Null <=> pc = "elected"
  BY Records DEF Outcome, Types
<1> QED
  BY <1>3, <1>4 DEF TypeOK, Types, AreRecords

\* At most one candidate is the best that the records single out.
LEMMA BestIsUnique ==
    ASSUME AreRecords, NEW v \in Candidate, NEW w \in Candidate,
           Beats(v) \/ FirstOfEquals(v), Beats(w) \/ FirstOfEquals(w)
    PROVE  v = w
<1>0. v \in Nat /\ w \in Nat /\ record[v].sendTime \in Nat /\ record[w].sendTime \in Nat
      /\ Worth(v) \in Nat /\ Worth(w) \in Nat
  BY Records, WorthIsNatural DEF Record
<1>1. CASE Beats(v) /\ Beats(w)
  BY <1>0, <1>1 DEF Beats
<1>2. CASE FirstOfEquals(v) /\ FirstOfEquals(w)
  <2>1. v # w => /\ record[v].sendTime <= record[w].sendTime
                 /\ record[v].sendTime = record[w].sendTime => v < w
                 /\ record[w].sendTime <= record[v].sendTime
                 /\ record[w].sendTime = record[v].sendTime => w < v
    BY <1>2 DEF FirstOfEquals
  <2> QED
    BY <1>0, <2>1
<1>3. CASE (FirstOfEquals(v) /\ Beats(w)) \/ (Beats(v) /\ FirstOfEquals(w))
  BY <1>3 DEF FirstOfEquals
<1> QED
  BY <1>1, <1>2, <1>3

\* In whatever order the records are visited, the same candidate is elected: the
\* one that the records by themselves make the best.
LEMMA OrderFollows == Inv => OrderDoesNotMatter
<1> SUFFICES ASSUME Inv PROVE OrderDoesNotMatter
  OBVIOUS
<1> USE DEF Inv
<1>1. ASSUME pc = "elected", NEW v \in Candidate
      PROVE  winner = v <=> Beats(v) \/ FirstOfEquals(v)
  <2>1. winner \in Candidate /\ (Beats(winner) \/ FirstOfEquals(winner))
    BY <1>1 DEF Outcome
  <2>2. Beats(v) \/ FirstOfEquals(v) => winner = v
    BY <2>1, BestIsUnique DEF Types
  <2> QED
    BY <2>1, <2>2
<1>2. ASSUME pc = "undetermined", NEW v \in Candidate
      PROVE  winner = v <=> Beats(v) \/ FirstOfEquals(v)
  BY <1>2, Records DEF Outcome, Types
<1> QED
  BY <1>1, <1>2 DEF OrderDoesNotMatter, Scored, Decided

\* A candidate that alone says that it is the primary is elected.
LEMMA SolePrimaryFollows == Inv => SolePrimaryIsElected
<1> SUFFICES ASSUME Inv, Decided, NEW v \in Candidate, record[v].isPrimary,
                    \A w \in Candidate \ {v} : ~record[w].isPrimary
             PROVE  winner = v
  BY DEF SolePrimaryIsElected
<1>1. Worth(v) >= 64
  <2>1. primaryDeviceWeight(v) = 64
    BY DEF primaryDeviceWeight
  <2> QED
    BY <2>1, WeightRanges DEF Worth
<1>2. ASSUME NEW w \in Candidate \ {v} PROVE Worth(w) < Worth(v)
  <2>1. primaryDeviceWeight(w) = 0
    BY DEF primaryDeviceWeight
  <2>2. Worth(w) <= 31
    BY <2>1, WeightRanges DEF Worth
  <2> QED
    BY <1>1, <2>2, WorthIsNatural
<1>3. Beats(v)
  BY <1>1, <1>2, WorthIsNatural DEF Beats
<1>4. pc = "elected" => winner \in Candidate /\ (Beats(winner) \/ FirstOfEquals(winner))
  BY DEF Inv, Outcome
<1>5. pc # "undetermined"
  BY <1>3 DEF Inv, Outcome
<1> QED
  BY <1>3, <1>4, <1>5, BestIsUnique DEF Decided, Inv, Types

\* No VM that has never synced beats one that has, except by its word.
LEMMA NewcomerLoses ==
    ASSUME AreRecords, NEW w \in Candidate, Beats(w), ~Synced(w), ~record[w].isPrimary,
           NEW x \in Candidate, Synced(x)
    PROVE  FALSE
<1>0. latestSynctimeWeight(w) = 0 /\ primaryDeviceWeight(w) = 0 /\ x # w
  BY DEF latestSynctimeWeight, primaryDeviceWeight, Synced
<1>1. Members(ChecksumOf(w)) = {w}
  <2> SUFFICES ASSUME NEW y \in Candidate \ {w}, ChecksumOf(y) = ChecksumOf(w) PROVE FALSE
    BY DEF Members
  <2>1. Members(ChecksumOf(w)) # {w} /\ Members(ChecksumOf(y)) # {y}
    BY DEF Members
  <2>2. /\ haveChecksumWeight(y) = haveChecksumWeight(w)
        /\ sharedChecksumWeight(y) = sharedChecksumWeight(w)
        /\ MajorWorth(y) = MajorWorth(w) /\ LatestWorth(y) = LatestWorth(w)
    BY <2>1 DEF haveChecksumWeight, sharedChecksumWeight, MajorWorth, LatestWorth
  <2>3. Worth(y) >= Worth(w)
    BY <1>0, <2>2, WeightRanges DEF Worth
  <2>4. Worth(y) < Worth(w)
    BY DEF Beats
  <2> QED
    BY <2>3, <2>4, WorthIsNatural
<1>2. Worth(w) <= 1
  <2>1. sharedChecksumWeight(w) = 0
    BY <1>1 DEF sharedChecksumWeight
  <2>2. MajorWorth(w) = 0
    <3>1. Cardinality(Members(ChecksumOf(w))) = 1
      BY <1>1, Sizes
    <3> QED
      BY <3>1 DEF MajorWorth, MajorGroup
  <2>3. LatestWorth(w) = 0
    BY <1>1 DEF LatestWorth, LatestGroup
  <2> QED
    BY <1>0, <2>1, <2>2, <2>3, WeightRanges DEF Worth
<1>3. \A z \in Candidate \ {w} : Worth(z) = 0
  BY <1>2, WorthIsNatural DEF Beats
<1>4. \A z \in Candidate \ {w} : ChecksumOf(z) = Null
  <2> SUFFICES ASSUME NEW z \in Candidate \ {w} PROVE haveChecksumWeight(z) # 1
    BY DEF haveChecksumWeight
  <2> QED
    BY <1>3, WeightRanges DEF Worth
<1>5. LatestGroup(ChecksumOf(x))
  <2>1. x \in Members(ChecksumOf(x)) /\ Candidate \ Members(ChecksumOf(x)) \subseteq {w}
    BY <1>0, <1>4 DEF Members
  <2> QED
    BY <2>1 DEF LatestGroup
<1>6. LatestWorth(x) = 16
  BY <1>5 DEF LatestWorth
<1>7. Worth(x) >= 16
  BY <1>6, WeightRanges DEF Worth
<1> QED
  BY <1>0, <1>3, <1>7

\* A VM that has never synced is elected only if no candidate has, or if it says
\* that it is the primary.
LEMMA NewcomerFollows == Inv => NewcomerIsLastResort
<1> SUFFICES ASSUME Inv, pc = "elected", ~Synced(winner), ~record[winner].isPrimary,
                    NEW v \in Candidate, Synced(v)
             PROVE  FALSE
  BY DEF NewcomerIsLastResort
<1>1. winner \in Candidate /\ (Beats(winner) \/ FirstOfEquals(winner))
  BY DEF Inv, Outcome
<1>2. ~FirstOfEquals(winner)
  BY DEF FirstOfEquals
<1> QED
  BY <1>1, <1>2, NewcomerLoses DEF Inv, Types

-----------------------------------------------------------------------------
(* From heartbeats to the election. *)

USE ValueAssumption, ReportAssumption, CountersAssumption, BoundAssumption DEF Special

\* What a request is made of.
LEMMA InfoTypes ==
    ASSUME NEW b \in Body
    PROVE  LET info == DeviceSyncInfo(b)
           IN /\ info.interval \in (Nat \ {0}) \cup {NaN}
              /\ info.sequence \in (Nat \ {0}) \cup {NaN}
              /\ info.time \in (Nat \ {0}) \cup {Null}
              /\ info.syncTime \in (Nat \ {0}) \cup {Null}
              /\ info.syncFailTime \in (Nat \ {0}) \cup {Null}
              /\ info.syncStatus \in {True, Null} /\ info.isPrimary \in {True, Null}
              /\ info.checksum \in Checksum \cup {Null}
              /\ info.isPrimary = True <=> b.is_primary = True
<1>1. /\ NumberOrNaN(b.interval) \in (Nat \ {0}) \cup {NaN}
      /\ NumberOrNaN(b.sequence) \in (Nat \ {0}) \cup {NaN}
  BY DEF Body, NumberOrNaN, Truthy
<1>2. /\ TextOrNull(b.time) \in (Nat \ {0}) \cup {Null}
      /\ TextOrNull(b.sync_time) \in (Nat \ {0}) \cup {Null}
      /\ TextOrNull(b.sync_fail_time) \in (Nat \ {0}) \cup {Null}
  BY DEF Body, TextOrNull, Truthy
<1>3. /\ TrueOrNull(b.sync_status) \in {True, Null} /\ TrueOrNull(b.is_primary) \in {True, Null}
      /\ TrueOrNull(b.is_primary) = True <=> b.is_primary = True
  BY DEF Body, TrueOrNull, Truthy
<1>4. ChecksumText(b.checksum) \in Checksum \cup {Null}
  BY DEF Body, ChecksumText
<1> QED
  BY <1>1, <1>2, <1>3, <1>4 DEF DeviceSyncInfo

DocumentOf(b, seq, c) == Stored(Item(NewRecord(DeviceSyncInfo(b), seq, c)))

\* What is saved for a heartbeat, field by field.
LEMMA StoredFields ==
    ASSUME NEW b \in Body, NEW seq \in Nat, NEW c \in Counter
    PROVE  LET d == DocumentOf(b, seq, c)
               info == DeviceSyncInfo(b)
           IN /\ d["interval"] = IF info.interval = NaN THEN Null ELSE info.interval
              /\ d["seq"] = seq /\ d["syncState"] = c.syncState
              /\ d["loss"] = c.loss /\ d["recovery"] = c.recovery
              /\ d["sendTime"] = info.time /\ d["deviceSyncTime"] = info.syncTime
              /\ d["deviceSyncFailTime"] = info.syncFailTime
              /\ d["deviceSyncStatus"] = FlagText(info.syncStatus)
              /\ d["deviceIsPrimary"] = FlagText(info.isPrimary)
              /\ d["deviceChecksum"] = info.checksum
<1> DEFINE info == DeviceSyncInfo(b)
           rec == NewRecord(info, seq, c)
           item == Item(rec)
           d == Stored(item)
<1>1. /\ rec["interval"] = info.interval /\ rec["seq"] = seq /\ rec["syncState"] = c.syncState
      /\ rec["loss"] = c.loss /\ rec["recovery"] = c.recovery
      /\ rec["sendTime"] = info.time /\ rec["deviceSyncTime"] = info.syncTime
      /\ rec["deviceSyncFailTime"] = info.syncFailTime
      /\ rec["deviceSyncStatus"] = info.syncStatus /\ rec["deviceIsPrimary"] = info.isPrimary
      /\ rec["deviceChecksum"] = info.checksum
  <2> HIDE DEF info
  <2> QED
    BY DEF NewRecord
<1>2. \A f \in Field : item[f] = IF f \in FlagField THEN FlagText(rec[f]) ELSE rec[f]
  <2> HIDE DEF rec
  <2> QED
    BY DEF Item
<1>3. \A f \in Field : d[f] = IF item[f] = NaN THEN Null ELSE item[f]
  <2> HIDE DEF item
  <2> QED
    BY DEF Stored
<1> USE DEF Field, FlagField, NumberField, NullableField
<1>4. /\ c.syncState \in {"inSync", "outOfSync"} /\ c.loss \in Nat
      /\ c.recovery \in Nat \cup {Undefined}
  BY DEF Counter
<1>5. FlagText(info.syncStatus) # NaN /\ FlagText(info.isPrimary) # NaN
  <2> HIDE DEF info
  <2> QED
    BY DEF FlagText
<1> QED
  <2>1. /\ info.interval \in Nat \cup {NaN} /\ info.checksum \in Checksum \cup {Null}
        /\ info.time \in Nat \cup {Null} /\ info.syncTime \in Nat \cup {Null}
        /\ info.syncFailTime \in Nat \cup {Null}
    BY InfoTypes
  <2>2. \A x \in Nat \cup Checksum \cup {Null, Undefined, "inSync", "outOfSync"} : x # NaN
    OBVIOUS
  <2> HIDE DEF info, rec, item, d
  <2>3. /\ d["interval"] = IF info.interval = NaN THEN Null ELSE info.interval
        /\ d["seq"] = seq /\ d["syncState"] = c.syncState
        /\ d["loss"] = c.loss /\ d["recovery"] = c.recovery
    BY <1>1, <1>2, <1>3, <1>4, <2>1, <2>2
  <2>4. /\ d["sendTime"] = info.time /\ d["deviceSyncTime"] = info.syncTime
        /\ d["deviceSyncFailTime"] = info.syncFailTime /\ d["deviceChecksum"] = info.checksum
    BY <1>1, <1>2, <1>3, <2>1, <2>2
  <2>5. /\ d["deviceSyncStatus"] = FlagText(info.syncStatus)
        /\ d["deviceIsPrimary"] = FlagText(info.isPrimary)
    BY <1>1, <1>2, <1>3, <1>5
  <2> QED
    BY <2>3, <2>4, <2>5 DEF DocumentOf, d, item, rec, info

\* A document holds what documents hold.
LEMMA StoredHolds ==
    ASSUME NEW b \in Body, NEW seq \in Nat, NEW c \in Counter
    PROVE  \A f \in Field : DocumentOf(b, seq, c)[f] \in Holds(f)
<1> DEFINE d == DocumentOf(b, seq, c)
           info == DeviceSyncInfo(b)
<1>1. /\ c.syncState \in {"inSync", "outOfSync"} /\ c.loss \in Nat
      /\ c.recovery \in Nat \cup {Undefined}
  BY DEF Counter
<1>2. FlagText(info.syncStatus) \in {TrueText, NullText} /\ FlagText(info.isPrimary) \in {TrueText, NullText}
  <2>1. info.syncStatus \in {True, Null} /\ info.isPrimary \in {True, Null}
    BY InfoTypes
  <2> HIDE DEF info
  <2> QED
    BY <2>1 DEF FlagText, Truthy
<1>3. /\ d["interval"] \in Nat \cup {Null} /\ d["seq"] \in Nat /\ d["loss"] \in Nat
      /\ d["recovery"] \in Nat \cup {Undefined} /\ d["syncState"] \in {"inSync", "outOfSync"}
  BY <1>1, StoredFields, InfoTypes
<1>4. /\ d["sendTime"] \in (Nat \ {0}) \cup {Null} /\ d["deviceSyncTime"] \in (Nat \ {0}) \cup {Null}
      /\ d["deviceSyncFailTime"] \in (Nat \ {0}) \cup {Null}
      /\ d["deviceChecksum"] \in Checksum \cup {Null}
  BY StoredFields, InfoTypes
<1>5. d["deviceSyncStatus"] \in {TrueText, NullText} /\ d["deviceIsPrimary"] \in {TrueText, NullText}
  BY <1>2, StoredFields
<1> HIDE DEF d
<1> QED
  BY <1>3, <1>4, <1>5 DEF Holds, Field, FlagField, NumberField, NullableField, d

\* A document as convertRecord makes it, field by field.
LEMMA SnapshotFields ==
    ASSUME NEW d, \A f \in Field : d[f] \in Holds(f)
    PROVE  LET snap == Snapshot(d)
           IN /\ snap["interval"] = (IF d["interval"] = Null THEN 0 ELSE d["interval"])
              /\ snap["recovery"] = (IF d["recovery"] = Undefined THEN NaN ELSE d["recovery"])
              /\ \A f \in Field \ {"interval", "recovery"} : snap[f] = d[f]
<1> USE DEF Field, FlagField, NumberField, NullableField
<1>1. /\ d["interval"] \in Nat \cup {Null} /\ d["seq"] \in Nat /\ d["loss"] \in Nat
      /\ d["recovery"] \in Nat \cup {Undefined}
  BY DEF Holds
<1> QED
  BY <1>1 DEF Snapshot, ToNumber

\* What an invocation makes of a document it has read or listed, field by field.
LEMMA RecordFields ==
    ASSUME NEW d, \A f \in Field : d[f] \in Holds(f), NEW x \in {d, Snapshot(d)}
    PROVE  LET rec == Parsed(x)
           IN /\ rec.interval = x["interval"]
              /\ rec.recovery = (IF d["recovery"] = Undefined THEN 0 ELSE d["recovery"])
              /\ rec.seq = d["seq"] /\ rec.loss = d["loss"] /\ rec.syncState = d["syncState"]
              /\ rec.deviceSyncStatus = (IF d["deviceSyncStatus"] = TrueText THEN True ELSE Null)
              /\ rec.deviceIsPrimary = (IF d["deviceIsPrimary"] = TrueText THEN True ELSE Null)
              /\ \A f \in NullableField : rec[f] = d[f]
<1> DEFINE rec == Parsed(x)
<1> USE DEF Field, FlagField, NumberField, NullableField
<1>1. /\ d["recovery"] \in Nat \cup {Undefined}
      /\ d["deviceSyncStatus"] \in {TrueText, NullText} /\ d["deviceIsPrimary"] \in {TrueText, NullText}
      /\ \A f \in NullableField : d[f] \in Nat \cup Checksum \cup {Null}
  BY DEF Holds
<1>2. \A z \in Nat \cup Checksum \cup {Null} : z # NullText
  OBVIOUS
<1>3. /\ \A f \in Field \ {"interval", "recovery"} : x[f] = d[f]
      /\ x["recovery"] # d["recovery"] => d["recovery"] = Undefined /\ x["recovery"] = NaN
  BY SnapshotFields
<1>4. /\ rec["interval"] = x["interval"] /\ rec["seq"] = x["seq"] /\ rec["loss"] = x["loss"]
      /\ rec["syncState"] = x["syncState"]
      /\ rec["recovery"] = IF Truthy(x["recovery"]) THEN x["recovery"] ELSE 0
      /\ rec["deviceSyncStatus"] = Flag(x["deviceSyncStatus"])
      /\ rec["deviceIsPrimary"] = Flag(x["deviceIsPrimary"])
      /\ \A f \in NullableField : rec[f] = IF x[f] = NullText THEN Null ELSE x[f]
  BY DEF Parsed
<1> HIDE DEF rec
<1>5. rec["recovery"] = (IF d["recovery"] = Undefined THEN 0 ELSE d["recovery"])
  BY <1>1, <1>3, <1>4 DEF Truthy
<1>6. /\ rec["deviceSyncStatus"] = (IF d["deviceSyncStatus"] = TrueText THEN True ELSE Null)
      /\ rec["deviceIsPrimary"] = (IF d["deviceIsPrimary"] = TrueText THEN True ELSE Null)
  BY <1>1, <1>3, <1>4 DEF Flag
<1>7. \A f \in NullableField : rec[f] = d[f]
  BY <1>1, <1>2, <1>3, <1>4
<1>8. /\ rec.interval = x["interval"] /\ rec.seq = d["seq"] /\ rec.loss = d["loss"]
      /\ rec.syncState = d["syncState"]
  BY <1>3, <1>4
<1> QED
  BY <1>5, <1>6, <1>7, <1>8 DEF rec

\* What was read or listed of a document, made an item again, matches the document
\* if the recovery count is there and the interval survives.
LEMMA MatchMeans ==
    ASSUME NEW d, \A f \in Field : d[f] \in Holds(f), NEW x \in {d, Snapshot(d)}
    PROVE  Matches(Item(Parsed(x)), Snapshot(d))
             <=> d["recovery"] # Undefined /\ x["interval"] = Snapshot(d)["interval"]
<1> DEFINE snap == Snapshot(d)
           rec == Parsed(x)
           item == Item(rec)
<1> USE DEF Field, FlagField, NumberField, NullableField
<1>1. /\ d["interval"] \in Nat \cup {Null} /\ d["seq"] \in Nat /\ d["loss"] \in Nat
      /\ d["recovery"] \in Nat \cup {Undefined} /\ d["syncState"] \in {"inSync", "outOfSync"}
      /\ d["deviceSyncStatus"] \in {TrueText, NullText} /\ d["deviceIsPrimary"] \in {TrueText, NullText}
      /\ \A f \in NullableField : d[f] \in Nat \cup Checksum \cup {Null}
  BY DEF Holds
<1>2. /\ snap["interval"] = (IF d["interval"] = Null THEN 0 ELSE d["interval"])
      /\ snap["recovery"] = (IF d["recovery"] = Undefined THEN NaN ELSE d["recovery"])
      /\ \A f \in Field \ {"interval", "recovery"} : snap[f] = d[f]
  BY SnapshotFields
<1>3. /\ rec["interval"] = x["interval"]
      /\ rec["recovery"] = (IF d["recovery"] = Undefined THEN 0 ELSE d["recovery"])
      /\ rec["seq"] = d["seq"] /\ rec["loss"] = d["loss"] /\ rec["syncState"] = d["syncState"]
      /\ rec["deviceSyncStatus"] = (IF d["deviceSyncStatus"] = TrueText THEN True ELSE Null)
      /\ rec["deviceIsPrimary"] = (IF d["deviceIsPrimary"] = TrueText THEN True ELSE Null)
      /\ \A f \in NullableField : rec[f] = d[f]
  BY RecordFields
<1>4. x["interval"] \in Nat \cup {Null}
  BY <1>1, <1>2
<1> HIDE DEF snap, rec
<1>5. \A f \in Field : item[f] = IF f \in FlagField THEN FlagText(rec[f]) ELSE rec[f]
  BY DEF Item
<1>6. item["deviceSyncStatus"] = d["deviceSyncStatus"] /\ item["deviceIsPrimary"] = d["deviceIsPrimary"]
  BY <1>1, <1>3, <1>5 DEF FlagText, Truthy
<1>7. \A f \in Field \ {"interval", "recovery"} : item[f] = snap[f]
  BY <1>2, <1>3, <1>5, <1>6
<1>8. item["interval"] = x["interval"] /\ item["recovery"] = rec["recovery"]
  BY <1>3, <1>5
<1> HIDE DEF item
<1>9. \A z \in Nat \cup Checksum \cup {Null, TrueText, NullText, "inSync", "outOfSync"} : z # NaN
  OBVIOUS
<1>10. Undefined \notin Nat \cup {Null, NaN}
  OBVIOUS
<1>11. ASSUME d["recovery"] # Undefined, x["interval"] = snap["interval"] PROVE Matches(item, snap)
  <2>1. \A f \in Field : item[f] = snap[f]
    BY <1>2, <1>3, <1>7, <1>8, <1>11
  <2>2. \A f \in Field : snap[f] # NaN
    BY <1>1, <1>2, <1>9, <1>11
  <2> QED
    BY <2>1, <2>2 DEF Matches
<1>12. ASSUME Matches(item, snap) PROVE d["recovery"] # Undefined /\ x["interval"] = snap["interval"]
  <2>1. d["recovery"] # Undefined
    <3> SUFFICES ASSUME d["recovery"] = Undefined PROVE FALSE
      OBVIOUS
    <3>1. item["recovery"] = 0 /\ snap["recovery"] = NaN
      BY <1>2, <1>3, <1>8
    <3>2. item["recovery"] # Undefined /\ snap["recovery"] # Undefined
      BY <1>10, <3>1
    <3> QED
      BY <1>9, <1>12, <3>1, <3>2 DEF Matches
  <2>2. item["interval"] # Undefined /\ snap["interval"] # Undefined
    BY <1>1, <1>2, <1>4, <1>8, <1>10
  <2> QED
    BY <1>8, <1>12, <2>1, <2>2 DEF Matches
<1> QED
  BY <1>11, <1>12 DEF item, rec, snap

\* What an election sees of a record that was listed is a record for it.
LEMMA WeighableIsRecord ==
    ASSUME NEW d, \A f \in Field : d[f] \in Holds(f)
    PROVE  Weighable(Parsed(d)) \in Record
<1> DEFINE rec == Parsed(d)
<1>1. /\ rec["sendTime"] \in (Nat \ {0}) \cup {Null} /\ rec["deviceSyncTime"] \in (Nat \ {0}) \cup {Null}
      /\ rec["deviceChecksum"] \in Checksum \cup {Null}
  BY RecordFields DEF Holds, Field, FlagField, NumberField, NullableField
<1> HIDE DEF rec
<1> QED
  BY <1>1 DEF Weighable, Record, rec

-----------------------------------------------------------------------------
(* The inductive invariant of heartbeats, deletions and one election. *)

TableInv ==
    /\ OnRecord \subseteq VM /\ last \in [OnRecord -> Body] /\ sent \in 0..MaxHeartbeats
    /\ \A v \in OnRecord : \E seq \in Nat, c \in Counter : document[v] = DocumentOf(last[v], seq, c)

Idle ==
    /\ major = [count |-> 1, tie |-> FALSE, checksum |-> Null]
    /\ syncTimes = [c \in Checksum \cup {Null} |-> 0]
    /\ latest = [time |-> 0, count |-> 0, checksum |-> Null]
    /\ best = [score |-> 0, tie |-> FALSE, vm |-> Null]
    /\ oldest = [time |-> 0, vm |-> Null]
    /\ winner = Null

\* The records of the election are those of VMs on record.
Listed ==
    /\ Candidate \subseteq OnRecord
    /\ \A v \in Candidate : record[v].isPrimary <=> last[v].is_primary = True

RInv == /\ TableInv
        /\ pc = "heartbeats" => Idle
        /\ pc # "heartbeats" => Inv /\ Listed

LEMMA TableHolds ==
    ASSUME TableInv, NEW v \in OnRecord
    PROVE  \A f \in Field : document[v][f] \in Holds(f)
<1>1. PICK seq \in Nat, c \in Counter : document[v] = DocumentOf(last[v], seq, c)
  BY DEF TableInv
<1>2. last[v] \in Body
  BY DEF TableInv
<1> QED
  BY <1>1, <1>2, StoredHolds

LEMMA SaveInv ==
    ASSUME TableInv, NEW v \in VM, NEW b \in Body, NEW seq \in Nat, NEW c \in Counter,
           Save(v, b, seq, c), sent' \in 0..MaxHeartbeats
    PROVE  TableInv'
<1>1. /\ document' = [w \in OnRecord \cup {v} |-> IF w = v THEN DocumentOf(b, seq, c) ELSE document[w]]
      /\ last' = [w \in OnRecord \cup {v} |-> IF w = v THEN b ELSE last[w]]
  BY DEF Save, DocumentOf
<1>2. OnRecord' = OnRecord \cup {v} /\ OnRecord \subseteq VM
  BY <1>1 DEF OnRecord, TableInv
<1>3. last' \in [OnRecord' -> Body]
  BY <1>1, <1>2 DEF TableInv
<1>4. ASSUME NEW w \in OnRecord'
      PROVE  \E s \in Nat, k \in Counter : document'[w] = DocumentOf(last'[w], s, k)
  <2>1. CASE w = v
    BY <1>1, <1>2, <2>1
  <2>2. CASE w # v
    <3>1. w \in OnRecord /\ document'[w] = document[w] /\ last'[w] = last[w]
      BY <1>1, <1>2, <2>2
    <3> QED
      BY <3>1 DEF TableInv
  <2> QED
    BY <2>1, <2>2
<1> QED
  BY <1>2, <1>3, <1>4 DEF TableInv, DocumentOf

LEMMA HeartbeatInv ==
    ASSUME RInv, NEW v \in VM, NEW b \in Report(v), FirstHeartbeat(v, b) \/ NextHeartbeat(v, b)
    PROVE  RInv'
<1>0. /\ pc = "heartbeats" /\ pc' = pc /\ UNCHANGED vars /\ sent' \in 0..MaxHeartbeats
      /\ b \in Body /\ TableInv /\ Idle
  BY DEF FirstHeartbeat, NextHeartbeat, Receives, vars, RInv, TableInv
<1> DEFINE info == DeviceSyncInfo(b)
<1>1. info.sequence \in Nat \cup {NaN} /\ NaN \notin Nat
  BY <1>0, InfoTypes
<1>2. CASE FirstHeartbeat(v, b)
  <2>1. FirstSeq(info) \in Nat
    <3> HIDE DEF info
    <3> QED
      BY <1>1 DEF FirstSeq
  <2>2. FirstCounters \in Counter
    BY DEF FirstCounters, Counter
  <2>3. TableInv'
    BY <1>0, <1>2, <2>1, <2>2, SaveInv DEF FirstHeartbeat
  <2> QED
    BY <1>0, <2>3 DEF RInv, Idle, vars
<1>3. CASE NextHeartbeat(v, b)
  <2> DEFINE seq == NextSeq(ReadRecord(v), info)
  <2>1. ReadRecord(v).seq \in Nat
    <3>1. \A f \in Field : document[v][f] \in Holds(f)
      BY <1>0, <1>3, TableHolds DEF NextHeartbeat
    <3>2. ReadRecord(v).seq = document[v]["seq"]
      BY <3>1, RecordFields DEF ReadRecord
    <3> QED
      BY <3>1, <3>2 DEF Holds, Field, FlagField, NumberField, NullableField
  <2>2. seq \in Nat
    <3> HIDE DEF info
    <3> QED
      BY <1>1, <2>1 DEF NextSeq
  <2>3. UNCHANGED <<document, last>> \/ \E c \in Counters : Save(v, b, seq, c)
    BY <1>3 DEF NextHeartbeat
  <2> HIDE DEF seq
  <2>4. TableInv'
    <3>1. CASE UNCHANGED <<document, last>>
      BY <1>0, <3>1 DEF TableInv, OnRecord
    <3>2. CASE \E c \in Counters : Save(v, b, seq, c)
      BY <1>0, <2>2, <3>2, SaveInv
    <3> QED
      BY <2>3, <3>1, <3>2
  <2> QED
    BY <1>0, <2>4 DEF RInv, Idle, vars
<1> QED
  BY <1>2, <1>3

\* Deletions leave the table consistent, and its other records as they are.
LEMMA DeleteInv ==
    ASSUME TableInv, NEW gone, Delete(gone)
    PROVE  TableInv' /\ OnRecord' = OnRecord \ gone /\ \A w \in OnRecord' : last'[w] = last[w]
<1>1. /\ document' = [w \in OnRecord \ gone |-> document[w]]
      /\ last' = [w \in OnRecord \ gone |-> last[w]] /\ sent' = sent
  BY DEF Delete
<1>2. OnRecord' = OnRecord \ gone /\ OnRecord' \subseteq VM
  BY <1>1 DEF OnRecord, TableInv
<1>3. last' \in [OnRecord' -> Body]
  BY <1>1, <1>2 DEF TableInv
<1>4. \A w \in OnRecord' : document'[w] = document[w] /\ last'[w] = last[w] /\ w \in OnRecord
  BY <1>1, <1>2
<1>5. TableInv'
  BY <1>1, <1>2, <1>3, <1>4 DEF TableInv, DocumentOf
<1> QED
  BY <1>2, <1>4, <1>5

LEMMA NoElectionInv ==
    ASSUME RInv, NEW gone, pc = "heartbeats", Delete(gone), UNCHANGED vars
    PROVE  RInv'
BY DeleteInv DEF RInv, Idle, vars

LEMMA BeginInv == ASSUME RInv, NEW stale, Begin(stale) PROVE RInv'
<1> DEFINE S == Eligible(stale)
<1>0. /\ pc = "heartbeats" /\ pc' = "groups" /\ TableInv /\ Idle /\ S # {}
      /\ record' = [v \in S |-> Weighable(ListedRecord(v))] /\ Delete(stale)
      /\ todo' = ChecksumsOf(Candidate)' /\ score' = [v \in Candidate' |-> 0]
      /\ UNCHANGED <<major, syncTimes, latest, best, oldest, winner>>
  BY DEF Begin, RInv
<1>1. Candidate' = S /\ S \subseteq OnRecord \ stale /\ OnRecord \subseteq VM
  BY <1>0 DEF Candidate, TableInv, Eligible
<1>2. \A v \in S : \A f \in Field : document[v][f] \in Holds(f)
  BY <1>0, <1>1, TableHolds
<1>3. \A v \in S : Weighable(ListedRecord(v)) \in Record
  BY <1>2, WeighableIsRecord DEF ListedRecord
<1>4. record' \in [S -> Record] /\ S \in (SUBSET VM) \ {{}}
  <2> HIDE DEF S
  <2> QED
    BY <1>0, <1>1, <1>3
<1>5. Init'
  BY <1>0, <1>1, <1>4 DEF Init, Idle
<1>6. Inv'
  BY <1>5, InitInv, PTL
<1>7. TableInv' /\ OnRecord' = OnRecord \ stale /\ \A w \in OnRecord' : last'[w] = last[w]
  BY <1>0, DeleteInv
<1>8. Listed'
  <2> SUFFICES ASSUME NEW v \in S
               PROVE  Weighable(ListedRecord(v)).isPrimary <=> last[v].is_primary = True
    BY <1>0, <1>1, <1>7 DEF Listed
  <2>1. PICK seq \in Nat, c \in Counter : document[v] = DocumentOf(last[v], seq, c)
    BY <1>0, <1>1 DEF TableInv
  <2>2. last[v] \in Body
    BY <1>0, <1>1 DEF TableInv
  <2>3. document[v]["deviceIsPrimary"] = FlagText(DeviceSyncInfo(last[v]).isPrimary)
    BY <2>1, <2>2, StoredFields
  <2>4. ListedRecord(v).deviceIsPrimary = (IF document[v]["deviceIsPrimary"] = TrueText THEN True ELSE Null)
    BY <1>2, RecordFields DEF ListedRecord
  <2>5. ListedRecord(v).deviceIsPrimary = True <=> last[v].is_primary = True
    BY <2>2, <2>3, <2>4, InfoTypes DEF FlagText, Truthy
  <2> QED
    BY <2>5 DEF Weighable
<1> QED
  BY <1>0, <1>6, <1>7, <1>8 DEF RInv

LEMMA ElectionInv == ASSUME RInv, Next, UNCHANGED reports PROVE RInv'
<1>1. pc # "heartbeats" /\ pc' # "heartbeats" /\ record' = record
  BY DEF Next, VisitGroup, VisitLatest, VisitSyncTime, VisitScore, VisitSendTime, GroupsDone,
     SyncTimesDone, Weigh, ElectBest, TryFair, ElectOldest, Visit, Finish
<1>2. Inv' /\ Listed
  BY <1>1, NextInv DEF RInv
<1>3. Listed'
  BY <1>1, <1>2 DEF Listed, Candidate, OnRecord, reports
<1>4. TableInv'
  BY DEF RInv, TableInv, OnRecord, reports, DocumentOf
<1> QED
  BY <1>1, <1>2, <1>3, <1>4 DEF RInv

LEMMA RInvHolds == ReportedSpec => []RInv
<1>1. ReportedInit => RInv
  <2> SUFFICES ASSUME ReportedInit PROVE RInv
    OBVIOUS
  <2> USE DEF ReportedInit
  <2>1. OnRecord = {} /\ last = <<>>
    BY DEF OnRecord
  <2>2. last \in [OnRecord -> Body]
    BY <2>1
  <2> QED
    BY <2>1, <2>2 DEF RInv, TableInv, Idle
<1>2. RInv /\ [ReportedNext]_<<vars, reports>> => RInv'
  <2> SUFFICES ASSUME RInv, [ReportedNext]_<<vars, reports>> PROVE RInv'
    OBVIOUS
  <2>1. CASE ReportedNext
    <3>1. ASSUME NEW v \in VM, HandleUnhealthyVm(v) PROVE RInv'
      BY <3>1, NoElectionInv DEF HandleUnhealthyVm
    <3>2. ASSUME NEW stale \in SUBSET OnRecord, NoElection(stale) PROVE RInv'
      BY <3>2, NoElectionInv DEF NoElection
    <3> QED
      BY <2>1, <3>1, <3>2, HeartbeatInv, BeginInv, ElectionInv DEF ReportedNext
  <2>2. CASE UNCHANGED <<vars, reports>>
    <3>1. TableInv'
      BY <2>2 DEF RInv, TableInv, OnRecord, reports, DocumentOf
    <3>2. CASE pc = "heartbeats"
      BY <2>2, <3>1, <3>2 DEF RInv, Idle, vars
    <3>3. CASE pc # "heartbeats"
      <4>1. Inv'
        BY <2>2, <3>3, NextInv DEF RInv
      <4> QED
        BY <2>2, <3>1, <3>3, <4>1 DEF RInv, Listed, Candidate, OnRecord, vars, reports
    <3> QED
      BY <3>2, <3>3
  <2> QED
    BY <2>1, <2>2
<1> QED
  BY <1>1, <1>2, PTL DEF ReportedSpec

-----------------------------------------------------------------------------
\* A document holds what a heartbeat may have saved, and the variables of an
\* election that has begun have their types.
THEOREM ReportedTypeCorrect == ReportedSpec => []ReportedTypeOK
<1>1. RInv => ReportedTypeOK
  BY TableHolds, TypeFollows DEF RInv, TableInv, ReportedTypeOK
<1> QED
  BY <1>1, RInvHolds, PTL

\* In whatever order the records are visited, the same candidate is elected: the
\* one that the records by themselves make the best.
THEOREM OrderDoesNotMatterCorrect == ReportedSpec => []OrderDoesNotMatter
<1>1. RInv => OrderDoesNotMatter
  BY OrderFollows DEF RInv, OrderDoesNotMatter, Weighed, Decided
<1> QED
  BY <1>1, RInvHolds, PTL

\* A VM that has never synced is elected only if no candidate has, or if it says
\* that it is the primary.
THEOREM NewcomerIsLastResortCorrect == ReportedSpec => []NewcomerIsLastResort
<1>1. RInv => NewcomerIsLastResort
  BY NewcomerFollows DEF RInv, NewcomerIsLastResort
<1> QED
  BY <1>1, RInvHolds, PTL

\* The next heartbeat of a VM reads of its record what the last one saved said.
THEOREM ReportsSurviveCorrect == ReportedSpec => []ReportsSurvive
<1>1. ASSUME RInv, NEW v \in OnRecord
      PROVE  LET view == ReadRecord(v)
                 info == DeviceSyncInfo(last[v])
             IN /\ view.sendTime = info.time /\ view.deviceChecksum = info.checksum
                /\ view.deviceSyncTime = info.syncTime /\ view.deviceSyncFailTime = info.syncFailTime
                /\ view.deviceSyncStatus = info.syncStatus /\ view.deviceIsPrimary = info.isPrimary
                /\ view.interval = IF info.interval = NaN THEN 0 ELSE info.interval
                /\ view.seq \in Nat /\ view.loss \in Nat /\ view.recovery \in Nat
  <2> DEFINE d == document[v]
             info == DeviceSyncInfo(last[v])
  <2>0. TableInv
    BY <1>1 DEF RInv
  <2>1. PICK seq \in Nat, c \in Counter : d = DocumentOf(last[v], seq, c)
    BY <1>1, <2>0 DEF TableInv
  <2>2. last[v] \in Body /\ \A f \in Field : d[f] \in Holds(f)
    BY <1>1, <2>0, TableHolds DEF TableInv
  <2>3. /\ info.interval \in (Nat \ {0}) \cup {NaN}
        /\ info.syncStatus \in {True, Null} /\ info.isPrimary \in {True, Null}
    BY <2>2, InfoTypes
  <2>4. /\ d["interval"] = (IF info.interval = NaN THEN Null ELSE info.interval)
        /\ d["sendTime"] = info.time /\ d["deviceSyncTime"] = info.syncTime
        /\ d["deviceSyncFailTime"] = info.syncFailTime
        /\ d["deviceSyncStatus"] = FlagText(info.syncStatus)
        /\ d["deviceIsPrimary"] = FlagText(info.isPrimary)
        /\ d["deviceChecksum"] = info.checksum
    BY <2>1, <2>2, StoredFields
  <2>5. d["seq"] \in Nat /\ d["loss"] \in Nat /\ d["recovery"] \in Nat \cup {Undefined}
    BY <2>2 DEF Holds, Field, FlagField, NumberField, NullableField
  <2>6. /\ ReadRecord(v).interval = (IF d["interval"] = Null THEN 0 ELSE d["interval"])
        /\ ReadRecord(v).recovery = (IF d["recovery"] = Undefined THEN 0 ELSE d["recovery"])
        /\ ReadRecord(v).seq = d["seq"] /\ ReadRecord(v).loss = d["loss"]
        /\ ReadRecord(v).deviceSyncStatus = (IF d["deviceSyncStatus"] = TrueText THEN True ELSE Null)
        /\ ReadRecord(v).deviceIsPrimary = (IF d["deviceIsPrimary"] = TrueText THEN True ELSE Null)
        /\ \A f \in NullableField : ReadRecord(v)[f] = d[f]
    BY <2>2, RecordFields, SnapshotFields DEF ReadRecord
  <2> HIDE DEF d, info
  <2>7. /\ ReadRecord(v).sendTime = info.time /\ ReadRecord(v).deviceChecksum = info.checksum
        /\ ReadRecord(v).deviceSyncTime = info.syncTime /\ ReadRecord(v).deviceSyncFailTime = info.syncFailTime
    BY <2>4, <2>6 DEF NullableField
  <2>8. ReadRecord(v).deviceSyncStatus = info.syncStatus /\ ReadRecord(v).deviceIsPrimary = info.isPrimary
    BY <2>3, <2>4, <2>6 DEF FlagText, Truthy
  <2>9. /\ ReadRecord(v).interval = (IF info.interval = NaN THEN 0 ELSE info.interval)
        /\ ReadRecord(v).seq \in Nat /\ ReadRecord(v).loss \in Nat /\ ReadRecord(v).recovery \in Nat
    BY <2>3, <2>4, <2>5, <2>6
  <2> QED
    BY <2>7, <2>8, <2>9 DEF info
<1>2. RInv => ReportsSurvive
  BY <1>1 DEF ReportsSurvive
<1> QED
  BY <1>2, RInvHolds, PTL

\* A record that nobody has changed and that was read can be deleted if and only
\* if its recovery count was ever stored; one that was listed only if also the
\* last heartbeat told its interval.
THEOREM WhichRecordsMatchCorrect == ReportedSpec => []WhichRecordsMatch
<1>1. ASSUME RInv, NEW v \in OnRecord
      PROVE  /\ ReadMatches(v) <=> document[v]["recovery"] # Undefined
             /\ ListedMatches(v) <=> ReadMatches(v) /\ last[v].interval # Undefined
  <2> DEFINE d == document[v]
             info == DeviceSyncInfo(last[v])
  <2>0. TableInv
    BY <1>1 DEF RInv
  <2>1. PICK seq \in Nat, c \in Counter : d = DocumentOf(last[v], seq, c)
    BY <1>1, <2>0 DEF TableInv
  <2>2. last[v] \in Body /\ \A f \in Field : d[f] \in Holds(f)
    BY <1>1, <2>0, TableHolds DEF TableInv
  <2>3. info.interval = NaN <=> last[v].interval = Undefined
    BY <2>2 DEF DeviceSyncInfo, NumberOrNaN, Truthy, Body
  <2>4. info.interval \in (Nat \ {0}) \cup {NaN}
        /\ d["interval"] = (IF info.interval = NaN THEN Null ELSE info.interval)
    BY <2>1, <2>2, StoredFields, InfoTypes
  <2>5. Snapshot(d)["interval"] = IF d["interval"] = Null THEN 0 ELSE d["interval"]
    BY <2>2, SnapshotFields
  <2>6. d["interval"] = Snapshot(d)["interval"] <=> last[v].interval # Undefined
    <3> HIDE DEF d, info
    <3> QED
      BY <2>3, <2>4, <2>5
  <2>7. ReadMatches(v) <=> d["recovery"] # Undefined
    BY <2>2, MatchMeans DEF ReadMatches, ReadRecord
  <2>8. ListedMatches(v) <=> d["recovery"] # Undefined /\ d["interval"] = Snapshot(d)["interval"]
    BY <2>2, MatchMeans DEF ListedMatches, ListedRecord
  <2> QED
    BY <2>6, <2>7, <2>8
<1>2. RInv => WhichRecordsMatch
  BY <1>1 DEF WhichRecordsMatch
<1> QED
  BY <1>2, RInvHolds, PTL

\* The only VM with a healthy record that said in its last heartbeat that it is
\* the primary is elected.
THEOREM ReportedPrimaryIsElectedCorrect == ReportedSpec => []ReportedPrimaryIsElected
<1>1. RInv => ReportedPrimaryIsElected
  BY SolePrimaryFollows DEF RInv, Listed, ReportedPrimaryIsElected, SolePrimaryIsElected, Decided
<1> QED
  BY <1>1, RInvHolds, PTL

=============================================================================
