--------------------------- MODULE ElectionScore ---------------------------
(***************************************************************************)
(* The weighted scores of one primary election: from the health check      *)
(* records of the VMs that may become the primary to the VM that is        *)
(* elected, if any.  The code finds maxima in single passes with a flag    *)
(* for ties; the records come from a query in any order, so each pass here *)
(* visits what is left in any order.                                       *)
(*                                                                         *)
(* VMs are numbered in the alphabetical order of their ids, which decides  *)
(* between equal send times.  PrimaryElection has the filters that make    *)
(* the candidates and what is done with the outcome.                       *)
(***************************************************************************)
EXTENDS Naturals, FiniteSets

CONSTANTS
    VM,
    Checksum,   \* configuration checksums that devices report
    Null        \* nothing reported, nothing found

\* Of a health check record, what the device said of itself in its last heartbeat.
Record == [checksum : Checksum \cup {Null}, syncTime : (Nat \ {0}) \cup {Null},
           isPrimary : BOOLEAN, sendTime : Nat]

ASSUME VMAssumption == VM \subseteq Nat /\ IsFiniteSet(VM)
ASSUME NullAssumption == Null \notin Nat /\ Null \notin Checksum

VARIABLES
    record,     \* candidate -> its record
    pc,         \* the pass that is running
    todo,       \* what this pass has not visited yet
    major,      \* the largest checksum group so far
    syncTimes,  \* checksum -> latest sync time so far, 0 for none
    latest,     \* the latest of these so far, and how many checksums share it
    score,
    best,       \* the highest score so far
    oldest,     \* the oldest send time so far
    winner

vars == <<record, pc, todo, major, syncTimes, latest, score, best, oldest, winner>>

Candidate == DOMAIN record
ChecksumOf(v) == record[v].checksum
Synced(v) == record[v].syncTime # Null
Members(c) == {v \in Candidate : ChecksumOf(v) = c}
ChecksumsOf(S) == {ChecksumOf(v) : v \in S}

-----------------------------------------------------------------------------
(* The weights of one candidate, once the passes over all of them are done. *)

haveChecksumWeight(v) == IF ChecksumOf(v) # Null THEN 1 ELSE 0

sharedChecksumWeight(v) ==
    IF ChecksumOf(v) # Null /\ Members(ChecksumOf(v)) # {v} THEN 2 ELSE 0

groupedChecksumWeight(v) ==
    IF ~major.tie /\ major.checksum = ChecksumOf(v) /\ ChecksumOf(v) # Null THEN 4 ELSE 0

\* Strictly the latest within its own checksum group.
latestSynctimeWeight(v) ==
    IF Synced(v) /\ \A w \in Members(ChecksumOf(v)) \ {v} :
                        Synced(w) => record[w].syncTime < record[v].syncTime
    THEN 8 ELSE 0

\* Mutant: like the major group, the latest one must have a checksum.
lateslGroupChecksumWeightNonNull(v) ==
    IF latest.count = 1 /\ latest.checksum = ChecksumOf(v) /\ ChecksumOf(v) # Null
    THEN 16 ELSE 0

lateslGroupChecksumWeight(v) ==
    IF latest.count = 1 /\ latest.checksum = ChecksumOf(v) THEN 16 ELSE 0

\* Mutant: the word of a device weighs less than its sync time.
primaryDeviceWeightLow(v) == IF record[v].isPrimary THEN 16 ELSE 0

primaryDeviceWeight(v) == IF record[v].isPrimary THEN 64 ELSE 0

Points(v) == haveChecksumWeight(v) + sharedChecksumWeight(v) + groupedChecksumWeight(v)
             + latestSynctimeWeight(v) + lateslGroupChecksumWeight(v) + primaryDeviceWeight(v)

-----------------------------------------------------------------------------
Init ==
    /\ \E S \in (SUBSET VM) \ {{}} : record \in [S -> Record]
    /\ pc = "groups" /\ todo = ChecksumsOf(Candidate)
    /\ major = [count |-> 1, tie |-> FALSE, checksum |-> Null]
    /\ syncTimes = [c \in Checksum \cup {Null} |-> 0]
    /\ latest = [time |-> 0, count |-> 0, checksum |-> Null]
    /\ score = [v \in Candidate |-> 0]
    /\ best = [score |-> 0, tie |-> FALSE, vm |-> Null]
    /\ oldest = [time |-> 0, vm |-> Null]
    /\ winner = Null

\* One more element of the running pass; and the end of a pass.
Visit(pass, x) == pc = pass /\ x \in todo /\ todo' = todo \ {x} /\ UNCHANGED <<record, pc>>
Finish(pass, next, S) == pc = pass /\ todo = {} /\ pc' = next /\ todo' = S /\ UNCHANGED record

\* Mutant: a larger group does not clear the tie of smaller ones.
VisitGroupKeepsTie(c) ==
    LET n == Cardinality(Members(c))
    IN /\ Visit("groups", c)
       /\ major' = IF n > major.count THEN [major EXCEPT !.count = n, !.checksum = c]
                   ELSE [major EXCEPT !.tie = @ \/ n = major.count]
       /\ UNCHANGED <<syncTimes, latest, score, best, oldest, winner>>

\* Groups of one never become the major one, but they do tie with each other.
VisitGroup(c) ==
    LET n == Cardinality(Members(c))
    IN /\ Visit("groups", c)
       /\ major' = IF n > major.count THEN [count |-> n, tie |-> FALSE, checksum |-> c]
                   ELSE [major EXCEPT !.tie = @ \/ n = major.count]
       /\ UNCHANGED <<syncTimes, latest, score, best, oldest, winner>>

GroupsDone ==
    /\ Finish("groups", "syncTimes", {v \in Candidate : Synced(v)})
    /\ UNCHANGED <<major, syncTimes, latest, score, best, oldest, winner>>

\* The latest sync time of each checksum ...
VisitSyncTime(v) ==
    /\ Visit("syncTimes", v)
    /\ syncTimes' = [syncTimes EXCEPT ![ChecksumOf(v)] =
                        IF record[v].syncTime > @ THEN record[v].syncTime ELSE @]
    /\ UNCHANGED <<major, latest, score, best, oldest, winner>>

SyncTimesDone ==
    /\ Finish("syncTimes", "latest", {c \in DOMAIN syncTimes : syncTimes[c] # 0})
    /\ UNCHANGED <<major, syncTimes, latest, score, best, oldest, winner>>

\* ... the latest of these, and how many checksums have it.
VisitLatest(c) ==
    /\ Visit("latest", c)
    /\ latest' = IF syncTimes[c] > latest.time
                 THEN [time |-> syncTimes[c], count |-> 1, checksum |-> c]
                 ELSE IF syncTimes[c] = latest.time
                 THEN [latest EXCEPT !.count = @ + 1] ELSE latest
    /\ UNCHANGED <<major, syncTimes, score, best, oldest, winner>>

Weigh ==
    /\ Finish("latest", "scores", Candidate)
    /\ score' = [v \in Candidate |-> Points(v)]
    /\ UNCHANGED <<major, syncTimes, latest, best, oldest, winner>>

VisitScore(v) ==
    /\ Visit("scores", v)
    /\ best' = IF score[v] > best.score THEN [score |-> score[v], tie |-> FALSE, vm |-> v]
               ELSE [best EXCEPT !.tie = @ \/ score[v] = best.score]
    /\ UNCHANGED <<major, syncTimes, latest, score, oldest, winner>>

Outscores == best.score > 0 /\ ~best.tie

\* When the oldest send time decides (fairWeight): nobody has synced, all
\* checksums differ, and all scores are equal.
FairApplies ==
    /\ \A v \in Candidate : ~Synced(v)
    /\ \A c \in ChecksumsOf(Candidate) : Cardinality(Members(c)) = 1
    /\ \A v, w \in Candidate : score[v] = score[w]

ElectBest ==
    /\ Finish("scores", "elected", {}) /\ Outscores
    /\ winner' = best.vm
    /\ UNCHANGED <<major, syncTimes, latest, score, best, oldest>>

TryFair ==
    /\ Finish("scores", IF FairApplies THEN "oldest" ELSE "undetermined",
              IF FairApplies THEN Candidate ELSE {})
    /\ ~Outscores
    /\ UNCHANGED <<major, syncTimes, latest, score, best, oldest, winner>>

\* Mutant: the time that is not set yet counts as the oldest.
OlderThanEpoch(v) ==
    \/ record[v].sendTime < oldest.time
    \/ record[v].sendTime = oldest.time /\ v < oldest.vm

Older(v) ==
    \/ oldest.vm = Null
    \/ record[v].sendTime < oldest.time
    \/ record[v].sendTime = oldest.time /\ v < oldest.vm

VisitSendTime(v) ==
    /\ Visit("oldest", v)
    /\ oldest' = IF Older(v) THEN [time |-> record[v].sendTime, vm |-> v] ELSE oldest
    /\ UNCHANGED <<major, syncTimes, latest, score, best, winner>>

ElectOldest ==
    /\ Finish("oldest", "elected", {})
    /\ winner' = oldest.vm
    /\ UNCHANGED <<major, syncTimes, latest, score, best, oldest>>

Next ==
    \/ \E c \in Checksum \cup {Null} : VisitGroup(c) \/ VisitLatest(c)
    \/ \E v \in Candidate : VisitSyncTime(v) \/ VisitScore(v) \/ VisitSendTime(v)
    \/ GroupsDone \/ SyncTimesDone \/ Weigh \/ ElectBest \/ TryFair \/ ElectOldest

Spec == Init /\ [][Next]_vars

-----------------------------------------------------------------------------
(* What the passes are meant to find, in terms of the records alone.        *)

MajorGroup(c) == /\ c # Null /\ Cardinality(Members(c)) > 1
                 /\ \A d \in ChecksumsOf(Candidate) \ {c} :
                        Cardinality(Members(d)) < Cardinality(Members(c))

LatestGroup(c) == \E v \in Members(c) :
                     /\ Synced(v)
                     /\ \A w \in Candidate \ Members(c) :
                            Synced(w) => record[w].syncTime < record[v].syncTime

MajorWorth(v) == IF MajorGroup(ChecksumOf(v)) THEN 4 ELSE 0
LatestWorth(v) == IF LatestGroup(ChecksumOf(v)) THEN 16 ELSE 0

Worth(v) == haveChecksumWeight(v) + sharedChecksumWeight(v) + MajorWorth(v)
            + latestSynctimeWeight(v) + LatestWorth(v) + primaryDeviceWeight(v)

Beats(v) == Worth(v) > 0 /\ \A w \in Candidate \ {v} : Worth(w) < Worth(v)

FirstOfEquals(v) ==
    /\ \A w \in Candidate : ~Beats(w) /\ ~Synced(w) /\ Worth(w) = Worth(v)
    /\ \A w \in Candidate \ {v} :
           /\ ChecksumOf(w) # ChecksumOf(v)
           /\ record[v].sendTime <= record[w].sendTime
           /\ record[v].sendTime = record[w].sendTime => v < w
    /\ \A u, w \in Candidate : u # w => ChecksumOf(u) # ChecksumOf(w)

Weighed == pc \in {"scores", "oldest", "elected", "undetermined"}
Decided == pc \in {"elected", "undetermined"}

-----------------------------------------------------------------------------
(* Properties *)

\* Every variable has its type; an election that is over has elected one of the
\* candidates or nobody.
TypeOK ==
    /\ Candidate \in (SUBSET VM) \ {{}} /\ record \in [Candidate -> Record]
    /\ pc \in {"groups", "syncTimes", "latest", "scores", "oldest", "elected", "undetermined"}
    /\ todo \subseteq CASE pc \in {"groups", "latest"} -> Checksum \cup {Null}
                        [] OTHER -> Candidate
    /\ major \in [count : Nat \ {0}, tie : BOOLEAN, checksum : Checksum \cup {Null}]
    /\ syncTimes \in [Checksum \cup {Null} -> Nat]
    /\ latest \in [time : Nat, count : Nat, checksum : Checksum \cup {Null}]
    /\ score \in [Candidate -> Nat]
    /\ best \in [score : Nat, tie : BOOLEAN, vm : Candidate \cup {Null}]
    /\ oldest \in [time : Nat, vm : Candidate \cup {Null}]
    /\ winner \in Candidate \cup {Null}
    /\ winner # Null <=> pc = "elected"

\* Whatever order the records come in, candidates score the same and the same VM
\* is elected: the one that the records by themselves make the best, and nobody
\* if they single out nobody (two invocations that see the same records elect
\* the same primary).
OrderDoesNotMatter ==
    /\ Weighed => \A v \in Candidate : score[v] = Worth(v)
    /\ Decided => \A v \in Candidate : winner = v <=> Beats(v) \/ FirstOfEquals(v)

\* If one candidate only says that it is the primary, it stays the primary,
\* whatever checksums and sync times the others have (all other weights
\* together are less than primaryDeviceWeight).
SolePrimaryIsElected ==
    Decided => \A v \in Candidate :
        record[v].isPrimary /\ (\A w \in Candidate \ {v} : ~record[w].isPrimary)
        => winner = v

\* A VM that has never synced, and so would lose the group its configuration
\* (the KNOWN ISSUE that this method is to solve), is elected only if no
\* candidate has ever synced or it says that it is the primary.
NewcomerIsLastResort ==
    pc = "elected" /\ ~Synced(winner) /\ ~record[winner].isPrimary =>
        \A v \in Candidate : ~Synced(v)

=============================================================================
