------------------------- MODULE MCPrimaryElection -------------------------
(***************************************************************************)
(* Instances of PrimaryElection for TLC.                                   *)
(***************************************************************************)
EXTENDS PrimaryElection

CONSTANTS a, b, c

\* Scores may favour any candidate, or none.
AnyVerdict(S) == S \cup {None}

\* Scores that always single one candidate out: a before b before c.
RankedVerdict(S) ==
    IF a \in S THEN {a} ELSE IF b \in S THEN {b} ELSE IF c \in S THEN {c} ELSE {None}

MCEtag == 1..8

=============================================================================
