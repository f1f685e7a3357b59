---------------------------- MODULE MCHeartbeat ----------------------------
(***************************************************************************)
(* Instances of Heartbeat for TLC: two invocations that are                *)
(* interchangeable.                                                        *)
(***************************************************************************)
EXTENDS Heartbeat, TLC

CONSTANTS i1, i2

\* Where a device starts to count matters only if it reports it; a sequence of 0
\* is treated as none, and the devices that report none are here.
MCConfig == {c \in Configs : c.first = 1}

\* Heartbeats in their proper sequence.
OrderedConfig == {c \in Configs : c.first = 1 /\ c.informed}

Interchangeable == Permutations({i1, i2})

=============================================================================
