----------------------------- MODULE MCApiCache -----------------------------
(***************************************************************************)
(* Instances of ApiCache for TLC.                                          *)
(***************************************************************************)
EXTENDS ApiCache, TLC

CONSTANTS i1, i2, v1, v2

Interchangeable == Permutations({i1, i2}) \cup Permutations({v1, v2})

=============================================================================
