----------------------------- MODULE MCSettings -----------------------------
(***************************************************************************)
(* An instance of Settings for TLC.                                        *)
(***************************************************************************)
EXTENDS Settings

CONSTANTS i1, i2, a, b

=============================================================================
