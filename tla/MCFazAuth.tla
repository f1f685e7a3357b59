----------------------------- MODULE MCFazAuth -----------------------------
(***************************************************************************)
(* An instance of FazAuth for TLC.                                         *)
(***************************************************************************)
EXTENDS FazAuth

CONSTANTS a, b

=============================================================================
