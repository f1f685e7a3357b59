---------------------------- MODULE MCLicensing ----------------------------
(***************************************************************************)
(* Instances of Licensing for TLC.  Invocations, VMs and licenses are      *)
(* interchangeable; requests for the same VM may overlap.                  *)
(***************************************************************************)
EXTENDS Licensing, TLC

CONSTANTS i1, i2, v1, v2, v3, l1, l2

MCEtag == 1..5

Interchangeable ==
    Permutations({i1, i2}) \cup Permutations(VM) \cup Permutations({l1, l2})

=============================================================================
