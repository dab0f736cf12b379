--------------------------- MODULE MCUpdateChannel ---------------------------
(***************************************************************************)
(* An instance of UpdateChannel for TLC: two builds that pass the canaries *)
(* and two that do not.                                                    *)
(***************************************************************************)
EXTENDS UpdateChannel, TLC

CONSTANTS v1, v2, v3, v4

MC_Symmetry == Permutations({v1, v2}) \cup Permutations({v3, v4})
=============================================================================
