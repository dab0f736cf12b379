------------------------- MODULE MCCanonicalRuntime -------------------------
(***************************************************************************)
(* An instance of CanonicalRuntime for TLC: two entities, two zones.       *)
(***************************************************************************)
EXTENDS CanonicalRuntime
=============================================================================
