--------------------------- MODULE MCRecoveryStore ---------------------------
(***************************************************************************)
(* Instances of RecoveryStore for TLC.  The envelopes are a genesis g, two *)
(* rival successors a and b of g, a successor d of a, r, which would       *)
(* succeed a but reuses the identity of g, and k, a second genesis, on     *)
(* which a does not rest.                                                  *)
(***************************************************************************)
EXTENDS PersistedRestart, TLC

MC_Core  == {"g", "a", "b", "d", "r"}
MC_Small == {"g", "a", "b"}
MC_Rival == {"g", "a", "k"}
MC_Id    == {"G", "A", "B", "D", "K"}

MC_SeqOf == [e \in Envelope |->
  CASE e \in {"g", "k"} -> 0 [] e \in {"a", "b"} -> 1 [] OTHER -> 2]

MC_PrevOf == [e \in Envelope |->
  CASE e \in {"g", "k"} -> None [] e \in {"a", "b"} -> "g" [] OTHER -> "a"]

MC_IdOf == [e \in Envelope |->
  CASE e \in {"g", "r"} -> "G" [] e = "a" -> "A" [] e = "b" -> "B" [] e = "d" -> "D"
    [] OTHER -> "K"]

\* Callers are interchangeable: nothing compares or orders them.
MC_Symmetry == Permutations(Caller)
=============================================================================
