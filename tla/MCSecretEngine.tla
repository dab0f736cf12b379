--------------------------- MODULE MCSecretEngine ---------------------------
(***************************************************************************)
(* Instances of SecretEngine for TLC: two handoffs and two operations,     *)
(* packets without a flaw that supersede nothing or the first handoff      *)
(* (which for the first is itself), and a packet of each way to fail.      *)
(***************************************************************************)
EXTENDS SecretEngine, TLC

CONSTANT First \* the handoff that packets supersede

Body(f, s) == [flaw |-> f, supersedes |-> s, key |-> TRUE]

MC_Emitted ==
  {Body(None, None), Body(None, First)}
    \cup {Body(f, None) : f \in {"missing", "auto_admit", "agentive", "blocking"}}

MC_Installed == {Body(f, None) : f \in {"schema", "type", "fingerprint"}}

\* The emitted packets of the small instance.
MC_Plain == {Body(None, None)}

MC_Symmetry == Permutations(Operation)
=============================================================================
