--------------------------- MODULE MCRestartTarget ---------------------------
(***************************************************************************)
(* Instances of RestartTarget for TLC: two handoffs, of which the second   *)
(* supersedes the first, one admission operation, and states saved at      *)
(* several points of their lives; a session may emit the second one, too.  *)
(***************************************************************************)
EXTENDS RestartTarget, TLC

CONSTANTS h1, h2, op, seed, route

Body(s) == [flaw |-> None, supersedes |-> s, key |-> TRUE]

AtEmitted    == Emit(Fresh, TRUE, h1, Body(None))
AtAdmissible == Validate(AtEmitted, h1)
AtUnknown    == Admit(AtAdmissible, op, "VALID", "UNKNOWN")
AtBound      == BindSeed(Admit(AtAdmissible, op, "VALID", "COMMIT"), seed)
AtSuperseded == Validate(Emit(AtEmitted, TRUE, h2, Body(h1)), h2)

\* A session on the state before it leaves this one, too, with a key that
\* the fingerprint of the snapshot does not see.
AtBoth == Emit(AtUnknown, TRUE, h2, Body(None))

MC_Saved == {AtSuperseded, AtUnknown, AtBoth, AtBound}

MC_Initial == {Fresh, AtEmitted}

Admission(outcome) ==
  [type |-> "ADMIT", op |-> op, authority |-> "VALID", outcome |-> outcome]

MC_Command ==
  {[type |-> "EMIT_HANDOFF", accountable |-> TRUE, handoff |-> h2, packet |-> Body(None)],
   [type |-> "OBSERVE", handoff |-> h1], [type |-> "VALIDATE", handoff |-> h1],
   [type |-> "VALIDATE", handoff |-> h2], Admission("COMMIT"), Admission("UNKNOWN"),
   [type |-> "RECONCILE", op |-> op, decision |-> "COMMITTED"],
   [type |-> "BIND_SEED", seed |-> seed], [type |-> "EVALUATE_ROUTE"],
   [type |-> "COMMIT_ROUTE", route |-> route], [type |-> "REFUSE_SOURCE_MUTATION"]}

MC_Symmetry == Permutations(InstallOp) \cup Permutations(Session) \cup Permutations(CommandId)
=============================================================================
