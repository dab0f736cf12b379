--------------------------- MODULE PersistedRestart ---------------------------
(***************************************************************************)
(* preparePersistedRestart (posix-secret-engine-persisted-restart-         *)
(* reload.ts): a load of the recovery store by an external checkpoint,     *)
(* turned into a restart candidate that an installation may use at any     *)
(* later time, while other callers go on appending.                        *)
(*                                                                         *)
(* Nothing is awaited but the load, so a preparation is a load of          *)
(* RecoveryStore and a function of its answer; the packet it hands out is  *)
(* modelled by the envelope it is made from.  Malformed inputs and live    *)
(* identities, refused before the load, are left out.                      *)
(*                                                                         *)
(* A definition named Mutant_... is a wrong form of the one below it.      *)
(***************************************************************************)
EXTENDS RecoveryStore

\* parseInput: the checkpoint, and the envelopes whose runtime artifact is on
\* the restart's own list.
ParseInput(cp, allowed) ==
  IF cp = None THEN "RESTART-HOLD-CHECKPOINT-REQUIRED"
  ELSE IF allowed = {} THEN "RESTART-HOLD-BASELINE" ELSE "PROCEED"

\* mapStoreResult, of an answer that is not a candidate; a caller whose
\* process died has no answer.  Codes that the model of the store folds into
\* INVALID-RECORD are not told apart.
MapStoreResult(code) ==
  CASE code = "STORE-LOCAL-INTEGRITY-ONLY" -> "RESTART-HOLD-LOCAL-INTEGRITY-ONLY"
    [] code = "STORE-HOLD-ORPHAN-STAGING" -> "RESTART-HOLD-ORPHAN-STAGING"
    [] code = "STORE-CONFLICT-CHECKPOINT" -> "RESTART-CONFLICT-CHECKPOINT"
    [] code \in {"STORE-CONFLICT-FORK", "STORE-CONFLICT-SEQUENCE", "STORE-CONFLICT-PREV-HASH",
                 "STORE-CONFLICT-SLOT", "STORE-CONFLICT-HEAD-CHANGED"} ->
         "RESTART-CONFLICT-STORE-CHAIN"
    [] code = "STORE-REFUSE-PATH" -> "RESTART-REFUSE-PATH"
    [] code = "NO-RESULT" -> "NO-RESULT"
    [] OTHER -> "RESTART-INVALID-STORE-EVIDENCE"

\* The record at the end of the chain that a load has verified: its candidate.
Candidate(c) == CHOOSE h \in seen[c] : IsHead(seen[c], h)

\* checkpointMatches, candidateLooksComplete and the comparison of sequences.
CandidateMatches(c) == seen[c] # {} /\ Candidate(c) = call[c].head

\* preparePersistedRestart, once the load of c has answered.
PreparePersistedRestart(c, allowed) ==
  IF ParseInput(call[c].head, allowed) # "PROCEED" THEN ParseInput(call[c].head, allowed)
  ELSE IF result[c] # "STORE-VALID-CANDIDATE" THEN MapStoreResult(result[c])
  ELSE IF ~CandidateMatches(c) THEN "RESTART-CONFLICT-CANDIDATE"
  ELSE IF Candidate(c) \notin allowed THEN "RESTART-HOLD-BASELINE"
  ELSE "RESTART-READY-CANDIDATE"

\* A prepared restart stays one from the store's history, however long it is
\* kept and whatever is appended meanwhile: its record and every earlier one
\* are exactly those that the load verified, and its record is the checkpoint.
\* And a load vouches for nothing else, with a checkpoint or without.
RestartIsFromHistory ==
  \A c \in Caller : pc[c] = Idle /\ call[c].op = "load" =>
    /\ result[c] \in {"STORE-VALID-CANDIDATE", "STORE-LOCAL-INTEGRITY-ONLY"} =>
         seen[c] # {} /\ seen[c] \subseteq finals /\ IsChain(seen[c])
    /\ \A allowed \in SUBSET Envelope :
         PreparePersistedRestart(c, allowed) = "RESTART-READY-CANDIDATE" =>
           /\ Candidate(c) = call[c].head /\ VerifyEnvelope(Candidate(c))
           /\ {f \in finals : SeqOf[f] <= SeqOf[Candidate(c)]} = seen[c]
=============================================================================
