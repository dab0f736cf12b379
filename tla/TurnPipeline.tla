----------------------------- MODULE TurnPipeline -----------------------------
(***************************************************************************)
(* The turn pipeline (turn-pipeline.ts), the signature of a run            *)
(* (runtime-signature.ts) and the replay result it is registered as        *)
(* (replay-verifier.ts).  Pure functions.  A hash is the value it is taken *)
(* of: two hashes are equal when the values are, and collisions of the     *)
(* 32-bit djb2 are left out.  A text is the tuple of what it is built of.  *)
(*                                                                         *)
(* A definition named Mutant_* is a wrong form of the one below it.        *)
(***************************************************************************)
EXTENDS Naturals, Sequences

CONSTANTS
  PhaseOrder,  \* the phases of a turn, in order
  Label,       \* labels of intents, "begin main" and others
  None

N == Len(PhaseOrder)
Phase == {PhaseOrder[i] : i \in 1..N}

-----------------------------------------------------------------------------
\* buildRuntimeSignature; the combined hash covers neither the number of
\* actions nor the proof.
Signature(scenario, initial, actions, final, audit, proof) ==
  [scenarioId |-> scenario, actionCount |-> Len(actions),
   initialStateHash |-> initial, inputHash |-> actions, finalStateHash |-> final,
   auditHash |-> audit, deterministicProof |-> proof,
   combinedHash |-> <<scenario, initial, actions, final, audit>>]

\* verifyRuntimeSignature
Verifies(scenario, initial, actions, final, audit, proof, claimed) ==
  claimed = Signature(scenario, initial, actions, final, audit, proof)

\* assembleResult: the proof is TRUE by default.
Result(scenario, actions, initial, final, audit) ==
  [scenarioId |-> scenario, orderedActions |-> actions, initialState |-> initial,
   finalState |-> final, auditTrail |-> audit,
   signature |-> Signature(scenario, initial, actions, final, audit, TRUE)]

-----------------------------------------------------------------------------
\* A turn before any phase has run.
NewTurn(turn, pressure) ==
  [turnId |-> turn, currentPhase |-> None, completedPhases |-> <<>>,
   pressureLevel |-> pressure, resolved |-> FALSE]

\* What is signed of a state: the number of the completed phases only.
Serialisable(s) ==
  [turnId |-> s.turnId, currentPhase |-> s.currentPhase, pressureLevel |-> s.pressureLevel,
   resolved |-> s.resolved, completedPhaseCount |-> Len(s.completedPhases)]

\* The state after the first n phases have run.
After(s, n) ==
  IF n = 0 THEN s
  ELSE [s EXCEPT !.currentPhase = PhaseOrder[n],
                 !.completedPhases = @ \o SubSeq(PhaseOrder, 1, n), !.resolved = (n = N)]

\* What a run records of its first n phases, given the label of each.
Trail(labels, n) == [i \in 1..n |-> <<PhaseOrder[i], labels[i]>>]
Actions(labels, n) == [i \in 1..n |-> [label |-> <<PhaseOrder[i], labels[i]>>, index |-> i - 1]]

Run(scenario, initial, labels) ==
  LET final == After(initial, N) IN
  [scenarioId |-> scenario, initialState |-> initial, finalState |-> final,
   phaseTransitions |-> PhaseOrder, auditTrail |-> Trail(labels, N),
   orderedActions |-> Actions(labels, N),
   signature |-> Signature(scenario, Serialisable(initial), Actions(labels, N),
                           Serialisable(final), Trail(labels, N), TRUE)]

\* The label runTurnPipeline uses for a phase: that of the LAST intent for
\* it wherever it stands, or else the name of the phase.
PlainLabel(intents, phase) ==
  LET at == {i \in DOMAIN intents : intents[i].phase = phase} IN
  IF at = {} THEN <<phase>> ELSE intents[CHOOSE i \in at : \A j \in at : j <= i].label

\* runTurnPipeline
RunTurnPipeline(scenario, initial, intents) ==
  Run(scenario, initial, [i \in 1..N |-> PlainLabel(intents, PhaseOrder[i])])

-----------------------------------------------------------------------------
\* An intent that is not of the phase expected at its place.
OutOfOrder(intents, i) ==
  i \in 1..N /\ i \in DOMAIN intents /\ intents[i].phase # PhaseOrder[i]
FirstOutOfOrder(intents) ==
  CHOOSE i \in 1..N : OutOfOrder(intents, i) /\ \A j \in 1..(i - 1) : ~OutOfOrder(intents, j)

\* The FailureGuardResult at place i; what ran before it is kept in it.
Failure(scenario, initial, intents, i) ==
  LET labels == [j \in 1..(i - 1) |-> intents[j].label]
      prior == Serialisable(After(initial, i - 1))
  IN [scenarioId |-> scenario, failureCode |-> "OUT_OF_ORDER_PHASE",
      expectedPhase |-> PhaseOrder[i], receivedPhase |-> intents[i].phase,
      priorStateSummary |-> prior, auditTrailUpToFailure |-> Trail(labels, i - 1),
      failureSignature |-> Signature(scenario, Serialisable(initial), Actions(labels, i - 1),
                                     prior, Trail(labels, i - 1), TRUE)]

Thrown == [thrown |-> TRUE]

\* runTurnPipelineGuarded.  An intent that is missing counts as the expected
\* one, and then its label is read, which throws.
Mutant_KeepsTheRejected(scenario, initial, intents) ==
  IF \E i \in 1..N : OutOfOrder(intents, i)
    THEN LET f == Failure(scenario, initial, intents, FirstOutOfOrder(intents))
         IN [f EXCEPT !.auditTrailUpToFailure = Append(@, <<f.receivedPhase, None>>)]
  ELSE IF Len(intents) < N THEN Thrown
  ELSE Run(scenario, initial, [i \in 1..N |-> intents[i].label])
RunTurnPipelineGuarded(scenario, initial, intents) ==
  IF \E i \in 1..N : OutOfOrder(intents, i)
    THEN Failure(scenario, initial, intents, FirstOutOfOrder(intents))
  ELSE IF Len(intents) < N THEN Thrown
  ELSE Run(scenario, initial, [i \in 1..N |-> intents[i].label])

\* isFailureGuardResult
IsFailure(r) == "failureCode" \in DOMAIN r

-----------------------------------------------------------------------------
\* pipelineResultToReplay
Replay(r) ==
  Result(r.scenarioId, r.orderedActions, Serialisable(r.initialState),
         Serialisable(r.finalState), r.auditTrail)

Begin(phase) == <<"begin", phase>>
CleanIntents == [i \in 1..N |-> [phase |-> PhaseOrder[i], label |-> Begin(PhaseOrder[i])]]

\* The invalid sequence: the second phase is skipped, and comes third.
InvalidIntents == [CleanIntents EXCEPT ![2] = CleanIntents[3], ![3] = CleanIntents[2]]

\* firstCleanTurnScenario
FirstCleanTurn(scenario) == Replay(RunTurnPipeline(scenario, NewTurn("turn-1", 0), CleanIntents))

\* mutatedMainIntentScenario: another pressure, another label of the third phase.
MutatedMainIntent(scenario) ==
  Replay(RunTurnPipeline(scenario, NewTurn("turn-1", 5),
                         [CleanIntents EXCEPT ![3].label = <<"pressure disruption in main">>]))

\* What the two failure scenarios record of a failure: the completed phases
\* and the rejected intent.
FailureTrail(f) ==
  Append(f.auditTrailUpToFailure, <<f.failureCode, f.expectedPhase, f.receivedPhase>>)
FailureActions(f) ==
  LET n == Len(f.auditTrailUpToFailure) IN
  Append([i \in 1..n |-> [label |-> f.auditTrailUpToFailure[i], index |-> i - 1]],
         [label |-> <<f.receivedPhase, Begin(f.receivedPhase), "REJECTED">>, index |-> n])

\* invalidPhaseOrderScenario
InvalidPhaseOrder(scenario) ==
  LET initial == NewTurn("turn-fail", 0)
      f == RunTurnPipelineGuarded(scenario, initial, InvalidIntents)
  IN Result(scenario, FailureActions(f), Serialisable(initial), f.priorStateSummary, FailureTrail(f))

\* runTurnPhaseRecovery, failureThenCleanRecoveryScenario: the failure, a
\* separator, and a clean turn that shares no state with it.
FailureThenCleanRecovery(scenario, invalid, clean) ==
  LET initial == NewTurn("turn-fail", 0)
      f == RunTurnPipelineGuarded(invalid, initial, InvalidIntents)
      r == RunTurnPipeline(clean, NewTurn("turn-1", 0), CleanIntents)
      rejected == FailureActions(f)
      again == [i \in 1..N |-> [label |-> r.auditTrail[i], index |-> Len(rejected) + i - 1]]
  IN Result(scenario, rejected \o again, Serialisable(initial), Serialisable(r.finalState),
            FailureTrail(f) \o << <<"RECOVERY:START">> >> \o r.auditTrail)
=============================================================================
