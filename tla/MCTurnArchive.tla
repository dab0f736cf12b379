---------------------------- MODULE MCTurnArchive ----------------------------
(***************************************************************************)
(* An instance of TurnArchive for TLC: turns of three phases, the first,   *)
(* one between and the last, which is the least in which a phase can be    *)
(* skipped and come later; up to one intent too many.                      *)
(***************************************************************************)
EXTENDS TurnArchive, TLC

MC_PhaseOrder == <<"StartOfTurn", "Main", "EndOfTurn">>
MC_Label == {Begin("Main"), <<"other">>}

\* The registered scenarios: a recovery repeats the clean turn after what
\* the invalid order left, and a mutated label of one phase changes the
\* record of that phase only.
ASSUME ScenarioAssumption ==
  LET clean == FirstCleanTurn("s")
      invalid == InvalidPhaseOrder("s")
      recovery == FailureThenCleanRecovery("s", "s", "s")
      mutated == MutatedMainIntent("s") IN
  /\ recovery.auditTrail = invalid.auditTrail \o << <<"RECOVERY:START">> >> \o clean.auditTrail
  /\ recovery.finalState = clean.finalState /\ recovery.initialState = invalid.initialState
  /\ \A i \in DOMAIN recovery.orderedActions : recovery.orderedActions[i].index = i - 1
  /\ ~invalid.finalState.resolved
  /\ \A i \in 1..N : (clean.auditTrail[i] = mutated.auditTrail[i]) = (i # 3)
  /\ clean.signature.combinedHash # mutated.signature.combinedHash

Serializer == INSTANCE CanonicalSerializer

\* The other hash, of a state of the runtime core: it does not depend on the
\* order its entities come in, and tells any two entities apart.
ASSUME SerializerAssumption ==
  LET Entity == [entityId : 1..2, zone : {"board", "grave"}]
      State(es) ==
        [runtimeTick |-> 0, sequenceNumber |-> 0, activePhase |-> "START_PHASE",
         activePlayerId |-> "P1", priorityPlayerId |-> "P1", stackDepth |-> 0,
         entities |-> es, combatInstances |-> <<>>]
  IN \A a, b, c, d \in Entity : a.entityId < b.entityId /\ c.entityId < d.entityId =>
       /\ Serializer!Generate(State(<<a, b>>)) = Serializer!Generate(State(<<b, a>>))
       /\ Serializer!VerifyEquivalence(Serializer!Generate(State(<<a, b>>)),
                                      Serializer!Generate(State(<<d, c>>)))
            = (<<a, b>> = <<c, d>>)
=============================================================================
