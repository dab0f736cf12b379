-------------------------- MODULE CanonicalRuntime --------------------------
(***************************************************************************)
(* The runtime core (RuntimeCore.ts), its event bus                        *)
(* (AppendOnlyCanonicalEventBusV1.ts), the event sequencer                 *)
(* (EventSequencer.ts), the replay and rollback engines (ReplayEngine.ts,  *)
(* RollbackEngine.ts) and the synchronization engine                       *)
(* (SynchronizationEngine.ts), one object of each, called by a program     *)
(* that plays a game: it holds the runtime state, which none of the        *)
(* objects changes.  Node runs one call at a time.                         *)
(***************************************************************************)
EXTENDS CanonicalSerializer

CONSTANTS
  EventType,    \* a set of numbers, in the order localeCompare gives the types
  Entity,       \* entities in play, a set of numbers
  Zone,         \* zones an entity may be in
  MaxTick,      \* bound: ticks the caller plays
  MaxCalls,     \* bound: values of each counter, events of a log, checkpoints
  None

VARIABLES
  state,        \* the runtime state of the caller
  core,         \* RuntimeCore: runtimeActive and runtimeTick
  bus,          \* the event bus
  sequencer,    \* the event sequencer
  rollback,     \* RollbackEngine: its checkpoints, rollbackActive and the target
  sync,         \* the synchronizationState of the synchronization engine
  returned      \* what the last rollback was asked and returned, or None

vars == <<state, core, bus, sequencer, rollback, sync, returned>>

\* A call is made only while start is not running: start never returns,
\* because nothing runs in its loop that calls stop.
Free == ~core.active

-----------------------------------------------------------------------------
\* What the program that calls does to its own state, and the inputs it has.
States0 ==
  [runtimeTick |-> 0, sequenceNumber |-> 0, activePhase |-> "START_PHASE", activePlayerId |-> "P1",
   priorityPlayerId |-> "P1", stackDepth |-> 0,
   entities |-> [i \in 1..Cardinality(Entity) |->
                  [entityId |-> i, ownerId |-> "P1", zone |-> CHOOSE z \in Zone : TRUE]],
   combatInstances |-> <<>>]

Play ==
  /\ Free /\ state.runtimeTick < MaxTick
  /\ \E i \in DOMAIN state.entities, z \in Zone :
       state' = [state EXCEPT !.runtimeTick = @ + 1, !.sequenceNumber = @ + 1,
                              !.entities[i].zone = z]
  /\ UNCHANGED <<core, bus, sequencer, rollback, sync, returned>>

Input ==
  [eventType : EventType, source : Entity \cup {0}, targets : {<<>>} \cup {<<e>> : e \in Entity}]

-----------------------------------------------------------------------------
(* The bus. *)

\* advanceRuntimeTick
BusAdvances ==
  /\ Free /\ bus.runtimeTick < MaxCalls
  /\ bus' = [bus EXCEPT !.runtimeTick = @ + 1]
  /\ UNCHANGED <<state, core, sequencer, rollback, sync, returned>>

\* registerProcessor
RegisterProcessor ==
  /\ Free
  /\ \E t \in EventType :
       /\ bus.processors[t] < MaxCalls
       /\ bus' = [bus EXCEPT !.processors[t] = @ + 1]
  /\ UNCHANGED <<state, core, sequencer, rollback, sync, returned>>

\* The event appendEvent makes: both hashes are those of the state it is
\* given, and no processor is called.
CanonicalEvent(input, parent, s) ==
  LET hash == Generate(s).stateHash IN
  [eventType |-> input.eventType, sequenceNumber |-> bus.sequenceNumber + 1,
   runtimeTick |-> bus.runtimeTick, causalParentEventId |-> parent,
   sourceEntityId |-> input.source, targetEntityIds |-> input.targets,
   stateBeforeHash |-> hash, stateAfterHash |-> hash,
   auditSignature |-> AuditSignature(hash, s), immutabilityLock |-> TRUE]

\* appendEvent; an event is known by its sequence number.
AppendEvent ==
  /\ Free /\ bus.sequenceNumber < MaxCalls
  /\ \E input \in Input, parent \in {None, sequencer.lastEventId} :
       bus' = [bus EXCEPT !.sequenceNumber = @ + 1,
                          !.log = Append(@, CanonicalEvent(input, parent, state))]
  /\ UNCHANGED <<state, core, sequencer, rollback, sync, returned>>

-----------------------------------------------------------------------------
(* The sequencer. *)

Sequencer0 ==
  [currentRuntimeTick |-> 0, currentSequenceNumber |-> 0, lastEventId |-> None,
   currentPriorityPlayerId |-> "P1", priorityPassCount |-> 0]

\* orderInputs: by type, then source, then targets.
OrderInputs(inputs) ==
  LET first(ts) == IF ts = <<>> THEN 0 ELSE ts[1]
      key(e) == <<e.eventType, e.source, first(e.targets)>>
  IN StableSort(inputs, [i \in DOMAIN inputs |-> key(inputs[i])])

\* verifyReplaySequence, interruptionWindowClosed
VerifyReplaySequence(expected) == expected = sequencer.currentSequenceNumber
InterruptionWindowClosed(players) == sequencer.priorityPassCount >= players

\* advanceRuntimeTick, generateSequenceNumber, registerEvent,
\* openInterruptionWindow, registerPriorityPass (up to the two players, a
\* bound) and reset; a reset leaves the player who has priority.
SequencerMoves ==
  \/ /\ sequencer.currentRuntimeTick < MaxCalls
     /\ sequencer' = [sequencer EXCEPT !.currentRuntimeTick = @ + 1, !.priorityPassCount = 0]
  \/ /\ sequencer.currentSequenceNumber < MaxCalls
     /\ sequencer' = [sequencer EXCEPT !.currentSequenceNumber = @ + 1]
  \/ \E i \in DOMAIN bus.log :
       sequencer' = [sequencer EXCEPT !.lastEventId = bus.log[i].sequenceNumber]
  \/ \E p \in {"P1", "P2"} :
       sequencer' = [sequencer EXCEPT !.currentPriorityPlayerId = p, !.priorityPassCount = 0]
  \/ /\ ~InterruptionWindowClosed(2)
     /\ sequencer' = [sequencer EXCEPT !.priorityPassCount = @ + 1]
  \/ sequencer' = [Sequencer0 EXCEPT !.currentPriorityPlayerId = sequencer.currentPriorityPlayerId]

Sequence == Free /\ SequencerMoves /\ UNCHANGED <<state, core, bus, rollback, sync, returned>>

-----------------------------------------------------------------------------
(* Checkpoints, replay and rollback. *)

Checkpoint(s) ==
  [runtimeTick |-> s.runtimeTick, sequenceNumber |-> s.sequenceNumber,
   canonicalStateHash |-> Generate(s).stateHash, serializedState |-> Serialize(s)]

\* registerCheckpoint, of the state the caller is in
RegisterCheckpoint ==
  /\ Free /\ Len(rollback.checkpoints) < MaxCalls
  /\ rollback' = [rollback EXCEPT !.checkpoints = Append(@, Checkpoint(state))]
  /\ UNCHANGED <<state, core, bus, sequencer, sync, returned>>

\* new ReplayEngine, applyEvent, startReplay, getReplayState: the events are
\* counted, and the state is the one that was given.
ReplayState(record, initial) == [state |-> initial, cursor |-> 0]
VerifyReplay(replay, authoritative) ==
  VerifyEquivalence(Generate(authoritative).stateHash, Generate(replay.state).stateHash)

\* findClosestCheckpoint: the first of the highest tick not after the target
Closest(target) ==
  LET At == {i \in DOMAIN rollback.checkpoints : rollback.checkpoints[i].runtimeTick <= target}
      Better(i, j) == \/ rollback.checkpoints[i].runtimeTick > rollback.checkpoints[j].runtimeTick
                      \/ rollback.checkpoints[i].runtimeTick = rollback.checkpoints[j].runtimeTick /\ i <= j
  IN IF At = {} THEN None ELSE CHOOSE i \in At : \A j \in At : Better(i, j)

\* executeRollback from the state of the caller.  Without a checkpoint it
\* throws, and the rollback stays active.
ExecuteRollback ==
  /\ Free
  /\ \E target \in 0..MaxTick :
       IF Closest(target) = None
         THEN /\ rollback' = [rollback EXCEPT !.active = TRUE, !.target = target]
              /\ returned' = None
         ELSE LET replay == ReplayState(bus.log, state) IN
              /\ rollback' = [rollback EXCEPT !.active = ~VerifyReplay(replay, state),
                                              !.target = target]
              /\ returned' = IF VerifyReplay(replay, state)
                               THEN [target |-> target, from |-> Closest(target),
                                     state |-> replay.state]
                               ELSE None
  /\ UNCHANGED <<state, core, bus, sequencer, sync>>

\* verifyCanonicalState of the states of several runtimes: that of the
\* caller, and copies that may have missed its last move.  Of no state at
\* all, the last verdict is the answer.
VerifyCanonicalState ==
  /\ Free
  /\ \E others \in {<<>>, <<state>>, <<States0>>}, first \in BOOLEAN :
       LET given == IF first THEN <<state>> \o others ELSE <<>>
           hash == Generate(state).stateHash
           same == \A i \in DOMAIN given : VerifyEquivalence(hash, Generate(given[i]).stateHash)
       IN sync' = IF given = <<>> THEN sync
                  ELSE [synchronized |-> same, authoritativeHash |-> hash,
                        rollbackRequired |-> ~same, desyncDetected |-> ~same]
  /\ UNCHANGED <<state, core, bus, sequencer, rollback, returned>>

-----------------------------------------------------------------------------
(* The runtime core. *)

\* start, and stop before it, which changes nothing
Start ==
  /\ Free /\ core' = [core EXCEPT !.active = TRUE]
  /\ UNCHANGED <<state, bus, sequencer, rollback, sync, returned>>

\* executeDeterministicTick: no event is ever processed.
ExecuteDeterministicTick ==
  /\ core.active
  /\ core' = [core EXCEPT !.tick = IF @ < MaxCalls THEN @ + 1 ELSE @]
  /\ UNCHANGED <<state, bus, sequencer, rollback, sync, returned>>

Init ==
  /\ state = States0
  /\ core = [active |-> FALSE, tick |-> 0]
  /\ bus = [log |-> <<>>, processors |-> [t \in EventType |-> 0],
            sequenceNumber |-> 0, runtimeTick |-> 0]
  /\ sequencer = Sequencer0
  /\ rollback = [checkpoints |-> <<>>, active |-> FALSE, target |-> 0]
  /\ sync = [synchronized |-> TRUE, authoritativeHash |-> None, rollbackRequired |-> FALSE,
             desyncDetected |-> FALSE]
  /\ returned = None

Next ==
  \/ Play \/ BusAdvances \/ RegisterProcessor \/ AppendEvent \/ Sequence
  \/ RegisterCheckpoint \/ ExecuteRollback \/ VerifyCanonicalState
  \/ Start \/ ExecuteDeterministicTick

Spec == Init /\ [][Next]_vars
-----------------------------------------------------------------------------
\* A rollback that returns has reconstructed the state of the checkpoint it
\* says it restores, or a later one that is not after its target:
\* "rollback reconstruction restores canonical reality identically"
\* (tests/RollbackEquivalence.test.ts), "previous legal state can be
\* reconstructed safely" (tests/determinism/ROLLBACK_VERIFICATION_RULES.md).
RollbackRestores ==
  returned # None =>
    /\ rollback.checkpoints[returned.from].runtimeTick <= returned.state.runtimeTick
    /\ returned.state.runtimeTick <= returned.target
=============================================================================
