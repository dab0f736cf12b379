------------------------- MODULE CanonicalSerializer -------------------------
(***************************************************************************)
(* What is hashed of a runtime state (CanonicalSerializer.ts) and the hash *)
(* (CanonicalHashGenerator.ts).  Pure.  The text of a state is the record  *)
(* of what is written in it, and a hash is the value it is taken of.       *)
(* Identifiers are numbers, in the order localeCompare gives them.         *)
(***************************************************************************)
EXTENDS Naturals, Sequences, FiniteSets

\* A copy of s in the order of key, which has a tuple of numbers for each
\* place; ties keep their places, as they do in Array.prototype.sort.
StableSort(s, key) ==
  LET less(x, y) == \E n \in DOMAIN x : x[n] < y[n] /\ \A m \in 1..(n - 1) : x[m] = y[m]
      place(i) == 1 + Cardinality({j \in DOMAIN s :
                        less(key[j], key[i]) \/ (key[j] = key[i] /\ j < i)})
  IN [p \in DOMAIN s |-> s[CHOOSE i \in DOMAIN s : place(i) = p]]

\* normalizeRuntimeState; the canonicalStateHash of a state is not written.
NormalizeRuntimeState(s) ==
  [runtime_tick |-> s.runtimeTick, sequence_number |-> s.sequenceNumber,
   active_phase |-> s.activePhase, active_player_id |-> s.activePlayerId,
   priority_player_id |-> s.priorityPlayerId, stack_depth |-> s.stackDepth]

\* normalizeEntities
NormalizeEntities(entities) ==
  StableSort(entities, [i \in DOMAIN entities |-> <<entities[i].entityId>>])

\* normalizeCombatInstances: attackers and blockers keep their order.
NormalizeCombatInstances(combats) ==
  StableSort(combats, [i \in DOMAIN combats |-> <<combats[i].combatId>>])

\* CanonicalSerializer.serialize
Serialize(s) ==
  [runtime |-> NormalizeRuntimeState(s), entities |-> NormalizeEntities(s.entities),
   combat |-> NormalizeCombatInstances(s.combatInstances)]

\* generateAuditSignature, generate, verifyEquivalence
AuditSignature(hash, s) == <<s.runtimeTick, s.sequenceNumber, hash>>
Generate(s) ==
  [runtimeTick |-> s.runtimeTick, sequenceNumber |-> s.sequenceNumber,
   stateHash |-> Serialize(s), auditSignature |-> AuditSignature(Serialize(s), s)]
VerifyEquivalence(a, b) == a = b
=============================================================================
