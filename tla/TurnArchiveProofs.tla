---------------------------- MODULE TurnArchiveProofs ----------------------------
(***************************************************************************)
(* Proofs about the turn archive (TurnArchive): turns of any phases, any   *)
(* intents, and any edits of the document and the export.                  *)
(***************************************************************************)
EXTENDS TurnArchive, WellFoundedInduction, TLAPS

-----------------------------------------------------------------------------
\* The guarded pipeline.

Intent == [phase : Phase, label : Label]
Initial(p, before) == [NewTurn("turn-1", p) EXCEPT !.completedPhases = before]

\* A set of naturals has a least element.
LEMMA LeastNatural ==
  ASSUME NEW T \in SUBSET Nat, T # {}
  PROVE  \E n \in T : \A m \in T : n <= m
<1> DEFINE R == OpToRel(<, Nat)
<1>1. PICK n \in T : \A m \in T : <<m, n>> \notin R
  <2> HIDE DEF R
  <2>1. IsWellFoundedOn(R, Nat)
    BY NatLessThanWellFounded DEF R
  <2> QED BY <2>1, WFMin
<1>2. \A m \in T : ~(m < n)
  BY <1>1, Zenon DEF OpToRel
<1> QED BY <1>2

LEMMA Lengths ==
  /\ N \in Nat /\ N > 0 /\ \A i \in 1 .. N : PhaseOrder[i] \in Phase
  /\ \A xs \in Intents : xs \in Seq(Intent) /\ Len(xs) \in Nat /\ DOMAIN xs = 1 .. Len(xs)
                           /\ \A i \in 1 .. Len(xs) : xs[i] \in Intent
<1>1. N \in Nat /\ N > 0 /\ \A i \in 1 .. N : PhaseOrder[i] \in Phase
  BY PhaseAssumption DEF N, Phase
<1>2. ASSUME NEW xs \in Intents
      PROVE  /\ xs \in Seq(Intent) /\ Len(xs) \in Nat /\ DOMAIN xs = 1 .. Len(xs)
             /\ \A i \in 1 .. Len(xs) : xs[i] \in Intent
  <2>1. PICK n \in 0 .. MaxIntents : xs \in [1 .. n -> Intent]
    BY DEF Intents, Intent
  <2>2. n \in Nat
    BY PhaseAssumption
  <2>3. xs \in Seq(Intent)
    BY <2>1, <2>2
  <2> QED BY <2>3
<1> QED BY <1>1, <1>2

\* The place of the first intent out of order, if there is one.
LEMMA FirstIsFirst ==
  ASSUME NEW xs \in Intents, \E i \in 1 .. N : OutOfOrder(xs, i)
  PROVE  LET k == FirstOutOfOrder(xs) IN
         /\ k \in 1 .. N /\ OutOfOrder(xs, k)
         /\ \A j \in 1 .. (k - 1) : ~OutOfOrder(xs, j)
<1> DEFINE T == {i \in 1 .. N : OutOfOrder(xs, i)}
<1>1. PICK n \in T : \A m \in T : n <= m
  <2>1. T \in SUBSET Nat /\ T # {}
    BY Lengths
  <2> HIDE DEF T
  <2> QED BY <2>1, LeastNatural
<1>2. n \in 1 .. N /\ OutOfOrder(xs, n) /\ \A j \in 1 .. (n - 1) : ~OutOfOrder(xs, j)
  <2>1. N \in Nat /\ n \in 1 .. N
    BY Lengths
  <2>2. ASSUME NEW j \in 1 .. (n - 1), OutOfOrder(xs, j) PROVE FALSE
    <3>1. j \in 1 .. N /\ j < n
      BY <2>1
    <3>2. j \in T
      BY <2>2, <3>1
    <3> QED BY <1>1, <2>1, <3>1, <3>2
  <2> QED BY <2>1, <2>2
<1> QED BY <1>2 DEF FirstOutOfOrder

\* What is signed of the state after some of the phases, not all of them.
LEMMA SummaryOf ==
  ASSUME NEW p, NEW before \in Seq(Phase), NEW n \in 0 .. N - 1
  PROVE  LET x == Serialisable(After(Initial(p, before), n)) IN
         x.completedPhaseCount = Len(before) + n /\ ~x.resolved
<1> DEFINE s == Initial(p, before)
<1>1. s.completedPhases = before /\ s.resolved = FALSE
  BY DEF Initial, NewTurn
<1>2. CASE n = 0
  BY <1>1, <1>2 DEF After, Serialisable
<1>3. CASE n # 0
  <2> DEFINE done == before \o SubSeq(PhaseOrder, 1, n)
             a == [s EXCEPT !.currentPhase = PhaseOrder[n], !.completedPhases = done,
                            !.resolved = (n = N)]
  <2>1. N \in Nat /\ n \in 1 .. N /\ n # N
    BY <1>3, Lengths
  <2>2. SubSeq(PhaseOrder, 1, n) \in Seq(Phase) /\ Len(SubSeq(PhaseOrder, 1, n)) = n
    BY <2>1, PhaseAssumption DEF N
  <2>3. Len(done) = Len(before) + n
    BY <2>2
  <2>4. After(s, n) = a
    BY <1>1, <1>3 DEF After
  <2>5. a.completedPhases = done /\ a.resolved = FALSE
    BY <2>1 DEF Initial, NewTurn
  <2> HIDE DEF a, done
  <2> QED BY <2>3, <2>4, <2>5 DEF Serialisable
<1> QED BY <1>2, <1>3

LEMMA FailureRecorded ==
  ASSUME NEW s, NEW p, NEW before \in Seq(Phase), NEW xs \in Intents,
         \E i \in 1 .. N : OutOfOrder(xs, i)
  PROVE  LET r == RunTurnPipelineGuarded(s, Initial(p, before), xs)
             done == Len(r.auditTrailUpToFailure) IN
         /\ IsFailure(r) /\ r # Thrown
         /\ done < N /\ done < Len(xs)
         /\ r.receivedPhase = xs[done + 1].phase
         /\ r.receivedPhase # PhaseOrder[done + 1]
         /\ \A i \in 1 .. done : /\ xs[i].phase = PhaseOrder[i]
                                 /\ r.auditTrailUpToFailure[i] = <<PhaseOrder[i], xs[i].label>>
         /\ r.priorStateSummary.completedPhaseCount = Len(before) + done
         /\ ~r.priorStateSummary.resolved
<1> DEFINE k == FirstOutOfOrder(xs)
           t == Initial(p, before)
           r == RunTurnPipelineGuarded(s, t, xs)
           trail == Trail([j \in 1 .. (k - 1) |-> xs[j].label], k - 1)
           prior == Serialisable(After(t, k - 1))
<1>1. /\ k \in 1 .. N /\ OutOfOrder(xs, k) /\ \A j \in 1 .. (k - 1) : ~OutOfOrder(xs, j)
      /\ N \in Nat /\ Len(xs) \in Nat /\ DOMAIN xs = 1 .. Len(xs)
  BY FirstIsFirst, Lengths
<1> HIDE DEF k
<1>2. r = Failure(s, t, xs, k)
  BY DEF RunTurnPipelineGuarded, k
<1>3. /\ r.receivedPhase = xs[k].phase /\ r.auditTrailUpToFailure = trail
      /\ r.priorStateSummary = prior /\ IsFailure(r)
  BY <1>2 DEF Failure, IsFailure
<1>4. r # Thrown
  <2>1. "failureCode" \in DOMAIN r /\ ~("failureCode" \in DOMAIN Thrown)
    BY <1>3 DEF IsFailure, Thrown
  <2> QED BY <2>1
<1>5. k - 1 \in Nat /\ k - 1 \in 0 .. N - 1 /\ k - 1 + 1 = k
  BY <1>1
<1>6. Len(trail) = k - 1 /\ \A i \in 1 .. (k - 1) : trail[i] = <<PhaseOrder[i], xs[i].label>>
  <2> DEFINE n == k - 1
  <2>1. trail = [i \in 1 .. n |-> <<PhaseOrder[i], xs[i].label>>]
    BY DEF Trail
  <2>2. n \in Nat
    BY <1>5
  <2> HIDE DEF n, trail
  <2>3. Len(trail) = n
    <3> DEFINE X == {trail[i] : i \in 1 .. n}
    <3>1. trail \in [1 .. n -> X]
      BY <2>1
    <3> HIDE DEF X
    <3> QED BY <2>2, <3>1
  <2> QED BY <2>1, <2>3 DEF n
<1>7. prior.completedPhaseCount = Len(before) + (k - 1) /\ ~prior.resolved
  BY <1>5, SummaryOf
<1>8. k <= Len(xs) /\ xs[k].phase # PhaseOrder[k]
  BY <1>1 DEF OutOfOrder
<1>9. \A i \in 1 .. (k - 1) : xs[i].phase = PhaseOrder[i]
  <2>1. ASSUME NEW i \in 1 .. (k - 1) PROVE xs[i].phase = PhaseOrder[i]
    <3>1. i \in 1 .. N /\ i \in DOMAIN xs
      BY <1>1, <1>8
    <3> QED BY <1>1, <3>1 DEF OutOfOrder
  <2> QED BY <2>1
<1> HIDE DEF r, trail, prior
<1>10. Len(r.auditTrailUpToFailure) = k - 1
  BY <1>3, <1>6
<1>11. k - 1 < N /\ k - 1 < Len(xs)
  BY <1>1, <1>8
<1> QED BY <1>3, <1>4, <1>5, <1>6, <1>7, <1>8, <1>9, <1>10, <1>11 DEF r, t

\* In order and of full length, the label of a phase is that of its intent,
\* as no other intent is of that phase.
LEMMA PlainLabels ==
  ASSUME NEW xs \in Intents, Len(xs) = N, \A i \in 1 .. N : xs[i].phase = PhaseOrder[i],
         NEW i \in 1 .. N
  PROVE  PlainLabel(xs, PhaseOrder[i]) = xs[i].label
<1> DEFINE at == {j \in DOMAIN xs : xs[j].phase = PhaseOrder[i]}
<1>1. N \in Nat /\ DOMAIN xs = 1 .. N
  BY Lengths
<1>2. at = {i}
  BY <1>1, PhaseAssumption
<1>3. (CHOOSE j \in at : \A m \in at : m <= j) = i
  BY <1>1, <1>2
<1>4. PlainLabel(xs, PhaseOrder[i]) =
        IF at = {} THEN <<PhaseOrder[i]>> ELSE xs[CHOOSE j \in at : \A m \in at : m <= j].label
  BY Zenon DEF PlainLabel
<1> HIDE DEF at
<1> QED BY <1>2, <1>3, <1>4

\* A run whose intents are in order is plain, or throws for want of one.
LEMMA OrderRuns ==
  ASSUME NEW s, NEW t, NEW xs \in Intents, ~(\E i \in 1 .. N : OutOfOrder(xs, i))
  PROVE  LET r == RunTurnPipelineGuarded(s, t, xs) IN
         /\ Len(xs) < N => r = Thrown
         /\ Len(xs) >= N => r # Thrown /\ ~IsFailure(r)
         /\ Len(xs) = N => r = RunTurnPipeline(s, t, xs)
<1> DEFINE r == RunTurnPipelineGuarded(s, t, xs)
           labels == [i \in 1 .. N |-> xs[i].label]
<1>1. N \in Nat /\ Len(xs) \in Nat /\ DOMAIN xs = 1 .. Len(xs)
  BY Lengths
<1>2. Len(xs) < N => r = Thrown
  BY DEF RunTurnPipelineGuarded
<1>3. Len(xs) >= N => r = Run(s, t, labels)
  BY <1>1 DEF RunTurnPipelineGuarded
<1>4. Run(s, t, labels) # Thrown /\ ~IsFailure(Run(s, t, labels))
  <2> DEFINE x == Run(s, t, labels)
  <2>1. ~("thrown" \in DOMAIN x) /\ ~("failureCode" \in DOMAIN x)
    BY DEF Run
  <2>2. "thrown" \in DOMAIN Thrown
    BY DEF Thrown
  <2> HIDE DEF x
  <2> QED BY <2>1, <2>2 DEF IsFailure, x
<1>5. Len(xs) = N => Run(s, t, labels) = RunTurnPipeline(s, t, xs)
  <2> SUFFICES ASSUME Len(xs) = N PROVE Run(s, t, labels) = RunTurnPipeline(s, t, xs)
    OBVIOUS
  <2>1. \A i \in 1 .. N : xs[i].phase = PhaseOrder[i]
    BY <1>1 DEF OutOfOrder
  <2>2. \A i \in 1 .. N : PlainLabel(xs, PhaseOrder[i]) = xs[i].label
    BY <2>1, PlainLabels
  <2>3. labels = [i \in 1 .. N |-> PlainLabel(xs, PhaseOrder[i])]
    BY <2>2
  <2> HIDE DEF labels
  <2> QED BY <2>3, Zenon DEF RunTurnPipeline
<1> HIDE DEF r, labels
<1>6. /\ Len(xs) >= N => r # Thrown /\ ~IsFailure(r)
      /\ Len(xs) = N => r = RunTurnPipeline(s, t, xs)
  <2>1. Len(xs) = N => Len(xs) >= N
    BY <1>1
  <2> QED BY <2>1, <1>3, <1>4, <1>5
<1> QED BY <1>2, <1>6 DEF r

Turn(s, p, before, xs) ==
  [initial |-> Initial(p, before), intents |-> xs,
   guarded |-> RunTurnPipelineGuarded(s, Initial(p, before), xs),
   plain |-> RunTurnPipeline(s, Initial(p, before), xs)]

Before == {<<>>, <<PhaseOrder[1]>>}

LEMMA BeforeType == \A before \in Before : before \in Seq(Phase)
<1>1. PhaseOrder[1] \in Phase
  <2>1. 1 \in 1 .. N
    BY Lengths
  <2> QED BY <2>1, Lengths
<1>2. <<>> \in Seq(Phase) /\ <<PhaseOrder[1]>> \in Seq(Phase)
  BY <1>1
<1> QED BY <1>2 DEF Before

\* A turn is one that RunTurn runs.
TurnOK ==
  run # None =>
    \E s \in Scenario, p \in Pressure, before \in Before, xs \in Intents : run = Turn(s, p, before, xs)

LEMMA TurnStays == TurnOK /\ [Next]_vars => TurnOK'
<1> SUFFICES ASSUME TurnOK, [Next]_vars PROVE TurnOK'
  OBVIOUS
<1>1. CASE RunTurn
  <2>1. \E s \in Scenario, p \in Pressure, before \in Before, xs \in Intents :
          run' = Turn(s, p, before, xs)
    BY <1>1, Zenon DEF RunTurn, Turn, Initial, Before
  <2> QED BY <2>1 DEF TurnOK
<1>2. CASE Save
  BY <1>2 DEF Save, TurnOK
<1>3. CASE run' = run
  BY <1>3 DEF TurnOK
<1> QED BY <1>1, <1>2, <1>3
        DEF Next, vars, FindV0, EditDocument, Guard, Migrate, Answers, Store, Export, EditExport

\* A failed turn keeps exactly what ran before the failure, whatever the
\* phases, the labels and the number of intents (FailureKeepsPrefix).
THEOREM PrefixKept == Spec => []FailureKeepsPrefix
<1>1. Init => TurnOK
  BY DEF Init, TurnOK
<1>2. TurnOK => FailureKeepsPrefix
  <2> SUFFICES ASSUME TurnOK, run # None PROVE FailureKeepsPrefix
    BY DEF FailureKeepsPrefix
  <2>1. PICK s \in Scenario, p \in Pressure, before \in Before, xs \in Intents :
          run = Turn(s, p, before, xs)
    BY DEF TurnOK
  <2> DEFINE t == Initial(p, before)
             r == RunTurnPipelineGuarded(s, t, xs)
             inOrder == \A i \in DOMAIN xs : i <= N => xs[i].phase = PhaseOrder[i]
             done == Len(r.auditTrailUpToFailure)
  <2>2. /\ run.intents = xs /\ run.guarded = r /\ run.plain = RunTurnPipeline(s, t, xs)
        /\ run.initial.completedPhases = before
    BY <2>1 DEF Turn, Initial, NewTurn
  <2>3. N \in Nat /\ Len(xs) \in Nat /\ DOMAIN xs = 1 .. Len(xs)
    BY Lengths
  <2>4. inOrder <=> ~(\E i \in 1 .. N : OutOfOrder(xs, i))
    BY <2>3 DEF OutOfOrder
  <2>5. /\ inOrder /\ Len(xs) < N => r = Thrown
        /\ inOrder /\ Len(xs) >= N => r # Thrown /\ ~IsFailure(r)
        /\ inOrder /\ Len(xs) = N => r = RunTurnPipeline(s, t, xs)
    BY <2>4, OrderRuns
  <2>6. ~inOrder =>
          /\ IsFailure(r) /\ r # Thrown
          /\ done < N /\ done < Len(xs)
          /\ r.receivedPhase = xs[done + 1].phase
          /\ r.receivedPhase # PhaseOrder[done + 1]
          /\ \A i \in 1 .. done : /\ xs[i].phase = PhaseOrder[i]
                                  /\ r.auditTrailUpToFailure[i] = <<PhaseOrder[i], xs[i].label>>
          /\ r.priorStateSummary.completedPhaseCount = Len(before) + done
          /\ ~r.priorStateSummary.resolved
    BY <2>4, BeforeType, FailureRecorded
  <2> HIDE DEF r, inOrder, t
  <2> QED BY <2>2, <2>5, <2>6 DEF FailureKeepsPrefix, inOrder
<1> QED BY <1>1, <1>2, TurnStays, PTL DEF Spec

-----------------------------------------------------------------------------
\* What the operations make of a document.

LEMMA Sentinels ==
  /\ None \notin {Null, Garbage, Absent} /\ Null \notin {Garbage, Absent} /\ Garbage # Absent
  /\ \A d \in Document : d \notin {None, Null, Garbage, Absent} /\ IsObject(d)
  /\ \A x \in Signed : IsObject(x)
  /\ \A x \in StateObject : IsObject(x)
  /\ Absent \notin Scenario /\ Absent \notin Audit /\ Absent \notin Hash /\ Absent \notin BOOLEAN
BY ValueAssumption DEF IsObject

\* It claims no proof, of its own or in its signature.
Unproved(d) ==
  /\ d.deterministicProof \in {Absent, FALSE}
  /\ IsObject(d.signature) => ~d.signature.deterministicProof

\* A snapshot: a document that is restored as it is.
Snapshot(n) ==
  /\ n \in Document /\ n.schemaVersion = "v1" /\ n.auditTrail # Absent
  /\ IsObject(n.signature) /\ IsObject(n.finalTurnState)

LEMMA SnapshotStays ==
  ASSUME NEW n, Snapshot(n)
  PROVE  Restores(n) /\ RestoreTurnSnapshot(n) = n /\ MigrateSnapshot(n) = Accepted(n)
<1>1. n \in Document /\ n # Garbage /\ n # Null /\ IsObject(n)
  BY Sentinels DEF Snapshot
<1>2. Restores(n)
  BY <1>1 DEF Snapshot, Restores
<1>3. [n EXCEPT !.auditTrail = n.auditTrail] = n
  BY <1>1 DEF Document
<1>4. RestoreTurnSnapshot(n) = n
  BY <1>2, <1>3 DEF RestoreTurnSnapshot, Snapshot
<1>5. n.schemaVersion # Absent
  BY <1>1, ValueAssumption DEF Snapshot, Version
<1> QED BY <1>1, <1>2, <1>4, <1>5 DEF MigrateSnapshot, Snapshot

LEMMA RestoreMakes ==
  ASSUME NEW d \in Document, Restores(d)
  PROVE  LET n == RestoreTurnSnapshot(d) IN
         /\ Snapshot(n) /\ (Unproved(d) => Unproved(n))
         /\ d.auditTrail # Absent => n = d
<1> DEFINE audit == IF d.auditTrail = Absent THEN <<>> ELSE d.auditTrail
           n == [d EXCEPT !.auditTrail = audit]
<1>1. RestoreTurnSnapshot(d) = n
  BY DEF RestoreTurnSnapshot
<1>2. audit \in Audit
  BY DEF Document, Audit
<1>3. audit # Absent
  BY <1>2, Sentinels
<1>4. d.auditTrail # Absent => n = d
  BY DEF Document
<1> HIDE DEF audit
<1>5. /\ n \in Document /\ n.schemaVersion = d.schemaVersion /\ n.auditTrail = audit
      /\ n.signature = d.signature /\ n.finalTurnState = d.finalTurnState
      /\ n.deterministicProof = d.deterministicProof
  BY <1>2 DEF Document
<1> HIDE DEF n
<1>6. Snapshot(n)
  BY <1>3, <1>5 DEF Snapshot, Restores
<1>7. Unproved(d) => Unproved(n)
  BY <1>5 DEF Unproved
<1> QED BY <1>1, <1>4, <1>6, <1>7

LEMMA SignatureMakes ==
  ASSUME NEW s \in Scenario, NEW initial \in SignedState \cup {<<>>}, NEW actions \in Inputs,
         NEW final \in SignedState, NEW audit \in Audit, NEW proof \in BOOLEAN
  PROVE  LET x == Signature(s, initial, actions, final, audit, proof) IN
         x \in Signed /\ x.combinedHash \in Hash /\ x.deterministicProof = proof
<1> DEFINE hash == <<s, initial, actions, final, audit>>
<1>1. hash \in Hash
  BY DEF Hash
<1>2. Len(actions) \in Nat
  BY DEF Inputs
<1> HIDE DEF hash
<1> QED BY <1>1, <1>2 DEF Signature, Signed, hash

LEMMA MigrationMakes ==
  ASSUME NEW d \in Document, ~MalformedV0(d)
  PROVE  Snapshot(Migrated(d)) /\ Unproved(Migrated(d))
<1> DEFINE f == d.finalTurnState
           final == MigratedState(f, d.auditTrail)
           x == Signature(d.scenarioId, <<>>, <<>>, final, d.auditTrail, FALSE)
           n == Migrated(d)
<1>1. d.scenarioId \in Scenario /\ d.auditTrail \in Audit /\ f \in StateObject
  BY DEF MalformedV0, IsObject, Document
<1>2. f.turnId = "turn-1" /\ f.resolved \in BOOLEAN
  BY <1>1 DEF MalformedV0, StateObject
<1> HIDE DEF f
<1>3. Len(d.auditTrail) \in Nat
  BY <1>1 DEF Audit
<1>4. f.pressureLevel \in Pressure \cup {0, Absent}
  BY <1>1 DEF StateObject
<1>5. final \in SignedState /\ final \in StateObject
  BY <1>2, <1>3, <1>4 DEF MigratedState, SignedState, StateObject
<1> HIDE DEF final
<1>6. x \in Signed /\ x.deterministicProof = FALSE
  <2>1. <<>> \in SignedState \cup {<<>>} /\ <<>> \in Inputs /\ FALSE \in BOOLEAN
    BY DEF Inputs
  <2>2. ASSUME NEW none \in Inputs, none \in SignedState \cup {<<>>}, NEW no \in BOOLEAN
        PROVE  LET y == Signature(d.scenarioId, none, none, final, d.auditTrail, no) IN
               y \in Signed /\ y.deterministicProof = no
    BY <1>1, <1>5, <2>2, SignatureMakes
  <2> QED BY <2>1, <2>2
<1>7. n = [schemaVersion |-> "v1", scenarioId |-> d.scenarioId, phaseOrder |-> PhaseOrder,
           finalTurnState |-> final, auditTrail |-> d.auditTrail, signature |-> x,
           deterministicProof |-> FALSE]
  BY DEF Migrated, final, f
<1> HIDE DEF x, n
<1>8. n \in Document
  BY <1>1, <1>5, <1>6, <1>7 DEF Document, Version
<1>9. Snapshot(n) /\ Unproved(n)
  <2>1. d.auditTrail # Absent /\ IsObject(x) /\ IsObject(final)
    BY <1>1, <1>5, <1>6, Sentinels
  <2> QED BY <1>6, <1>7, <1>8, <2>1 DEF Snapshot, Unproved
<1> QED BY <1>9 DEF n

\* An operation throws, rejects the document with a code, or returns a
\* snapshot, which claims no proof that the document did not.
Outcome(d, r) ==
  \/ r = Thrown
  \/ \E code \in Code, s \in Scenario \cup {Absent} :
       r = [ok |-> FALSE, code |-> code, scenarioId |-> s]
  \/ \E n : Snapshot(n) /\ (d \in Document /\ Unproved(d) => Unproved(n)) /\ r = Accepted(n)

LEMMA Rejects ==
  ASSUME NEW d \in Document \cup {Garbage}, NEW code \in Code
  PROVE  \E s \in Scenario \cup {Absent} : Rejected(d, code) = [ok |-> FALSE, code |-> code, scenarioId |-> s]
<1>1. d \in Document => d.scenarioId \in Scenario \cup {Absent}
  BY DEF Document
<1>2. ~IsObject(Garbage)
  BY DEF IsObject
<1> QED BY <1>1, <1>2 DEF Rejected

LEMMA GuardMakes ==
  ASSUME NEW d \in Document
  PROVE  LET g == GuardTurnSnapshot(d) IN
         \/ /\ Fault(d) # None
            /\ \E code \in Code, s \in Scenario \cup {Absent} :
                 g = [ok |-> FALSE, code |-> code, scenarioId |-> s]
         \/ Fault(d) = None /\ Snapshot(d) /\ g = Accepted(d)
<1>1. d # Garbage /\ d # Null
  BY Sentinels
<1>2. CASE Fault(d) # None
  <2>1. Fault(d) \in Code
    BY <1>2 DEF Fault, Code
  <2>2. GuardTurnSnapshot(d) = Rejected(d, Fault(d))
    BY <1>1, <1>2 DEF GuardTurnSnapshot
  <2> QED BY <1>2, <2>1, <2>2, Rejects
<1>3. CASE Fault(d) = None
  <2>1. None \notin Code
    BY ValueAssumption
  <2>2. /\ d.schemaVersion = "v1" /\ IsObject(d.signature) /\ IsObject(d.finalTurnState)
        /\ d.auditTrail # Absent
    BY <1>3, <2>1 DEF Fault, Code
  <2>3. Snapshot(d)
    BY <2>2 DEF Snapshot
  <2>4. GuardTurnSnapshot(d) = Accepted(RestoreTurnSnapshot(d))
    BY <1>1, <1>3 DEF GuardTurnSnapshot
  <2> QED BY <1>3, <2>3, <2>4, SnapshotStays
<1> QED BY <1>2, <1>3

LEMMA GuardOutcome ==
  ASSUME NEW d \in Document \cup {Null, Garbage}
  PROVE  Outcome(d, GuardTurnSnapshot(d))
<1>1. CASE d = Garbage
  <2>1. GuardTurnSnapshot(d) = Rejected(d, "WRONG_SCHEMA_VERSION") /\ "WRONG_SCHEMA_VERSION" \in Code
    BY <1>1 DEF GuardTurnSnapshot, Code
  <2> QED BY <1>1, <2>1, Rejects DEF Outcome
<1>2. CASE d = Null
  <2>1. d # Garbage
    BY <1>2, Sentinels
  <2> QED BY <1>2, <2>1 DEF GuardTurnSnapshot, Outcome
<1>3. CASE d \in Document
  BY <1>3, GuardMakes DEF Outcome
<1> QED BY <1>1, <1>2, <1>3

LEMMA MigrateOutcome ==
  ASSUME NEW d \in Document \cup {Null, Garbage}
  PROVE  Outcome(d, MigrateSnapshot(d))
<1> DEFINE m == MigrateSnapshot(d)
<1>1. CASE d = Garbage
  <2>1. m = Rejected(d, "MALFORMED_INPUT") /\ "MALFORMED_INPUT" \in Code
    BY <1>1 DEF MigrateSnapshot, Code
  <2> QED BY <1>1, <2>1, Rejects DEF Outcome
<1>2. CASE d = Null
  <2>1. d # Garbage
    BY <1>2, Sentinels
  <2> QED BY <1>2, <2>1 DEF MigrateSnapshot, Outcome
<1>3. CASE d \in Document
  <2>1. d # Garbage /\ d # Null
    BY <1>3, Sentinels
  <2>2. \/ \E code \in Code : m = Rejected(d, code)
        \/ m = Thrown
        \/ Restores(d) /\ m = Accepted(RestoreTurnSnapshot(d))
        \/ ~MalformedV0(d) /\ m = Accepted(Migrated(d))
    BY <2>1 DEF MigrateSnapshot, Code
  <2> HIDE DEF m
  <2>3. ASSUME NEW code \in Code, m = Rejected(d, code) PROVE Outcome(d, m)
    <3>1. PICK s \in Scenario \cup {Absent} :
            Rejected(d, code) = [ok |-> FALSE, code |-> code, scenarioId |-> s]
      BY <1>3, Rejects
    <3> QED BY <2>3, <3>1 DEF Outcome
  <2>4. ASSUME Restores(d), m = Accepted(RestoreTurnSnapshot(d)) PROVE Outcome(d, m)
    <3> DEFINE n == RestoreTurnSnapshot(d)
    <3>1. Snapshot(n) /\ (Unproved(d) => Unproved(n))
      BY <1>3, <2>4, RestoreMakes
    <3> HIDE DEF n
    <3>2. m = Accepted(n)
      BY <2>4 DEF n
    <3> QED BY <3>1, <3>2 DEF Outcome
  <2>5. ASSUME ~MalformedV0(d), m = Accepted(Migrated(d)) PROVE Outcome(d, m)
    <3> DEFINE n == Migrated(d)
    <3>1. Snapshot(n) /\ Unproved(n)
      BY <1>3, <2>5, MigrationMakes
    <3> HIDE DEF n
    <3>2. m = Accepted(n)
      BY <2>5 DEF n
    <3> QED BY <3>1, <3>2 DEF Outcome
  <2>6. m = Thrown => Outcome(d, m)
    BY DEF Outcome
  <2>7. Outcome(d, m)
    BY <2>2, <2>3, <2>4, <2>5, <2>6
  <2> QED BY <2>7 DEF m
<1> QED BY <1>1, <1>2, <1>3

\* The three outcomes exclude each other.
LEMMA OutcomesDiffer ==
  /\ \A c, s : LET r == [ok |-> FALSE, code |-> c, scenarioId |-> s] IN ~r.ok /\ r # Thrown
  /\ \A n : Accepted(n).ok /\ Accepted(n).snapshot = n /\ Accepted(n) # Thrown
  /\ \A n \in Document : n # Thrown
<1>1. DOMAIN Thrown = {"thrown"}
  BY DEF Thrown
<1>2. \A c, s : "thrown" \notin DOMAIN [ok |-> FALSE, code |-> c, scenarioId |-> s]
  OBVIOUS
<1>3. \A n : "thrown" \notin DOMAIN Accepted(n)
  BY DEF Accepted
<1>4. \A n \in Document : "thrown" \notin DOMAIN n
  BY DEF Document
<1> QED BY <1>1, <1>2, <1>3, <1>4 DEF Accepted

-----------------------------------------------------------------------------
\* A saved turn.

LEMMA GreatestNatural ==
  ASSUME NEW n \in Nat, NEW T \in SUBSET (1 .. n), T # {}
  PROVE  \E i \in T : \A j \in T : j <= i
<1> DEFINE U == {m \in 0 .. n : n - m \in T}
<1>1. U \in SUBSET Nat
  OBVIOUS
<1>2. U # {}
  <2>1. PICK i \in T : TRUE
    OBVIOUS
  <2>2. n - i \in 0 .. n /\ n - (n - i) = i
    BY <2>1
  <2> QED BY <2>1, <2>2
<1>3. PICK m \in U : \A k \in U : m <= k
  <2> HIDE DEF U
  <2> QED BY <1>1, <1>2, LeastNatural
<1>4. \A j \in T : j <= n - m
  <2>1. ASSUME NEW j \in T PROVE j <= n - m
    <3>1. j \in 1 .. n /\ n - j \in 0 .. n /\ n - (n - j) = j
      OBVIOUS
    <3>2. n - j \in U
      BY <3>1
    <3>3. m <= n - j
      BY <1>3, <3>2
    <3> QED BY <1>1, <1>3, <3>1, <3>3
  <2> QED BY <2>1
<1> QED BY <1>3, <1>4

LEMMA PlainLabelIsText ==
  ASSUME NEW xs \in Intents, NEW i \in 1 .. N
  PROVE  PlainLabel(xs, PhaseOrder[i]) \in Text
<1> DEFINE at == {j \in DOMAIN xs : xs[j].phase = PhaseOrder[i]}
           last == CHOOSE j \in at : \A m \in at : m <= j
<1>1. PlainLabel(xs, PhaseOrder[i]) = IF at = {} THEN <<PhaseOrder[i]>> ELSE xs[last].label
  BY Zenon DEF PlainLabel
<1>2. <<PhaseOrder[i]>> \in Text
  BY Lengths DEF Text
<1>3. ASSUME at # {} PROVE xs[last].label \in Text
  <2>1. Len(xs) \in Nat /\ at \in SUBSET (1 .. Len(xs))
    BY Lengths
  <2> HIDE DEF at
  <2>2. last \in at
    BY <1>3, <2>1, GreatestNatural
  <2>3. xs[last] \in Intent
    BY <2>1, <2>2, Lengths
  <2> QED BY <2>3 DEF Intent, Text
<1> HIDE DEF at, last
<1> QED BY <1>1, <1>2, <1>3

\* What Save registers.
Saved(r) ==
  \E s \in Scenario, p \in Pressure, before \in Before, xs \in Intents :
    r = Replay(RunTurnPipeline(s, Initial(p, before), xs))

LEMMA InitialIsSigned ==
  ASSUME NEW p \in Pressure, NEW before \in Before
  PROVE  Serialisable(Initial(p, before)) \in SignedState
<1>1. Len(before) \in Nat
  BY BeforeType
<1>2. Serialisable(Initial(p, before)) =
        [turnId |-> "turn-1", currentPhase |-> None, pressureLevel |-> p, resolved |-> FALSE,
         completedPhaseCount |-> Len(before)]
  BY DEF Serialisable, Initial, NewTurn
<1> QED BY <1>1, <1>2 DEF SignedState

LEMMA FinalIsSigned ==
  ASSUME NEW p \in Pressure, NEW before \in Before
  PROVE  Serialisable(After(Initial(p, before), N)) \in SignedState
<1> DEFINE t == Initial(p, before)
           done == before \o SubSeq(PhaseOrder, 1, N)
           resolved == (N = N)
           a == [t EXCEPT !.currentPhase = PhaseOrder[N], !.completedPhases = done, !.resolved = resolved]
<1>1. N \in Nat /\ N > 0 /\ PhaseOrder[N] \in Phase
  BY Lengths
<1>2. Len(done) \in Nat
  <2>1. before \in Seq(Phase)
    BY BeforeType
  <2>2. SubSeq(PhaseOrder, 1, N) \in Seq(Phase)
    BY <1>1, PhaseAssumption DEF N
  <2> QED BY <2>1, <2>2
<1>3. After(t, N) = a
  <2>1. t.completedPhases = before
    BY DEF Initial, NewTurn
  <2> QED BY <1>1, <2>1 DEF After
<1>4. resolved \in BOOLEAN
  OBVIOUS
<1> HIDE DEF done, resolved
<1>5. /\ a.turnId = "turn-1" /\ a.currentPhase = PhaseOrder[N] /\ a.pressureLevel = p
      /\ a.resolved = resolved /\ a.completedPhases = done
  BY DEF Initial, NewTurn
<1> HIDE DEF a
<1>6. Serialisable(a) =
        [turnId |-> "turn-1", currentPhase |-> PhaseOrder[N], pressureLevel |-> p,
         resolved |-> resolved, completedPhaseCount |-> Len(done)]
  BY <1>5 DEF Serialisable
<1>7. Serialisable(a) \in SignedState
  BY <1>1, <1>2, <1>4, <1>6 DEF SignedState
<1> QED BY <1>3, <1>7

\* The document of a saved turn is a snapshot without a fault, and verifies
\* against the run.
LEMMA SavedIsSnapshot ==
  ASSUME NEW r, Saved(r)
  PROVE  LET d == Serialize(r) IN
         /\ Snapshot(d) /\ Fault(d) = None
         /\ d.finalTurnState = r.finalState /\ d.auditTrail = r.auditTrail
         /\ Verifies(d.scenarioId, r.initialState, r.orderedActions, d.finalTurnState,
                     d.auditTrail, d.deterministicProof, d.signature)
<1>1. PICK s \in Scenario, p \in Pressure, before \in Before, xs \in Intents :
        r = Replay(RunTurnPipeline(s, Initial(p, before), xs))
  BY DEF Saved
<1> DEFINE labels == [i \in 1 .. N |-> PlainLabel(xs, PhaseOrder[i])]
           initial == Serialisable(Initial(p, before))
           final == Serialisable(After(Initial(p, before), N))
           trail == Trail(labels, N)
           actions == Actions(labels, N)
           x == Signature(s, initial, actions, final, trail, TRUE)
           d == Serialize(r)
<1>2. /\ r.scenarioId = s /\ r.initialState = initial /\ r.finalState = final
      /\ r.auditTrail = trail /\ r.orderedActions = actions /\ r.signature = x
  BY <1>1 DEF Replay, Result, RunTurnPipeline, Run
<1>3. N \in Nat /\ N > 0 /\ \A i \in 1 .. N : PhaseOrder[i] \in Phase /\ labels[i] \in Text
  BY Lengths, PlainLabelIsText
<1> HIDE DEF labels
<1>4. trail \in Audit /\ trail # <<>>
  <2>1. trail \in [1 .. N -> Phase \X Text]
    BY <1>3 DEF Trail
  <2> HIDE DEF trail
  <2>2. Len(trail) = N
    BY <1>3, <2>1
  <2> QED BY <1>3, <2>1, <2>2 DEF Audit
<1>5. actions \in Inputs
  <2> DEFINE A == [label : Phase \X Text, index : Nat]
  <2>1. ASSUME NEW i \in 1 .. N
        PROVE  [label |-> <<PhaseOrder[i], labels[i]>>, index |-> i - 1] \in A
    BY <1>3
  <2> HIDE DEF A
  <2>2. actions \in [1 .. N -> A]
    BY <2>1 DEF Actions
  <2>3. actions \in Seq(A)
    BY <1>3, <2>2
  <2> QED BY <2>3 DEF Inputs, A
<1>6. initial \in SignedState /\ final \in SignedState
  BY InitialIsSigned, FinalIsSigned
<1> HIDE DEF trail, actions, initial, final
<1>7. x \in Signed /\ x.combinedHash \in Hash /\ x.deterministicProof = TRUE
  <2>1. initial \in SignedState \cup {<<>>} /\ TRUE \in BOOLEAN
    BY <1>6
  <2> QED BY <1>4, <1>5, <1>6, <2>1, SignatureMakes
<1>8. final \in StateObject /\ final.resolved \in BOOLEAN
  BY <1>6 DEF SignedState, StateObject
<1>9. Verifies(s, initial, actions, final, trail, TRUE, x)
  BY DEF Verifies
<1> HIDE DEF x
<1>10. d = [schemaVersion |-> "v1", scenarioId |-> s, phaseOrder |-> PhaseOrder,
            finalTurnState |-> final, auditTrail |-> trail, signature |-> x,
            deterministicProof |-> TRUE]
  BY <1>2, <1>7 DEF Serialize
<1> HIDE DEF d
<1>11. d \in Document
  BY <1>4, <1>7, <1>8, <1>10 DEF Document, Version
<1>12. /\ trail # Absent /\ IsObject(x) /\ IsObject(final) /\ s # Absent
       /\ x.combinedHash # Absent /\ final.resolved # Absent
  BY <1>4, <1>7, <1>8, Sentinels
<1>13. Snapshot(d)
  BY <1>10, <1>11, <1>12 DEF Snapshot
<1>14. Fault(d) = None
  BY <1>4, <1>10, <1>12 DEF Fault
<1>15. /\ d.scenarioId = s /\ d.finalTurnState = final /\ d.auditTrail = trail
       /\ d.deterministicProof = TRUE /\ d.signature = x
  BY <1>10
<1>16. Verifies(d.scenarioId, r.initialState, r.orderedActions, d.finalTurnState,
                d.auditTrail, d.deterministicProof, d.signature)
  BY <1>2, <1>9, <1>15
<1> QED BY <1>2, <1>13, <1>14, <1>15, <1>16 DEF d

LEMMA EditsType ==
  ASSUME NEW d \in Document, NEW e \in Edited(d)
  PROVE  e \in Document \cup {Null, Garbage}
<1>1. ASSUME NEW f \in Fields, e = [d EXCEPT ![f] = Absent] PROVE e \in Document
  <2>1. CASE f = "schemaVersion"
    BY <1>1, <2>1 DEF Document
  <2>2. CASE f = "scenarioId"
    BY <1>1, <2>2 DEF Document
  <2>3. CASE f = "phaseOrder"
    BY <1>1, <2>3 DEF Document
  <2>4. CASE f = "finalTurnState"
    BY <1>1, <2>4 DEF Document
  <2>5. CASE f = "auditTrail"
    BY <1>1, <2>5 DEF Document
  <2>6. CASE f = "signature"
    BY <1>1, <2>6 DEF Document
  <2>7. CASE f = "deterministicProof"
    BY <1>1, <2>7 DEF Document
  <2> QED BY <2>1, <2>2, <2>3, <2>4, <2>5, <2>6, <2>7 DEF Fields
<1>2. ASSUME NEW v \in Version, e = [d EXCEPT !.schemaVersion = v] PROVE e \in Document
  BY <1>2 DEF Document
<1>3. CASE e = [d EXCEPT !.auditTrail = <<>>]
  <2>1. <<>> \in Audit
    BY DEF Audit
  <2> QED BY <1>3, <2>1 DEF Document
<1>4. CASE e = [d EXCEPT !.deterministicProof = TRUE]
  BY <1>4 DEF Document
<1>5. ASSUME IsObject(d.finalTurnState), NEW v \in BOOLEAN,
             e = [d EXCEPT !.finalTurnState["resolved"] = v]
      PROVE  e \in Document
  <2> DEFINE g == [d.finalTurnState EXCEPT !.resolved = v]
  <2>1. d.finalTurnState \in StateObject
    BY <1>5 DEF IsObject, Document
  <2>2. g \in StateObject
    BY <2>1 DEF StateObject
  <2>3. e = [d EXCEPT !.finalTurnState = g]
    BY <1>5
  <2> HIDE DEF g
  <2> QED BY <2>2, <2>3 DEF Document
<1>6. ASSUME IsObject(d.finalTurnState), NEW k \in {"resolved", "pressureLevel"},
             e = [d EXCEPT !.finalTurnState[k] = Absent]
      PROVE  e \in Document
  <2> DEFINE g == [d.finalTurnState EXCEPT ![k] = Absent]
  <2>1. d.finalTurnState \in StateObject
    BY <1>6 DEF IsObject, Document
  <2>2. ASSUME k = "resolved" PROVE g \in StateObject
    <3>1. g = [d.finalTurnState EXCEPT !.resolved = Absent]
      BY <2>2
    <3> HIDE DEF g
    <3> QED BY <2>1, <3>1 DEF StateObject
  <2>3. ASSUME k = "pressureLevel" PROVE g \in StateObject
    <3>1. g = [d.finalTurnState EXCEPT !.pressureLevel = Absent]
      BY <2>3
    <3> HIDE DEF g
    <3> QED BY <2>1, <3>1 DEF StateObject
  <2>4. g \in StateObject
    <3> HIDE DEF g
    <3> QED BY <2>2, <2>3
  <2>5. e = [d EXCEPT !.finalTurnState = g]
    BY <1>6
  <2> HIDE DEF g
  <2> QED BY <2>4, <2>5 DEF Document
<1>7. ASSUME IsObject(d.signature), e = [d EXCEPT !.signature.combinedHash = Absent]
      PROVE  e \in Document
  <2> DEFINE g == [d.signature EXCEPT !.combinedHash = Absent]
  <2>1. d.signature \in Signed
    BY <1>7 DEF IsObject, Document
  <2>2. g \in Signed
    BY <2>1 DEF Signed
  <2>3. e = [d EXCEPT !.signature = g]
    BY <1>7
  <2> HIDE DEF g
  <2> QED BY <2>2, <2>3 DEF Document
<1>8. \/ e \in {Null, Garbage}
      \/ \E f \in Fields : e = [d EXCEPT ![f] = Absent]
      \/ \E v \in Version : e = [d EXCEPT !.schemaVersion = v]
      \/ e = [d EXCEPT !.auditTrail = <<>>] \/ e = [d EXCEPT !.deterministicProof = TRUE]
      \/ IsObject(d.finalTurnState) /\ \E v \in BOOLEAN : e = [d EXCEPT !.finalTurnState["resolved"] = v]
      \/ IsObject(d.finalTurnState)
           /\ \E k \in {"resolved", "pressureLevel"} : e = [d EXCEPT !.finalTurnState[k] = Absent]
      \/ IsObject(d.signature) /\ e = [d EXCEPT !.signature.combinedHash = Absent]
  BY Zenon DEF Edited
<1> QED BY <1>1, <1>2, <1>3, <1>4, <1>5, <1>6, <1>7, <1>8, Zenon

-----------------------------------------------------------------------------
\* The inductive invariant: what the document may be, that an answer is about
\* the document there is, that an unedited document is its turn's or of the
\* old version, and that an export has its fields or has lost them.

Documents == Document \cup {Null, Garbage}
DocumentOK == doc \in Documents \cup {None}
AnswerOK ==
  answer # None =>
    /\ doc # None
    /\ \/ answer = [op |-> "guard", result |-> GuardTurnSnapshot(doc)]
       \/ answer = [op |-> "migrate", result |-> MigrateSnapshot(doc)]
SavedOK == saved # None => Saved(saved) /\ doc = Serialize(saved)
V0OK == origin = "v0" => doc \in Document /\ Unproved(doc)

\* An artifact as it was written, and what edits make of it.
Written(k, s, p) ==
  /\ k \in ExportKind /\ s \in Scenario \cup {Absent} /\ p \in Document \cup Code
  /\ k \in {"snapshot", "migration"} => Snapshot(p)
Copies(k, s, p) ==
  [exportVersion : {"e1", None}, exportKind : ExportKind \cup {None}, scenarioId : {s, None},
   payload : {p, None}, exportHash : {<<"e1", k, s, p>>, None}]
ExportOK ==
  export # None =>
    \E k, s, p : Written(k, s, p) /\ written = Envelope(k, s, p) /\ export \in Copies(k, s, p)

IInv == TurnOK /\ DocumentOK /\ AnswerOK /\ SavedOK /\ V0OK /\ ExportOK

LEMMA DocumentsAreNotNone ==
  /\ None \notin Documents
  /\ \A d \in Document : d # None /\ d # Null /\ d # Garbage
BY Sentinels DEF Documents

\* What the answer says of the document.
LEMMA AnswerOutcome ==
  ASSUME DocumentOK, AnswerOK, answer # None
  PROVE  doc \in Documents /\ answer.op \in {"guard", "migrate"} /\ Outcome(doc, answer.result)
<1>1. doc \in Documents
  BY DEF DocumentOK, AnswerOK
<1>2. CASE answer = [op |-> "guard", result |-> GuardTurnSnapshot(doc)]
  <2>1. answer.op = "guard" /\ answer.result = GuardTurnSnapshot(doc)
    BY <1>2
  <2> QED BY <1>1, <2>1, GuardOutcome DEF Documents
<1>3. CASE answer = [op |-> "migrate", result |-> MigrateSnapshot(doc)]
  <2>1. answer.op = "migrate" /\ answer.result = MigrateSnapshot(doc)
    BY <1>3
  <2> QED BY <1>1, <2>1, MigrateOutcome DEF Documents
<1> QED BY <1>2, <1>3 DEF AnswerOK

\* A successful answer holds a snapshot; another one that is not thrown, a code.
LEMMA AnswerCases ==
  ASSUME DocumentOK, AnswerOK, answer # None
  PROVE  /\ Succeeded => LET n == answer.result.snapshot IN
              /\ Snapshot(n) /\ answer.result = Accepted(n)
              /\ doc \in Document /\ Unproved(doc) => Unproved(n)
         /\ answer.result # Thrown /\ ~Succeeded =>
              answer.result.code \in Code /\ answer.result.scenarioId \in Scenario \cup {Absent}
<1>1. Outcome(doc, answer.result)
  BY AnswerOutcome
<1>2. CASE answer.result = Thrown
  BY <1>2 DEF Succeeded
<1>3. ASSUME NEW code \in Code, NEW s \in Scenario \cup {Absent},
             answer.result = [ok |-> FALSE, code |-> code, scenarioId |-> s]
      PROVE  /\ ~Succeeded /\ answer.result.code \in Code
             /\ answer.result.scenarioId \in Scenario \cup {Absent}
  BY <1>3 DEF Succeeded
<1>4. ASSUME NEW n, Snapshot(n), doc \in Document /\ Unproved(doc) => Unproved(n),
             answer.result = Accepted(n)
      PROVE  Succeeded /\ answer.result.snapshot = n
  BY <1>4, OutcomesDiffer DEF Succeeded
<1> QED BY <1>1, <1>2, <1>3, <1>4 DEF Outcome

\* What replaces an unedited document is the document itself.
LEMMA StoredIsSaved ==
  ASSUME DocumentOK, AnswerOK, SavedOK, Succeeded, saved # None
  PROVE  answer.result.snapshot = doc
<1>1. Snapshot(doc) /\ Fault(doc) = None
  BY SavedIsSnapshot DEF SavedOK
<1>2. MigrateSnapshot(doc) = Accepted(doc)
  BY <1>1, SnapshotStays
<1>3. GuardTurnSnapshot(doc) = Accepted(doc)
  <2>1. doc \in Document
    BY <1>1 DEF Snapshot
  <2> QED BY <1>1, <2>1, GuardMakes
<1>4. answer.result = Accepted(doc)
  <2>1. answer # None
    BY DEF Succeeded
  <2>2. CASE answer = [op |-> "guard", result |-> GuardTurnSnapshot(doc)]
    BY <2>2, <1>3
  <2>3. CASE answer = [op |-> "migrate", result |-> MigrateSnapshot(doc)]
    BY <2>3, <1>2
  <2> QED BY <2>1, <2>2, <2>3 DEF AnswerOK
<1> QED BY <1>4, OutcomesDiffer

LEMMA V0IsUnproved ==
  ASSUME NEW s \in Scenario, NEW resolved \in BOOLEAN, NEW p \in Pressure,
         NEW audit \in {<<>>, Trail([i \in 1 .. N |-> Begin(PhaseOrder[i])], N)}
  PROVE  LET d == V0Document(s, "turn-1", resolved, p, audit) IN d \in Document /\ Unproved(d)
<1> DEFINE labels == [i \in 1 .. N |-> Begin(PhaseOrder[i])]
           trail == Trail(labels, N)
           f == [turnId |-> "turn-1", currentPhase |-> Absent, pressureLevel |-> p,
                 resolved |-> resolved, completedPhaseCount |-> Absent]
           d == V0Document(s, "turn-1", resolved, p, audit)
<1>1. audit \in Audit
  <2>1. \A i \in 1 .. N : labels[i] \in Text
    BY Lengths DEF Text
  <2> HIDE DEF labels
  <2>2. trail \in [1 .. N -> Phase \X Text]
    BY <2>1, Lengths DEF Trail
  <2> HIDE DEF trail
  <2>3. trail \in Audit
    BY <2>2, Lengths DEF Audit
  <2>4. <<>> \in Audit
    BY DEF Audit
  <2>5. audit = <<>> \/ audit = trail
    BY DEF trail, labels
  <2> QED BY <2>3, <2>4, <2>5
<1>2. f \in StateObject
  BY DEF StateObject
<1> HIDE DEF f
<1>3. d = [schemaVersion |-> "v0", scenarioId |-> s, phaseOrder |-> Absent, finalTurnState |-> f,
           auditTrail |-> audit, signature |-> Absent, deterministicProof |-> Absent]
  BY DEF V0Document, f
<1> HIDE DEF d
<1>4. d \in Document
  BY <1>1, <1>2, <1>3 DEF Document, Version
<1>5. Unproved(d)
  BY <1>3 DEF Unproved, IsObject
<1> QED BY <1>4, <1>5 DEF d

\* What each step keeps of the documents.
DocumentsOK == DocumentOK /\ AnswerOK /\ SavedOK /\ V0OK

LEMMA DocumentsStay == TurnOK /\ DocumentsOK /\ [Next]_vars => DocumentsOK'
<1> SUFFICES ASSUME TurnOK, DocumentOK, AnswerOK, SavedOK, V0OK, [Next]_vars PROVE DocumentsOK'
  BY DEF DocumentsOK
<1> USE DEF DocumentsOK
<1>1. CASE Save
  <2>1. Saved(saved')
    <3>1. PICK s \in Scenario, p \in Pressure, before \in Before, xs \in Intents :
            run = Turn(s, p, before, xs)
      BY <1>1 DEF Save, TurnOK
    <3>2. run.plain = RunTurnPipeline(s, Initial(p, before), xs)
      BY <3>1 DEF Turn
    <3> QED BY <1>1, <3>2 DEF Save, Saved
  <2>2. doc' = Serialize(saved') /\ answer' = answer /\ doc = None /\ origin' = "turn"
    BY <1>1 DEF Save
  <2>3. doc' \in Document
    BY <2>1, <2>2, SavedIsSnapshot DEF Snapshot
  <2>4. DocumentOK'
    BY <2>3 DEF DocumentOK, Documents
  <2>5. AnswerOK'
    BY <2>2 DEF AnswerOK
  <2>6. SavedOK' /\ V0OK'
    BY <2>1, <2>2 DEF SavedOK, V0OK
  <2> QED BY <2>4, <2>5, <2>6
<1>2. CASE FindV0
  <2>1. PICK s \in Scenario, resolved \in BOOLEAN, p \in Pressure,
             audit \in {<<>>, Trail([i \in 1 .. N |-> Begin(PhaseOrder[i])], N)} :
          doc' = V0Document(s, "turn-1", resolved, p, audit)
    BY <1>2 DEF FindV0
  <2>2. doc' \in Document /\ Unproved(doc')
    BY <2>1, V0IsUnproved
  <2>3. doc = None /\ answer' = answer /\ saved' = saved
    BY <1>2 DEF FindV0
  <2>4. saved = None
    <3>1. ASSUME saved # None PROVE FALSE
      <4>1. doc \in Document
        BY <3>1, SavedIsSnapshot DEF SavedOK, Snapshot
      <4> QED BY <2>3, <4>1, DocumentsAreNotNone
    <3> QED BY <3>1
  <2>5. DocumentOK'
    BY <2>2 DEF DocumentOK, Documents
  <2>6. AnswerOK'
    BY <2>3 DEF AnswerOK
  <2>7. SavedOK' /\ V0OK'
    BY <2>2, <2>3, <2>4 DEF SavedOK, V0OK
  <2> QED BY <2>5, <2>6, <2>7
<1>3. CASE EditDocument
  <2>1. /\ doc # None /\ IsObject(doc) /\ answer = None /\ answer' = answer
        /\ saved' = None /\ origin' = "edited" /\ doc' \in Edited(doc)
    BY <1>3 DEF EditDocument
  <2>2. doc \in Document
    BY <2>1 DEF DocumentOK, Documents, IsObject
  <2>3. doc' \in Documents
    BY <2>1, <2>2, EditsType DEF Documents
  <2>4. DocumentOK' /\ AnswerOK' /\ SavedOK'
    BY <2>1, <2>3 DEF DocumentOK, AnswerOK, SavedOK
  <2>5. V0OK'
    BY <2>1 DEF V0OK
  <2> QED BY <2>4, <2>5
<1>4. ASSUME doc # None, UNCHANGED <<doc, saved, origin>>,
             \/ answer' = [op |-> "guard", result |-> GuardTurnSnapshot(doc)]
             \/ answer' = [op |-> "migrate", result |-> MigrateSnapshot(doc)]
      PROVE  DocumentsOK'
  <2>1. DocumentOK' /\ SavedOK' /\ V0OK'
    BY <1>4 DEF DocumentOK, SavedOK, V0OK
  <2>2. AnswerOK'
    BY <1>4 DEF AnswerOK
  <2> QED BY <2>1, <2>2
<1>5. CASE Store
  <2> DEFINE n == answer.result.snapshot
  <2>1. Succeeded /\ answer # None /\ doc' = n /\ answer' = None /\ saved' = saved /\ origin' = origin
    BY <1>5 DEF Store, Succeeded
  <2>2. Snapshot(n) /\ (doc \in Document /\ Unproved(doc) => Unproved(n))
    BY <2>1, AnswerCases
  <2>3. saved # None => n = doc
    BY <2>1, StoredIsSaved
  <2> HIDE DEF n
  <2>4. n \in Document
    BY <2>2 DEF Snapshot
  <2>5. DocumentOK' /\ AnswerOK'
    BY <2>1, <2>4 DEF DocumentOK, AnswerOK, Documents
  <2>6. SavedOK'
    BY <2>1, <2>3 DEF SavedOK
  <2>7. V0OK'
    BY <2>1, <2>2, <2>4 DEF V0OK
  <2> QED BY <2>5, <2>6, <2>7
<1>6. CASE UNCHANGED <<doc, answer, saved, origin>>
  BY <1>6 DEF DocumentOK, AnswerOK, SavedOK, V0OK
<1>7. CASE Guard \/ Migrate
  BY <1>4, <1>7 DEF Guard, Migrate, Answers
<1>8. CASE RunTurn \/ Export \/ EditExport \/ UNCHANGED vars
  BY <1>6, <1>8 DEF RunTurn, Export, EditExport, vars
<1> QED BY <1>1, <1>2, <1>3, <1>5, <1>7, <1>8 DEF Next

-----------------------------------------------------------------------------
\* Exports.

LEMMA WrittenIsCopy ==
  ASSUME NEW k \in ExportKind, NEW s, NEW p
  PROVE  Envelope(k, s, p) \in Copies(k, s, p)
BY DEF Envelope, Copies

LEMMA EditsAreCopies ==
  ASSUME NEW k, NEW s, NEW p, NEW e \in Copies(k, s, p)
  PROVE  /\ \A f \in DOMAIN e : [e EXCEPT ![f] = None] \in Copies(k, s, p)
         /\ \A j \in ExportKind : [e EXCEPT !.exportKind = j] \in Copies(k, s, p)
<1> DEFINE hash == <<"e1", k, s, p>>
           H == {hash, None}
<1>1. e \in [exportVersion : {"e1", None}, exportKind : ExportKind \cup {None},
             scenarioId : {s, None}, payload : {p, None}, exportHash : H]
  BY DEF Copies
<1> HIDE DEF hash
<1>2. ASSUME NEW f \in DOMAIN e PROVE [e EXCEPT ![f] = None] \in Copies(k, s, p)
  <2>1. f \in {"exportVersion", "exportKind", "scenarioId", "payload", "exportHash"}
    BY <1>1
  <2>2. None \in H
    OBVIOUS
  <2> HIDE DEF H
  <2> DEFINE x == [e EXCEPT ![f] = None]
             C == [exportVersion : {"e1", None}, exportKind : ExportKind \cup {None},
                   scenarioId : {s, None}, payload : {p, None}, exportHash : H]
  <2>3. ASSUME f = "exportVersion" PROVE x \in C
    BY <1>1, <2>3
  <2>4. ASSUME f = "exportKind" PROVE x \in C
    BY <1>1, <2>4
  <2>5. ASSUME f = "scenarioId" PROVE x \in C
    BY <1>1, <2>5
  <2>6. ASSUME f = "payload" PROVE x \in C
    BY <1>1, <2>6
  <2>7. ASSUME f = "exportHash" PROVE x \in C
    BY <1>1, <2>2, <2>7
  <2> HIDE DEF x, C
  <2>8. x \in C
    BY <2>1, <2>3, <2>4, <2>5, <2>6, <2>7
  <2> QED BY <2>8 DEF x, C, Copies, H, hash
<1>3. ASSUME NEW j \in ExportKind PROVE [e EXCEPT !.exportKind = j] \in Copies(k, s, p)
  BY <1>1 DEF Copies, hash
<1> QED BY <1>2, <1>3

LEMMA ExportStays == DocumentOK /\ AnswerOK /\ ExportOK /\ [Next]_vars => ExportOK'
<1> SUFFICES ASSUME DocumentOK, AnswerOK, ExportOK, [Next]_vars PROVE ExportOK'
  OBVIOUS
<1>1. CASE Export
  <2>1. answer # None /\ answer.result # Thrown /\ written' = export'
    BY <1>1 DEF Export
  <2>2. answer.op \in {"guard", "migrate"}
    BY <2>1, AnswerOutcome
  <2>3. CASE Succeeded
    <3> DEFINE n == answer.result.snapshot
    <3>1. Snapshot(n)
      BY <2>1, <2>3, AnswerCases
    <3>2. n.scenarioId \in Scenario \cup {Absent} /\ n \in Document
      BY <3>1 DEF Snapshot, Document
    <3>3. \E k \in {"snapshot", "migration"} : export' = Envelope(k, n.scenarioId, n)
      BY <1>1, <2>2, <2>3 DEF Export
    <3> HIDE DEF n
    <3>4. PICK k \in {"snapshot", "migration"} : export' = Envelope(k, n.scenarioId, n)
      BY <3>3
    <3>5. k \in ExportKind
      BY DEF ExportKind
    <3>6. Written(k, n.scenarioId, n)
      BY <3>1, <3>2, <3>5 DEF Written
    <3> QED BY <2>1, <3>4, <3>5, <3>6, WrittenIsCopy DEF ExportOK
  <2>4. CASE ~Succeeded
    <3> DEFINE c == answer.result.code
               s == answer.result.scenarioId
    <3>1. c \in Code /\ s \in Scenario \cup {Absent}
      BY <2>1, <2>4, AnswerCases
    <3>2. \E k \in {"corruption-failure", "migration-failure"} : export' = Envelope(k, s, c)
      BY <1>1, <2>2, <2>4 DEF Export
    <3> HIDE DEF c, s
    <3>3. PICK k \in {"corruption-failure", "migration-failure"} : export' = Envelope(k, s, c)
      BY <3>2
    <3>4. k \in ExportKind /\ k \notin {"snapshot", "migration"}
      BY DEF ExportKind
    <3>5. Written(k, s, c)
      BY <3>1, <3>4 DEF Written
    <3> QED BY <2>1, <3>3, <3>4, <3>5, WrittenIsCopy DEF ExportOK
  <2> QED BY <2>3, <2>4
<1>2. CASE EditExport
  <2>1. /\ export # None /\ written' = written
        /\ \/ \E f \in DOMAIN export : export' = [export EXCEPT ![f] = None]
           \/ \E j \in {"snapshot", "migration"} : export' = [export EXCEPT !.exportKind = j]
    BY <1>2 DEF EditExport
  <2>2. PICK k, s, p : Written(k, s, p) /\ written = Envelope(k, s, p) /\ export \in Copies(k, s, p)
    BY <2>1 DEF ExportOK
  <2>3. {"snapshot", "migration"} \subseteq ExportKind
    BY DEF ExportKind
  <2>4. export' \in Copies(k, s, p)
    BY <2>1, <2>2, <2>3, EditsAreCopies
  <2> QED BY <2>1, <2>2, <2>4 DEF ExportOK
<1>3. CASE UNCHANGED <<export, written>>
  BY <1>3 DEF ExportOK
<1> QED BY <1>1, <1>2, <1>3
        DEF Next, vars, RunTurn, Save, FindV0, EditDocument, Guard, Migrate, Answers, Store

\* An artifact of which nothing is said but that it parses verifies only as
\* it was written.
LEMMA VerifiedIsWritten ==
  ASSUME NEW k, NEW s, NEW p, Written(k, s, p), NEW e \in Copies(k, s, p), Parses(e)
  PROVE  VerifyExportHash(e) <=> e = Envelope(k, s, p)
<1> DEFINE claimed == <<"e1", e.exportKind, e.scenarioId, e.payload>>
<1>1. e.exportVersion = "e1"
  BY DEF Parses
<1>2. e = Envelope(k, s, p) => VerifyExportHash(e)
  BY DEF Envelope, VerifyExportHash
<1>3. ASSUME VerifyExportHash(e) PROVE e = Envelope(k, s, p)
  <2>1. e.exportHash = claimed
    BY <1>1, <1>3 DEF VerifyExportHash
  <2>2. claimed # None
    <3>1. /\ e.exportKind \in ExportKind \cup {None} /\ e.scenarioId \in Scenario \cup {Absent, None}
          /\ e.payload \in Document \cup Code \cup {None}
      BY DEF Copies, Written
    <3>2. claimed \in ExportHash
      BY <3>1 DEF ExportHash
    <3> QED BY <3>2, ValueAssumption
  <2>3. e.exportHash \in {<<"e1", k, s, p>>, None}
    BY DEF Copies
  <2>4. claimed = <<"e1", k, s, p>>
    BY <2>1, <2>2, <2>3
  <2>5. e.exportKind = k /\ e.scenarioId = s /\ e.payload = p
    BY <2>4
  <2>6. e = [exportVersion |-> e.exportVersion, exportKind |-> e.exportKind,
             scenarioId |-> e.scenarioId, payload |-> e.payload, exportHash |-> e.exportHash]
    BY DEF Copies
  <2> QED BY <1>1, <2>1, <2>4, <2>5, <2>6 DEF Envelope
<1> QED BY <1>2, <1>3

-----------------------------------------------------------------------------
\* The inductive invariant holds in every state of the archive: documents and
\* answers are typed and belong together, whatever is edited.
THEOREM ArchiveInvariant == Spec => []IInv
<1>1. Init => IInv
  <2> SUFFICES ASSUME Init PROVE IInv
    OBVIOUS
  <2>1. TurnOK /\ DocumentOK /\ AnswerOK
    BY DEF Init, TurnOK, DocumentOK, AnswerOK
  <2>2. SavedOK /\ ExportOK
    BY DEF Init, SavedOK, ExportOK
  <2>3. V0OK
    BY ValueAssumption DEF Init, V0OK, Version
  <2> QED BY <2>1, <2>2, <2>3 DEF IInv
<1>2. IInv /\ [Next]_vars => IInv'
  BY TurnStays, DocumentsStay, ExportStays DEF IInv, DocumentsOK
<1> QED BY <1>1, <1>2, PTL DEF Spec

\* A saved turn comes back as it was from the guard and the migration, and
\* what the guard accepts of any document the migration returns unchanged
\* (RestoredIsSaved).
THEOREM SavedComesBack == Spec => []RestoredIsSaved
<1>1. IInv => RestoredIsSaved
  <2> SUFFICES ASSUME DocumentOK, SavedOK PROVE RestoredIsSaved
    BY DEF IInv
  <2> DEFINE g == GuardTurnSnapshot(doc)
  <2>1. ASSUME saved # None
        PROVE  /\ g.ok /\ g.snapshot.finalTurnState = saved.finalState
               /\ g.snapshot.auditTrail = saved.auditTrail
               /\ Verifies(g.snapshot.scenarioId, saved.initialState, saved.orderedActions,
                           g.snapshot.finalTurnState, g.snapshot.auditTrail,
                           g.snapshot.deterministicProof, g.snapshot.signature)
    <3>1. Saved(saved) /\ doc = Serialize(saved)
      BY <2>1 DEF SavedOK
    <3>2. /\ Snapshot(doc) /\ Fault(doc) = None
          /\ doc.finalTurnState = saved.finalState /\ doc.auditTrail = saved.auditTrail
          /\ Verifies(doc.scenarioId, saved.initialState, saved.orderedActions,
                      doc.finalTurnState, doc.auditTrail, doc.deterministicProof, doc.signature)
      BY <3>1, SavedIsSnapshot
    <3>3. g = Accepted(doc)
      <4>1. doc \in Document
        BY <3>2 DEF Snapshot
      <4> QED BY <3>2, <4>1, GuardMakes
    <3> HIDE DEF g
    <3>4. g.ok /\ g.snapshot = doc
      BY <3>3, OutcomesDiffer
    <3> QED BY <3>2, <3>4
  <2>2. ASSUME doc \notin {None, Null}
        PROVE  g # Thrown /\ (g.ok => g.snapshot # Thrown /\ MigrateSnapshot(doc) = g)
    <3>1. CASE doc = Garbage
      <4>1. PICK s : g = [ok |-> FALSE, code |-> "WRONG_SCHEMA_VERSION", scenarioId |-> s]
        BY <3>1 DEF GuardTurnSnapshot, Rejected
      <4> HIDE DEF g
      <4> QED BY <4>1, OutcomesDiffer
    <3>2. CASE doc \in Document
      <4>1. CASE Fault(doc) # None
        <5>1. PICK code \in Code, s \in Scenario \cup {Absent} :
                g = [ok |-> FALSE, code |-> code, scenarioId |-> s]
          BY <3>2, <4>1, GuardMakes
        <5> HIDE DEF g
        <5> QED BY <5>1, OutcomesDiffer
      <4>2. CASE Fault(doc) = None
        <5>1. Snapshot(doc) /\ g = Accepted(doc)
          BY <3>2, <4>2, GuardMakes
        <5>2. MigrateSnapshot(doc) = Accepted(doc)
          BY <5>1, SnapshotStays
        <5> HIDE DEF g
        <5> QED BY <3>2, <5>1, <5>2, OutcomesDiffer
      <4> QED BY <4>1, <4>2
    <3> QED BY <2>2, <3>1, <3>2 DEF DocumentOK, Documents
  <2> HIDE DEF g
  <2> QED BY <2>1, <2>2, Zenon DEF RestoredIsSaved, g
<1> QED BY <1>1, ArchiveInvariant, PTL

\* No sequence of guards, migrations and stores mints a proof for a document
\* of the old version (ProofIsNotMinted).
THEOREM NoProofMinted == Spec => []ProofIsNotMinted
<1>1. IInv => ProofIsNotMinted
  BY DEF IInv, V0OK, Unproved, ProofIsNotMinted
<1> QED BY <1>1, ArchiveInvariant, PTL

\* An export that parses and verifies is the one written, and a snapshot or
\* a migration in it comes back from the archive as it is
\* (ExportsAreFaithful).
THEOREM ExportsFaithful == Spec => []ExportsAreFaithful
<1>1. IInv => ExportsAreFaithful
  <2> SUFFICES ASSUME ExportOK, export # None, Parses(export)
               PROVE  /\ VerifyExportHash(export) = (export = written)
                      /\ VerifyExportHash(export) /\ export.exportKind \in {"snapshot", "migration"} =>
                           MigrateSnapshot(export.payload) = Accepted(export.payload)
    BY Zenon DEF IInv, ExportsAreFaithful
  <2>1. PICK k, s, p : Written(k, s, p) /\ written = Envelope(k, s, p) /\ export \in Copies(k, s, p)
    BY DEF ExportOK
  <2>2. VerifyExportHash(export) <=> export = written
    BY <2>1, VerifiedIsWritten
  <2>3. ASSUME VerifyExportHash(export), export.exportKind \in {"snapshot", "migration"}
        PROVE  MigrateSnapshot(export.payload) = Accepted(export.payload)
    <3>1. export.exportKind = k /\ export.payload = p
      BY <2>1, <2>2, <2>3 DEF Envelope
    <3>2. Snapshot(p)
      BY <2>1, <2>3, <3>1 DEF Written
    <3> QED BY <3>1, <3>2, SnapshotStays
  <2>4. VerifyExportHash(export) = (export = written)
    BY <2>2 DEF VerifyExportHash
  <2> QED BY <2>3, <2>4
<1> QED BY <1>1, ArchiveInvariant, PTL
=============================================================================
