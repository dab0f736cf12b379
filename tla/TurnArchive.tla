------------------------------ MODULE TurnArchive ------------------------------
(***************************************************************************)
(* A turn, run and kept as a document (turn-persistence.ts), that is       *)
(* restored, guarded (turn-corruption-guard.ts), migrated                  *)
(* (turn-snapshot-migration.ts) and exported (turn-persistence-export.ts), *)
(* while something else may edit the document and the export.              *)
(*                                                                         *)
(* A document is a parsed JSON value: Null, Garbage that does not parse,   *)
(* or an object whose fields may be Absent, which is missing or null.      *)
(* Values of a wrong type are left out.  Keys are sorted on writing and    *)
(* have no order here.                                                     *)
(*                                                                         *)
(* A definition named Mutant_* is a wrong form of the one below it.        *)
(***************************************************************************)
EXTENDS TurnPipeline

CONSTANTS
  Null, Garbage, Absent,
  Scenario,        \* scenario ids
  Pressure,        \* bound: pressure levels of initial states
  MaxIntents,      \* bound: intents given for one turn
  MaxEdits         \* bound: edits of the stored document and the export

VARIABLES
  run,      \* the turn that was run: its input and both results, or None
  doc,      \* the stored document, or None
  answer,   \* what the last operation on the document returned, or None
  export,   \* the exported artifact, or None
  saved,    \* the replay result that doc was written from, unedited; a ghost
  origin,   \* how doc came to be: "turn", "v0" or "edited"; a ghost
  written,  \* export as it was written; a ghost
  edits

vars == <<run, doc, answer, export, saved, origin, written, edits>>

\* The fields of a document.
Fields ==
  {"schemaVersion", "scenarioId", "phaseOrder", "finalTurnState", "auditTrail", "signature",
   "deterministicProof"}

\* What documents are made of: the record and the action of a phase, a state
\* as it is signed, and a signature; an edit leaves fields out.
Text == Label \cup {<<p>> : p \in Phase} \cup {Begin(p) : p \in Phase}
Audit == Seq(Phase \X Text)
Inputs == Seq([label : Phase \X Text, index : Nat])
SignedState ==
  [turnId : {"turn-1"}, currentPhase : Phase \cup {None}, pressureLevel : Pressure \cup {0},
   resolved : BOOLEAN, completedPhaseCount : Nat]
Hash == Scenario \X (SignedState \cup {<<>>}) \X Inputs \X SignedState \X Audit
Signed ==
  [scenarioId : Scenario, actionCount : Nat, initialStateHash : SignedState \cup {<<>>},
   inputHash : Inputs, finalStateHash : SignedState, auditHash : Audit,
   deterministicProof : BOOLEAN, combinedHash : Hash \cup {Absent}]
StateObject ==
  [turnId : {"turn-1", Absent}, currentPhase : Phase \cup {None, Absent},
   pressureLevel : Pressure \cup {0, Absent}, resolved : BOOLEAN \cup {Absent},
   completedPhaseCount : Nat \cup {Absent}]
Version == {"v0", "v00", "v1", "v01", "v2", "legacy"}
Document ==
  [schemaVersion : Version \cup {Absent}, scenarioId : Scenario \cup {Absent},
   phaseOrder : {PhaseOrder, Absent}, finalTurnState : StateObject \cup {Absent},
   auditTrail : Audit \cup {Absent}, signature : Signed \cup {Absent},
   deterministicProof : BOOLEAN \cup {Absent}]

\* The codes that documents are rejected with.
Code ==
  {"WRONG_SCHEMA_VERSION", "MISSING_SCENARIO_ID", "MISSING_RUNTIME_SIGNATURE",
   "TAMPERED_FINAL_STATE", "PHASE_ORDER_CHANGED", "AUDIT_TRAIL_CHANGED", "MALFORMED_INPUT",
   "MISSING_SOURCE_VERSION", "UNSUPPORTED_OLD_VERSION", "UNSUPPORTED_FUTURE_VERSION"}

\* What exports are of, and their hashes.
ExportKind == {"snapshot", "migration", "corruption-failure", "migration-failure"}
ExportHash ==
  {"e1"} \X (ExportKind \cup {None}) \X (Scenario \cup {Absent, None})
    \X (Document \cup Code \cup {None})

\* A turn has phases, each of them once; None, Null, Garbage and Absent are
\* four values and none of those of documents and exports.
ASSUME PhaseAssumption ==
  /\ PhaseOrder \in Seq(Phase) /\ N > 0 /\ MaxIntents \in Nat
  /\ \A i, j \in 1..N : PhaseOrder[i] = PhaseOrder[j] => i = j
ASSUME ValueAssumption ==
  /\ None \notin {Null, Garbage, Absent} /\ Null \notin {Garbage, Absent} /\ Garbage # Absent
  /\ \A v \in {None, Null, Garbage, Absent} :
       /\ v \notin Scenario /\ v \notin Pressure /\ v \notin BOOLEAN /\ v \notin Audit
       /\ v \notin Version /\ v \notin Code /\ v \notin Hash /\ v \notin Signed
       /\ v \notin StateObject /\ v \notin Document /\ v \notin ExportHash

IsObject(v) == v \notin {Null, Garbage, Absent}

-----------------------------------------------------------------------------
\* serializeTurnResult, of a replay result; the actions and the initial
\* state are not written.
Serialize(r) ==
  [schemaVersion |-> "v1", scenarioId |-> r.scenarioId, phaseOrder |-> PhaseOrder,
   finalTurnState |-> r.finalState, auditTrail |-> r.auditTrail, signature |-> r.signature,
   deterministicProof |-> r.signature.deterministicProof]

\* buildV0SnapshotJson
V0Document(scenario, turn, resolved, pressure, audit) ==
  [schemaVersion |-> "v0", scenarioId |-> scenario, phaseOrder |-> Absent,
   finalTurnState |-> [turnId |-> turn, currentPhase |-> Absent, pressureLevel |-> pressure,
                       resolved |-> resolved, completedPhaseCount |-> Absent],
   auditTrail |-> audit, signature |-> Absent, deterministicProof |-> Absent]

\* restoreTurnSnapshot: it throws on what it cannot read, and copies the rest.
Restores(d) ==
  IsObject(d) /\ d.schemaVersion = "v1" /\ IsObject(d.signature) /\ IsObject(d.finalTurnState)
Mutant_RestoresNoTrail(d) == IF ~Restores(d) THEN Thrown ELSE [d EXCEPT !.auditTrail = <<>>]
RestoreTurnSnapshot(d) ==
  IF ~Restores(d) THEN Thrown
  ELSE [d EXCEPT !.auditTrail = IF d.auditTrail = Absent THEN <<>> ELSE d.auditTrail]

Accepted(s) == [ok |-> TRUE, snapshot |-> s]
Rejected(d, code) ==
  [ok |-> FALSE, code |-> code, scenarioId |-> IF IsObject(d) THEN d.scenarioId ELSE Absent]

\* guardTurnSnapshot: the first check that fails.
Fault(d) ==
  IF d.schemaVersion # "v1" THEN "WRONG_SCHEMA_VERSION"
  ELSE IF d.scenarioId = Absent THEN "MISSING_SCENARIO_ID"
  ELSE IF ~IsObject(d.signature) THEN "MISSING_RUNTIME_SIGNATURE"
  ELSE IF d.signature.combinedHash = Absent THEN "MISSING_RUNTIME_SIGNATURE"
  ELSE IF ~IsObject(d.finalTurnState) THEN "TAMPERED_FINAL_STATE"
  ELSE IF d.finalTurnState["resolved"] = Absent THEN "TAMPERED_FINAL_STATE"
  ELSE IF d.phaseOrder # PhaseOrder THEN "PHASE_ORDER_CHANGED"
  ELSE IF d.auditTrail = Absent \/ d.auditTrail = <<>> THEN "AUDIT_TRAIL_CHANGED"
  ELSE None

GuardTurnSnapshot(d) ==
  IF d = Garbage THEN Rejected(d, "WRONG_SCHEMA_VERSION")
  ELSE IF d = Null THEN Thrown
  ELSE IF Fault(d) # None THEN Rejected(d, Fault(d))
  ELSE Accepted(RestoreTurnSnapshot(d))

-----------------------------------------------------------------------------
\* migrateV0ToV1: a document without the fields of v0 is refused; what v0 does
\* not have is filled in, and nothing is proved.
MalformedV0(d) ==
  \/ d.scenarioId = Absent \/ ~IsObject(d.finalTurnState) \/ d.auditTrail = Absent
  \/ Absent \in {d.finalTurnState["turnId"], d.finalTurnState["resolved"]}

MigratedState(f, audit) ==
  [turnId |-> f["turnId"], currentPhase |-> None,
   pressureLevel |-> IF f["pressureLevel"] = Absent THEN 0 ELSE f["pressureLevel"],
   resolved |-> f["resolved"], completedPhaseCount |-> Len(audit)]

Mutant_MigrationProves(d) ==
  LET final == MigratedState(d.finalTurnState, d.auditTrail) IN
  [schemaVersion |-> "v1", scenarioId |-> d.scenarioId, phaseOrder |-> PhaseOrder,
   finalTurnState |-> final, auditTrail |-> d.auditTrail,
   signature |-> Signature(d.scenarioId, <<>>, <<>>, final, d.auditTrail, TRUE),
   deterministicProof |-> TRUE]
Migrated(d) ==
  LET final == MigratedState(d.finalTurnState, d.auditTrail) IN
  [schemaVersion |-> "v1", scenarioId |-> d.scenarioId, phaseOrder |-> PhaseOrder,
   finalTurnState |-> final, auditTrail |-> d.auditTrail,
   signature |-> Signature(d.scenarioId, <<>>, <<>>, final, d.auditTrail, FALSE),
   deterministicProof |-> FALSE]

\* migrateSnapshot.  A version is v and a number, which may begin with zeros.
\* A current document is restored without a check, so one that cannot be
\* restored throws, and so does every one of v01, which is not spelt v1.
MigrateSnapshot(d) ==
  IF d = Garbage THEN Rejected(d, "MALFORMED_INPUT")
  ELSE IF d = Null THEN Thrown
  ELSE IF d.schemaVersion = Absent THEN Rejected(d, "MISSING_SOURCE_VERSION")
  ELSE IF d.schemaVersion = "legacy" THEN Rejected(d, "UNSUPPORTED_OLD_VERSION")
  ELSE IF d.schemaVersion = "v2" THEN Rejected(d, "UNSUPPORTED_FUTURE_VERSION")
  ELSE IF d.schemaVersion \in {"v1", "v01"}
    THEN IF Restores(d) THEN Accepted(RestoreTurnSnapshot(d)) ELSE Thrown
  ELSE IF MalformedV0(d) THEN Rejected(d, "MALFORMED_INPUT")
  ELSE Accepted(Migrated(d))

\* buildExportJson; the version fields follow from the kind and are left out.
Mutant_HashesTheHeader(kind, scenario, payload) ==
  [exportVersion |-> "e1", exportKind |-> kind, scenarioId |-> scenario, payload |-> payload,
   exportHash |-> <<"e1", kind, scenario, None>>]
Envelope(kind, scenario, payload) ==
  [exportVersion |-> "e1", exportKind |-> kind, scenarioId |-> scenario, payload |-> payload,
   exportHash |-> <<"e1", kind, scenario, payload>>]

\* parseExport, verifyExportHash
Parses(e) == e.exportVersion = "e1"
VerifyExportHash(e) == e.exportHash = <<e.exportVersion, e.exportKind, e.scenarioId, e.payload>>

-----------------------------------------------------------------------------
Init ==
  /\ run = None /\ doc = None /\ answer = None /\ export = None
  /\ saved = None /\ origin = None /\ written = None /\ edits = 0

Intents ==
  UNION {[1..n -> [phase : Phase, label : Label]] : n \in 0..MaxIntents}

\* A turn is run, guarded and not, from a fresh state or from one that has
\* completed phases before.
RunTurn ==
  /\ run = None /\ doc = None
  /\ \E s \in Scenario, p \in Pressure, before \in {<<>>, <<PhaseOrder[1]>>}, intents \in Intents :
       LET initial == [NewTurn("turn-1", p) EXCEPT !.completedPhases = before] IN
       run' = [initial |-> initial, intents |-> intents,
               guarded |-> RunTurnPipelineGuarded(s, initial, intents),
               plain |-> RunTurnPipeline(s, initial, intents)]
  /\ UNCHANGED <<doc, answer, export, saved, origin, written, edits>>

\* The result is registered and written.
Save ==
  /\ run # None /\ doc = None
  /\ saved' = Replay(run.plain) /\ doc' = Serialize(saved') /\ origin' = "turn" /\ run' = None
  /\ UNCHANGED <<answer, export, written, edits>>

\* A document of the old version is there.
FindV0 ==
  /\ run = None /\ doc = None
  /\ \E s \in Scenario, resolved \in BOOLEAN, p \in Pressure,
        audit \in {<<>>, Trail([i \in 1..N |-> Begin(PhaseOrder[i])], N)} :
       doc' = V0Document(s, "turn-1", resolved, p, audit)
  /\ origin' = "v0"
  /\ UNCHANGED <<run, answer, export, saved, written, edits>>

\* What may become of a document outside the program.
Edited(d) ==
  {Null, Garbage} \cup {[d EXCEPT ![f] = Absent] : f \in Fields}
    \cup {[d EXCEPT !.schemaVersion = v] : v \in Version}
    \cup {[d EXCEPT !.auditTrail = <<>>], [d EXCEPT !.deterministicProof = TRUE]}
    \cup (IF ~IsObject(d.finalTurnState) THEN {}
          ELSE {[d EXCEPT !.finalTurnState["resolved"] = v] : v \in BOOLEAN}
               \cup {[d EXCEPT !.finalTurnState[k] = Absent] : k \in {"resolved", "pressureLevel"}})
    \cup (IF IsObject(d.signature) THEN {[d EXCEPT !.signature.combinedHash = Absent]} ELSE {})

EditDocument ==
  /\ doc # None /\ IsObject(doc) /\ edits < MaxEdits /\ answer = None
  /\ doc' \in Edited(doc) \ {doc} /\ edits' = edits + 1
  /\ saved' = None /\ origin' = "edited"
  /\ UNCHANGED <<run, answer, export, written>>

Answers(op, r) ==
  /\ answer' = [op |-> op, result |-> r]
  /\ UNCHANGED <<run, doc, export, saved, origin, written, edits>>

Guard == doc # None /\ Answers("guard", GuardTurnSnapshot(doc))
Migrate == doc # None /\ Answers("migrate", MigrateSnapshot(doc))

Succeeded == answer # None /\ answer.result # Thrown /\ answer.result.ok

\* A snapshot that an operation returned replaces the document.
Store ==
  /\ Succeeded
  /\ doc' = answer.result.snapshot /\ answer' = None
  /\ UNCHANGED <<run, export, saved, origin, written, edits>>

\* exportSnapshot, exportMigrationResult, exportCorruptionFailure,
\* exportMigrationFailure
Export ==
  /\ answer # None /\ answer.result # Thrown /\ export = None
  /\ LET kind == CASE Succeeded /\ answer.op = "guard" -> "snapshot"
                   [] Succeeded /\ answer.op = "migrate" -> "migration"
                   [] ~Succeeded /\ answer.op = "guard" -> "corruption-failure"
                   [] OTHER -> "migration-failure"
     IN export' = IF Succeeded
                    THEN Envelope(kind, answer.result.snapshot.scenarioId, answer.result.snapshot)
                    ELSE Envelope(kind, answer.result.scenarioId, answer.result.code)
  /\ written' = export'
  /\ UNCHANGED <<run, doc, answer, saved, origin, edits>>

EditExport ==
  /\ export # None /\ edits < MaxEdits
  /\ export' \in ({[export EXCEPT ![f] = None] : f \in DOMAIN export}
                   \cup {[export EXCEPT !.exportKind = k] : k \in {"snapshot", "migration"}})
                  \ {export}
  /\ edits' = edits + 1
  /\ UNCHANGED <<run, doc, answer, saved, origin, written>>

Next ==
  \/ RunTurn \/ Save \/ FindV0 \/ EditDocument \/ Guard \/ Migrate \/ Store
  \/ Export \/ EditExport

Spec == Init /\ [][Next]_vars
-----------------------------------------------------------------------------
\* A guarded turn whose intents leave the order at some place ends as a
\* failure that keeps exactly what ran before that place, never the rejected
\* intent, and is not resolved by it; one in order with an intent for every
\* phase is no failure, and with no intent more it is the plain turn.  What
\* becomes of one that ends too early is the subject of NeverThrows.
FailureKeepsPrefix ==
  run # None =>
    LET inOrder == \A i \in DOMAIN run.intents : i <= N => run.intents[i].phase = PhaseOrder[i]
        r == run.guarded IN
    /\ inOrder /\ Len(run.intents) >= N => r # Thrown /\ ~IsFailure(r)
    /\ inOrder /\ Len(run.intents) = N => r = run.plain
    /\ ~inOrder =>
         LET done == Len(r.auditTrailUpToFailure) IN
         /\ IsFailure(r)
         /\ done < N /\ done < Len(run.intents)
         /\ r.receivedPhase = run.intents[done + 1].phase
         /\ r.receivedPhase # PhaseOrder[done + 1]
         /\ \A i \in 1..done : /\ run.intents[i].phase = PhaseOrder[i]
                               /\ r.auditTrailUpToFailure[i] = <<PhaseOrder[i], run.intents[i].label>>
         /\ r.priorStateSummary.completedPhaseCount = Len(run.initial.completedPhases) + done
         /\ ~r.priorStateSummary.resolved

\* "Never throws" (turn-pipeline.ts, of runTurnPipelineGuarded and of its
\* failures): a guarded turn is answered with a result or a failure, whatever
\* intents it is given.
NeverThrows == run # None => run.guarded # Thrown

\* A turn that was saved and not edited comes back from the guard and from
\* the migration alike: its state, its whole trail, and a signature that
\* verifies against the run.  Of any document, edited or not, what the guard
\* accepts the migration returns unchanged, so that neither throws after it.
RestoredIsSaved ==
  /\ saved # None =>
       LET g == GuardTurnSnapshot(doc)
           s == g.snapshot IN
       /\ g.ok /\ s.finalTurnState = saved.finalState /\ s.auditTrail = saved.auditTrail
       /\ Verifies(s.scenarioId, saved.initialState, saved.orderedActions, s.finalTurnState,
                   s.auditTrail, s.deterministicProof, s.signature)
  /\ doc \notin {None, Null} =>
       LET g == GuardTurnSnapshot(doc) IN
       g # Thrown /\ (g.ok => g.snapshot # Thrown /\ MigrateSnapshot(doc) = g)

\* "migrated data cannot claim original determinism"
\* (turn-snapshot-migration.ts): a document that began in the old version
\* carries no proof after any migrations, guards and stores.
ProofIsNotMinted ==
  origin = "v0" =>
    /\ doc.deterministicProof \in {Absent, FALSE}
    /\ IsObject(doc.signature) => ~doc.signature.deterministicProof

\* An export that parses and verifies is the one that was written: no edit
\* of its header, its payload or its hash goes unseen.  If it is of a
\* snapshot or a migration, its payload comes back from the archive as it
\* is, so that it can be kept instead of the document.
ExportsAreFaithful ==
  export # None /\ Parses(export) =>
    /\ VerifyExportHash(export) = (export = written)
    /\ VerifyExportHash(export) /\ export.exportKind \in {"snapshot", "migration"} =>
         MigrateSnapshot(export.payload) = Accepted(export.payload)
=============================================================================
