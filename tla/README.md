# TLA+ models of the FOTN deterministic runtime

Specifications, model-checking configurations and machine-checked proofs for the parts of this
repository whose correctness depends on the order of steps: several callers of one directory,
crashes between two file operations, answers that come late or not at all, commands that are sent
twice. Paths below are relative to the repository root.

## The system

The repository is a library of deterministic engines ("identical state and identical events give
identical consequence") with the tooling to install and verify them. Its parts:

| part | code | state it keeps | operations | interacts with |
|---|---|---|---|---|
| recovery envelope | `src/pyramid/posix-secret-engine-recovery-envelope.ts` | none: an envelope is a value | seal, verify one, verify a chain against a checkpoint | the store verifies every record it reads |
| local recovery store | `.../posix-secret-engine-local-temp-recovery-store.ts` | a directory: final records, staging files, claim files | `append`, `loadVerifiedChain`, both asynchronous | envelope; any number of callers and processes on one directory |
| persisted restart reload | `.../posix-secret-engine-persisted-restart-reload.ts` | none | `preparePersistedRestart` | loads from the store, hands a candidate to the gate |
| restart install gate | `.../posix-secret-engine-restart-install-gate.ts` | per target: current state, install receipts, pending candidates | `installRestartCandidate`, `reconcileRestartInstall`, dispatch of a command | replaces the interface state inside a target |
| re-entry sessions | `.../posix-secret-engine-postinstall-reentry.ts` | per session: root receipt, last fingerprint, receipts | `open`, `dispatchPostInstallReentryCommand` | run interface commands on a target, several sessions on one |
| Position IX / Secret Engine interface | `.../posix-secret-engine-interface.ts` | packets, active handoff, admission receipts, seed, route | emit, observe, validate, admit, reconcile, bind seed, evaluate and commit route, refuse mutation | the harness and the sessions drive it |
| non-production harness | `.../posix-secret-engine-nonprod-harness.ts` | one interface state | `runNonprodScenario` | the interface, the runtime signature |
| world engines | `src/pyramid/gp-test-001.ts`, `src/pyramid/structural-thermal-simulation.ts`, `src/water/closed-loop-water-runtime.ts`, the Stone room of `src/runtime/playable-pressure.ts` | tick, pools, fields, edges, heat and energy accounts, halt flag; plates and pressures of the room | apply one command: accept, or deny and halt | the local adapter and the consumer host |
| local adapter and consumer host | `src/adapter/local-runtime-adapter.ts`, `src/pressurebound-consumer/consumer-host.ts` | none | fourteen canary scenarios; an answer to a request; inspection of an asset bundle | world engines, HTTP |
| turn pipeline | `src/turn-pipeline/turn-pipeline.ts` | none: a run is a value | run the phases in order; the guarded run; a recovery | runtime signature, replay verification |
| turn persistence | `src/turn-persistence/` | a document on disk, an export | save, restore, guard, migrate, export | the turn pipeline's results |
| runtime core | `src/runtime/{RuntimeCore,EventSequencer,ReplayEngine,RollbackEngine,SynchronizationEngine}.ts`, `src/events/` | tick, sequence number, event log, checkpoints, synchronisation flags | append events, sequence, checkpoint, roll back, compare | canonical serialisation and hashing |
| update channel | `packaging/update/`, `packaging/installer/Install-FOTNLocalRuntime.ps1`, `packaging/runtime/` | directories `current`, `previous`, stage, hold, failed; the history file | update, manual rollback, install, uninstall, start, stop | the canaries of the local adapter |
| the rest | `src/civilization/`, `src/district/`, `src/session/`, `engine/`, `src/FOTN.Engine/`, `FOTN/`, `unity/`, ... | mostly values | value to value | - |

Components in full, with what is and is not modelled, are in `PROJECT.json`.

**What is hard.** The store is the one part that is concurrent: `append` awaits at every file-system
call, and several processes may use one directory with nothing between them but `O_EXCL` and
`link`. A crash leaves files that nothing removes, and a directory listing is not a moment in time.
The interface and the restart chain are synchronous, but their *protocols* are not: an outcome may
be unknown and be reconciled late, an answer may be lost and its command sent again, several
sessions and an installer may share a target. The update channel moves directories and may fail or
stop between two moves, and its own undoing may fail too. The world engines and the pipeline are
pure; what is hard there is a long sequence of legal commands, odd quantities, and a denial that
comes after a new state was already computed. A persisted turn may be edited, cut or old when it is
read back.

**What makes each part correct.**

- Store: the final records are always one history, which only grows at its head; an acknowledged
  record is in it; a load vouches only for a history the directory really held; damage is reported;
  calls return and clean up after themselves.
- Interface: a state past admission rests on a committed receipt of the active handoff; only a
  handoff that passed validation gets there; an operation takes effect once; stored evidence is
  never overwritten; reading never rewinds.
- Restart chain: decided installations stay decided; unknown ones fence the target and can always
  be settled; the state changes only with a receipt that names what it replaced; each session's log
  is one history; a restart does not repeat an admission; and,
  though a packet that supersedes nothing no longer validates after one, what was admitted still
  rests on its receipt and its vetted packet.
- Restart reload: a candidate is the head of a history that was loaded, and what it carries stays a
  part of the history, though the store may have moved on by the time it is installed.
- World engines: the accounts balance after any commands; what is reported as served is served; a
  command that halts an engine changes nothing else. Stone room: it resolves when everything is
  named, held and released, and only then.
- Turn pipeline and persistence: a failed turn keeps exactly what ran before the failure; what was
  saved comes back; a migrated document never claims a proof; an edited export is noticed.
- Update channel: no tool loses a build that was in use; a failed qualification ends with the build
  that was there before; a reported success is true.
- Runtime core: a rollback gives back the state of its checkpoint. It does not (see `core_rollback`).

## Modules

| module | models | state and actions |
|---|---|---|
| `EnvelopeChain` | envelopes, chains, checkpoints | no state. An envelope stands for its hash; a set of envelopes stands for the records of a directory |
| `RecoveryLog` | what the store promises | one variable, extended one envelope at a time |
| `RecoveryStore` | the local recovery store | `finals`, `staging` and `claims` are the directory; `pc`, `call`, `tries`, `seen`, `peers`, `result` are the callers. One action per awaited file-system call, one for each way a call can fail, one for a crash |
| `HandoffInterface` | the interface functions | no state: an operator from state to state for each function |
| `SecretEngine` | one interface state under commands | `st`, and `commits`, which counts engine effects. One action per command |
| `PersistedRestart` | the restart reload, on the store | no state of its own: what a preparation answers is a function of the load that its caller made |
| `RestartTarget` | the gate and the sessions | `cur`, `latest`, `root`, `pending` are the target, `session` the sessions, `effects` counts engine effects since the last installation. One action per call |
| `UpdateChannel` | update, rollback, install, uninstall, start, stop | `dir`, `up` and `tail` are the disk, the process and the history file; `pc` and `job` the tool that runs. One action per step of a script, with its failures; `Crash` between and within steps. The order of the steps and the handler a throw goes to are tables (`UpdateThen`, `Caught`, `UpdateMoves`, ...) |
| `WorldParts`, `GPTest`, `StructuralThermal`, `ClosedLoopWater`, `StoneRoom` | the world engines | no state: an operator from state and command to state for each command |
| `Worlds` | the engines under any sequence of commands | `st`, and `kind`, which engine it is of; `brought`, what came in from outside. One action per engine |
| `LocalAdapter` | the canaries with the program's own quantities, the server's answers, bundle inspection | none; evaluated before the run `worlds` |
| `TurnPipeline` | runs, guarded runs, recoveries, signatures, replay results | no state |
| `TurnArchive` | a turn kept as a document, and its export | `run`, `doc`, `answer`, `export`. One action per operation, and an edit of the document or of the export from outside |
| `CanonicalSerializer`, `CanonicalRuntime` | the runtime core | one variable per object of the code. One action per method that changes something |
| `MC...` | instances for TLC | |
| `RecoveryStoreProofs`, `PersistedRestartProofs`, `HandoffLemmas`, `SecretEngineProofs`, `RestartTargetProofs`, `UpdateChannelProofs`, `WorldsProofs`, `TurnArchiveProofs` | theorems and the lemmas they rest on; `HandoffLemmas` is shared by the interface and the target | |

`SecretEngine` and `RestartTarget` both extend `HandoffInterface`: the functions are written once, run
on one state by the first and inside an installation target by the second. `RestartTarget` also
instantiates `SecretEngine` on its own state, to say what survives restarts of what the first
guarantees. `RecoveryStore` instantiates `RecoveryLog` with `log <- finals`, and `PersistedRestart` extends it.
`Worlds` instantiates the four engines, `LocalAdapter` one of them again with the quantities of the
program, and `TurnArchive` extends `TurnPipeline`.

Abstractions, and why they keep what matters:

- *Hashes and fingerprints* are the things they digest. Two envelopes are equal
  exactly when their hashes are; packets and states, when they are but for a key (below).
- *An envelope's own verification* is membership of `InPolicy`, except the genesis relation between
  sequence number and predecessor, which the chain rests on.
- *A packet* is what `validate` finds wrong with it first, what it supersedes, and whether it has the
  key `supersedesId`. `emitHandoff` writes the key even when its value is `undefined` and takes the
  semantic fingerprint with it; the canonical JSON of a recovery envelope
  (`posix-secret-engine-recovery-envelope.ts:128-129`) drops a key without a value. So a packet is
  emitted with its key (`EmittedPacket`), saving a state is `Stored`, which takes the key from the
  packets that supersede nothing, and `Objection` answers `fingerprint` for such a packet, as
  `posix-secret-engine-postinstall-reentry.test.ts:279` expects. An empty string as `supersedesId`,
  which keeps its key and supersedes nothing, is left out.
- *A fingerprint of a state* is the digest of its canonical JSON, so it is `Stored(state)`: it does not
  see the keys either.
- *A directory listing* is bracketed: a file present from beginning to end is listed, one that
  appears or vanishes in between may be.
- *A staging file* is named by its caller, since the code draws a fresh random name. The eight
  collisions that would exhaust the retries are one of the failures.
- *An answer* is its code; details, timestamps and ancestry texts are left out.
- *Malformed input* that is refused before anything is read or written is left out, as are the
  provenance checks of a restart candidate. In the restart chain every refused call leaves the state
  as it is, so a refusal is a step that does not happen; the operators that compute the answers
  (`InstallCode`, `ReconcileCode`, `DispatchCode`) give every code in the code's order.
- A reference of blanks only, which `admit` accepts and `validateAdmissionReceipt` does not, is left
  out.

- *A directory of the update channel* is the build it was made from, whether it is whole, and the
  builds nested inside it: `Move-Item` onto a directory that is there puts one into the other, and a
  recursive removal may stop half-way. The retries of a move are one step. A build is whole when
  staged, since the package has been verified.
- *The engines* keep every quantity that a check reads; islands, watersheds, thermal stores, geometry
  tables and canonical texts, which no command reads or changes, are left out. A command that names
  an unknown part names `Unknown`. The room's pressures are counted in twentieths, the step of every
  action, so nothing is rounded.
- *A JSON document* is a record whose fields may be `Absent`, which is missing or null; values of a
  wrong type, order of keys and layout are left out. Its version is one of six: the two numbers the
  migration knows, each also written with a leading zero, a newer one and one of another form. A hash
  is the value it is taken of.

Findings of the modelling that no run states. *Restart chain*: installing an older snapshot lets an
admission take effect again that the newer state showed committed; a restored packet that supersedes
nothing fails its fingerprint check, and an admission that waits for it is held. *Store*: a claim file that a crash
left behind refuses its sequence number for good.
*Water*: a transfer from a pool to itself makes water (`AccountsBalance` counts it apart). *Turns*:
a current document that lost its signature or its state makes the migration throw, where its comment
says it never does, unless the guard turned it down before; the combined hash of a run covers neither its
number of actions nor its proof. *Runtime core*: `RuntimeCore.start` runs
its loop for ever. *Updates*: a crash between the two moves of an update leaves no current
installation, and no tool puts the previous one back.

A definition named `Mutant_...` is a deliberately wrong form of the one that follows it. No
specification uses one; each property is known to fail when one of them takes its neighbour's place.

## Runs

| run | question | instance | answer |
|---|---|---|---|
| `store_concurrent` | does the directory stay one history whatever callers do and whatever fails? | 2 callers, 5 envelopes: genesis, two rival successors, a successor of one, and one that reuses the genesis identity; 1 crash or failing call; retry limit 2; 1 checkpoint | holds |
| `store_damaged` | is damage noticed, and does every call return, damaged or not? | 2 callers, 3 envelopes: genesis, its successor and a second genesis; 1 record planted or removed, call failing or crash | holds |
| `store_hold` | does the hold for interrupted staging mean an interruption? | 2 callers, 3 envelopes, 1 fault | **no**: a peer's append under way is enough |
| `engine` | are admissions grounded, sound and single? | 2 handoffs, 2 operations, 1 seed, 1 route, packets with every flaw, self-supersession; commits counted to 2 | holds |
| `engine_held` | is an unknown outcome held until it is reconciled (NP-011)? | as `engine` | **no**: after a refused command and a validation another operation commits |
| `restart` | do installations and sessions keep receipts, histories and admissions straight? | 2 installation operations; 4 saved states: a handoff that supersedes another, an unknown outcome with and without a second handoff, a bound seed; 2 initial states, 2 sessions, 2 command identities, 11 commands | holds |
| `update` | does any failing step or crash of a tool lose a build, leave a bad one or report what is not so? | 4 builds, 2 of them good; 2 failing steps or crashes; any number of updates, rollbacks, installations and removals | holds |
| `worlds` | do the engines stay consistent under any commands? | one field with four anchors, one edge, one sector, two pumps, two trains, three plates; negative and unknown arguments; 4 accepted commands per engine, the room unbounded; and the 14 canaries at full size | holds |
| `turns` | do failures, persistence, migration and export keep what they say? | 3 phases, up to 4 intents of any phase with the label of a fresh phase or another, 2 pressures, 2 edits from outside | holds |
| `turns_guarded` | does the guarded pipeline never throw? | as `turns` | **no**: with too few intents, in order, it reads the label of a missing one |
| `core_rollback` | does a rollback restore the checkpoint it names? | 2 entities, 2 zones, 2 ticks | **no**: it returns the state it was given |
| `restart_retry` | is an exact duplicate idempotent (RER-021)? | as `restart` | **no**: when the command changed the state the resend is refused as stale |

Why the bounds are enough. A conflict in the store is between two callers, over one sequence number
or over two neighbouring ones; three sequence numbers and two rivals at one of them give all of
these, and a crash leaves its claim or staging file for the other caller to meet. The retry limit
is 100 in the code and a parameter here; with 2 a claim is found taken once and again, and the limit
is reached. A single fault combined with all interleavings covers each failure in each state a
healthy store can be in; the proofs hold for any number. In `store_damaged` a second genesis is
enough for a fork (beside the first), for a wrong predecessor (a successor planted behind it) and,
with a removal, for a gap; records that never verify and reused identities are in the theorems
about `TamperedSpec`, which hold for any envelopes. In the interface a receipt can be late for
at most one *other* handoff at a time. On a target, two operations give a decided one beside an
undecided one, and two sessions a live one beside a stale one. Of the saved states one has a packet
that survives saving (it supersedes another) beside one that does not, and two are such that a
session turns one into the other but for a key that fingerprints do not see; the run has 992 895
distinct states and takes about two minutes. `CHECK_DEADLOCK FALSE` is in the restart runs, where
operation, session and command identities are used once and run out, and in `worlds`, where an engine reaches its bound of commands. Two faults in the
update channel give a failure and a failure of what undoes it; two good and two bad builds give every
pair of a current and a staged one, and every pair is met with and without a previous one. In the
world engines the capacities are the program's, scaled so that a few commands reach each limit: three
of four anchors carry the load and two do not, one trunk carries the critical demand and not all of
it, stores are one unit from full or empty. Three phases are the least in which a phase can be
skipped and still come later, and four intents are one too many.
Callers, operations, sessions and command identities are symmetric where a configuration says so;
`store_damaged`, which checks liveness, uses none.

Fairness. `FairSpec` in `RecoveryStore`, tampering included, asks weak fairness of `Progress(c)` for each caller: an
awaited file-system call completes, and the timer behind `wait` fires. Nothing is asked of the
callers, who need not call, nor of failures. A caller has no step enabled that another caller can
disable for ever: a busy claim enables the retry instead. Nothing else uses fairness; the other
components are synchronous.

## Proofs

Every safety property that a passing run checks, invariant, action property or refinement, is also a
theorem, for every value of the constants that the named assumptions allow; only liveness is not
(below). The theorems are listed in `PROJECT.json`, each with the property it states.

**Assumptions.** `EnvelopeAssumption`, `StoreAssumption`, `InterfaceAssumption`, `EngineAssumption`,
`RestartAssumption`, `ChannelAssumption`, `TreeAssumption`, `NoneAssumption`, `WaterAssumption`,
`HeatAssumption`, `InputAssumption`, `RoomAssumption`, `PhaseAssumption` and `ValueAssumption` give
types, finiteness of what the code keeps in arrays, initial stocks within capacity and the room's
three plates, and say that `None` and the other markers are none of the values they stand beside.
These parts of them say something of the system:

- `StructureAssumption`: a whole field carries its load and a whole edge its demand, as the
  baselines of both engines take for granted (the `!` on their first allocation,
  `gp-test-001.ts:175`, `structural-thermal-simulation.ts:114`).
- `PhaseAssumption`: no phase occurs twice in the order, as in `PHASE_ORDER`.
- `GenuineAssumption` (`RestartTarget`): a state that an envelope was written of, and a state a target
  is created with, are states that a run of the interface can leave, as far as `SecretEngineProofs`
  shows what those are. It is assumed of a state *before* it is saved, and says nothing of the keys of
  packets. `CandidatesGenuine` shows that saving keeps it, and `GenuineNext` that every step of a target
  does, so a state saved from a target that was itself restarted satisfies it again. The gate checks the
  provenance of a candidate, never this; `EngineStaysGrounded` would fail for a forged one. Only that
  theorem uses it.

**Store** (`RecoveryStoreProofs`). That the final records are a chain is not inductive: the step that
matters is `Link`, and what makes it right is a decision taken several steps earlier. The inductive
invariant carries that decision along. It has the shape of the variables; the chain; the claims
(a caller past the claim owns it, alone); `ScanCurrent` - what a scan
found is in the directory, and it holds every record with the caller's own sequence number, because
only the owner of that claim can add one: so the head it found, if the append proceeds on it, is
the head; and `StillExtends` - between the decision and the link the envelope
still extends the directory. From it: type correctness, `HistoryIsChain`, `ClaimExclusion`,
`DecisionStaysValid`, and that every step of the store appends to `RecoveryLog` or leaves it alone.

**The store's answers** (`PersistedRestartProofs`). On top of that invariant each caller has one
of its own: an append past the link has its record (`Recorded`); a load that vouches holds what it
listed, and that is a sound part of the history (`Vouched`); without a fault every claim and staging
file belongs to an append under way (`Owned`); a legal append, until somebody fills its sequence
number, sees exactly the history it was made for (`Legal`); a retry of a stored record never gets
as far as staging it (`Retried`). The combinatorial heart is `ScanOfChain`: a listing that misses
records of a sound history can show a gap and nothing else. From it: `StoredIsFinal`,
`NoStrayFiles`, `LegalAppendProgress`, `RetryNeverConflicts` and `RestartIsFromHistory`. Under
`TamperedSpec`, where anything may be planted or removed, none of this holds; what does,
`DecisionStaysValid` and `DamageIsReported`, follows from the claims (`Protocol`) and from `Untouched`:
nobody is past a decision on a directory that is not one verified chain. That the scan has an answer
for exactly those directories (`DefectsFound`) is a least-counterexample argument over the
sequence numbers it walks.

**Interface** (`SecretEngineProofs`, on the lemmas of `HandoffLemmas` about single functions).
Groundedness needs that a state from admissibility on has an active handoff, and soundness that a
sound packet stays sound, which holds since packets are never replaced and supersession is of
handoffs already known. The invariant is the conjunction of types, the active handoff, groundedness,
soundness and the count of commits; the action property follows from it. All six properties of the
run `engine` are proved.

**Restart target** (`RestartTargetProofs`). The invariant says that an undecided installation is the
only one, that the state is still what it expected and that its candidate is kept (`Fence`), that
without a root no session is open and an undecided installation was made on a fresh state
(`Unrooted`), and that what the root shows as settled the current state does too (`Rooted`), which is
why an admission counted since the root cannot be one that the root already had. The logs of the
sessions are histories by induction over the calls, as far as fingerprints tell states apart: a
reconciliation may find the target at the candidate already, but for keys, and then keeps it.

What a restart leaves of the interface's guarantees is `EngineStaysGrounded`. That the active handoff
validates does not survive: a restored packet that supersedes nothing fails its fingerprint check.
What survives, and is proved, is that an admitted state rests on a committed receipt of the active
handoff and on a packet that is vetted (known, without a flaw, not superseding itself), and that
`validate` turns down a vetted packet only if it is as it was in the installed candidate and
supersedes nothing. For the first, the lemmas of the interface show that commands keep it
(`GenuineNext`); for the second, every packet without its key is traced to the candidate of the root
(`Traced`, `TracedNext`). All eight properties of the run `restart` are proved.

**Update channel** (`UpdateChannelProofs`). That nothing of use is lost depends on where the script
stands, so the invariant says, step by step, which build is in which directory (`Places`), that what is
about to be reported has passed the canaries and is stopped (`Tested`), where the builds worth keeping
are (`Kept`), and where the runnable one is as long as nothing but a qualification has failed
(`Ready`). Each step of a script either goes on, to the place its table names, or ends the script;
`FinishKeeps` says what an end must leave behind, and `MovedFacts` and `HalfRemovedFacts` what a move
and an interrupted removal do to a directory that may be occupied. From the invariant: all four
properties of the run `update`, for any builds and any number of failing steps and crashes.

**World engines** (`WorldsProofs`). The invariant is that the state is good for its engine
(`GPGood`, `SimGood`, `WaterGood`, `RoomGood`), and each engine's `Apply` is shown to keep it, one
lemma per command: accepting ones by arithmetic over the pools they name, denials because they
return the old state but for the halt. The hard part is `ServiceIsHonest`: the remainder-first
allocation of a load over the active anchors sums to exactly the load. The sum of a function over a
finite set is defined by recursion; `SumsExist` and `SumUnfolds` get from that definition what a
least counterexample needs, `SumOfSpread` the sum of a value that is one higher on some members, and
`FirstOnes` that the members that come first are as many as the remainder. All five properties of
the run `worlds` are proved, for any number of anchors, fields, edges, pumps and sectors, any
capacities and arguments of commands, and any bound on their number.

**Turns** (`TurnArchiveProofs`). `PrefixKept` is about single runs, and says nothing of a list that
ends too early (`turns_guarded` does): the first intent out of order exists (a least element), the trail before it is the labels before it, and without one the plain run
takes the same labels, because an order without repetition has one intent for each phase. The
archive's invariant types the document through every edit, ties an answer to the document there is,
an unedited document to its turn (`SavedOK`) or to the old version without a proof (`V0OK`), and an
export to the envelope it was written as (`ExportOK`). `GuardMakes`, `RestoreMakes` and
`MigrationMakes` say what each operation returns; that a snapshot comes back as it is
(`SnapshotStays`) is what joins guard, migration and export. `VerifiedIsWritten`, that a parsed
export verifies only as it was written, rests on hashes being the values they are of: it is about
what the hash covers, not about collisions of djb2. All four properties of the run `turns` are
proved, for any phases, labels, numbers of intents and edits.

**Only model-checked.** Liveness (`CallsReturn`): temporal reasoning under fairness and `ENABLED` are
out of the prover's reach. The canaries, the registered scenarios and the serializer are evaluated
by TLC on the program's own values, not proved: they are facts about those values, and sorting by
recursion is out of reach besides. Inductions over data have no theorem to cite here, since the
library's take an operator as parameter; where one was needed it was done by a least counterexample
(`LeastNatural`), over naturals or the sizes of finite sets.

Proving changed the models in these places, each time towards the code or towards what can be said
of every instance. `RecoveryStore`: an append is legal (`fresh`) only if its envelope verifies and
extends the history. `ScanDefects` is written as the sequence of checks it is.
`RestartTarget`: an earlier entry of a session's log with a given identity is a set (`Prior`),
empty or not. `Worlds`: the type invariant says which codes a halt has and what an
allocation is. `TurnArchive`: documents, hashes and codes have named sets, so that an edit can be
shown to leave a document one.

## Plan

1. Recovery store over the append-only log, with proofs. *Done.*
2. Interface and harness, with proofs. *Done.*
3. Install gate and re-entry sessions over the interface, with proofs. *Done.*
4. Restart reload over the store, with proofs. *Done.*
5. Update channel with failing steps and crashes, with proofs. *Done.*
6. World engines, Stone room, local adapter, with proofs of the engines. *Done.*
7. Turn pipeline and persistence, with proofs. *Done.*
8. Runtime core, rollback, serialisation. *Done as a counterexample: nothing holds of a rollback that is
   worth proving while it returns what it was given.*
9. Next proofs: lemmas about `LocalAdapter` (an answer passes exactly when its engine did not halt), the
   safety half of `CallsReturn` (every step of a call comes nearer to its end). *Open.*
10. C# turn manager, action queue and battle resolution, as far as they keep state. *Open.*

## Not modelled

Pure functions over character data (canonical JSON, SHA-256, the runtime signature) appear through
what they promise. Fixtures, golden snapshots, reports and the descriptive continuity, civilization
and district systems map values to values and keep no protocol. Building, signing and launching
are I/O against the operating system; building an update package and showing a status change no
installation. Unity and client code renders state it is given.
A power failure that loses unsynced directory entries is outside the model: its file operations are
durable when they return.

Of modelled parts, the following are left out. A packet, session handle or store object that is
forged: the code keeps the genuine ones in private sets, and callers here hold genuine ones only. A
session handle that its process loses: `open` requires the state to be as installed, so no session
continues after a command that changed it. The race between inspecting a bundle and reading a file of
it in the consumer host, which reads files that nobody is said to write. Sockets, the time-outs of
the adapter's server and the process around it. An uninstallation that is scheduled and whose path
holds a new installation by the time it runs: a tool is started here after the previous one is
through. Two update tools at a time, which their owner does not start. In the water engine, the names
that `in` finds on every object (`closed-loop-water-runtime.ts:177`, `:183`), such as `toString`: an
unknown name is denied here. What an update package can hold is not limited: `BeginUpdate` takes any
build but the installed one, also one that no `Build-LocalRuntimeUpdate.ps1` would make.
