---------------------------- MODULE RestartTarget ----------------------------
(***************************************************************************)
(* A target that restart candidates are installed into                     *)
(* (posix-secret-engine-restart-install-gate.ts) and the sessions that     *)
(* re-enter it afterwards (posix-secret-engine-postinstall-reentry.ts).    *)
(* Every call is synchronous, so a call is one step; what interleaves are  *)
(* the calls of an installer and of several sessions on the same target.   *)
(*                                                                         *)
(* restartInstallStateFingerprint digests the canonical JSON of a state,   *)
(* so a fingerprint is modelled by the state as it would be read back,     *)
(* Stored(state): it does not see whether packets still have the key of    *)
(* an undefined supersedesId.  A candidate was read back, and has none.    *)
(* The semantic body of an installation is its candidate and the           *)
(* fingerprint it expects: the authority is one.  The receipts of the      *)
(* target are kept as the code reads them: the latest one of each          *)
(* operation, and the last one that was pushed as COMMITTED, which is the  *)
(* root that sessions open from.  Malformed inputs, which change nothing,  *)
(* are left out, and so are the provenance checks of a candidate, which    *)
(* is the snapshot of a saved state.                                       *)
(*                                                                         *)
(* A definition named Mutant_* is a wrong form of the one below it.        *)
(***************************************************************************)
EXTENDS HandoffInterface, SequencesExt

CONSTANTS
  Saved,     \* interface states that recovery envelopes were written of
  InstallOp, \* identities of installation operations
  Session,   \* handles of re-entry sessions
  CommandId, \* identities of re-entry commands
  Command,   \* ordinary commands that sessions dispatch
  Initial    \* interface states a target may be created with

\* validCommandShape; an identity of blanks only counts as None.
OrdinaryCommand ==
  [type : {"EMIT_HANDOFF"}, accountable : BOOLEAN, handoff : Handoff \cup {None},
   packet : EmittedPacket]
    \cup [type : {"OBSERVE", "VALIDATE"}, handoff : Handoff]
    \cup [type : {"ADMIT"}, op : Operation, authority : Authority, outcome : Outcome]
    \cup [type : {"RECONCILE"}, op : Operation, decision : Decision]
    \cup [type : {"BIND_SEED"}, seed : Seed]
    \cup [type : {"COMMIT_ROUTE"}, route : Route]
    \cup [type : {"EVALUATE_ROUTE", "REFUSE_SOURCE_MUTATION"}]

\* The stateSnapshot of a restart candidate was read from a recovery store.
Candidate == {Stored(x) : x \in Saved}

\* The fingerprints callers expect; the current one is always among them.
Expected == {Stored(x) : x \in Initial} \cup Candidate

InstallReceipt ==
  [op : InstallOp, cand : Candidate, before : RuntimeState, decision : Decision]

\* on is the state that the command was applied to; the code keeps only its
\* fingerprint, before.
LogEntry ==
  [id : CommandId, cmd : Command, before : RuntimeState, on : RuntimeState, after : RuntimeState]

SessionRecord ==
  [root : InstallReceipt, opening : RuntimeState, latest : RuntimeState, log : Seq(LogEntry)]

\* What holds of every state that a run of the interface leaves, from a
\* fresh state (SecretEngineProofs) or from an installed one
\* (RestartTargetProofs); nothing in the gate looks for it in a snapshot.  It
\* says nothing of the keys of packets, which a snapshot may lack.
Genuine(x) ==
  LET Vetted(h) == /\ Known(x, h) /\ x.packets[h].flaw = None /\ ~BadAncestry(x, h)
      Past      == {"ADMITTED", "SEED_BOUND", "ROUTE_ELIGIBLE", "ROUTED"}
  IN /\ x.state \in Past \cup {"ADMISSIBLE_NOT_ADMITTED"} => x.active # None /\ Vetted(x.active)
     /\ \A o \in Operation : x.receipts[o] # None => x.active # None /\ Vetted(x.receipts[o].handoff)
     /\ x.state \in Past =>
          \E o \in Operation :
            /\ x.receipts[o] # None /\ x.receipts[o].decision = "COMMITTED"
            /\ x.receipts[o].handoff = x.active
     /\ x.state \in {"ROUTE_ELIGIBLE", "ROUTED"} => x.seed # None

ASSUME RestartAssumption ==
  /\ Saved \cup Initial \subseteq RuntimeState
  /\ Command \subseteq OrdinaryCommand
  /\ None \notin Candidate \cup InstallReceipt \cup SessionRecord

ASSUME GenuineAssumption == \A x \in Saved \cup Initial : Genuine(x)

VARIABLES
  cur,      \* the target's currentState
  latest,   \* the latest install receipt of each operation
  root,     \* the last COMMITTED receipt
  pending,  \* the candidate of an operation whose outcome is unknown
  session,  \* the open re-entry sessions
  effects   \* ENGINE_LOCAL admissions of each operation since the root; a ghost

vars == <<cur, latest, root, pending, session, effects>>

Init ==
  /\ cur \in Initial
  /\ latest = [o \in InstallOp |-> None] /\ root = None
  /\ pending = [o \in InstallOp |-> None]
  /\ session = [s \in Session |-> None]
  /\ effects = [o \in Operation |-> 0]

-----------------------------------------------------------------------------
\* The installation gate.

Undecided(o) == latest[o] # None /\ latest[o].decision = "UNKNOWN"

\* The operations whose latest receipt is UNKNOWN, as both the gate and the
\* sessions look for them.
Mutant_NoneUnresolved == {}
Unresolved == {o \in InstallOp : Undecided(o)}

Mutant_NoExpectation(x) == FALSE
Drifted(x) == Stored(cur) # x

Mutant_OnlyCommitsAreHistory(o) == latest[o] # None /\ latest[o].decision = "COMMITTED"
HasPrior(o) == latest[o] # None

Mutant_AnyTarget == FALSE
NotFresh == root = None /\ Drifted(Fresh)

\* What installRestartCandidate answers to operation o on candidate c.
InstallCode(o, c, x) ==
  IF HasPrior(o) THEN
    IF latest[o].cand # c \/ latest[o].before # x THEN "CONFLICT-OPERATION"
    ELSE IF latest[o].decision = "UNKNOWN" THEN "HOLD-OPERATION-UNKNOWN"
    ELSE IF latest[o].decision = "NOT_COMMITTED" THEN "CONFLICT-OPERATION"
    ELSE IF Drifted(latest[o].cand) THEN "CONFLICT-CURRENT-STATE"
    ELSE "OK-ALREADY-INSTALLED"
  ELSE IF Unresolved # {} THEN "HOLD-OPERATION-UNKNOWN"
  ELSE IF Drifted(x) THEN "CONFLICT-CURRENT-STATE"
  ELSE IF NotFresh THEN "REFUSE-NONFRESH-TARGET"
  ELSE "PROCEED"

Pushed(o, r) ==
  /\ latest' = [latest EXCEPT ![o] = r]
  /\ root' = IF r.decision = "COMMITTED" THEN r ELSE root

Replaced(c) == cur' = c /\ effects' = [o \in Operation |-> 0]

Install ==
  \E o \in InstallOp, c \in Candidate, x \in {Stored(cur)} \cup Expected,
     outcome \in Outcome :
    LET d == DecisionOf(outcome) IN
    /\ InstallCode(o, c, x) = "PROCEED"
    /\ Pushed(o, [op |-> o, cand |-> c, before |-> x, decision |-> d])
    /\ IF d = "COMMITTED" THEN Replaced(c) ELSE UNCHANGED <<cur, effects>>
    /\ pending' = IF d = "UNKNOWN" THEN [pending EXCEPT ![o] = c] ELSE pending
    /\ UNCHANGED session

\* What reconcileRestartInstall answers.
ReconcileCode(o, d) ==
  IF latest[o] = None THEN "HOLD-OPERATION-UNKNOWN"
  ELSE IF latest[o].decision = "COMMITTED" THEN
    IF Drifted(latest[o].cand) THEN "CONFLICT-CURRENT-STATE" ELSE "OK-ALREADY-INSTALLED"
  ELSE IF latest[o].decision # "UNKNOWN" THEN "CONFLICT-OPERATION"
  ELSE IF d = "UNKNOWN" THEN "HOLD-OPERATION-UNKNOWN"
  ELSE IF d = "NOT_COMMITTED" THEN "OK-RECONCILED-NOT-COMMITTED"
  ELSE IF pending[o] = None THEN "INVALID-RECEIPT"
  ELSE IF pending[o] # latest[o].cand THEN "CONFLICT-ANCESTRY"
  ELSE IF ~Drifted(pending[o]) THEN "OK-ALREADY-INSTALLED"
  ELSE IF Drifted(latest[o].before) THEN "CONFLICT-CURRENT-STATE"
  ELSE "OK-INSTALLED"

\* The private evidence that a settled installation is taken from.
Mutant_ClearedFirst(o) == None
Evidence(o) == pending[o]

Settles(code) == code \in {"OK-RECONCILED-NOT-COMMITTED", "OK-ALREADY-INSTALLED", "OK-INSTALLED"}

\* A candidate that is already there, by its fingerprint, is not put there
\* again, but its receipt makes it the root all the same.
ReconcileInstall ==
  \E o \in InstallOp, d \in Decision :
    /\ Undecided(o) /\ Settles(ReconcileCode(o, d))
    /\ Pushed(o, [op |-> o, cand |-> latest[o].cand, before |-> latest[o].before,
                  decision |-> d])
    /\ pending' = [pending EXCEPT ![o] = None]
    /\ IF d # "COMMITTED" THEN UNCHANGED <<cur, effects>>
       ELSE Replaced(IF ReconcileCode(o, d) = "OK-INSTALLED" THEN Evidence(o) ELSE cur)
    /\ UNCHANGED session

-----------------------------------------------------------------------------
\* Re-entry sessions.

\* SyntheticPostInstallReentrySession.open
Open ==
  \E s \in Session :
    /\ session[s] = None
    /\ Unresolved = {} /\ root # None /\ ~Drifted(root.cand)
    /\ session' = [session EXCEPT ![s] =
         [root |-> root, opening |-> Stored(cur), latest |-> Stored(cur), log |-> <<>>]]
    /\ UNCHANGED <<cur, latest, root, pending, effects>>

\* dispatchOrdinaryInterfaceCommand
Applied(c, x) ==
  CASE c.type = "EMIT_HANDOFF" -> Emit(x, c.accountable, c.handoff, c.packet)
    [] c.type = "OBSERVE" -> Observe(x, c.handoff)
    [] c.type = "VALIDATE" -> Validate(x, c.handoff)
    [] c.type = "ADMIT" -> Admit(x, c.op, c.authority, c.outcome)
    [] c.type = "RECONCILE" -> Reconcile(x, c.op, c.decision)
    [] c.type = "BIND_SEED" -> BindSeed(x, c.seed)
    [] c.type = "EVALUATE_ROUTE" -> EvaluateRoute(x)
    [] c.type = "COMMIT_ROUTE" -> CommitRoute(x, c.route)
    [] OTHER -> RefuseSourceMutation(x)

\* The command is an admission that reports an engine effect.
Takes(c, o) ==
  c.type = "ADMIT" /\ c.op = o /\ Admits(cur, o, c.authority) /\ c.outcome = "COMMIT"

Mutant_NeverStale(s) == FALSE
Stale(s) == Drifted(session[s].latest)

\* The receipts of the session for a command identity.
Prior(s, id) == {e \in ToSet(session[s].log) : e.id = id}

\* What a session's command meets before its identity is looked up; the
\* target's own dispatcher repeats the first and third check on the same state.
StateCode(s, x) ==
  IF Unresolved # {} THEN "HOLD-INSTALL-UNKNOWN"
  ELSE IF Stale(s) THEN "CONFLICT-SESSION-STALE"
  ELSE IF Drifted(x) THEN "CONFLICT-CURRENT-STATE"
  ELSE "PROCEED"

\* What dispatchPostInstallReentryCommand answers to a session.
DispatchCode(s, id, c, x) ==
  IF StateCode(s, x) # "PROCEED" THEN StateCode(s, x)
  ELSE IF Prior(s, id) = {} THEN "PROCEED"
  ELSE IF \E e \in Prior(s, id) : e.cmd = c /\ e.before = x THEN "OK-ALREADY-APPLIED"
  ELSE "CONFLICT-COMMAND"

Dispatch ==
  \E s \in Session, x \in {Stored(cur)} \cup Expected :
    /\ session[s] # None /\ StateCode(s, x) = "PROCEED"
    /\ \E id \in CommandId, c \in Command :
         /\ DispatchCode(s, id, c, x) = "PROCEED"
         /\ cur' = Applied(c, cur)
         /\ effects' = [o \in Operation |-> IF Takes(c, o) THEN effects[o] + 1 ELSE effects[o]]
         /\ session' = [session EXCEPT ![s] =
              [root |-> @.root, opening |-> @.opening, latest |-> Stored(cur'),
               log |-> Append(@.log, [id |-> id, cmd |-> c, before |-> x, on |-> cur,
                                      after |-> Stored(cur')])]]
    /\ UNCHANGED <<latest, root, pending>>

Next == Install \/ ReconcileInstall \/ Open \/ Dispatch

Spec == Init /\ [][Next]_vars
-----------------------------------------------------------------------------
\* The target, its receipts and its sessions keep their types.
TypeOK ==
  /\ cur \in RuntimeState
  /\ latest \in [InstallOp -> InstallReceipt \cup {None}]
  /\ root \in InstallReceipt \cup {None}
  /\ pending \in [InstallOp -> Candidate \cup {None}]
  /\ session \in [Session -> SessionRecord \cup {None}]
  /\ effects \in [Operation -> Nat]

\* An installation whose outcome is unknown fences the target: there is one
\* at a time, the state stays what it expected, and so its reconciliation,
\* either way and however late, is never refused.
UnknownCanSettle ==
  /\ \A o, p \in InstallOp : Undecided(o) /\ Undecided(p) => o = p
  /\ \A o \in InstallOp : Undecided(o) =>
       /\ Stored(cur) = latest[o].before
       /\ \A d \in {"COMMITTED", "NOT_COMMITTED"} : Settles(ReconcileCode(o, d))

\* A decided installation stays decided: no retry, later installation or
\* reconciliation changes its receipt.
DecidedIsFinal ==
  [][\A o \in InstallOp :
       latest[o] # None /\ latest[o].decision # "UNKNOWN" => latest'[o] = latest[o]]_vars

Grew(s) ==
  session[s] # None /\ session'[s] # None /\ Len(session'[s].log) = Len(session[s].log) + 1

\* The state of the target changes only by an installation that pushes a
\* committed receipt, or by a command that one session logs; the receipt
\* names the state that was replaced.
ChangesAreReceipted ==
  [][cur' # cur =>
       \/ root' # root /\ root'.cand = cur' /\ root'.before = Stored(cur)
       \/ \E s \in Session : Grew(s) /\
            LET e == session'[s].log[Len(session'[s].log)] IN
            e.before = Stored(cur) /\ e.after = Stored(cur')]_vars

\* The log of a session is one unbroken history from the state it opened on
\* to the last state it left, whatever other sessions and installations did
\* in between, as far as fingerprints tell states apart, and no command
\* identity is in it twice.
LogIsHistory ==
  \A s \in Session : session[s] # None =>
    LET log == session[s].log
        At(n) == IF n = 0 THEN session[s].opening ELSE log[n].after
    IN /\ \A n \in 1 .. Len(log) :
            /\ log[n].before = At(n - 1) /\ log[n].before = Stored(log[n].on)
            /\ log[n].after = Stored(Applied(log[n].cmd, log[n].on))
       /\ session[s].latest = At(Len(log))
       /\ \A m, n \in 1 .. Len(log) : log[m].id = log[n].id => m = n

\* An admission takes effect at most once between two installations, over
\* all sessions together, and never if the installed state already shows it
\* committed: a restart does not repeat it.
AdmitsOncePerRoot ==
  \A o \in Operation :
    /\ effects[o] <= 1
    /\ effects[o] = 1 => Settled(cur, o) /\ ~Settled(root.cand, o)

\* Until a first installation is committed, at once or by a reconciliation,
\* nothing changes the target or opens a session, and then it replaces a
\* fresh state: a target created with any other state stays as it is.
FirstInstallIsFromFresh ==
  [][root = None => IF root' = None THEN UNCHANGED <<cur, session>> ELSE cur = Fresh]_vars

Engine == INSTANCE SecretEngine WITH
  st <- cur, commits <- effects, Emitted <- {}, Installed <- {}, MaxCommits <- 1

\* What a restart leaves of an interface state: through any installations and
\* re-entries an admission is grounded on a committed receipt and a vetted
\* packet.  That validate accepts the packet again does not survive: a packet
\* that supersedes nothing comes back without the key its fingerprint was
\* taken with (postinstall-reentry.test.ts, "INVALID-FINGERPRINT").  No other
\* vetted packet is ever turned down.
EngineStaysGrounded ==
  /\ Engine!AdmissionIsGrounded /\ Engine!OnlyVettedIsAdmitted
  /\ root # None =>
       \A h \in Handoff : Known(cur, h) /\ Engine!Vetted(h) /\ Objection(cur, h) # None =>
         cur.packets[h] = root.cand.packets[h] /\ cur.packets[h].supersedes = None

\* "exact duplicate is idempotent" (RER-021/022,
\* posix-secret-engine-postinstall-reentry.test.ts): sending again the last
\* command that a session applied, when nothing has happened since, is
\* answered as already applied.
ExactDuplicateIsIdempotent ==
  \A s \in Session : session[s] # None /\ session[s].log # <<>> =>
    LET e == session[s].log[Len(session[s].log)] IN
    Unresolved = {} /\ ~Stale(s) => DispatchCode(s, e.id, e.cmd, e.before) = "OK-ALREADY-APPLIED"
=============================================================================
