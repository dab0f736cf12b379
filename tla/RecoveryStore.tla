---------------------------- MODULE RecoveryStore ----------------------------
(***************************************************************************)
(* LocalTempRecoveryStore (posix-secret-engine-local-temp-recovery-        *)
(* store.ts): an append-only store of recovery envelopes kept as files of  *)
(* one directory and used by concurrent callers, in one process or in      *)
(* several, with no coordination but the file system.                      *)
(*                                                                         *)
(* Three kinds of file matter: final records (finals), staging files named *)
(* .posix-se-store-*.tmp (staging, one per append under way, so a file is  *)
(* named by its caller), and claim files, one per sequence number (claims).*)
(* One action is one file-system call, at which an async function of the   *)
(* store awaits; everything a caller read earlier may be stale by then.    *)
(*                                                                         *)
(* The environment may crash a caller between two calls, or make a call    *)
(* fail; MaxFaults bounds how often.  Nothing in the code removes files a  *)
(* crash left behind, and neither does the model.                          *)
(*                                                                         *)
(* A definition named Mutant_... is a deliberately wrong version of the    *)
(* definition that follows it; a property must fail when it is put in its  *)
(* place.  No specification uses one.                                      *)
(***************************************************************************)
EXTENDS EnvelopeChain

CONSTANTS
  Checkpoint,       \* checkpoints that loads are called with
  Caller,           \* calls that may be under way at the same time
  ClaimRetryLimit,  \* CLAIM_RETRY_LIMIT
  MaxFaults         \* bound on crashes and failing file-system calls

ASSUME StoreAssumption ==
  /\ Checkpoint \subseteq Envelope
  /\ ClaimRetryLimit \in Nat \ {0}
  /\ MaxFaults \in Nat

VARIABLES
  finals,   \* envelopes that have a final record
  staging,  \* callers whose staging file exists
  claims,   \* sequence numbers whose claim file exists
  pc,       \* where each caller is
  call,     \* what each caller asked for
  tries,    \* attempts of acquireNextSequenceClaim that found the file taken
  seen,     \* final records found by the scan of the directory
  peers,    \* staging files that scan must list, and those it may list
  result,   \* code of the caller's last answer
  faults    \* crashes and failures so far

vars == <<finals, staging, claims, pc, call, tries, seen, peers, result, faults>>

Log == INSTANCE RecoveryLog WITH log <- finals

-----------------------------------------------------------------------------
Idle == "idle"

\* Where an append stands that has created its claim file and not removed it.
HoldingPC == {"scan", "scanning", "decide", "stage", "link", "unlink",
              "readback", "release"}

PC == {Idle, "claim"} \cup HoldingPC

Code == {"NO-RESULT", "STORE-OK-STORED", "STORE-OK-ALREADY-STORED",
         "STORE-VALID-CANDIDATE", "STORE-LOCAL-INTEGRITY-ONLY",
         "STORE-HOLD-ORPHAN-STAGING", "STORE-CONFLICT-SLOT",
         "STORE-CONFLICT-FORK", "STORE-CONFLICT-SEQUENCE",
         "STORE-CONFLICT-PREV-HASH", "STORE-CONFLICT-CHECKPOINT",
         "STORE-CONFLICT-HEAD-CHANGED", "STORE-INVALID-RECORD",
         "STORE-INVALID-READBACK", "STORE-REFUSE-PATH"}

\* env: the envelope to append; head: the caller's expectedObservedHead, or
\* the checkpoint of a load.  fresh and stored only remember, for the
\* properties, what the store held when the call was made.
Calls == [op : {"append", "load"}, env : Envelope \cup {None},
          head : Envelope \cup {None}, fresh : BOOLEAN, stored : BOOLEAN]

TypeOK ==
  /\ finals \subseteq Envelope
  /\ staging \subseteq Caller
  /\ claims \subseteq Nat
  /\ pc \in [Caller -> PC]
  /\ call \in [Caller -> Calls]
  /\ tries \in [Caller -> 0 .. ClaimRetryLimit]
  /\ seen \in [Caller -> SUBSET Envelope]
  /\ peers \in [Caller -> [sure : SUBSET Caller, maybe : SUBSET Caller]]
  /\ result \in [Caller -> Code]
  /\ faults \in 0 .. MaxFaults

NoPeers == [sure |-> {}, maybe |-> {}]

NoCall == [op |-> "load", env |-> None, head |-> None,
           fresh |-> FALSE, stored |-> FALSE]

Init ==
  /\ finals = {} /\ staging = {} /\ claims = {}
  /\ pc = [c \in Caller |-> Idle]
  /\ call = [c \in Caller |-> NoCall]
  /\ tries = [c \in Caller |-> 0]
  /\ seen = [c \in Caller |-> {}]
  /\ peers = [c \in Caller |-> NoPeers]
  /\ result = [c \in Caller |-> "NO-RESULT"]
  /\ faults = 0

-----------------------------------------------------------------------------
Appending(c) == call[c].op = "append"

Slot(c) == SeqOf[call[c].env]

Goto(c, from, to) == pc[c] = from /\ pc' = [pc EXCEPT ![c] = to]

Answer(c, code) == result' = [result EXCEPT ![c] = code]

\* An append answers after the finally block has removed its claim file; a
\* load has none.
Mutant_ReturnAtOnce(c) == Idle
Mutant_LoadAgain(c) == IF Appending(c) THEN "release" ELSE "scan"
AfterScan(c) == IF Appending(c) THEN "release" ELSE Idle

Fault == faults < MaxFaults /\ faults' = faults + 1

NoFault == UNCHANGED faults

files == <<finals, staging, claims>>
scan  == <<seen, peers>>

\* What an earlier scan found goes out of scope.
ForgetScan(c) ==
  /\ seen' = [seen EXCEPT ![c] = {}]
  /\ peers' = [peers EXCEPT ![c] = NoPeers]

-----------------------------------------------------------------------------
\* append(envelope, { expectedObservedHead }): an envelope that fails its own
\* verification is refused before any file is touched.  A caller passes a
\* head it observed, hence one that is or was in the store, or none.
CallAppend(c, e, h) ==
  /\ pc[c] = Idle
  /\ h \in finals \cup {None}
  /\ call' = [call EXCEPT ![c] =
       [op |-> "append", env |-> e, head |-> h,
        fresh |-> VerifyEnvelope(e) /\ Extends(finals, e) /\ (finals = {} \/ IsHead(finals, h)),
        stored |-> e \in finals]]
  /\ pc' = [pc EXCEPT ![c] = IF VerifyEnvelope(e) THEN "claim" ELSE Idle]
  /\ Answer(c, IF VerifyEnvelope(e) THEN "NO-RESULT" ELSE "STORE-INVALID-RECORD")
  /\ tries' = [tries EXCEPT ![c] = 0]
  /\ ForgetScan(c)
  /\ UNCHANGED <<files, faults>>

\* loadVerifiedChain(expectedCheckpoint): the caller's checkpoint, or undefined.
CallLoad(c, cp) ==
  /\ Goto(c, Idle, "scan")
  /\ call' = [call EXCEPT ![c] =
       [op |-> "load", env |-> None, head |-> cp, fresh |-> FALSE, stored |-> FALSE]]
  /\ Answer(c, "NO-RESULT")
  /\ tries' = [tries EXCEPT ![c] = 0]
  /\ ForgetScan(c)
  /\ UNCHANGED <<files, faults>>

-----------------------------------------------------------------------------
\* acquireNextSequenceClaim: open(O_CREAT | O_EXCL) of the claim file named
\* after the envelope's sequence number.
Mutant_ClaimNotExclusive(n) == FALSE
ClaimTaken(n) == n \in claims

AcquireClaim(c) ==
  /\ Goto(c, "claim", "scan")
  /\ ~ClaimTaken(Slot(c))
  /\ claims' = claims \cup {Slot(c)}
  /\ tries' = [tries EXCEPT ![c] = 0]
  /\ UNCHANGED <<finals, staging, call, scan, result, faults>>

\* Attempt number k is the last one of the retry loop.
Mutant_NoLastAttempt(k) == FALSE
LastAttempt(k) == k = ClaimRetryLimit

\* EEXIST: wait and try again, up to the limit.
ClaimBusy(c) ==
  LET last == LastAttempt(tries[c] + 1) IN
  /\ Goto(c, "claim", IF last THEN Idle ELSE "claim")
  /\ ClaimTaken(Slot(c))
  /\ tries' = [tries EXCEPT ![c] = @ + 1]
  /\ Answer(c, IF last THEN "STORE-CONFLICT-HEAD-CHANGED" ELSE "NO-RESULT")
  /\ UNCHANGED <<files, call, scan, faults>>

\* The open fails, or it succeeds and writing, syncing or closing the file
\* fails: the error is answered and a file already created is left behind.
ClaimFails(c) ==
  /\ Fault
  /\ Goto(c, "claim", Idle)
  /\ ~ClaimTaken(Slot(c))
  /\ claims' \in {claims, claims \cup {Slot(c)}}
  /\ tries' = [tries EXCEPT ![c] = 0]
  /\ Answer(c, "STORE-INVALID-READBACK")
  /\ UNCHANGED <<finals, staging, call, scan>>

-----------------------------------------------------------------------------
\* scanStore lists the directory, which is not atomic: a file there from
\* start to end is listed, one that appears or vanishes meanwhile may be.
BeginScan(c) ==
  /\ Goto(c, "scan", "scanning")
  /\ seen' = [seen EXCEPT ![c] = finals]
  /\ peers' = [peers EXCEPT ![c] = [sure |-> staging, maybe |-> {}]]
  /\ UNCHANGED <<files, call, tries, result, faults>>

\* Any staging file in the listing ends the scan with a hold.
EndScan(c) ==
  \E F \in SUBSET finals, S \in SUBSET (peers[c].sure \cup peers[c].maybe) :
    /\ seen[c] \subseteq F
    /\ (peers[c].sure \cap staging) \ peers[c].maybe \subseteq S
    /\ seen' = [seen EXCEPT ![c] = F]
    /\ peers' = [peers EXCEPT ![c] = NoPeers]
    /\ Goto(c, "scanning", IF S = {} THEN "decide" ELSE AfterScan(c))
    /\ Answer(c, IF S = {} THEN "NO-RESULT" ELSE "STORE-HOLD-ORPHAN-STAGING")
    /\ UNCHANGED <<files, call, tries, faults>>

\* The root cannot be resolved or listed, or a record cannot be read.
ScanFails(c) ==
  /\ Fault
  /\ Goto(c, "scanning", AfterScan(c))
  /\ \E code \in {"STORE-REFUSE-PATH", "STORE-INVALID-RECORD"} : Answer(c, code)
  /\ ForgetScan(c)
  /\ UNCHANGED <<files, call, tries>>

\* What the scan may answer when the records F are not one verified chain: an
\* unverified record first, else the defect at the lowest sequence number.
\* Of several records with one number either may be examined first.
ScanDefects(F) ==
  LET At(n) == {f \in F : SeqOf[f] = n}
      Below(e) == {f \in F : SeqOf[f] < SeqOf[e]}
      Unlinked(e) == SeqOf[e] > 0 /\ PrevOf[e] \notin At(SeqOf[e] - 1)
      Reuses(e) == \E f \in Below(e) : IdOf[f] = IdOf[e]
      Bad(n) == At(n) = {} \/ \E e \in At(n) : Unlinked(e) \/ Reuses(e) \/ At(n) # {e}
      reach == UNION {0 .. SeqOf[f] : f \in F}
  IN IF \E f \in F : ~VerifyEnvelope(f) THEN {"STORE-INVALID-RECORD"}
     ELSE IF \A n \in reach : ~Bad(n) THEN {}
     ELSE LET n == CHOOSE n \in reach : Bad(n) /\ \A m \in reach : Bad(m) => n <= m
          IN IF At(n) = {} THEN {"STORE-CONFLICT-SEQUENCE"}
             ELSE {IF Unlinked(e) THEN "STORE-CONFLICT-PREV-HASH"
                   ELSE IF Reuses(e) THEN "STORE-CONFLICT-SLOT"
                   ELSE "STORE-CONFLICT-FORK" : e \in At(n)}

Mutant_HealthyUnlinked(F) ==
  ~Forked(F) /\ Contiguous(F) /\ ~IdReused(F) /\ \A f \in F : VerifyEnvelope(f)

Mutant_HealthyThoughForked(F) ==
  Contiguous(F) /\ Linked(F) /\ ~IdReused(F) /\ \A f \in F : VerifyEnvelope(f)

\* The scan's checks pass.
Healthy(F) == IsChain(F) /\ \A f \in F : VerifyEnvelope(f)

\* The record is there already: same sequence, hash and bytes.
Mutant_NeverExact(F, e) == FALSE
Exact(F, e) == e \in F

\* Its identity is there with other content.
Mutant_IdentityIgnored(F, e) == FALSE
IdentityTaken(F, e) == \E f \in F : IdOf[f] = IdOf[e]

\* sameHead(expectedObservedHead, observedHead).
Mutant_HeadOffByOne(F, h) == h \in F /\ \A f \in F : SeqOf[f] < SeqOf[h]
HeadObserved(F, h) == IsHead(F, h)

\* Its previousEnvelopeHash is the head's hash.
Mutant_AnyPredecessor(e, h) == TRUE
Descends(e, h) == PrevOf[e] = h

\* What append makes of the scanned records F, in the order of its checks.
AppendVerdict(F, e, h) ==
  IF Exact(F, e) THEN "STORE-OK-ALREADY-STORED"
  ELSE IF IdentityTaken(F, e) THEN "STORE-CONFLICT-SLOT"
  ELSE IF F = {} THEN IF SeqOf[e] = 0 THEN "PROCEED" ELSE "STORE-CONFLICT-SEQUENCE"
  ELSE IF ~HeadObserved(F, h) THEN "STORE-CONFLICT-HEAD-CHANGED"
  ELSE IF SeqOf[e] # SeqOf[h] + 1 THEN "STORE-CONFLICT-SEQUENCE"
  ELSE IF ~Descends(e, h) THEN "STORE-CONFLICT-PREV-HASH"
  ELSE "PROCEED"

\* verifyRecoveryChain against the caller's checkpoint.
Mutant_CheckpointInChain(F, cp) == cp \in F
CheckpointReached(F, cp) == CheckpointMatches(F, cp)

LoadVerdict(F, cp) ==
  IF F = {} THEN "STORE-CONFLICT-SEQUENCE"
  ELSE IF cp = None THEN "STORE-LOCAL-INTEGRITY-ONLY"
  ELSE IF CheckpointReached(F, cp) THEN "STORE-VALID-CANDIDATE"
  ELSE "STORE-CONFLICT-CHECKPOINT"

Verdicts(c) ==
  IF ~Healthy(seen[c]) THEN ScanDefects(seen[c])
  ELSE IF Appending(c) THEN {AppendVerdict(seen[c], call[c].env, call[c].head)}
  ELSE {LoadVerdict(seen[c], call[c].head)}

Proceeds(c) == Appending(c) /\ Verdicts(c) = {"PROCEED"}

\* Every other verdict is the answer; an append removes its claim file first.
Decline(c) ==
  /\ ~Proceeds(c)
  /\ Goto(c, "decide", AfterScan(c))
  /\ \E code \in Verdicts(c) : Answer(c, code)
  /\ UNCHANGED <<files, call, tries, scan, faults>>

\* openUniqueStagingFile: a fresh random name, created exclusively.
OpenStaging(c) ==
  /\ Proceeds(c)
  /\ Goto(c, "decide", "stage")
  /\ staging' = staging \cup {c}
  /\ peers' = [d \in Caller |->
       IF pc[d] = "scanning"
       THEN [sure |-> peers[d].sure, maybe |-> peers[d].maybe \cup {c}]
       ELSE peers[d]]
  /\ UNCHANGED <<finals, claims, call, tries, seen, result, faults>>

\* The open fails, or its eight names all collide.
OpenStagingFails(c) ==
  /\ Fault
  /\ Proceeds(c)
  /\ Goto(c, "decide", "release")
  /\ Answer(c, "STORE-INVALID-READBACK")
  /\ UNCHANGED <<files, call, tries, scan>>

-----------------------------------------------------------------------------
WriteStaging(c) ==
  /\ Goto(c, "stage", "link")
  /\ UNCHANGED <<files, call, tries, scan, result, faults>>

\* The final records once link has made one of c's staging file.
Mutant_LinkLost(c) == finals
WithRecord(c) == finals \cup {call[c].env}

\* link(staging, final) creates the final record unless its name exists, in
\* which case the existing record is read and compared: the name holds the
\* hash, so it is the same envelope.  That path also removes the staging file.
Link(c) ==
  LET exists == call[c].env \in finals IN
  /\ Goto(c, "link", IF exists THEN "release" ELSE "unlink")
  /\ finals' = WithRecord(c)
  /\ staging' = IF exists THEN staging \ {c} ELSE staging
  /\ Answer(c, IF exists THEN "STORE-OK-ALREADY-STORED" ELSE "NO-RESULT")
  /\ UNCHANGED <<claims, call, tries, scan, faults>>

UnlinkStaging(c) ==
  /\ Goto(c, "unlink", "readback")
  /\ staging' = staging \ {c}
  /\ UNCHANGED <<finals, claims, call, tries, scan, result, faults>>

\* Writing, linking or unlinking fails: the staging file is unlinked (again),
\* ignoring whether that works, and the append reports failure.  When it was
\* the unlink that failed the final record already exists.
StagingFails(c) ==
  /\ Fault
  /\ \E at \in {"stage", "link", "unlink"} : Goto(c, at, "release")
  /\ staging' \in {staging, staging \ {c}}
  /\ Answer(c, "STORE-INVALID-READBACK")
  /\ UNCHANGED <<finals, claims, call, tries, scan>>

\* readFinalRecord of the new record: it holds the canonical bytes just linked.
Readback(c) ==
  /\ Goto(c, "readback", "release")
  /\ Answer(c, "STORE-OK-STORED")
  /\ UNCHANGED <<files, call, tries, scan, faults>>

ReadbackFails(c) ==
  /\ Fault
  /\ Goto(c, "readback", "release")
  /\ Answer(c, "STORE-INVALID-READBACK")
  /\ UNCHANGED <<files, call, tries, scan>>

-----------------------------------------------------------------------------
\* finally: unlink the claim file, and answer.
Release(c) ==
  /\ Goto(c, "release", Idle)
  /\ claims' = claims \ {Slot(c)}
  /\ ForgetScan(c)
  /\ UNCHANGED <<finals, staging, call, tries, result, faults>>

\* An error of that unlink is swallowed.
ReleaseFails(c) ==
  /\ Fault
  /\ Goto(c, "release", Idle)
  /\ ForgetScan(c)
  /\ UNCHANGED <<files, call, tries, result>>

\* The process dies: its files stay as they are, and a restarted process
\* knows nothing of them.
Crash(c) ==
  /\ Fault
  /\ pc[c] # Idle
  /\ pc' = [pc EXCEPT ![c] = Idle]
  /\ Answer(c, "NO-RESULT")
  /\ call' = [call EXCEPT ![c] = NoCall]
  /\ tries' = [tries EXCEPT ![c] = 0]
  /\ ForgetScan(c)
  /\ UNCHANGED files

-----------------------------------------------------------------------------
\* The steps of a call once it has been made, when nothing fails.
Progress(c) ==
  \/ AcquireClaim(c) \/ ClaimBusy(c)
  \/ BeginScan(c) \/ EndScan(c) \/ Decline(c)
  \/ OpenStaging(c) \/ WriteStaging(c) \/ Link(c) \/ UnlinkStaging(c)
  \/ Readback(c) \/ Release(c)

Failure(c) ==
  \/ ClaimFails(c) \/ ScanFails(c) \/ OpenStagingFails(c) \/ StagingFails(c)
  \/ ReadbackFails(c) \/ ReleaseFails(c) \/ Crash(c)

Next ==
  \E c \in Caller :
    \/ \E e \in Envelope, h \in Envelope \cup {None} : CallAppend(c, e, h)
    \/ \E cp \in Checkpoint \cup {None} : CallLoad(c, cp)
    \/ Progress(c)
    \/ Failure(c)

Spec == Init /\ [][Next]_vars

-----------------------------------------------------------------------------
\* Something else writes a well-named canonical record into the directory, or
\* removes one, while no call is under way; it counts as a fault.
PlantRecord(e)  == e \notin finals /\ finals' = finals \cup {e}

RemoveRecord(e) == e \in finals /\ finals' = finals \ {e}

Tamper ==
  /\ Fault
  /\ \A c \in Caller : pc[c] = Idle
  /\ \E e \in Envelope : PlantRecord(e) \/ RemoveRecord(e)
  /\ UNCHANGED <<staging, claims, pc, call, tries, scan, result>>

TamperedSpec == Init /\ [][Next \/ Tamper]_vars

\* An awaited file-system call completes, and the timer of a claim retry fires:
\* a call that can take a step takes one, also in a damaged directory.
FairSpec == TamperedSpec /\ \A c \in Caller : WF_vars(Progress(c))

-----------------------------------------------------------------------------
\* Properties

\* However appends interleave, crash or fail, the final records are one
\* history: no two records for a sequence number, no gap, every record linked
\* to its predecessor, no identity used twice.
HistoryIsChain == IsChain(finals)

\* The O_EXCL claim file excludes: two appends past acquireNextSequenceClaim
\* are never about the same sequence number, and their claim files are there.
ClaimExclusion ==
  \A c, d \in Caller :
    Appending(c) /\ pc[c] \in HoldingPC =>
      /\ Slot(c) \in claims
      /\ Appending(d) /\ pc[d] \in HoldingPC /\ c # d => Slot(c) # Slot(d)

\* What append decided from its scan is still right when the record is linked,
\* several awaits later: the directory is a sound history that the envelope
\* extends.  In particular a damaged directory is never appended to.
DecisionStaysValid ==
  \A c \in Caller :
    pc[c] \in {"stage", "link"} =>
      /\ Extends(finals, call[c].env)
      /\ IsChain(finals) /\ IsChain(finals \cup {call[c].env})

\* An append answered STORED or ALREADY-STORED has its record in the
\* directory, whatever the other callers did before and after the answer.
StoredIsFinal ==
  \A c \in Caller :
    result[c] \in {"STORE-OK-STORED", "STORE-OK-ALREADY-STORED"} =>
      call[c].env \in finals

\* Calls that end without a crash or an error leave no claim file and no
\* staging file behind: every early return passes the cleanup.
NoStrayFiles ==
  faults = 0 /\ (\A c \in Caller : pc[c] = Idle) => claims = {} /\ staging = {}

\* An append made with the right observed head, that met no fault, no peer's
\* staging file and no busy claim up to the limit, finds its sequence number
\* filled: by its own record, or by the rival that won the race.
LegalAppendProgress ==
  \A c \in Caller :
    /\ faults = 0 /\ pc[c] = Idle /\ call[c].fresh
    /\ tries[c] < ClaimRetryLimit /\ result[c] # "STORE-HOLD-ORPHAN-STAGING"
    => \E f \in finals : SeqOf[f] = Slot(c)

\* Retrying an append whose record is already there is never told of a rival
\* or a stale head, unless the claim stayed busy to the limit.  (It may be told
\* of a gap: a listing can miss a record added while it ran and show the next.)
RetryNeverConflicts ==
  \A c \in Caller :
    call[c].stored /\ tries[c] < ClaimRetryLimit =>
      result[c] \notin {"STORE-CONFLICT-SLOT", "STORE-CONFLICT-FORK",
                        "STORE-CONFLICT-PREV-HASH", "STORE-CONFLICT-HEAD-CHANGED",
                        "STORE-OK-STORED"}

\* The directory implements the append-only log: whatever the callers do, the
\* final records only ever grow by one envelope that extends the history.
RefinesLog == Log!Spec

\* Every call returns (or its process dies): no claim left behind by a crash
\* and no peer can keep an append waiting beyond its retries.
CallsReturn == \A c \in Caller : pc[c] # Idle ~> pc[c] = Idle

\* Records that do not form one verified chain, put there or taken away by
\* something else, are never loaded, and no append adds to them however many
\* run; the scan has an answer for every such set of records.
DamageIsReported ==
  \A c \in Caller :
    pc[c] = "decide" =>
      /\ ~Healthy(seen[c]) <=> ScanDefects(seen[c]) # {}
      /\ ~Healthy(finals) => ~Proceeds(c)

\* "Interrupted staging evidence detected" (STORE-HOLD-ORPHAN-STAGING) is
\* answered only when some append was interrupted.
HoldMeansInterrupted ==
  \A c \in Caller : result[c] = "STORE-HOLD-ORPHAN-STAGING" => faults > 0
=============================================================================
