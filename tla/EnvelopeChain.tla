---------------------------- MODULE EnvelopeChain ----------------------------
(***************************************************************************)
(* Recovery envelopes and the hash chains they form                        *)
(* (posix-secret-engine-recovery-envelope.ts).                             *)
(*                                                                         *)
(* An envelope is an element of Envelope.  Its hash is SHA-256 over its    *)
(* canonical JSON, so two envelopes with the same hash are the same        *)
(* element and a hash is modelled by the envelope it identifies: PrevOf[e] *)
(* is the envelope whose hash e carries as previousEnvelopeHash, None for  *)
(* null.  A set of envelopes stands for the records a directory holds.     *)
(***************************************************************************)
EXTENDS Naturals

CONSTANTS
  Envelope,    \* every envelope a caller may present
  EnvelopeId,  \* caller-chosen envelope identities
  None,        \* null / undefined
  SeqOf,       \* envelope.sequence
  PrevOf,      \* envelope.previousEnvelopeHash
  IdOf,        \* envelope.envelopeId
  InPolicy     \* envelopes whose schema, identities, boundaries, baseline,
               \* hash, signature, receipts and ancestry pass verification

ASSUME EnvelopeAssumption ==
  /\ None \notin Envelope
  /\ SeqOf \in [Envelope -> Nat]
  /\ PrevOf \in [Envelope -> Envelope \cup {None}]
  /\ IdOf \in [Envelope -> EnvelopeId]
  /\ InPolicy \subseteq Envelope

-----------------------------------------------------------------------------
\* Sequence 0 and a null predecessor go together.
GenesisRelation(e) == SeqOf[e] = 0 <=> PrevOf[e] = None

\* verifyRecoveryEnvelope: the checks on one envelope alone.
VerifyEnvelope(e) == e \in InPolicy /\ GenesisRelation(e)

\* The record with the highest sequence: records.at(-1) after the sort.
IsHead(F, h) == h \in F /\ \A f \in F : SeqOf[f] <= SeqOf[h]

Forked(F) == \E e, f \in F : e # f /\ SeqOf[e] = SeqOf[f]

\* Sorted by sequence, record number i has sequence i.
Contiguous(F) ==
  \A e \in F : \A n \in 0 .. SeqOf[e] : \E f \in F : SeqOf[f] = n

\* Every record but genesis carries the hash of its predecessor in F.
Linked(F) ==
  \A e \in F : IF SeqOf[e] = 0
               THEN PrevOf[e] = None
               ELSE PrevOf[e] \in F /\ SeqOf[PrevOf[e]] = SeqOf[e] - 1

IdReused(F) == \E e, f \in F : e # f /\ IdOf[e] = IdOf[f]

\* A single history: one record per sequence number, gapless from genesis,
\* hash-linked, and no envelope identity used for two contents.
IsChain(F) == ~Forked(F) /\ Contiguous(F) /\ Linked(F) /\ ~IdReused(F)

\* e may be added to the history F: a genesis on an empty history, else the
\* successor of the head, under an identity not used before.
Extends(F, e) ==
  /\ GenesisRelation(e)
  /\ \A f \in F : IdOf[f] # IdOf[e]
  /\ \/ F = {} /\ SeqOf[e] = 0
     \/ \E h \in F : IsHead(F, h) /\ SeqOf[e] = SeqOf[h] + 1 /\ PrevOf[e] = h

\* verifyRecoveryChain on a chain: no checkpoint means local integrity only;
\* with one, the head must be the checkpoint.
CheckpointMatches(F, cp) == cp # None /\ IsHead(F, cp)
=============================================================================
