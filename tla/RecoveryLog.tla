----------------------------- MODULE RecoveryLog -----------------------------
(***************************************************************************)
(* What the recovery store promises its callers: a history of envelopes    *)
(* that is only ever extended, one envelope at a time, at its head.  No    *)
(* claims, no staging files, no callers: RecoveryStore implements this     *)
(* with concurrent processes over a directory.                             *)
(***************************************************************************)
EXTENDS EnvelopeChain

VARIABLE log

Init == log = {}

Append(e) == Extends(log, e) /\ log' = log \cup {e}

Next == \E e \in Envelope : Append(e)

Spec == Init /\ [][Next]_log

\* The history is a single chain, whatever is appended to it.
LogIsChain == IsChain(log)
=============================================================================
