------------------------------ MODULE SealedLog ------------------------------
(***************************************************************************)
(* What the ledger promises of one tenant's history, without writers,      *)
(* locks, chain heads or seal transactions: a log of entries numbered      *)
(* 1..length that only grows at its end, several entries at a time when    *)
(* one change touches several records, and a sealed prefix of it that only *)
(* grows and never runs ahead of the log.                                  *)
(***************************************************************************)
EXTENDS Integers

VARIABLES
  entries,  \* a set of records with a field seq
  length,   \* the newest seq
  sealed    \* the seq the blocks reach

vars == <<entries, length, sealed>>

\* `es' holds exactly one entry for each seq in first..last.
Numbered(es, first, last) ==
  /\ {e.seq : e \in es} = first..last
  /\ \A e, f \in es : e.seq = f.seq => e = f

Init ==
  /\ length \in Nat
  /\ Numbered(entries, 1, length)
  /\ sealed = 0

\* New entries, numbered on from the end; what was there stays as it is.
Extend ==
  /\ length' \in Nat /\ length' > length
  /\ entries \subseteq entries'
  /\ Numbered(entries' \ entries, length + 1, length')
  /\ UNCHANGED sealed

Seal ==
  /\ sealed' \in (sealed + 1)..length
  /\ UNCHANGED <<entries, length>>

Next == Extend \/ Seal

Spec == Init /\ [][Next]_vars
=============================================================================
