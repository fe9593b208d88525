----------------------------- MODULE Continuity -----------------------------
(***************************************************************************)
(* The conflict filter of app/continuity.py and the reads of app/store.py  *)
(* built on it, as operators on sets of records.  A record has at least    *)
(* id, status, subject, hash (content_sha256 of the normalised text) and   *)
(* supersedes; None stands for a field without a value.                    *)
(***************************************************************************)
EXTENDS Integers, FiniteSets

CONSTANT None

Active(r) == r.status # "archived"
Live(records) == {r \in records : Active(r)}
About(records, subject) == {r \in records : r.subject = subject}

\* _non_superseded_ids: not archived, and no active record of the set replaces it.
NonSuperseded(records) ==
  {r \in Live(records) : \A s \in Live(records) : s.supersedes # r.id}

Hashes(records) == {r.hash : r \in records}

\* detect_conflicts: per subject, two or more open records; unresolved if they differ.
\* A replacement counts only within its subject.
Conflict(records, subject) ==
  LET open == NonSuperseded(About(records, subject))
  IN [subject |-> subject, memories |-> open, unresolved |-> Cardinality(Hashes(open)) > 1]

DetectConflicts(records, subject) ==
  LET subjects == {r.subject : r \in records} \ {None}
  IN {c \in {Conflict(records, x) : x \in (IF subject = None THEN subjects ELSE subjects \cap {subject})} :
        Cardinality(c.memories) > 1}

Unresolved(conflicts) == {c \in conflicts : c.unresolved}

\* ledger_retrieve: the conflicts among all live records that touch the page returned.
RetrieveConflicts(page, live, subject) ==
  {c \in DetectConflicts(live, subject) : subject # None \/ c.memories \cap page # {}}
=============================================================================
