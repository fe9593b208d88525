------------------------------- MODULE ClauseV -------------------------------
(***************************************************************************)
(* The Clause V gate (app/clause_v.py) with the evidence rules it uses     *)
(* (app/evidence.py), and one record that passes through it: created,      *)
(* updated in every way the API allows, archived and brought back.         *)
(*                                                                         *)
(* A record is its type, its evidence, its status and whether its text     *)
(* reads like emotion, transient state or a transcript (the three soft     *)
(* rules).  A stale row is no concern here: update_memory judges the row   *)
(* it read merged with the patch, and writes exactly that, if the version  *)
(* is still the one it read.                                               *)
(***************************************************************************)
EXTENDS Integers, FiniteSets

CONSTANT Keep           \* a field the update does not mention

VARIABLES softMode,     \* JARVIS_CLAUSE_V_SOFT; the hard rules are in force
          entry,        \* the record, or NoEntry
          ungated,      \* it was written before the gate and not judged since (history)
          warned        \* the warnings the last gate call left for the caller

cvVars == <<softMode, entry, ungated, warned>>

Types == {"decision", "fact", "task"}      \* architecture and research are as fact;
AllowedTypes == {"decision", "fact"}       \* preference and external_context as task
Statuses == {"draft", "verified", "archived"}

\* One link: a user request or a chat message; something checkable; an evidence object
\* of either schema; an object that is not stored, or is damaged.
LinkKinds == {"user-request", "file", "fact-object", "decision-object", "missing-object"}
Evidence == {{}} \cup {{k} : k \in LinkKinds} \cup {{"user-request", "file"}, {"file", "missing-object"}}

Entry == [type : Types, evidence : Evidence, status : Statuses, soft : BOOLEAN]
NoEntry == [type |-> "task", evidence |-> {}, status |-> "none", soft |-> FALSE]

-----------------------------------------------------------------------------
(* The rules *)

\* check_links: every evidence-object link resolves to an intact object.
LinksIntact(evidence) == "missing-object" \notin evidence

CountsAsFactEvidence(kind) == kind = "fact-object"

\* A decision needs any link with a ref; every other type a checkable one.
EvidenceMissing(type, evidence) ==
  IF type = "decision" THEN evidence = {}
  ELSE \A k \in evidence : k # "file" /\ ~CountsAsFactEvidence(k)

HardReasons(type, evidence) ==
  (IF type \in AllowedTypes THEN {} ELSE {"type"})
  \cup (IF EvidenceMissing(type, evidence) THEN {"evidence"} ELSE {})

SoftReasons(soft) == IF soft /\ softMode # "off" THEN {"text"} ELSE {}

\* _judge: what it raises; a soft hit is raised in the mode enforce, a warning otherwise.
Refusals(checkHard, checkSoft, e) ==
  (IF checkHard THEN HardReasons(e.type, e.evidence) ELSE {})
  \cup (IF checkSoft /\ softMode = "enforce" THEN SoftReasons(e.soft) ELSE {})
Warnings(checkSoft, e) == IF checkSoft /\ softMode = "warn" THEN SoftReasons(e.soft) ELSE {}

Pick(new, old) == IF new = Keep THEN old ELSE new
Merge(e, u) == [type |-> Pick(u.type, e.type), evidence |-> Pick(u.evidence, e.evidence),
                status |-> Pick(u.status, e.status), soft |-> Pick(u.soft, e.soft)]

\* mutant: leaving the archive is not looked at
ForgetsUnarchive(e, u, merged) ==
  \/ merged.status = "verified"
  \/ u.type # Keep /\ u.type # e.type
  \/ u.evidence # Keep
\* gate_update asks the hard questions only where the record could be admitted.
Admits(e, u, merged) ==
  \/ merged.status = "verified"
  \/ u.type # Keep /\ u.type # e.type
  \/ u.evidence # Keep
  \/ e.status = "archived" /\ merged.status # "archived"

CheckHard(e, u, merged) == Admits(e, u, merged) /\ merged.status # "archived"
CheckSoft(u, merged) == u.soft # Keep /\ merged.status # "archived"

-----------------------------------------------------------------------------
(* The operations *)

Create ==
  /\ entry = NoEntry
  /\ \E e \in Entry :
       /\ LinksIntact(e.evidence)
       /\ Refusals(TRUE, TRUE, e) = {}
       /\ entry' = e
       /\ warned' = Warnings(TRUE, e)
  /\ ungated' = FALSE
  /\ UNCHANGED softMode

\* The hard rules may have been switched off, or not yet deployed.
CreateBeforeGate ==
  /\ entry = NoEntry
  /\ \E e \in Entry : LinksIntact(e.evidence) /\ entry' = e
  /\ ungated' = TRUE
  /\ UNCHANGED <<softMode, warned>>

Updates == [type : Types \cup {Keep}, evidence : Evidence \cup {Keep},
            status : Statuses \cup {Keep}, soft : BOOLEAN \cup {Keep}]

Update ==
  /\ entry # NoEntry
  /\ \E u \in Updates :
       LET merged == Merge(entry, u)
       IN /\ u.evidence # Keep => LinksIntact(u.evidence)
          /\ Refusals(CheckHard(entry, u, merged), CheckSoft(u, merged), merged) = {}
          /\ entry' = merged
          /\ warned' = Warnings(CheckSoft(u, merged), merged)
          /\ ungated' = (ungated /\ ~CheckHard(entry, u, merged))
  /\ UNCHANGED softMode

Delete ==
  /\ entry # NoEntry
  /\ entry' = NoEntry
  /\ ungated' = FALSE /\ warned' = {}
  /\ UNCHANGED softMode

CvInit ==
  /\ softMode \in {"warn", "enforce", "off"}
  /\ entry = NoEntry
  /\ ungated = FALSE
  /\ warned = {}

CvNext == Create \/ CreateBeforeGate \/ Update \/ Delete
CvSpec == CvInit /\ [][CvNext]_cvVars

-----------------------------------------------------------------------------
(* Safety *)

\* "The ledger stores evidence": whatever sequence of updates brought it there, a record
\* that is not archived, and was judged once, has an allowed type and evidence of the kind
\* its type needs; stripping an archived record and bringing it back does not get past.
AdmittedHasEvidence ==
  entry # NoEntry /\ ~ungated /\ entry.status # "archived"
    => HardReasons(entry.type, entry.evidence) = {}
=============================================================================
