----------------------------- MODULE LedgerImport -----------------------------
(***************************************************************************)
(* Importing a JSON ledger into the row store (app/pg_import.py): parse    *)
(* the source, plan the inserts, run them in one READ COMMITTED            *)
(* transaction, compare, and commit.  Imports may be run again after a     *)
(* crash or a lost answer, two at a time, while the server writes to the   *)
(* same tenant and somebody still edits the source file.                   *)
(*                                                                         *)
(* A record is its content and the id it supersedes.  Every insert and     *)
(* update of a row writes one history entry, under the lock on the chain   *)
(* heads, which the transaction keeps until it ends.                       *)
(***************************************************************************)
EXTENDS Integers, Sequences, SequencesExt, FiniteSets

CONSTANTS Ids, Contents, Sources,     \* Sources: the documents the file may hold
          Imports, MaxRuns, MaxServerWrites, None

ASSUME DocumentsEnd == \A d \in Sources : IsFiniteSet(DOMAIN d.records)

VARIABLES file,        \* the source document now
          rows,        \* committed rows of the target tenant: id -> record
          board,       \* the target's board, or None
          history,     \* committed history entries, [id, op]
          run,         \* per import process
          runs, served \* bounds: runs started, writes of the server

imVars == <<file, rows, board, history, run, runs, served>>

-----------------------------------------------------------------------------
(* build_plan *)

Dangling(doc, i) ==
  doc.records[i].supersedes \notin {None, i} /\ doc.records[i].supersedes \notin DOMAIN doc.records
NullDangling(doc) ==
  [i \in DOMAIN doc.records |->
     IF Dangling(doc, i) THEN [doc.records[i] EXCEPT !.supersedes = None] ELSE doc.records[i]]

\* Rounds of records whose target is placed; what never gets ready is a cycle.
Ready(records, placed) ==
  {i \in DOMAIN records \ placed :
     records[i].supersedes \in {None, i} \cup placed \/ records[i].supersedes \notin DOMAIN records}
Placed(records) ==
  LET round[n \in 0..Cardinality(DOMAIN records)] ==
        IF n = 0 THEN {} ELSE round[n - 1] \cup Ready(records, round[n - 1])
  IN round[Cardinality(DOMAIN records)]

\* None when the document has a problem.
BuildPlan(doc, null) ==
  LET records == IF null THEN NullDangling(doc) ELSE doc.records
  IN IF \E i \in DOMAIN records : Dangling([doc EXCEPT !.records = records], i) THEN None
     ELSE IF Placed(records) # DOMAIN records THEN None
     ELSE [records |-> records, board |-> doc.board]

-----------------------------------------------------------------------------
(* One import process *)

Off == [phase |-> "off"]
ImInit ==
  /\ file \in Sources
  /\ rows = <<>> /\ board = None /\ history = <<>>
  /\ run = [p \in Imports |-> Off] /\ runs = 0 /\ served = 0

\* Reads the file, its hash twice, and plans; a problem ends the run (exit 2).
Start(p) == \E mode \in {"apply", "dry", "verify"}, resume, null \in BOOLEAN :
  /\ run[p].phase \in {"off", "applied"} /\ runs < MaxRuns
  /\ LET plan == BuildPlan(file, null)
     IN run' = [run EXCEPT ![p] =
          IF plan = None \/ (mode = "verify" /\ resume) THEN Off
          ELSE [phase |-> "planned", mode |-> mode, resume |-> resume, source |-> file, plan |-> plan,
                inserts |-> {}, boards |-> FALSE]]
  /\ runs' = runs + 1
  /\ UNCHANGED <<file, rows, board, history, served>>

End(p) == run' = [run EXCEPT ![p] = Off]

\* execute: what the target holds must be part of the plan.
Refused(plan, resume) ==
  \/ rows # <<>> /\ ~resume
  \/ DOMAIN rows \ DOMAIN plan.records # {}
  \/ \E i \in DOMAIN rows \cap DOMAIN plan.records : rows[i] # plan.records[i]
  \/ board \notin {None, plan.board}

ReadTarget(p) ==
  /\ run[p].phase = "planned" /\ run[p].mode # "verify"
  /\ IF Refused(run[p].plan, run[p].resume) THEN End(p)
     ELSE run' = [run EXCEPT ![p] = [@ EXCEPT !.phase = "read", !.boards = (board = None),
                                              !.inserts = DOMAIN run[p].plan.records \ DOMAIN rows]]
  /\ UNCHANGED <<file, rows, board, history, runs, served>>

\* The missing rows, in the planned order: an id that has been taken since is a unique
\* violation.  An insert waits for the chain heads.
ChainFree(p) == \A o \in Imports \ {p} : run[o].phase \in {"inserted", "verified"} => run[o].inserts = {}
Insert(p) ==
  /\ run[p].phase = "read" /\ (run[p].inserts # {} => ChainFree(p))
  /\ run[p].boards => \A o \in Imports \ {p} : run[o].phase \in {"inserted", "verified"} => ~run[o].boards
  /\ IF run[p].inserts \cap DOMAIN rows # {} \/ (run[p].boards /\ board # None) THEN End(p)
     ELSE run' = [run EXCEPT ![p].phase = "inserted"]
  /\ UNCHANGED <<file, rows, board, history, runs, served>>

\* The transaction's own view: what is committed with its own rows.
OwnRows(p) == [i \in DOMAIN rows \cup run[p].inserts |->
                 IF i \in run[p].inserts THEN run[p].plan.records[i] ELSE rows[i]]
OwnBoard(p) == IF run[p].boards THEN run[p].plan.board ELSE board
NotCompared(p) == TRUE     \* mutant: trust the checks made before the inserts
Same(p) == OwnRows(p) = run[p].plan.records /\ OwnBoard(p) = run[p].plan.board

\* _compare and the history check, then the source is hashed again.
Verify(p) ==
  /\ run[p].phase = "inserted"
  /\ IF Same(p) /\ file = run[p].source /\ run[p].mode = "apply"
     THEN run' = [run EXCEPT ![p].phase = "verified"] ELSE End(p)   \* a dry run rolls back
  /\ UNCHANGED <<file, rows, board, history, runs, served>>

CommitImport(p) ==
  /\ run[p].phase = "verified"
  /\ rows' = OwnRows(p) /\ board' = OwnBoard(p)
  /\ history' = history \o SetToSeq({[id |-> i, op |-> "backfill"] : i \in run[p].inserts})
  /\ run' = [run EXCEPT ![p].phase = "applied"]
  /\ UNCHANGED <<file, runs, served>>

\* --verify, a crash, a lost connection: nothing of the transaction stays.
Abandon(p) ==
  /\ run[p].phase \notin {"off", "applied"} /\ End(p)
  /\ UNCHANGED <<file, rows, board, history, runs, served>>

-----------------------------------------------------------------------------
(* Beside them *)

EditSource ==
  /\ file' \in Sources \ {file}
  /\ UNCHANGED <<rows, board, history, run, runs, served>>

HeadsFree == \A p \in Imports : run[p].phase \in {"inserted", "verified"} => run[p].inserts = {}

ServerCreates == \E i \in Ids \ DOMAIN rows, x \in Contents :
  /\ served < MaxServerWrites /\ served' = served + 1 /\ HeadsFree
  /\ rows' = [j \in DOMAIN rows \cup {i} |-> IF j = i THEN [content |-> x, supersedes |-> None] ELSE rows[j]]
  /\ history' = Append(history, [id |-> i, op |-> "create"])
  /\ UNCHANGED <<file, board, run, runs>>

ServerUpdates == \E i \in DOMAIN rows, x \in Contents :
  /\ served < MaxServerWrites /\ served' = served + 1 /\ HeadsFree
  /\ rows' = [rows EXCEPT ![i].content = x]
  /\ history' = Append(history, [id |-> i, op |-> "update"])
  /\ UNCHANGED <<file, board, run, runs>>

ServerSetsBoard == \E b \in {d.board : d \in Sources} :
  /\ served < MaxServerWrites /\ served' = served + 1 /\ board' = b
  /\ \A p \in Imports : run[p].phase \in {"inserted", "verified"} => ~run[p].boards
  /\ UNCHANGED <<file, rows, history, run, runs>>

ImNext ==
  \/ \E p \in Imports : Start(p) \/ ReadTarget(p) \/ Insert(p) \/ Verify(p) \/ CommitImport(p) \/ Abandon(p)
  \/ EditSource \/ ServerCreates \/ ServerUpdates \/ ServerSetsBoard

ImSpec == ImInit /\ [][ImNext]_imVars

-----------------------------------------------------------------------------

Births(log, i) == {n \in DOMAIN log : log[n].id = i /\ log[n].op # "update"}

\* An import that commits rows leaves exactly the records of its plan, and the plan's board
\* if there was none, whatever was written to the tenant while it ran and however often it
\* was run before, and every row came into being by one history entry (execute, main).
CommitIsWhole ==
  \A p \in Imports :
    run[p].phase = "verified" /\ run'[p].phase = "applied" /\ run[p].inserts # {}
    => /\ rows' = run[p].plan.records
       /\ run[p].boards => board' = run[p].plan.board
       /\ \A i \in DOMAIN rows' : \E n \in DOMAIN history' : Births(history', i) = {n}
ImportIsWhole == [][CommitIsWhole]_imVars
=============================================================================
