------------------------------ MODULE EmrWrite ------------------------------
(***************************************************************************)
(* The write gateway of app/emr_write.py: emr_remember and emr_upsert, as  *)
(* requests that run side by side over a ledger whose calls (list, get,    *)
(* create, update) are each one transaction.  The gateway holds nothing    *)
(* from one call to the next: what it read may be stale when it writes.    *)
(*                                                                         *)
(* Beside it the operator verifies and deletes records through the other   *)
(* routes, and any call may find the ledger unavailable (503).             *)
(***************************************************************************)
EXTENDS Continuity

CONSTANTS MaxIds,       \* record ids are 1..MaxIds, in the order of creation
          Subjects,
          Claims,       \* hashes of normalised contents
          Requests

Given == 1..MaxIds

ASSUME EwConstantsOK == MaxIds \in Nat /\ None \notin Given

VARIABLES ledger,       \* the records by id; NoRecord if there is none
          calls,        \* per request: where it is and what it has read
          given,        \* the last id handed out
          overlap       \* requests that ran while another did, or saw an outage (history)

ewVars == <<ledger, calls, given, overlap>>

NoRecord == [id |-> None, status |-> "none", subject |-> None, hash |-> None, supersedes |-> None]
Records == {ledger[i] : i \in {x \in Given : ledger[x] # NoRecord}}

\* A request: what it asks, and what the gateway keeps from one ledger call to the next.
Idle == [pc |-> "idle", target |-> None, subject |-> None, hash |-> None, refused |-> "no",
         peers |-> {}, made |-> None]
InFlight(q) == calls[q].pc \notin {"idle", "done"}
Superseding(q) == {calls[q].target} \ {None}
Refuse(q, why) == calls' = [calls EXCEPT ![q].pc = "done", ![q].refused = why]
Goto(q, pc) == calls' = [calls EXCEPT ![q].pc = pc]
Undisturbed == UNCHANGED <<ledger, given, overlap>>

-----------------------------------------------------------------------------
(* Both tools *)

\* _gate_common passed: the write flag, the user's intent, status draft, enough text and no
\* transcript.  None of them depends on the ledger.
Begin(q, tool, subject, hash, target) ==
  /\ calls[q].pc = "idle"
  /\ calls' = [calls EXCEPT ![q] = [Idle EXCEPT !.pc = tool, !.subject = subject, !.hash = hash,
                                                !.target = target]]
  /\ overlap' = overlap \cup (IF \E p \in Requests : InFlight(p)
                              THEN {q} \cup {p \in Requests : InFlight(p)} ELSE {})
  /\ UNCHANGED <<ledger, given>>

Remember(q) == \E s \in Subjects \cup {None}, h \in Claims : Begin(q, "conflicts", s, h, None)
Upsert(q) == \E i \in 1..given, h \in Claims : Begin(q, "get", None, h, i)

\* The pipeline (consolidate_to_ltm) writes what a session's working set said; a subject that
\* has a record already is left out of it.
Consolidate(q) == \E s \in Subjects, h \in Claims : Begin(q, "effective", s, h, None)
EffectiveSubject(q) ==
  /\ calls[q].pc = "effective"
  /\ calls' = [calls EXCEPT ![q].pc = "conflicts",
       ![q].subject = IF Live(About(Records, calls[q].subject)) # {} THEN None ELSE @]
  /\ Undisturbed

\* _subject_conflict_block, first list: an unresolved conflict blocks the write unless the
\* write replaces every record in it.
CheckConflicts(q) ==
  /\ calls[q].pc = "conflicts"
  /\ LET open == IF calls[q].subject = None THEN {}
                 ELSE Unresolved(DetectConflicts(Live(Records), calls[q].subject))
     IN \/ open = {} /\ Goto(q, IF calls[q].subject = None THEN "create" ELSE "peers")
        \/ /\ open # {}
           /\ IF \E c \in open : ~({r.id : r \in c.memories} \subseteq Superseding(q))
              THEN Refuse(q, "conflict-membrane")
              ELSE Goto(q, "same")
  /\ Undisturbed

\* mutant: the subject's records this write does not replace are not compared with it
NoPeers(q) ==
  /\ calls[q].pc = "peers"
  /\ calls' = [calls EXCEPT ![q].pc = "superseded"]
  /\ Undisturbed

\* Second list: the live records of the subject that this write does not replace.
ListPeers(q) ==
  /\ calls[q].pc = "peers"
  /\ calls' = [calls EXCEPT ![q].pc = "superseded",
       ![q].peers = {r \in Live(About(Records, calls[q].subject)) : r.id \notin Superseding(q)}]
  /\ Undisturbed

\* Third list: peers some live record replaces do not count; a distinct claim blocks.
CheckPeers(q) ==
  /\ calls[q].pc = "superseded"
  /\ LET replaced == {r.supersedes : r \in Live(Records)}
         claims == Hashes({r \in calls[q].peers : r.id \notin replaced})
     IN IF claims # {} /\ calls[q].hash \notin claims
        THEN Refuse(q, "conflict-membrane") ELSE Goto(q, "same")
  /\ Undisturbed

\* emr_remember answers with a live record of the subject that already says this.
FindSame(q) ==
  /\ calls[q].pc = "same"
  /\ IF calls[q].target = None
        /\ \E r \in Live(About(Records, calls[q].subject)) : r.hash = calls[q].hash
     THEN Goto(q, "done") ELSE Goto(q, "create")
  /\ Undisturbed

\* create_memory: refused if the record it replaces is gone by now.
CreateRecord(q) ==
  /\ calls[q].pc = "create"
  /\ IF calls[q].target # None /\ ledger[calls[q].target] = NoRecord
     THEN Refuse(q, "ambiguous-write") /\ UNCHANGED <<ledger, given>>
     ELSE LET i == given + 1
          IN /\ given < MaxIds
             /\ ledger' = [ledger EXCEPT ![i] =
                  [id |-> i, status |-> "draft", subject |-> calls[q].subject,
                   hash |-> calls[q].hash, supersedes |-> calls[q].target]]
             /\ given' = i
             /\ calls' = [calls EXCEPT ![q].made = i,
                  ![q].pc = IF calls[q].target = None THEN "done" ELSE "archive"]
  /\ UNCHANGED overlap

-----------------------------------------------------------------------------
(* emr_upsert *)

GetTarget(q) ==
  /\ calls[q].pc = "get"
  /\ LET r == ledger[calls[q].target]
     IN IF r = NoRecord THEN Refuse(q, "target-not-found")
        ELSE IF r.status = "verified" THEN Refuse(q, "authority-protected")
        ELSE calls' = [calls EXCEPT ![q].pc = "conflicts", ![q].subject = r.subject]
  /\ Undisturbed

\* mutant: the target is archived before the record that replaces it is created
ArchivesFirst(q) ==
  /\ calls[q].pc \in {"create", "archive"} /\ calls[q].target # None
  /\ ledger' = [ledger EXCEPT ![calls[q].target].status =
                  IF ledger[calls[q].target] = NoRecord THEN @ ELSE "archived"]
  /\ UNCHANGED <<calls, given, overlap>>

\* update_memory(status = archived), without expected_version; None if the record is gone.
ArchiveTarget(q) ==
  /\ calls[q].pc = "archive"
  /\ LET i == calls[q].target
     IN IF ledger[i] = NoRecord
        THEN UNCHANGED ledger /\ Goto(q, "done")
        ELSE ledger' = [ledger EXCEPT ![i].status = "archived"] /\ Goto(q, "done")
  /\ UNCHANGED <<given, overlap>>

-----------------------------------------------------------------------------
(* The rest of the world *)

\* StoreUnavailableError leaves the request with a 503 wherever it was.
Outage(q) ==
  /\ InFlight(q)
  /\ Refuse(q, "unavailable")
  /\ overlap' = overlap \cup {q}
  /\ UNCHANGED <<ledger, given>>

OperatorVerifies ==
  \E i \in 1..given :
    /\ ledger[i].status = "draft"
    /\ ledger' = [ledger EXCEPT ![i].status = "verified"]
    /\ UNCHANGED <<calls, given, overlap>>

\* The foreign key detaches the records that replaced it.
OperatorDeletes ==
  \E i \in 1..given :
    /\ ledger[i] # NoRecord
    /\ ledger' = [x \in Given |->
         IF x = i THEN NoRecord
         ELSE IF ledger[x].supersedes = i THEN [ledger[x] EXCEPT !.supersedes = None]
         ELSE ledger[x]]
    /\ UNCHANGED <<calls, given, overlap>>

EwInit ==
  /\ ledger = [i \in Given |-> NoRecord]
  /\ calls = [q \in Requests |-> Idle]
  /\ given = 0
  /\ overlap = {}

EwNext ==
  \/ OperatorVerifies \/ OperatorDeletes
  \/ \E q \in Requests :
       \/ Remember(q) \/ Consolidate(q) \/ EffectiveSubject(q) \/ Upsert(q) \/ CheckConflicts(q) \/ ListPeers(q) \/ CheckPeers(q)
       \/ FindSame(q) \/ GetTarget(q) \/ CreateRecord(q) \/ ArchiveTarget(q) \/ Outage(q)

EwSpec == EwInit /\ [][EwNext]_ewVars

-----------------------------------------------------------------------------
(* Safety *)

OpenConflicts == Unresolved(DetectConflicts(Live(Records), None))

\* The conflict membrane keeps one open claim per subject as long as requests come one
\* after another and none is cut off between its ledger calls.
OneClaimUnlessRaced == overlap = {} => OpenConflicts = {}

\* "No destructive overwrite": what the gateway archives has its replacement already,
\* whichever ledger call of the request failed.
ArchivedHasSuccessor ==
  \A i \in 1..given : ledger[i].status = "archived" =>
    \E q \in Requests : calls[q].target = i /\ calls[q].made # None
=============================================================================
