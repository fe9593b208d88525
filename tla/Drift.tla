------------------------------- MODULE Drift -------------------------------
(***************************************************************************)
(* The drift watcher (app/drift.py and its routes in app/main.py): the     *)
(* claims of an agent's summary, judged against the records they cite. The *)
(* list and then the records are read one by one while the ledger changes; *)
(* a check ends with an entry in its log and the answer.                   *)
(***************************************************************************)
EXTENDS Integers, FiniteSets

CONSTANTS Records,     \* the ids a check is given
          Wordings,       \* what a record may say: [did, commits, slotted, numbers, state, words]
          Drafts,      \* the ledgers a behaviour may start with
          Summaries,   \* sets of claims: [cites, parts, words, skipped]
          MaxClaims, MaxChanges

IsRecord(r) == r = [agent |-> r.agent, status |-> r.status, supersedes |-> r.supersedes, text |-> r.text]
ASSUME RecordsEnd == IsFiniteSet(Records)
ASSUME DraftsOK == \A draft \in Drafts : \A i \in DOMAIN draft : IsRecord(draft[i])
ASSUME ClaimsOK == \A summary \in Summaries : \A claim \in summary : \A part \in claim.parts :
  /\ part.family \in {"actor", "status", "supersede", "commit", "number", "state", "absolute", "entity"}
  /\ part.family = "actor" => part.deed \in {"wrote", "did"}

VARIABLES recorded,      \* id -> record: [agent, status, supersedes, text]
          everUsed,        \* ids there ever were
          changes,
          check,       \* the one request: [pc, listed, superseded, views, served, said]
          driftLog,    \* verdicts the drift log holds
          moments      \* the ledgers there were since the check first read (history)

dfVars == <<recorded, everUsed, changes, check, driftLog, moments>>

NotFound == [agent |-> "nobody"]

DfInit ==
  /\ recorded \in Drafts
  /\ everUsed = DOMAIN recorded /\ changes = 0 /\ driftLog = {} /\ moments = {}
  /\ check = [pc |-> "none"]
-----------------------------------------------------------------------------
(* The rules, one for each family of claims *)

\* mutant: one record that agrees is enough
SupportFirst(verdicts) ==
  IF "supported" \in verdicts THEN {"supported"}
  ELSE IF "contradicted" \in verdicts THEN {"contradicted"} ELSE verdicts
\* _pick: any contradiction wins, else any support.
Pick(verdicts) ==
  IF "contradicted" \in verdicts THEN {"contradicted"}
  ELSE IF "supported" \in verdicts THEN {"supported"} ELSE verdicts

Verdict(holds) == IF holds THEN "supported" ELSE "contradicted"

\* source_agent answers who wrote the record, the text who did what it tells of.
CheckActor(part, live) ==
  Pick({IF part.deed = "wrote" THEN Verdict(r.agent = part.actor)
        ELSE IF r.text.did = {} THEN "unsupported" ELSE Verdict(part.actor \in r.text.did) : r \in live})

Field(r, field) == IF field = "status" THEN r.status ELSE r.lifecycle

\* A status is that of the record named before it, else of any record in scope.
CheckStatus(part, live, views) ==
  LET bound == part.about \in DOMAIN views /\ views[part.about] # NotFound
      about == IF bound THEN {views[part.about]} ELSE live
  IN IF about = {} THEN {} ELSE {Verdict(\E r \in about : Field(r, part.field) = part.word)}

\* "the new record" and "the old one" are known when one record found replaces another.
Newer(views) == {i \in DOMAIN views : views[i] # NotFound /\ views[i].supersedes \in DOMAIN views
                                      /\ views[views[i].supersedes] # NotFound}
ResolveEndpoint(term, views) ==
  LET who == IF term \in {"new", "old"} THEN Newer(views)
             ELSE {i \in DOMAIN views : views[i] # NotFound /\ term \in {i, views[i].agent}}
  IN IF Cardinality(who) # 1 THEN {} ELSE IF term = "old" THEN {views[i].supersedes : i \in who} ELSE who

CheckSupersede(part, views) ==
  LET a == ResolveEndpoint(part.newer, views)
      b == ResolveEndpoint(part.older, views)
  IN IF a = {} \/ b = {} THEN {"unsupported"} ELSE {Verdict(\E i \in a : views[i].supersedes \in b)}

\* Another commit in the same place ("main ...") contradicts the one claimed.
CheckTokens(part, live) ==
  IF \E r \in live : part.commit \in r.text.commits THEN {"supported"}
  ELSE IF part.slotted /\ \E r \in live : r.text.slotted THEN {"contradicted"} ELSE {"unsupported"}

\* Numbers come with the word next to them.
CheckNumbers(part, live) ==
  LET said == UNION {r.text.numbers : r \in live}
  IN IF \E n \in said : n[2] = part.number THEN {"supported"}
     ELSE IF \E n \in said : n[1] = part.near THEN {"contradicted"} ELSE {"unsupported"}

CheckState(part, live) ==
  LET said == {r.text.state : r \in live} \ {"silent"}
  IN IF said = {"for"} THEN {"supported"} ELSE IF said = {"against"} THEN {"contradicted"} ELSE {"unsupported"}

\* An absolute word, or an agent, that no record has; the words there are need no finding.
CheckMention(part, live, every) ==
  IF \E r \in live : part.word \in r.text.words \cup {r.agent} THEN {}
  ELSE IF live = {} /\ ~every THEN {} ELSE {"unsupported"}

Findings(part, live, views) ==
  CASE part.family = "actor" -> CheckActor(part, live)
    [] part.family = "status" -> CheckStatus(part, live, views)
    [] part.family = "supersede" -> CheckSupersede(part, views)
    [] part.family = "commit" -> CheckTokens(part, live)
    [] part.family = "number" -> CheckNumbers(part, live)
    [] part.family = "state" -> CheckState(part, live)
    [] part.family = "absolute" -> CheckMention(part, live, TRUE)
    [] part.family = "entity" -> CheckMention(part, live, FALSE)

Cited(claim, views) == {i \in claim.cites \cap DOMAIN views : views[i] # NotFound}
Scope(claim, views) == IF Cited(claim, views) # {} THEN Cited(claim, views) ELSE DOMAIN views
Live(claim, views) == {views[i] : i \in Scope(claim, views)} \ {NotFound}

Grounded(claim, live) ==
  live # {} /\ claim.words \subseteq UNION {r.text.words \cup {r.agent, r.status, r.lifecycle} : r \in live}

PartFindings(claim, views) == UNION {Findings(part, Live(claim, views), views) : part \in claim.parts}
\* A record cited that was not found.
CiteFindings(claim, views) == IF claim.cites \subseteq Cited(claim, views) THEN {} ELSE {"unsupported"}

CheckClaim(claim, views) ==
  LET found == PartFindings(claim, views) \cup CiteFindings(claim, views)
  IN IF "contradicted" \in found THEN "contradicted"
     ELSE IF "unsupported" \in found \/ ~Grounded(claim, Live(claim, views)) THEN "unsupported"
     ELSE "supported"

\* run_check: too many claims are refused, never shortened.
RunCheck(summary, views) ==
  LET claims == {c \in summary : ~c.skipped}
      results == {CheckClaim(c, views) : c \in claims}
  IN IF Cardinality(claims) > MaxClaims THEN "refused"
     ELSE IF "contradicted" \in results THEN "drift"
     ELSE IF results = {"supported"} THEN "pass" ELSE "unverified"
-----------------------------------------------------------------------------
(* The ledger beside the check *)

Changes(new, ids) ==
  /\ changes < MaxChanges /\ check.pc \in {"list", "read"}
  /\ recorded' = new /\ everUsed' = everUsed \cup ids /\ changes' = changes + 1
  /\ moments' = moments \cup {new}
  /\ UNCHANGED <<check, driftLog>>

Write(i) == \E agent \in {"codex", "claude"}, text \in Wordings, s \in DOMAIN recorded \cup {"none"} :
  /\ i \notin everUsed
  /\ Changes([j \in DOMAIN recorded \cup {i} |->
                IF j # i THEN recorded[j]
                ELSE [agent |-> agent, status |-> "draft", supersedes |-> s, text |-> text]], {i})
Update(i) == \E status \in {"draft", "verified", "archived"}, text \in Wordings :
  /\ i \in DOMAIN recorded /\ recorded[i].status # status
  /\ Changes([recorded EXCEPT ![i].status = status, ![i].text = text], {})
Delete(i) ==
  /\ i \in DOMAIN recorded
  /\ Changes([j \in DOMAIN recorded \ {i} |->
                [recorded[j] EXCEPT !.supersedes = IF @ = i THEN "none" ELSE @]], {})
-----------------------------------------------------------------------------
(* The check: _run_drift, load_records, run_check *)

\* The agent was served the records as they are; what it says follows later.
BeginCheck ==
  /\ check.pc = "none"
  /\ check' = [pc |-> "list", views |-> <<>>, superseded |-> {}, listed |-> FALSE, served |-> recorded,
               said |-> "nothing"]
  /\ UNCHANGED <<recorded, everUsed, changes, driftLog, moments>>

\* Who replaces whom comes from a list; a store that cannot list leaves nobody replaced.
ListRecords ==
  /\ check.pc = "list"
  /\ \/ check' = [check EXCEPT !.pc = "read", !.listed = TRUE,
                                  !.superseded = {recorded[i].supersedes : i \in DOMAIN recorded}]
     \/ check' = [check EXCEPT !.pc = "read"]
  /\ moments' = {recorded}
  /\ UNCHANGED <<recorded, everUsed, changes, driftLog>>

View(record, replaced) ==
  [agent |-> record.agent, status |-> record.status, supersedes |-> record.supersedes, text |-> record.text,
   lifecycle |-> IF record.status = "archived" THEN "archived" ELSE IF replaced THEN "superseded" ELSE "active"]
RecordView(i) == View(recorded[i], i \in check.superseded)

Unread == Records \ DOMAIN check.views

LoadRecord ==
  /\ check.pc = "read"
  /\ \E i \in Unread :
       check' = [check EXCEPT !.views = [j \in DOMAIN @ \cup {i} |->
         IF j # i THEN @[j] ELSE IF i \in DOMAIN recorded THEN RecordView(i) ELSE NotFound]]
  /\ UNCHANGED <<recorded, everUsed, changes, driftLog, moments>>

\* A record read that is not what the agent was served is told.
ChangedSinceServed == {i \in DOMAIN check.views \cap DOMAIN check.served :
                         check.views[i] # NotFound /\ check.views[i].text # check.served[i].text}

\* What the records come to does not depend on the summary before they are all read.
Judge == \E summary \in Summaries :
  /\ check.pc = "read" /\ Unread = {}
  /\ check' = [check EXCEPT !.pc = "log",
       !.said = [summary |-> summary, verdict |-> RunCheck(summary, check.views), changed |-> ChangedSinceServed]]
  /\ UNCHANGED <<recorded, everUsed, changes, driftLog, moments>>

\* A check that was refused leaves no entry; a log that cannot be written is told.
LogEntry ==
  /\ check.pc = "log"
  /\ \/ /\ check.said.verdict # "refused"
        /\ driftLog' = driftLog \cup {check.said.verdict}
        /\ check' = [pc |-> "ok"]
     \/ /\ check' = [pc |-> IF check.said.verdict = "refused" THEN "refused" ELSE "degraded"]
        /\ UNCHANGED driftLog
  /\ UNCHANGED <<recorded, everUsed, changes, moments>>

DfNext ==
  \/ BeginCheck \/ ListRecords \/ LoadRecord \/ Judge \/ LogEntry
  \/ \E i \in Records : Write(i) \/ Update(i) \/ Delete(i)
DfSpec == DfInit /\ [][DfNext]_dfVars
-----------------------------------------------------------------------------
(* Properties *)

Replaced(m) == {m[j].supersedes : j \in DOMAIN m}
\* What a record was at a moment of the check; who is replaced may be of another moment, and
\* nobody is when the store could not list.
HeldThen(i) ==
  {View(m[i], check.listed /\ i \in Replaced(l)) : m \in {n \in moments : i \in DOMAIN n}, l \in moments}

\* "The new record" is replaced only by itself.
Replaces(i, r, part) ==
  \E j \in DOMAIN check.views : /\ check.views[j] # NotFound /\ r.supersedes = j
                                /\ \/ part.older = "old"
                                   \/ part.older = "new" /\ j = i
                                   \/ part.older \notin {"old", "new"} /\ \E o \in HeldThen(j) : part.older \in {j, o.agent}
Opinion(part, i, r) ==
  LET says(yes, no) == IF yes THEN "yes" ELSE IF no THEN "no" ELSE "nothing"
  IN CASE part.family = "actor" /\ part.deed = "wrote" -> says(r.agent = part.actor, TRUE)
       [] part.family = "actor" /\ part.deed = "did" -> says(part.actor \in r.text.did, r.text.did # {})
       [] part.family = "status" -> says(Field(r, part.field) = part.word, TRUE)
       [] part.family = "supersede" -> says(Replaces(i, r, part), TRUE)
       [] part.family = "commit" -> says(part.commit \in r.text.commits, r.text.slotted)
       [] part.family = "number" -> says(\E n \in r.text.numbers : n[2] = part.number,
                                            \E n \in r.text.numbers : n[1] = part.near)
       [] part.family = "state" -> says(r.text.state = "for", r.text.state = "against")
       [] OTHER -> says(part.word \in r.text.words \cup {r.agent}, FALSE)
About(part, claim) ==
  LET found == {i \in DOMAIN check.views : check.views[i] # NotFound}
  IN IF part.family = "supersede"
     THEN {i \in found : part.newer \in {"new", "old"} \/ \E r \in HeldThen(i) : part.newer \in {i, r.agent}}
     ELSE IF part.family = "status" /\ part.about \in found THEN {part.about}
     ELSE found \cap Scope(claim, check.views)

\* Some record said so, and where every record counts each of them agreed or was silent.
Backed(part, ids) ==
  /\ \E i \in ids : \E r \in HeldThen(i) : Opinion(part, i, r) = "yes"
  /\ part.family \in {"actor", "state"} => \A i \in ids : \E r \in HeldThen(i) : Opinion(part, i, r) # "no"
Disputed(part, ids) == \E i \in ids : \E r \in HeldThen(i) : Opinion(part, i, r) = "no"

\* A summary passes only if the records, as they were during the check, said every part of
\* every claim and every record it names was there; and it is called drift only if some
\* record disagreed with it.  (app/drift.py: run_check and load_records beside writers)
VerdictIsBacked ==
  check.pc = "log" =>
    LET claims == {c \in check.said.summary : ~c.skipped}
    IN /\ check.said.verdict = "pass" =>
            claims # {} /\ \A c \in claims : /\ \A i \in c.cites : i \in Records /\ HeldThen(i) # {}
                                            /\ \A part \in c.parts : Backed(part, About(part, c))
       /\ check.said.verdict = "drift" => \E c \in claims : \E part \in c.parts : Disputed(part, About(part, c))
=============================================================================
