------------------------------- MODULE AmulRag -------------------------------
(***************************************************************************)
(* Governed answers from documents (app/amul_rag.py and its routes in      *)
(* app/main.py): a log of documents and the index in memory, the gate a    *)
(* query passes (support, conflicts, context budget), and the replay log   *)
(* that has every answer before the caller has it, rotated by size and     *)
(* expired by age.  Only appending to a log and moving it hold a lock.     *)
(***************************************************************************)
EXTENDS Integers, Sequences, FiniteSets, SequencesExt

CONSTANTS DocIds,       \* numbers: the order in which equal scores are listed
          Bodies,       \* what can be ingested: [live, trust, conflicts, size]
          LedgerDocs,   \* what ledger_docs may give: sets of documents
          Queries,      \* [vector, keyword, k, support, budget]; k = 0 in the chatty mode
          Adders, Askers,
          MaxRecords    \* RAG_LOG_MAX_BYTES, in records

Docs == [id : Nat \ {0}, version : Nat, live : BOOLEAN, trust : Nat, conflicts : SUBSET Nat, size : Nat]
AllIds == DocIds \cup UNION {{m.id : m \in D} : D \in LedgerDocs}

\* The searches score every document there is.
ASSUME RgConstantsOK ==
  /\ DocIds \subseteq Nat \ {0}
  /\ Bodies \subseteq [live : BOOLEAN, trust : Nat, conflicts : SUBSET Nat, size : Nat]
  /\ \A D \in LedgerDocs : IsFiniteSet(D) /\ D \subseteq Docs
  /\ \A q \in Queries :
       /\ DOMAIN q = {"vector", "keyword", "k", "support", "budget"}
       /\ q.k \in Nat /\ q.support \in Nat /\ q.budget \in Nat
       /\ \A d \in AllIds : q.vector[d] \in Nat /\ q.keyword[d] \in Nat

VARIABLES docsLog,      \* the document log
          index,        \* RagIndex.docs: id -> document
          opened,       \* the index of this process: "no", "reading" the log, "yes"
          adder, asker,
          replayLog,    \* the lines of the replay log; NoLog when there is none
          archives,     \* the logs rotated: [records, old]
          answered,     \* records returned and not expired since (history)
          mixed         \* an add overlapped another one or the reading, or its line was cut off (history)

rgVars == <<docsLog, index, opened, adder, asker, replayLog, archives, answered, mixed>>

NoLog == <<[id |-> -2]>>
Fresh == [pc |-> "fresh"]
\* Answered or refused: the request is over.
Done == [pc |-> "done"]

\* A line cut off; what a line appended to it makes of both.
CutOff == [id |-> 0]
Garbled == [id |-> -1]
Appended(log, line) ==
  IF log = NoLog THEN <<line>>
  ELSE IF log # <<>> /\ Last(log) = CutOff THEN Append(Front(log), Garbled) ELSE Append(log, line)

\* load_docs: the latest line of each id; what cannot be parsed is passed over.
LatestLine(log, d) == CHOOSE i \in DOMAIN log : log[i].id = d /\ \A j \in DOMAIN log : log[j].id = d => j <= i
Fold(log) == [d \in {log[i].id : i \in DOMAIN log} \ {CutOff.id, Garbled.id} |-> log[LatestLine(log, d)]]
\* mutant: the version there is stays
FirstWins(docs, more) ==
  [d \in DOMAIN docs \cup {m.id : m \in more} |->
     IF d \in DOMAIN docs THEN docs[d] ELSE CHOOSE m \in more : m.id = d]
Joined(docs, more) ==
  [d \in DOMAIN docs \cup {m.id : m \in more} |->
     IF \E m \in more : m.id = d THEN CHOOSE m \in more : m.id = d ELSE docs[d]]
-----------------------------------------------------------------------------
(* Ingestion: rag_documents, RagIndex.add *)

\* get_index: the first request to need the index makes an empty one, which every other
\* request uses from then on, and puts the log into it.
OpenIndex ==
  /\ opened = "no" /\ opened' = "reading"
  /\ index' = Fold(<<>>)
  /\ UNCHANGED <<docsLog, adder, asker, replayLog, archives, answered, mixed>>
ReadIndex ==
  /\ opened = "reading" /\ opened' = "yes"
  /\ index' = Fold(docsLog)
  /\ UNCHANGED <<docsLog, adder, asker, replayLog, archives, answered, mixed>>

\* normalize_document takes the version from the index; _prepare reads all of it.
BeginAdd(t) == \E d \in DocIds, body \in Bodies :
  /\ adder[t] = Fresh /\ opened # "no"
  /\ adder' = [adder EXCEPT ![t] =
       [pc |-> "persist", seen |-> index,
        doc |-> [id |-> d, version |-> IF d \in DOMAIN index THEN index[d].version + 1 ELSE 1,
                 live |-> body.live, trust |-> body.trust, conflicts |-> body.conflicts, size |-> body.size]]]
  /\ mixed' = (mixed \/ opened = "reading" \/ \E o \in Adders : adder[o].pc \in {"persist", "commit"})
  /\ UNCHANGED <<docsLog, index, opened, asker, replayLog, archives, answered>>

Persist(t) ==
  /\ adder[t].pc = "persist"
  /\ docsLog' = Appended(docsLog, adder[t].doc)
  /\ adder' = [adder EXCEPT ![t].pc = "commit"]
  /\ UNCHANGED <<index, opened, asker, replayLog, archives, answered, mixed>>

\* The line is not written, or a provider of embeddings that is required is down.
PersistFails(t) ==
  /\ adder[t].pc = "persist"
  /\ adder' = [adder EXCEPT ![t] = Done]
  /\ \/ UNCHANGED <<docsLog, mixed>>
     \/ docsLog' = Appended(docsLog, CutOff) /\ mixed' = TRUE
  /\ UNCHANGED <<index, opened, asker, replayLog, archives, answered>>

\* The index prepared from what was read replaces the one there is.
CommitIndex(t) ==
  /\ adder[t].pc = "commit"
  /\ index' = Joined(adder[t].seen, {adder[t].doc})
  /\ adder' = [adder EXCEPT ![t] = Done]
  /\ UNCHANGED <<docsLog, opened, asker, replayLog, archives, answered, mixed>>
-----------------------------------------------------------------------------
(* The gate: answer_query, hybrid_retrieve, build_context *)

Ahead(score, e, d) == score[e] > score[d] \/ (score[e] = score[d] /\ e < d)
Best(S, score, k) == {d \in S : Cardinality({e \in S : Ahead(score, e, d)}) < k}
First(S, score) == CHOOSE d \in S : \A e \in S : ~Ahead(score, e, d)

\* The k best of the vectors and the k best of the keywords, archived ones among them, count
\* for what either search gave; trust weighs it.
Found(q, docs) == Best(DOMAIN docs, q.vector, q.k) \cup Best(DOMAIN docs, q.keyword, q.k)
Support(q, docs, d) ==
  docs[d].trust * ((IF d \in Best(DOMAIN docs, q.vector, q.k) THEN q.vector[d] ELSE 0)
                   + (IF d \in Best(DOMAIN docs, q.keyword, q.k) THEN q.keyword[d] ELSE 0))
Supports(q, docs) == [d \in DOMAIN docs |-> Support(q, docs, d)]
\* Of those found and not archived the k best again; without support a document is noise.
Hits(q, docs) ==
  {d \in Best({d \in Found(q, docs) : docs[d].live}, Supports(q, docs), q.k) : Support(q, docs, d) > 0}

\* mutant: a document is in conflict only if the other one was found as well and says so
BothFound(docs, found) ==
  {d \in found : \E e \in found \ {d} : e \in docs[d].conflicts /\ d \in docs[e].conflicts}
\* The documents found that a found one declares a conflict with, or that declare one.
Conflicted(docs, found) ==
  LET groups == {(docs[d].conflicts \cap DOMAIN docs) \cup {d} : d \in found}
  IN found \cap UNION {g \in groups : Cardinality(g) > 1}

\* In the order of their support; a document that does not fit is left out, the next ones may
\* still fit.
NextBlock(docs, support, budget, c) ==
  LET d == First(c.left, support)
  IN IF c.size + docs[d].size > budget THEN [c EXCEPT !.left = @ \ {d}]
     ELSE [left |-> c.left \ {d}, size |-> c.size + docs[d].size, used |-> c.used \cup {d}]
BuildContext(docs, hits, support, budget) ==
  LET blocks[n \in 0..Cardinality(hits)] ==
        IF n = 0 THEN [left |-> hits, size |-> 0, used |-> {}]
        ELSE NextBlock(docs, support, budget, blocks[n - 1])
  IN blocks[Cardinality(hits)].used

EvidenceRecord(q, docs, status, used) == [id |-> 1, query |-> q, docs |-> docs, status |-> status, used |-> used]
Answer(q, docs) ==
  LET hits == Hits(q, docs)
      conflicted == Conflicted(docs, hits)
      used == BuildContext(docs, hits, Supports(q, docs), q.budget)
  IN IF q.k = 0 THEN EvidenceRecord(q, docs, "chatty", {})
     ELSE IF \A d \in hits : Support(q, docs, d) < q.support
          THEN EvidenceRecord(q, docs, "insufficient_evidence", {})
     ELSE IF conflicted # {} THEN EvidenceRecord(q, docs, "conflicted_evidence", conflicted)
     ELSE IF used = {} THEN EvidenceRecord(q, docs, "insufficient_evidence", {})
     ELSE EvidenceRecord(q, docs, "answered", used)
-----------------------------------------------------------------------------
(* Queries and their replay records: rag_query, _persist_replay, maintain_replay_log *)

TooBig == replayLog # NoLog /\ Len(replayLog) >= MaxRecords

\* The answer is made from the index and the ledger as they are; a required provider that is
\* down refuses it.  Then maintenance looks, before it has the lock, at size and age.
Ask(t) == \E q \in Queries, extra \in LedgerDocs :
  /\ asker[t] = Fresh /\ opened # "no"
  /\ LET record == Answer(q, Joined(index, extra))
     IN asker' \in {[asker EXCEPT ![t] = [pc |-> "look", record |-> record]]}
                   \cup (IF record.status # "chatty" THEN {[asker EXCEPT ![t] = Done]} ELSE {})
  /\ UNCHANGED <<docsLog, index, opened, adder, replayLog, archives, answered, mixed>>

LookAtLog(t) ==
  /\ asker[t].pc = "look"
  /\ asker' = [asker EXCEPT ![t] =
       [pc |-> "maintain", record |-> @.record, rotate |-> TooBig, expired |-> {a \in archives : a.old}]]
  /\ UNCHANGED <<docsLog, index, opened, adder, replayLog, archives, answered, mixed>>

Rotated(log) == archives \cup {[records |-> log, old |-> FALSE]}

\* A log that another request has moved meanwhile cannot be moved: the request fails.
Maintain(t) ==
  /\ asker[t].pc = "maintain"
  /\ LET r == asker[t]
         gone == UNION {ToSet(a.records) : a \in r.expired}
     IN IF r.rotate /\ replayLog = NoLog
        THEN asker' = [asker EXCEPT ![t] = Done] /\ UNCHANGED <<replayLog, archives, answered>>
        ELSE /\ replayLog' = IF r.rotate THEN NoLog ELSE replayLog
             /\ archives' = (IF r.rotate THEN Rotated(replayLog) ELSE archives) \ r.expired
             /\ answered' = answered \ gone
             /\ asker' = [asker EXCEPT ![t] = [pc |-> "append", record |-> r.record]]
  /\ UNCHANGED <<docsLog, index, opened, adder, mixed>>

\* Only a record that is in the log lets its answer out.
AppendRecord(t) ==
  /\ asker[t].pc = "append"
  /\ replayLog' = Appended(replayLog, asker[t].record)
  /\ answered' = IF Last(replayLog') = Garbled THEN answered ELSE answered \cup {asker[t].record}
  /\ asker' = [asker EXCEPT ![t] = Done]
  /\ UNCHANGED <<docsLog, index, opened, adder, archives, mixed>>

AppendFails(t) ==
  /\ asker[t].pc = "append"
  /\ replayLog' \in {replayLog, Appended(replayLog, CutOff)}
  /\ asker' = [asker EXCEPT ![t] = Done]
  /\ UNCHANGED <<docsLog, index, opened, adder, archives, answered, mixed>>

\* An archive passes the retention time.
Age == \E a \in archives :
  /\ ~a.old /\ archives' = (archives \ {a}) \cup {[a EXCEPT !.old = TRUE]}
  /\ UNCHANGED <<docsLog, index, opened, adder, asker, replayLog, answered, mixed>>

RestartServer ==
  /\ \E t \in Adders : adder[t].pc \in {"persist", "commit"}
  /\ opened' = "no" /\ index' = Fold(<<>>)
  /\ adder' = [t \in Adders |-> IF adder[t].pc \in {"persist", "commit"} THEN Done ELSE adder[t]]
  /\ asker' = [t \in Askers |-> IF asker[t] = Fresh THEN Fresh ELSE Done]
  /\ UNCHANGED <<docsLog, replayLog, archives, answered, mixed>>

RgInit ==
  /\ docsLog = <<>> /\ index = Fold(<<>>) /\ opened = "no"
  /\ adder = [t \in Adders |-> Fresh] /\ asker = [t \in Askers |-> Fresh]
  /\ replayLog = NoLog /\ archives = {} /\ answered = {} /\ mixed = FALSE

RgNext ==
  \/ \E t \in Adders : BeginAdd(t) \/ Persist(t) \/ PersistFails(t) \/ CommitIndex(t)
  \/ \E t \in Askers : Ask(t) \/ LookAtLog(t) \/ Maintain(t) \/ AppendRecord(t) \/ AppendFails(t)
  \/ OpenIndex \/ ReadIndex \/ Age \/ RestartServer

RgSpec == RgInit /\ [][RgNext]_rgVars
-----------------------------------------------------------------------------

\* What a context holds, each character of its own.
Characters(docs, used) == UNION {{d} \X (1..docs[d].size) : d \in used}

\* "Evidence gate": an answer rests on documents that are not archived, of which none is in
\* a conflict that one of them declares, that fit the context together, and some document
\* found had the support asked for (not always one of those used: the best may not fit); and
\* the record of every answer returned is in the replay log or in an archive until it expires.
AnswersAreBacked == \A r \in answered :
  /\ r.status = "answered" =>
       /\ r.used # {}
       /\ \A d \in r.used : r.docs[d].live /\ r.docs[d].conflicts \cap (DOMAIN r.docs \ {d}) = {}
       /\ Cardinality(Characters(r.docs, r.used)) <= r.query.budget
       /\ \E d \in DOMAIN r.docs : r.docs[d].live /\ Support(r.query, r.docs, d) >= r.query.support
  /\ r \in ToSet(replayLog) \/ \E a \in archives : r \in ToSet(a.records)

\* As long as no ingestion overlaps another one or the first reading, and no line is cut off,
\* the index that is searched is the one a restart would build from the log (but for the
\* document being ingested).
IndexMatchesLog ==
  mixed \/ opened # "yes" \/ (\E t \in Adders : adder[t].pc = "commit") \/ index = Fold(docsLog)

\* What is searched is the log, and what is answered is backed and on record.
\* (app/amul_rag.py, app/main.py: rag_documents, rag_query)
RetrievalIsSound == AnswersAreBacked /\ IndexMatchesLog
=============================================================================
