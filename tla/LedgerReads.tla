------------------------------ MODULE LedgerReads ------------------------------
(***************************************************************************)
(* Newest-first reading: list_latest of both stores (app/store.py,         *)
(* app/pg_store.py) and the pages a caller follows through cursors         *)
(* (app/emr_latest.py), while other requests add, archive and supersede    *)
(* records.  created_at is taken before the insert commits, so a record    *)
(* may appear behind newer ones; ties are broken by id.  TwinIds: the ids  *)
(* of records the twin agent wrote.                                        *)
(*                                                                         *)
(* Both stores list by the same key, so a page is the set of its rows.     *)
(***************************************************************************)
EXTENDS Integers, Sequences, FiniteSets

CONSTANTS Ids, TwinIds, Times, ScanFilters, Limit, MaxPages

Filters == [superseded : BOOLEAN, archived : BOOLEAN, twin : BOOLEAN]

\* MIN_LIMIT is 1.
ASSUME LrConstantsOK ==
  /\ Ids \subseteq Nat \ {0} /\ Times \subseteq Nat
  /\ ScanFilters \subseteq Filters /\ Limit \in Nat \ {0}

VARIABLES rows,      \* the committed records, in the order in which they were created
          reader     \* the caller's scan

lrVars == <<rows, reader>>

NoId == 0
FromTop == <<>>

Rows == {rows[n] : n \in DOMAIN rows}
Key(r) == <<r.at, r.id>>
Before(k, l) == k[1] < l[1] \/ (k[1] = l[1] /\ k[2] < l[2])
Newer(S, r) == {s \in S : Before(Key(r), Key(s))}
Top(S, limit) == {r \in S : Cardinality(Newer(S, r)) < limit}
Oldest(S) == CHOOSE r \in S : \A s \in S : ~Before(Key(s), Key(r))

-----------------------------------------------------------------------------
(* list_latest, once as SQL and once as the loops of the JSON store: the rows of the page,  *)
(* each with its newest successor                                                           *)

Successors(r) == {s \in Rows : s.supersedes = r.id}
SupersededBy(r) ==
  IF Successors(r) = {} THEN NoId
  ELSE (CHOOSE s \in Successors(r) : Newer(Successors(r), s) = {}).id
Older(r, after) == after = FromTop \/ Before(Key(r), after)
Matching(f) ==
  {r \in Rows : /\ f.twin \/ ~r.twin
                /\ f.archived \/ ~r.archived
                /\ f.superseded \/ Successors(r) = {}}
PgListLatest(f, after, limit) ==
  [r \in Top({r \in Matching(f) : Older(r, after)}, limit) |-> SupersededBy(r)]

\* The newest successor of each record, kept while running over the records.
Met(succ, r) ==
  IF r.supersedes # NoId /\ (r.supersedes \notin DOMAIN succ \/ Before(succ[r.supersedes], Key(r)))
  THEN [u \in DOMAIN succ \cup {r.supersedes} |-> IF u = r.supersedes THEN Key(r) ELSE succ[u]]
  ELSE succ
NewestSuccessor ==
  LET upTo[n \in 0..Len(rows)] == IF n = 0 THEN <<>> ELSE Met(upTo[n - 1], rows[n])
  IN upTo[Len(rows)]
JsonListLatest(f, after, limit) ==
  LET succ == NewestSuccessor
      skipped == {r \in Rows :
        \/ r.twin /\ ~f.twin
        \/ r.archived /\ ~f.archived
        \/ r.id \in DOMAIN succ /\ ~f.superseded
        \/ after # FromTop /\ ~Before(Key(r), after)}
  IN [r \in Top(Rows \ skipped, limit) |-> IF r.id \in DOMAIN succ THEN succ[r.id][2] ELSE NoId]

-----------------------------------------------------------------------------
(* latest_memories: one page, and the cursor of the next *)

\* One row more than asked for tells whether there is a next page.
AfterPeeked(f, after) ==      \* mutant: the cursor names the row that was only peeked at
  LET found == DOMAIN PgListLatest(f, after, Limit + 1)
  IN [ids |-> {r.id : r \in Top(found, Limit)},
      next |-> IF Cardinality(found) > Limit THEN Key(Oldest(found)) ELSE FromTop]
LatestMemories(f, after) ==
  LET found == DOMAIN PgListLatest(f, after, Limit + 1)
      page == Top(found, Limit)
  IN [ids |-> {r.id : r \in page},
      next |-> IF Cardinality(found) > Limit /\ page # {} THEN Key(Oldest(page)) ELSE FromTop]

LrInit ==
  /\ rows = <<>>
  /\ \E f \in ScanFilters :
       reader = [filters |-> f, on |-> FALSE, cursor |-> FromTop, seen |-> <<>>, staying |-> {}, done |-> FALSE]

RowIds == {r.id : r \in Rows}

\* staying: the records that were listed when the scan began and have been ever since (history).
InsertMemory == \E i \in Ids \ RowIds, at \in Times, target \in RowIds \cup {NoId} :
  /\ rows' = Append(rows, [id |-> i, at |-> at, archived |-> FALSE, twin |-> i \in TwinIds, supersedes |-> target])
  /\ reader' = [reader EXCEPT !.staying = IF reader.filters.superseded THEN @ ELSE @ \ {target}]

Archive == \E n \in DOMAIN rows :
  /\ ~rows[n].archived
  /\ rows' = [rows EXCEPT ![n].archived = TRUE]
  /\ reader' = [reader EXCEPT !.staying = IF reader.filters.archived THEN @ ELSE @ \ {rows[n].id}]

BeginScan ==
  /\ ~reader.on
  /\ reader' = [reader EXCEPT !.on = TRUE, !.staying = {r.id : r \in Matching(reader.filters)}]
  /\ UNCHANGED rows

\* A cursor is good only with the filters it was issued for: the scan keeps them.
NextPage ==
  /\ reader.on /\ ~reader.done /\ Len(reader.seen) < MaxPages
  /\ LET out == LatestMemories(reader.filters, reader.cursor)
     IN reader' = [reader EXCEPT !.seen = Append(@, out.ids), !.cursor = out.next, !.done = (out.next = FromTop)]
  /\ UNCHANGED rows

LrNext == InsertMemory \/ Archive \/ BeginScan \/ NextPage

LrSpec == LrInit /\ [][LrNext]_lrVars

-----------------------------------------------------------------------------

\* Following the cursors shows no record twice, whatever is written between the pages, and
\* when the last page is reached every record that was listed all along has been shown
\* (docs/emr_latest.md: "Keyset paging, not OFFSET").
PagedOnce ==
  /\ \A m, n \in DOMAIN reader.seen : m # n => reader.seen[m] \cap reader.seen[n] = {}
  /\ reader.done => reader.staying \subseteq UNION {reader.seen[n] : n \in DOMAIN reader.seen}

\* The two stores list the same records, the newest first, with the same successors
\* (list_latest of app/pg_store.py: "same contract as JarvisStore.list_latest").
StoresAgree ==
  \A f \in Filters : \A after \in {FromTop} \cup {Key(r) : r \in Rows} :
    PgListLatest(f, after, Limit + 1) = JsonListLatest(f, after, Limit + 1)

\* Pages are complete, from either store.  (app/emr_latest.py over app/store.py and app/pg_store.py)
ListingIsSound == PagedOnce /\ StoresAgree
=============================================================================
