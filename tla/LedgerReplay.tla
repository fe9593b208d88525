----------------------------- MODULE LedgerReplay -----------------------------
(***************************************************************************)
(* Replay contracts over the row store: replay_state, replay_events,       *)
(* create_replay_receipt and verify_replay_receipt of app/pg_store.py, run *)
(* by readers beside the writers and sealers of LedgerStore.               *)
(*                                                                         *)
(* A replay is one READ COMMITTED transaction of several statements; each  *)
(* is an action and reads the tables as they are committed at that moment. *)
(* A state root is the set of (record, entry) pairs it is computed from,   *)
(* and a block is named by its height and the range it covers.  The paging *)
(* of replay_state is left out: the images of a page are read by seq from  *)
(* entries that never change; so is the status of the evidence that        *)
(* replay_events looks up for a page.  Receipts are evidence objects named *)
(* by their content, so storing the same receipt twice stores it once.     *)
(***************************************************************************)
EXTENDS LedgerStore, SequencesExt

CONSTANTS
  Readers,   \* processes that replay
  Bounds,    \* the values of at_seq callers give; 0: neither at_seq nor at_block
  EventLimit \* the limit callers of replay_events give

VARIABLES reader, receipts

allVars == <<vars, reader, receipts>>

ASSUME ReplayConstantsOK == Bounds \subseteq Nat /\ EventLimit \in Nat \ {0}

NoBlock == [height |-> 0, first |-> 0, last |-> 0]

\* bound: the at_seq asked for; seq: what the replay is at; counter, sealed,
\* block, root, deleted: what its statements found; claimed: the receipt being
\* verified; then: the live rows when seq was resolved (history variable); from, events: where
\* the next page of events begins and the entries the pages before it gave.
IdleReader ==
  [pc |-> "idle", op |-> "state", bound |-> 0, seq |-> 0, counter |-> 0, sealed |-> 0,
   block |-> NoBlock, root |-> {}, deleted |-> 0, claimed |-> {}, then |-> {},
   problem |-> FALSE, from |-> 1, events |-> <<>>]

\* The newest entry of each record among the entries up to seq (DISTINCT ON ... seq DESC).
NewestOfAll(s) == {e \in history : IsLatest(e, e.id) /\ s > 0}  \* mutant: AND seq <= ... left out
NewestUpTo(s) ==
  {e \in history : /\ e.seq <= s
                   /\ \A f \in history : f.id = e.id /\ f.seq <= s => f.seq <= e.seq}

LiveEntries(s) == {e \in NewestUpTo(s) : e.after # NoRow}
RootAt(s) == {[id |-> e.id, entry |-> e.seq] : e \in LiveEntries(s)}
DeletedAt(s) == Cardinality(NewestUpTo(s) \ LiveEntries(s))

\* The sealed block that covers seq, if there is one.
BlockCovers(s, i) == blocks[i].first <= s /\ s <= blocks[i].last
CoveringBlock(s) ==
  IF \E i \in 1..Len(blocks) : BlockCovers(s, i)
  THEN LET h == CHOOSE i \in 1..Len(blocks) : BlockCovers(s, i)
       IN [height |-> h, first |-> blocks[h].first, last |-> blocks[h].last]
  ELSE NoBlock

LiveRows == {<<m, memories[m]>> : m \in {x \in Ids : Live(x)}}

-----------------------------------------------------------------------------
(* Steps of a reader *)

Set(v, new) == reader' = [reader EXCEPT ![v] = new]
ReadOnly == UNCHANGED <<vars, receipts>>

\* A call to replay_state, or to create_replay_receipt: without a bound the
\* latter takes the tip of a block_head() transaction.
AskReplay(v) ==
  /\ reader[v].pc \in {"idle", "done"}
  /\ \E op \in {"state", "receipt"}, b \in Bounds :
       Set(v, [IdleReader EXCEPT !.op = op, !.bound = b,
                                !.pc = IF op = "receipt" /\ b = 0 THEN "tip" ELSE "resolve"])
  /\ ReadOnly

\* A call to verify_replay_receipt for a receipt that is stored.
AskVerify(v) ==
  /\ reader[v].pc \in {"idle", "done"}
  /\ \E rc \in receipts :
       Set(v, [IdleReader EXCEPT !.op = "verify", !.bound = rc.seq, !.claimed = {rc}, !.pc = "resolve"])
  /\ ReadOnly

\* block_head() in a transaction of its own: "no block is sealed yet", or the
\* height the replay is then asked for.  A block never changes, so the last_seq
\* that the replay looks up by height is the one of this block.
ReadTip(v) ==
  /\ reader[v].pc = "tip"
  /\ Set(v, IF Len(blocks) = 0 THEN [reader[v] EXCEPT !.pc = "done"]
            ELSE [reader[v] EXCEPT !.bound = SealedTo, !.pc = "resolve"])
  /\ ReadOnly

\* _resolve_replay_seq: the first read of the counter.
ResolveSeq(v) ==
  /\ reader[v].pc = "resolve"
  /\ Set(v, IF reader[v].bound > counter
            THEN [reader[v] EXCEPT !.pc = "done", !.problem = TRUE]
            ELSE [reader[v] EXCEPT !.pc = "counter", !.then = LiveRows,
                                   !.seq = IF reader[v].bound = 0 THEN counter ELSE reader[v].bound])
  /\ ReadOnly

\* The second read of the counter (history_seq of the answer).
ReadCounter(v) ==
  /\ reader[v].pc = "counter"
  /\ Set(v, [reader[v] EXCEPT !.counter = counter, !.pc = "sealed"])
  /\ ReadOnly

ReadSealed(v) ==
  /\ reader[v].pc = "sealed"
  /\ Set(v, [reader[v] EXCEPT !.sealed = SealedTo, !.pc = "block"])
  /\ ReadOnly

ReadBlock(v) ==
  /\ reader[v].pc = "block"
  /\ Set(v, [reader[v] EXCEPT !.block = CoveringBlock(reader[v].seq), !.pc = "heads"])
  /\ ReadOnly

\* What verify_replay_receipt compares the replay with the receipt for.
Differs(v, rc, root, deleted) ==
  \/ root # rc.root \/ deleted # rc.deleted
  \/ reader[v].block # [height |-> rc.height, first |-> rc.first, last |-> rc.last]

\* receipt_payload refuses a point that no sealed block covers.
Issuable(v) == reader[v].block # NoBlock

\* The heads as of seq, and what the operation makes of the finished replay:
\* an answer, a receipt to store (none for a point no block covers) or a comparison.
ReadHeads(v) ==
  /\ reader[v].pc = "heads"
  /\ LET s == reader[v].seq
     IN Set(v, [reader[v] EXCEPT
                  !.root = RootAt(s), !.deleted = DeletedAt(s),
                  !.pc = IF reader[v].op = "receipt" /\ Issuable(v) THEN "store" ELSE "done",
                  !.problem = \E rc \in reader[v].claimed : Differs(v, rc, RootAt(s), DeletedAt(s))])
  /\ ReadOnly

\* put_evidence_object: a transaction of its own.
StoreReceipt(v) ==
  /\ reader[v].pc = "store"
  /\ receipts' = receipts \cup
       {[seq |-> reader[v].seq, height |-> reader[v].block.height, first |-> reader[v].block.first,
         last |-> reader[v].block.last, root |-> reader[v].root, deleted |-> reader[v].deleted]}
  /\ Set(v, [reader[v] EXCEPT !.pc = "done"])
  /\ UNCHANGED vars

\* replay_events from the first entry, page after page to next_from_seq: each page is a
\* transaction that reads the counter, and then the entries from from_seq up to it.
AskEvents(v) ==
  /\ reader[v].pc \in {"idle", "done"}
  /\ Set(v, [IdleReader EXCEPT !.op = "events", !.pc = "until"])
  /\ ReadOnly

ReadUntil(v) ==
  /\ reader[v].pc = "until"
  /\ Set(v, [reader[v] EXCEPT !.counter = counter, !.pc = "page"])
  /\ ReadOnly

RowsFrom(s, end) == {e \in history : s <= e.seq /\ e.seq <= end}
Rank(e, rows) == Cardinality({f \in rows : f.seq < e.seq})
FirstRows(rows) == {e \in rows : Rank(e, rows) < EventLimit}
InOrder(rows) == [i \in 1..Cardinality(rows) |-> (CHOOSE e \in rows : Rank(e, rows) = i - 1).seq]
ReadEvents(v) ==
  /\ reader[v].pc = "page"
  /\ LET rows == RowsFrom(reader[v].from, reader[v].counter)
         page == InOrder(FirstRows(rows))
         more == Cardinality(rows) > EventLimit
     IN Set(v, [reader[v] EXCEPT !.events = @ \o page, !.from = IF more THEN Last(page) + 1 ELSE @,
                                 !.pc = IF more THEN "until" ELSE "done"])
  /\ ReadOnly

ReadStep(v) ==
  \/ AskEvents(v) \/ ReadUntil(v) \/ ReadEvents(v)
  \/ AskReplay(v) \/ AskVerify(v) \/ ReadTip(v) \/ ResolveSeq(v) \/ ReadCounter(v)
  \/ ReadSealed(v) \/ ReadBlock(v) \/ ReadHeads(v) \/ StoreReceipt(v)

ReplayInit == Init /\ reader = [v \in Readers |-> IdleReader] /\ receipts = {}

ReplayNext ==
  \/ Next /\ UNCHANGED <<reader, receipts>>
  \/ \E v \in Readers : ReadStep(v)

ReplaySpec == ReplayInit /\ [][ReplayNext]_allVars

-----------------------------------------------------------------------------
(* Properties *)

Replayed(v) == reader[v].pc = "done" /\ reader[v].op = "state" /\ ~reader[v].problem

\* The events, read page by page while writers commit, are the whole history in its order: no
\* entry is skipped between two pages and none comes twice, up to the counter the last page read.
EventsAreWhole ==
  \A v \in Readers :
    (reader[v].pc = "done" /\ reader[v].op = "events") =>
      /\ Len(reader[v].events) = reader[v].counter
      /\ \A i \in DOMAIN reader[v].events : reader[v].events[i] = i

\* A replay of the newest state gives exactly the rows that were live at one
\* instant, the one at which it read the counter, although it reads the history
\* later and writers commit in between.
StateIsInstant ==
  \A v \in Readers :
    (Replayed(v) /\ reader[v].bound = 0)
      => \A m \in Ids, row \in {e.after : e \in history} :
           (\E p \in reader[v].root : p.id = m /\ \E e \in history : e.seq = p.entry /\ e.after = row)
             <=> <<m, row>> \in reader[v].then

\* The records a replay gives are those of one instant, and the events are the whole history.
ReplayIsInstant == StateIsInstant /\ EventsAreWhole

\* A receipt verifies for ever: whatever is written, deleted or sealed after it
\* was issued, and whenever its verification reads, nothing differs; and the same replay
\* gives the same receipt whoever asks (create_replay_receipt is idempotent).
ReceiptsVerify ==
  /\ \A v \in Readers : (reader[v].pc = "done" /\ reader[v].op = "verify") => ~reader[v].problem
  /\ \A a, b \in receipts : a.seq = b.seq => a = b

\* replay_state's docstring: the counter, the blocks and the history it reads
\* are one consistent picture.  In any one committed state the blocks end at or
\* before the counter, and a point is covered exactly if it is not beyond them.
OneConsistentPicture ==
  \A v \in Readers :
    Replayed(v) => /\ reader[v].sealed <= reader[v].counter
                   /\ reader[v].seq > 0 => (reader[v].block # NoBlock <=> reader[v].seq <= reader[v].sealed)
=============================================================================
