----------------------------- MODULE LedgerStore -----------------------------
(***************************************************************************)
(* The PostgreSQL row store of one tenant: app/pg_store.py over the schema *)
(* of app/pg_schema.py (migrations V1 to V6).                              *)
(*                                                                         *)
(* The committed tables are `memories', `record_history' (history),        *)
(* `history_counters' (counter), `chain_heads' (heads) and `blocks'.  A    *)
(* request is one call of create_memory, update_memory or delete_memory,   *)
(* run by an application thread.  Its transactions are READ COMMITTED:     *)
(* every statement, also one inside a trigger or a plpgsql function, is an *)
(* action of its own that reads the tables as they are committed at that   *)
(* moment; what the transaction wrote stays in tx[r] until Commit          *)
(* publishes it.  Row locks, key-share locks and the lock on the counter   *)
(* row are held by tx[r] and go when the transaction ends.                 *)
(*                                                                         *)
(* The per-record advisory lock of the capture trigger is not a variable:  *)
(* a transaction that takes it already holds the row lock of the record    *)
(* (or has just inserted it), so no other transaction can want it.         *)
(* Hashes are perfect: an entry's row_hash is named by its seq, so         *)
(* prev_hash is the seq of the previous entry of the record, and a block's *)
(* entries_root is the set of entries it was computed from.                *)
(***************************************************************************)
EXTENDS Integers, Sequences, FiniteSets

CONSTANTS
  Requests,     \* one process per write request
  Sealers,      \* processes that run seal_blocks (the timer, a manual seal)
  Ids,          \* record ids; an id is never handed out twice
  NoId,         \* supersedes IS NULL
  Keep,         \* the update does not mention supersedes
  Seed,         \* ids of the records there are already, each superseding the one before
  Workload,     \* the jobs requests may carry (bounds the inputs)
  MaxAttempts,  \* MAX_UPDATE_ATTEMPTS
  MinEntries,   \* p_min_entries
  MaxEntries    \* p_max_entries

VARIABLES
  memories, history, counter, heads, blocks,      \* committed tables
  job, pc, attempt, seen, tx, answer,             \* per request
  sealer                                          \* per sealer

tables == <<memories, history, counter, heads, blocks>>
control == <<job, pc, attempt, seen, tx, answer>>
vars == <<memories, history, counter, heads, blocks, job, pc, attempt, seen, tx, answer, sealer>>

-----------------------------------------------------------------------------
(* Data *)

\* A row of `memories'.  `fields' is the set of requests whose patch (each
\* request patches a field of its own) the row's content includes.  Version 0
\* stands for "there is no row".
RowType == [version : Nat, fields : SUBSET Requests, supersedes : Ids \cup {NoId}]
NoRow == [version |-> 0, fields |-> {}, supersedes |-> NoId]

\* A row of `record_history' with the images jarvis_memory_json takes.
EntryType == [seq : Nat \ {0}, id : Ids, before : RowType, after : RowType, prev : Nat]

\* A row of `chain_heads'; last = 0 when the record has none.
HeadType == [last : Nat, deleted : BOOLEAN]

BlockType == [first : Nat \ {0}, last : Nat, entries : SUBSET EntryType]

JobType ==
  [op : {"create"}, id : Ids \cup {NoId}, target : Ids \cup {NoId}, expected : {0}]
    \cup [op : {"delete"}, id : Ids, target : {NoId}, expected : {0}]
    \cup [op : {"update"}, id : Ids, target : Ids \cup {NoId, Keep}, expected : Nat]
NoJob == [op |-> "create", id |-> NoId, target |-> NoId, expected |-> 0]

\* What a transaction holds: row locks, key-share locks of foreign-key checks,
\* the counter value it wrote (0: it has not touched the counter row) and the
\* history rows it inserted.
TxType == [locks : SUBSET Ids, shares : SUBSET Ids, ctr : Nat, pend : SUBSET EntryType]
NoTx == [locks |-> {}, shares |-> {}, ctr |-> 0, pend |-> {}]

Pcs == {"new", "read", "checkTarget", "write", "insert", "shareTarget",
        "lockRow", "cascade", "capture", "done"}
Answers == {"none", "ok", "conflict", "absent", "badTarget", "unavailable"}
SealerType == [pc : {"idle", "counter", "tip", "insert"}, ctr : Nat, height : Nat, last : Nat]
IdleSealer == [pc |-> "idle", ctr |-> 0, height |-> 0, last |-> 0]

ASSUME ConstantsOK ==
  /\ NoId \notin Ids /\ Keep \notin Ids \cup {NoId}
  /\ Seed \in Seq(Ids)
  /\ \A i, k \in 1..Len(Seed) : Seed[i] = Seed[k] => i = k
  /\ Workload \subseteq JobType
  /\ MaxAttempts \in Nat \ {0}
  /\ MinEntries \in Nat \ {0} /\ MaxEntries \in Nat \ {0}

Live(m) == memories[m] # NoRow

\* Where the sealed part of the history ends.
SealedTo == IF Len(blocks) = 0 THEN 0 ELSE blocks[Len(blocks)].last

EntriesOf(first, last) == {e \in history : e.seq \in first..last}

\* The record's newest history row, which the capture trigger and the verifier
\* find with ORDER BY seq DESC.
OldestFirst(e, m) == e.id = m /\ \A f \in history : f.id = m => f.seq >= e.seq  \* mutant: DESC left out
IsLatest(e, m) == e.id = m /\ \A f \in history : f.id = m => f.seq <= e.seq
LatestSeq(m) ==
  IF \E e \in history : IsLatest(e, m)
  THEN (CHOOSE e \in history : IsLatest(e, m)).seq
  ELSE 0

-----------------------------------------------------------------------------
(* Locks *)

\* Row lock: taken by UPDATE, DELETE and the SET NULL of a foreign key.
RowFree(r, m) == \A q \in Requests \ {r} : m \notin tx[q].locks
\* A DELETE also waits for the key-share locks of foreign-key checks ...
KeyFree(r, m) == RowFree(r, m) /\ \A q \in Requests \ {r} : m \notin tx[q].shares
\* ... and a foreign-key check waits for a DELETE of its target (but not for
\* an UPDATE of it).
TargetNotLocked(r, m) == TRUE  \* mutant: the check takes no key-share lock
TargetFree(r, m) ==
  \A q \in Requests \ {r} : ~(job[q].op = "delete" /\ job[q].id = m /\ m \in tx[q].locks)
\* INSERT ... ON CONFLICT DO UPDATE holds the counter row until the transaction ends.
CounterNotLocked(r) == TRUE  \* mutant: the next seq is read without locking the counter row
CounterFree(r) == \A q \in Requests \ {r} : tx[q].ctr = 0

\* The supersedes value the row will have.
Target(r) == IF job[r].target = Keep THEN seen[r].supersedes ELSE job[r].target

\* mutant: the cascade goes for the rows it has detached again and again
DetachForever(r) == {m \in Ids \ {job[r].id} : memories[m].supersedes = job[r].id}
\* ON DELETE SET NULL: the rows that supersede the deleted one and are not locked yet.
ToDetach(r) ==
  {m \in Ids \ {job[r].id} : memories[m].supersedes = job[r].id} \ tx[r].locks

\* The WHERE clause of the UPDATE.
RowExists(r) == Live(job[r].id)  \* mutant: AND version = ... left out
VersionMatches(r) == memories[job[r].id].version = seen[r].version

Blocked(r) ==
  \/ pc[r] = "write" /\ VersionMatches(r) /\ ~RowFree(r, job[r].id)
  \/ pc[r] = "lockRow" /\ ~KeyFree(r, job[r].id)
  \/ pc[r] = "shareTarget" /\ ~TargetFree(r, Target(r))
  \/ pc[r] = "cascade" /\ ToDetach(r) # {} /\ \A m \in ToDetach(r) : ~RowFree(r, m)
  \/ pc[r] \in {"cascade", "capture"} /\ ToDetach(r) = {} /\ ~CounterFree(r)

-----------------------------------------------------------------------------
(* Steps of a request *)

Go(r, label) == pc' = [pc EXCEPT ![r] = label]

\* The transaction ends without effect and the caller gets `a'.
EndWithout(r, a) ==
  /\ tx' = [tx EXCEPT ![r] = NoTx]
  /\ answer' = [answer EXCEPT ![r] = a]
  /\ Go(r, "done")

FirstPc(j) ==
  IF j.op = "update" THEN "read"
  ELSE IF j.op = "delete" THEN "lockRow"
  ELSE IF j.target = NoId THEN "insert" ELSE "checkTarget"

\* A request arrives.
Begin(r) ==
  /\ pc[r] = "new"
  /\ \E j \in Workload :
       /\ job' = [job EXCEPT ![r] = j]
       /\ Go(r, FirstPc(j))
  /\ UNCHANGED <<tables, attempt, seen, tx, answer, sealer>>

\* The row at the caller's expected_version (0: none given).
AnyVersion(r, row) == TRUE  \* mutant: expected_version is not looked at
AtExpected(r, row) == job[r].expected \in {0, row.version}

\* update_memory: the SELECT that starts an attempt, and the expected_version check on it.
ReadRow(r) ==
  /\ pc[r] = "read"
  /\ LET row == memories[job[r].id]
     IN \/ /\ row = NoRow
           /\ EndWithout(r, "absent")
           /\ UNCHANGED seen
        \/ /\ row # NoRow
           /\ ~AtExpected(r, row)
           /\ EndWithout(r, "conflict")
           /\ UNCHANGED seen
        \/ /\ row # NoRow
           /\ AtExpected(r, row)
           /\ seen' = [seen EXCEPT ![r] = row]
           /\ Go(r, "checkTarget")
           /\ UNCHANGED <<tx, answer>>
  /\ UNCHANGED <<tables, job, attempt, sealer>>

TargetPresent(r) == Target(r) # NoId => Live(Target(r))

\* _supersedes_exists: a second SELECT, for the value the row will have.
CheckTarget(r) ==
  /\ pc[r] = "checkTarget"
  /\ \/ /\ ~TargetPresent(r)
        /\ EndWithout(r, "badTarget")
     \/ /\ TargetPresent(r)
        /\ Go(r, IF job[r].op = "create" THEN "insert" ELSE "write")
        /\ UNCHANGED <<tx, answer>>
  /\ UNCHANGED <<tables, job, attempt, seen, sealer>>

\* An attempt that updated no row is retried from the SELECT on.
RetryFrom == "read"

NeverLast(r) == FALSE  \* mutant: the number of attempts is not bounded
LastAttempt(r) == attempt[r] + 1 = MaxAttempts

\* UPDATE ... WHERE version = the version read.  A row that matches is waited
\* for and judged again as it is then; no row updated means commit and try again.
WriteRow(r) ==
  /\ pc[r] = "write"
  /\ \/ /\ VersionMatches(r)
        /\ RowFree(r, job[r].id)
        /\ tx' = [tx EXCEPT ![r].locks = {job[r].id}]
        /\ Go(r, IF Target(r) \in {NoId, seen[r].supersedes} THEN "capture" ELSE "shareTarget")
        /\ UNCHANGED <<attempt, answer>>
     \/ /\ ~VersionMatches(r)
        /\ attempt' = [attempt EXCEPT ![r] = @ + 1]
        /\ \/ /\ job[r].expected # 0 \/ LastAttempt(r)
              /\ EndWithout(r, "conflict")
           \/ /\ job[r].expected = 0 /\ ~LastAttempt(r)
              /\ Go(r, RetryFrom)
              /\ UNCHANGED <<tx, answer>>
  /\ UNCHANGED <<tables, job, seen, sealer>>

\* INSERT INTO memories with a new id from _make_id.
InsertRow(r) ==
  /\ pc[r] = "insert"
  /\ \E m \in Ids :
       /\ heads[m].last = 0 /\ \A q \in Requests : m \notin tx[q].locks
       /\ job' = [job EXCEPT ![r].id = m]
       /\ tx' = [tx EXCEPT ![r].locks = {m}]
  /\ Go(r, IF job[r].target = NoId THEN "capture" ELSE "shareTarget")
  /\ UNCHANGED <<tables, attempt, seen, answer, sealer>>

\* The foreign-key check on the new supersedes value (SELECT ... FOR KEY SHARE).
ShareTarget(r) ==
  /\ pc[r] = "shareTarget"
  /\ TargetFree(r, Target(r))
  /\ \/ /\ Live(Target(r))
        /\ tx' = [tx EXCEPT ![r].shares = {Target(r)}]
        /\ Go(r, "capture")
        /\ UNCHANGED answer
     \/ /\ ~Live(Target(r))
        /\ EndWithout(r, "badTarget")
  /\ UNCHANGED <<tables, job, attempt, seen, sealer>>

\* DELETE FROM memories.
LockRow(r) ==
  /\ pc[r] = "lockRow"
  /\ KeyFree(r, job[r].id)
  /\ \/ /\ Live(job[r].id)
        /\ tx' = [tx EXCEPT ![r].locks = {job[r].id}]
        /\ Go(r, "cascade")
        /\ UNCHANGED answer
     \/ /\ ~Live(job[r].id)
        /\ EndWithout(r, "absent")
  /\ UNCHANGED <<tables, job, attempt, seen, sealer>>

\* The foreign key's UPDATE ... SET supersedes = NULL reaches one referencing row.
DetachRow(r) ==
  /\ pc[r] = "cascade"
  /\ \E m \in ToDetach(r) :
       /\ RowFree(r, m)
       /\ tx' = [tx EXCEPT ![r].locks = @ \cup {m}]
  /\ UNCHANGED <<tables, job, pc, attempt, seen, answer, sealer>>

\* The row as the transaction leaves it (jarvis_bump_version owns the version).
NewImage(r, m) ==
  CASE job[r].op = "create" -> [version |-> 1, fields |-> {r}, supersedes |-> job[r].target]
    [] job[r].op = "update" -> [version |-> memories[m].version + 1,
                                fields |-> seen[r].fields \cup {r},
                                supersedes |-> Target(r)]
    [] job[r].op = "delete" -> IF m = job[r].id THEN NoRow
                               ELSE [version |-> memories[m].version + 1,
                                     fields |-> memories[m].fields, supersedes |-> NoId]

Uncaptured(r) == tx[r].locks \ {e.id : e \in tx[r].pend}

\* The next seq: last_seq + 1 RETURNING on the counter row, as this transaction sees it.
NextSeq(r) == IF tx[r].ctr = 0 THEN counter + 1 ELSE tx[r].ctr + 1

\* jarvis_record_history for one row the statement changed.  A DELETE captures
\* the deleted row first: the AFTER triggers of the cascade's UPDATE are queued
\* behind those of the DELETE itself.
Capture(r) ==
  /\ pc[r] \in {"cascade", "capture"}
  /\ pc[r] = "cascade" => ToDetach(r) = {}
  /\ CounterFree(r)
  /\ \E m \in Uncaptured(r) :
       /\ job[r].id \in Uncaptured(r) => m = job[r].id
       /\ LET e == [seq |-> NextSeq(r), id |-> m, before |-> memories[m],
                    after |-> NewImage(r, m), prev |-> LatestSeq(m)]
          IN tx' = [tx EXCEPT ![r] = [locks |-> @.locks, shares |-> @.shares,
                                      ctr |-> e.seq, pend |-> @.pend \cup {e}]]
  /\ Go(r, "capture")
  /\ UNCHANGED <<tables, job, attempt, seen, answer, sealer>>

\* The chain head a captured entry leaves.
HeadAlwaysLive(e) == [last |-> e.seq, deleted |-> FALSE]  \* mutant: the upsert does not set deleted
HeadAfter(e) == [last |-> e.seq, deleted |-> e.after = NoRow]

\* COMMIT.  The caller may still get 503: the connection can be lost after the
\* commit and before its acknowledgement.
Commit(r) ==
  /\ pc[r] = "capture" /\ tx[r].ctr # 0 /\ Uncaptured(r) = {}
  /\ LET Written(m) == {e \in tx[r].pend : e.id = m}
         EntryFor(m) == CHOOSE e \in Written(m) : TRUE
     IN /\ memories' = [m \in Ids |-> IF Written(m) = {} THEN memories[m] ELSE EntryFor(m).after]
        /\ heads' = [m \in Ids |-> IF Written(m) = {} THEN heads[m]
                                   ELSE HeadAfter(EntryFor(m))]
  /\ history' = history \cup tx[r].pend
  /\ counter' = tx[r].ctr
  /\ \E a \in {"ok", "unavailable"} : EndWithout(r, a)
  /\ UNCHANGED <<blocks, job, attempt, seen, sealer>>

\* lock_timeout (or PostgreSQL's deadlock detection) ends a transaction that waits.
LockTimeout(r) ==
  /\ Blocked(r)
  /\ EndWithout(r, "unavailable")
  /\ UNCHANGED <<tables, job, attempt, seen, sealer>>

\* Any other database error or lost connection: _tx rolls back and raises
\* StoreUnavailableError.
Abort(r) ==
  /\ pc[r] \notin {"new", "done"}
  /\ EndWithout(r, "unavailable")
  /\ UNCHANGED <<tables, job, attempt, seen, sealer>>

-----------------------------------------------------------------------------
(* Steps of a sealer: one transaction of seal_blocks (jarvis_seal_block) *)

\* pg_advisory_xact_lock('jarvis-seal/' || tenant): held until the transaction ends.
NoSealLock(s) == sealer[s].pc = "idle"  \* mutant: sealers are not serialised
SealLockFree(s) == \A z \in Sealers : sealer[z].pc = "idle"

SealLock(s) ==
  /\ SealLockFree(s)
  /\ sealer' = [sealer EXCEPT ![s].pc = "counter"]
  /\ UNCHANGED <<tables, control>>

SealReadCounter(s) ==
  /\ sealer[s].pc = "counter"
  /\ sealer' = [sealer EXCEPT ![s] =
                  IF counter = 0 THEN IdleSealer ELSE [@ EXCEPT !.pc = "tip", !.ctr = counter]]
  /\ UNCHANGED <<tables, control>>

OneEntryIsNothing(s) == SealedTo + 1 >= sealer[s].ctr  \* mutant: off by one
NothingNew(s) == SealedTo >= sealer[s].ctr

\* The newest block; "nothing new to seal" (and the refusal of a block beyond
\* the counter) end the transaction.
SealReadTip(s) ==
  /\ sealer[s].pc = "tip"
  /\ sealer' = [sealer EXCEPT ![s] =
                  IF NothingNew(s) THEN IdleSealer
                  ELSE [@ EXCEPT !.pc = "insert", !.height = Len(blocks), !.last = SealedTo]]
  /\ UNCHANGED <<tables, control>>

\* Not forced, too few entries and the oldest one still young.
SealBelowThreshold(s) ==
  /\ sealer[s].pc = "insert"
  /\ sealer[s].ctr - sealer[s].last < MinEntries
  /\ sealer' = [sealer EXCEPT ![s] = IdleSealer]
  /\ UNCHANGED <<tables, control>>

SealPastNext(s) == sealer[s].last + 2  \* mutant: off by one
SealFirst(s) == sealer[s].last + 1
SealLast(s) ==
  IF sealer[s].last + MaxEntries < sealer[s].ctr THEN sealer[s].last + MaxEntries ELSE sealer[s].ctr

\* A seq the counter promised is not in the history: the seal refuses.
SealMissing(s) == \E q \in SealFirst(s)..SealLast(s) : \A e \in history : e.seq # q
\* The height is taken: the primary key refuses the INSERT.
SealCollides(s) == Len(blocks) # sealer[s].height

\* The block over the next entries is inserted and committed, unless the
\* history has a hole or the height is taken.
SealInsert(s) ==
  /\ sealer[s].pc = "insert"
  /\ blocks' = IF SealMissing(s) \/ SealCollides(s) THEN blocks
               ELSE Append(blocks, [first |-> SealFirst(s), last |-> SealLast(s),
                                    entries |-> EntriesOf(SealFirst(s), SealLast(s))])
  /\ sealer' = [sealer EXCEPT ![s] = IdleSealer]
  /\ UNCHANGED <<memories, history, counter, heads, control>>

SealAbort(s) ==
  /\ sealer[s].pc # "idle"
  /\ sealer' = [sealer EXCEPT ![s] = IdleSealer]
  /\ UNCHANGED <<tables, control>>

-----------------------------------------------------------------------------
(* Specification *)

\* The seeded records: created one after the other, each superseding the last.
SeedRow(i) == [version |-> 1, fields |-> {}, supersedes |-> IF i = 1 THEN NoId ELSE Seed[i - 1]]
SeedEntry(i) == [seq |-> i, id |-> Seed[i], before |-> NoRow, after |-> SeedRow(i), prev |-> 0]
SeedIndexes(m) == {i \in 1..Len(Seed) : Seed[i] = m}

Init ==
  /\ memories = [m \in Ids |-> IF SeedIndexes(m) = {} THEN NoRow
                               ELSE SeedRow(CHOOSE i \in SeedIndexes(m) : TRUE)]
  /\ heads = [m \in Ids |-> [last |-> IF SeedIndexes(m) = {} THEN 0
                                      ELSE CHOOSE i \in SeedIndexes(m) : TRUE,
                             deleted |-> FALSE]]
  /\ history = {SeedEntry(i) : i \in 1..Len(Seed)}
  /\ counter = Len(Seed)
  /\ blocks = <<>>
  /\ job = [r \in Requests |-> NoJob]
  /\ pc = [r \in Requests |-> "new"]
  /\ attempt = [r \in Requests |-> 0]
  /\ seen = [r \in Requests |-> NoRow]
  /\ tx = [r \in Requests |-> NoTx]
  /\ answer = [r \in Requests |-> "none"]
  /\ sealer = [s \in Sealers |-> IdleSealer]

\* What the application and the database do for a request that has arrived.
Serve(r) ==
  \/ ReadRow(r) \/ CheckTarget(r) \/ WriteRow(r)
  \/ InsertRow(r) \/ ShareTarget(r)
  \/ LockRow(r) \/ DetachRow(r)
  \/ Capture(r) \/ Commit(r) \/ LockTimeout(r)

SealStep(s) ==
  \/ SealLock(s) \/ SealReadCounter(s) \/ SealReadTip(s)
  \/ SealBelowThreshold(s) \/ SealInsert(s)

Next ==
  \/ \E r \in Requests : Begin(r) \/ Serve(r) \/ Abort(r)
  \/ \E s \in Sealers : SealStep(s) \/ SealAbort(s)

Spec == Init /\ [][Next]_vars

\* A started request is served (threads and the server run; waits are bounded
\* by lock_timeout); the seal timer keeps firing; once the oldest unsealed
\* entry is older than max_age an attempt does not stop below the threshold,
\* and not every attempt fails.
Fairness ==
  /\ \A r \in Requests : WF_vars(Serve(r))
  /\ \A s \in Sealers : /\ WF_vars(SealStep(s))
                         /\ SF_vars(SealReadCounter(s)) /\ SF_vars(SealReadTip(s))
                         /\ SF_vars(SealInsert(s))

FairSpec == Spec /\ Fairness

-----------------------------------------------------------------------------
(* Properties *)

\* Every variable has its type.
TypeOK ==
  /\ memories \in [Ids -> RowType]
  /\ history \subseteq EntryType
  /\ counter \in Nat
  /\ heads \in [Ids -> HeadType]
  /\ blocks \in Seq(BlockType)
  /\ job \in [Requests -> JobType]
  /\ pc \in [Requests -> Pcs]
  /\ attempt \in [Requests -> 0..MaxAttempts]
  /\ seen \in [Requests -> RowType]
  /\ tx \in [Requests -> TxType]
  /\ answer \in [Requests -> Answers]
  /\ sealer \in [Sealers -> SealerType]

\* Commit order is seq order: any counter value that can be read is backed by
\* exactly one committed entry for each of 1..counter, whatever is in flight
\* (the comment on jarvis_seal_block; seal, replay and verification rely on it).
CounterBacked ==
  /\ \A q \in 1..counter : \E e \in history : e.seq = q
  /\ \A e \in history : e.seq \in 1..counter
  /\ \A e, f \in history : e.seq = f.seq => e = f

\* The history of a record is one chain: each entry names the record's entry
\* before it, starts from the image that one left, and moves the version by one.
ChainIntact ==
  \A e \in history :
    LET earlier == {f \in history : f.id = e.id /\ f.seq < e.seq}
    IN IF earlier = {} THEN e.prev = 0 /\ e.before = NoRow /\ e.after.version = 1
       ELSE \E f \in earlier :
              /\ e.prev = f.seq /\ \A g \in earlier : g.seq <= f.seq
              /\ e.before = f.after
              /\ e.after = NoRow \/ e.after.version = f.after.version + 1

\* What jarvis_verify_history asks of one committed state: the chain head is
\* the record's newest entry, its deleted flag says what that entry did, and a
\* live row is the image that entry recorded.
RowsMatchHistory ==
  \A m \in Ids :
    /\ heads[m].last = LatestSeq(m)
    /\ heads[m].deleted <=> (heads[m].last # 0 /\ ~Live(m))
    /\ \A e \in history : IsLatest(e, m) => e.after = memories[m]

\* An update the caller was told had succeeded is in the record for good: no
\* concurrent update_memory writes back a row it read before it.
NoLostUpdate ==
  \A r \in Requests :
    (answer[r] = "ok" /\ job[r].op = "update" /\ Live(job[r].id))
      => r \in memories[job[r].id].fields

\* A record never supersedes one that is not there, whatever the order in which
\* creates, updates and deletes take their locks.
NoDanglingSupersedes ==
  \A m \in Ids : memories[m].supersedes # NoId => Live(memories[m].supersedes)

\* An update that named expected_version and was answered changed exactly that version;
\* one without gives up with a conflict only when the record really changed under every
\* one of its attempts.
VersionAnswersTrue ==
  \A r \in Requests :
    /\ answer[r] = "ok" /\ job[r].op = "update" /\ job[r].expected # 0
         => \E e \in history : /\ e.id = job[r].id /\ r \in e.after.fields \ e.before.fields
                               /\ e.before.version = job[r].expected
    /\ answer[r] = "conflict" /\ job[r].expected = 0
         => Cardinality({e \in history : e.id = job[r].id}) > MaxAttempts

\* The blocks tile the history from seq 1 without gap or overlap, reach no
\* further than the counter, and each still commits to exactly the entries of
\* its range (tiling, counter, count and root of jarvis_verify_blocks).
BlocksTileHistory ==
  \A i \in 1..Len(blocks) :
    /\ blocks[i].first = IF i = 1 THEN 1 ELSE blocks[i - 1].last + 1
    /\ blocks[i].first <= blocks[i].last /\ blocks[i].last <= counter
    /\ blocks[i].entries = EntriesOf(blocks[i].first, blocks[i].last)
    /\ Cardinality(blocks[i].entries) = blocks[i].last - blocks[i].first + 1

\* A seal that gets as far as its INSERT finds every entry the counter promised
\* and the next height free: concurrent writers and sealers never make it fail.
SealNeverRefused ==
  \A s \in Sealers : sealer[s].pc = "insert" => ~SealMissing(s) /\ ~SealCollides(s)

\* Every request that has arrived is answered: waits end, attempts are bounded.
RequestsAnswered == \A r \in Requests : pc[r] # "new" ~> pc[r] = "done"

\* Everything the counter covers is sealed again and again: no entry stays
\* outside the blocks for good.
EverythingSealed == []<>(SealedTo = counter)

\* What the store promises as a whole: a log that grows at its end and is
\* sealed from its beginning.
Log == INSTANCE SealedLog WITH entries <- history, length <- counter, sealed <- SealedTo
ImplementsSealedLog == Log!Spec
=============================================================================
