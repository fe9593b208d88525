------------------------- MODULE LedgerReadersProofs -------------------------
(***************************************************************************)
(* Those that read the ledger while it is written and sealed, for every    *)
(* set of writers, sealers, readers and ids.  Replays (LedgerReplay): a    *)
(* replay of a past point is always the same, so receipts verify for ever. *)
(* Verifiers, in SQL (LedgerVerify) and from the raw entries               *)
(* (OfflineVerify): they report no damage on a ledger nobody tampered with.*)
(***************************************************************************)
EXTENDS LedgerReplay, OfflineVerify, LedgerStoreProofs

-----------------------------------------------------------------------------
(* Replays *)


Covered(s) == \E i \in 1..Len(blocks) : BlockCovers(s, i)

(* The receipt that a replay at s gives. *)
ReceiptAt(s) ==
  [seq |-> s, height |-> CoveringBlock(s).height, first |-> CoveringBlock(s).first,
   last |-> CoveringBlock(s).last, root |-> RootAt(s), deleted |-> DeletedAt(s)]

(* A stored receipt is the one that a replay of its point gives now. *)
Sound(rc) == rc.seq \in 0..counter /\ Covered(rc.seq) /\ rc = ReceiptAt(rc.seq)

(* The rows that a replay at s finds live. *)
RowsAt(s) == {<<e.id, e.after>> : e \in LiveEntries(s)}

(* A replay that has found its point, or has ended without a problem. *)
Looking == {"counter", "sealed", "block", "heads"}
Replays(R) == R.op = "state" /\ (R.pc \in Looking \/ (R.pc = "done" /\ ~R.problem))

(* What a reader R at its statement has found about the point s it is at. *)
HasFound(R, s) ==
  /\ R.pc \in {"heads", "store"} /\ R.block # NoBlock => Covered(s) /\ R.block = CoveringBlock(s)
  /\ R.pc = "store" => /\ R.block # NoBlock
                       /\ R.root = RootAt(s) /\ R.deleted = DeletedAt(s)
  /\ Replays(R) /\ R.bound = 0 => R.then = RowsAt(s)
  /\ Replays(R) /\ R.pc = "done" => R.root = RootAt(s)

(* A verification of rc is at rc's point and has found nothing that differs. *)
Judges(R, rc) ==
  /\ R.pc \in {"resolve", "counter", "sealed", "block", "heads", "done"}
  /\ R.claimed = {rc} /\ R.bound = rc.seq /\ ~R.problem
  /\ R.pc \notin {"resolve", "done"} => R.seq = rc.seq
  /\ R.pc = "heads" => R.block = [height |-> rc.height, first |-> rc.first, last |-> rc.last]

Fits(R) ==
  /\ DOMAIN R = DOMAIN IdleReader
  /\ R.bound \in Nat /\ R.seq \in 0..counter
  /\ \A s \in Nat : s = R.seq => HasFound(R, s)
  /\ R.pc \in {"tip", "store"} => R.op = "receipt"
  /\ R.pc \in {"until", "page"} => R.op = "events"
  /\ R.op = "verify" => \E rc \in receipts : Judges(R, rc)

PInv ==
  /\ BlocksOrdered
  /\ \A rc \in receipts : Sound(rc)
  /\ DOMAIN reader = Readers /\ \A v \in Readers : Fits(reader[v])

(* Reading events: the pages so far are the entries before the next one, in their order,      *)
(* and the counter read is past them; at the end they are the history up to it (n: counter). *)
Pages(R, n) ==
  R.op = "events" =>
    /\ R.pc \in {"until", "page", "done"} /\ R.from \in Nat
    /\ R.events \in Seq(Nat) /\ \A i \in 1..Len(R.events) : R.events[i] = i
    /\ R.pc \in {"until", "page"} => Len(R.events) = R.from - 1 /\ R.from - 1 <= n
    /\ R.pc = "page" => R.counter \in Nat /\ R.from - 1 <= R.counter /\ R.counter <= n
    /\ R.pc = "done" => Len(R.events) = R.counter

EInv == \A v \in Readers : Pages(reader[v], counter)

-----------------------------------------------------------------------------
(* Blocks *)

\* A block that covers a point is the one CoveringBlock finds.
LEMMA CoveredByOne ==
  ASSUME TypeOK, BlocksOrdered, NEW s \in Nat, NEW i \in 1..Len(blocks), BlockCovers(s, i)
  PROVE  CoveringBlock(s) = [height |-> i, first |-> blocks[i].first, last |-> blocks[i].last]
<1>1. \A k \in 1..Len(blocks) : blocks[k].first \in Nat /\ blocks[k].last \in Nat
  BY BlockRange
<1>2. ASSUME NEW k \in 1..Len(blocks), BlockCovers(s, k) PROVE k = i
  <2>1. Len(blocks) \in Nat
    BY SealedToType
  <2>2. ~(k < i) /\ ~(i < k)
    BY <1>1, <1>2 DEF BlocksOrdered, BlockCovers
  <2>3. QED
    BY <2>1, <2>2
<1>3. (CHOOSE k \in 1..Len(blocks) : BlockCovers(s, k)) = i
  BY <1>2
<1>4. QED
  BY <1>3 DEF CoveringBlock

-----------------------------------------------------------------------------
(* The past stays as it is *)

\* Whatever is written, deleted or sealed, a replay at a point below the counter goes on
\* giving the same, and a block that covers it goes on covering it.
LEMMA ReplayStays ==
  ASSUME IInv, BlocksOrdered, [Next]_vars, NEW s \in 0..counter
  PROVE  /\ s \in 0..counter'
         /\ RootAt(s)' = RootAt(s) /\ DeletedAt(s)' = DeletedAt(s) /\ RowsAt(s)' = RowsAt(s)
         /\ Covered(s) => Covered(s)' /\ CoveringBlock(s)' = CoveringBlock(s)
<1>1. TypeOK /\ TypeOK' /\ Counting
  BY TypedStep DEF IInv, Typed
<1>2. counter \in Nat /\ counter' \in Nat /\ counter <= counter' /\ s \in Nat
  BY <1>1, HistoryGrows DEF TypeOK
<1>3. \A e : e \in history' /\ e.seq <= s <=> e \in history /\ e.seq <= s
  <2>1. /\ history \subseteq history' /\ \A e \in history' \ history : e.seq > counter
        /\ \A e \in history' : e.seq \in Nat
    BY <1>1, HistoryGrows DEF TypeOK, EntryType
  <2>2. QED
    BY <1>2, <2>1
<1>4. NewestUpTo(s)' = NewestUpTo(s)
  BY <1>3 DEF NewestUpTo
<1>5. RootAt(s)' = RootAt(s) /\ DeletedAt(s)' = DeletedAt(s) /\ RowsAt(s)' = RowsAt(s)
  BY <1>4 DEF RootAt, DeletedAt, RowsAt, LiveEntries
<1>6. ASSUME Covered(s) PROVE Covered(s)' /\ CoveringBlock(s)' = CoveringBlock(s)
  <2>1. PICK i \in 1..Len(blocks) : BlockCovers(s, i)
    BY <1>6 DEF Covered
  <2>2. i \in 1..Len(blocks') /\ blocks'[i] = blocks[i]
    BY OldBlocksStay
  <2>3. BlockCovers(s, i)'
    BY <2>1, <2>2 DEF BlockCovers
  <2>4. Covered(s)'
    BY <2>2, <2>3 DEF Covered
  <2>5. CoveringBlock(s) = [height |-> i, first |-> blocks[i].first, last |-> blocks[i].last]
    BY <1>1, <1>2, <2>1, CoveredByOne
  <2>6. BlocksOrdered'
    BY OrderedStep
  <2>7. CoveringBlock(s)' = [height |-> i, first |-> blocks'[i].first, last |-> blocks'[i].last]
    <3>1. ASSUME NEW k \in 1..Len(blocks'), BlockCovers(s, k)' PROVE k = i
      <4>1. /\ Len(blocks') \in Nat /\ blocks'[i].first \in Nat /\ blocks'[i].last \in Nat
            /\ blocks'[k].first \in Nat /\ blocks'[k].last \in Nat
        <5>1. blocks'[i] \in BlockType /\ blocks'[k] \in BlockType
          BY <1>1, <2>2 DEF TypeOK
        <5>2. QED
          BY <5>1, OldBlocksStay DEF BlockType
      <4>2. ~(k < i) /\ ~(i < k)
        <5>1. /\ k < i => blocks'[k].last < blocks'[i].first
              /\ i < k => blocks'[i].last < blocks'[k].first
          BY <2>2, <2>6 DEF BlocksOrdered
        <5>2. /\ blocks'[i].first <= s /\ s <= blocks'[i].last
              /\ blocks'[k].first <= s /\ s <= blocks'[k].last
          BY <2>3, <3>1 DEF BlockCovers
        <5>3. QED
          BY <1>2, <4>1, <5>1, <5>2
      <4>3. QED
        BY <2>2, <4>1, <4>2
    <3>2. (CHOOSE k \in 1..Len(blocks') : BlockCovers(s, k)') = i
      BY <2>2, <2>3, <3>1
    <3>3. QED
      BY <2>2, <2>3, <3>2 DEF CoveringBlock, BlockCovers
  <2>8. QED
    BY <2>2, <2>4, <2>5, <2>7
<1>7. QED
  BY <1>2, <1>5, <1>6

\* A point that a block covers is one of the history's.
LEMMA CoveredIsPast ==
  ASSUME IInv, NEW s \in Nat, Covered(s)
  PROVE  s \in 1..counter
<1>1. PICK i \in 1..Len(blocks) : blocks[i].first <= s /\ s <= blocks[i].last
  BY DEF Covered, BlockCovers
<1>2. counter \in Nat /\ blocks[i].first \in Nat \ {0} /\ blocks[i].last \in Nat
  BY BlockRange DEF IInv, Typed, TypeOK
<1>3. blocks[i].last <= counter
  BY DEF IInv, Sealing, BlocksTileHistory
<1>4. QED
  BY <1>1, <1>2, <1>3

\* CoveringBlock finds a block exactly for a point that is covered.
LEMMA BlockFound ==
  ASSUME NEW s, CoveringBlock(s) # NoBlock
  PROVE  Covered(s)
  BY DEF CoveringBlock, Covered

\* A stored receipt goes on saying what a replay gives.
LEMMA SoundStays ==
  ASSUME IInv, BlocksOrdered, [Next]_vars, NEW rc, Sound(rc)
  PROVE  Sound(rc)'
<1>1. rc.seq \in 0..counter /\ Covered(rc.seq) /\ rc = ReceiptAt(rc.seq)
  BY DEF Sound
<1>2. /\ rc.seq \in 0..counter' /\ Covered(rc.seq)'
      /\ RootAt(rc.seq)' = RootAt(rc.seq) /\ DeletedAt(rc.seq)' = DeletedAt(rc.seq)
      /\ CoveringBlock(rc.seq)' = CoveringBlock(rc.seq)
  BY <1>1, ReplayStays
<1>3. ReceiptAt(rc.seq)' = ReceiptAt(rc.seq)
  BY <1>2 DEF ReceiptAt
<1>4. QED
  BY <1>1, <1>2, <1>3 DEF Sound

\* A reader that does not move goes on fitting.
LEMMA OthersStay ==
  ASSUME IInv, BlocksOrdered, [Next]_vars, NEW v \in Readers, Fits(reader[v]),
         reader'[v] = reader[v], receipts \subseteq receipts'
  PROVE  Fits(reader[v])'
<1>1. reader[v].seq \in 0..counter
  BY DEF Fits
<1>2. \A s \in Nat : s = reader'[v].seq => HasFound(reader[v], s)'
  <2>1. SUFFICES ASSUME NEW s \in Nat, s = reader[v].seq PROVE HasFound(reader[v], s)'
    BY <1>1
  <2>2. HasFound(reader[v], s)
    BY <2>1 DEF Fits
  <2>3. /\ RootAt(s)' = RootAt(s) /\ DeletedAt(s)' = DeletedAt(s) /\ RowsAt(s)' = RowsAt(s)
        /\ Covered(s) => Covered(s)' /\ CoveringBlock(s)' = CoveringBlock(s)
    BY <1>1, <2>1, ReplayStays
  <2>4. QED
    BY <2>2, <2>3 DEF HasFound
<1>3. reader'[v].seq \in 0..counter'
  BY <1>1, ReplayStays
<1>4. reader'[v].op = "verify" => \E rc \in receipts' : Judges(reader'[v], rc)
  BY DEF Fits
<1>5. QED
  BY <1>2, <1>3, <1>4 DEF Fits

\* A step of v that leaves the tables alone: what is to be shown of its new record R.
LEMMA ReaderMoves ==
  ASSUME IInv, PInv, NEW v \in Readers, UNCHANGED vars, receipts \subseteq receipts',
         \A rc \in receipts' \ receipts : Sound(rc),
         NEW R, reader' = [reader EXCEPT ![v] = R], Fits(R)
  PROVE  PInv'
<1>1. [Next]_vars /\ BlocksOrdered
  BY DEF PInv
<1>2. BlocksOrdered'
  BY <1>1, OrderedStep
<1>3. ASSUME NEW rc \in receipts' PROVE Sound(rc)'
  BY <1>1, <1>3, SoundStays DEF PInv
<1>4. DOMAIN reader' = Readers /\ reader'[v] = R
  BY DEF PInv
<1>5. ASSUME NEW u \in Readers PROVE Fits(reader[u])'
  <2>1. CASE u = v
    <3>1. counter' = counter /\ R.seq \in 0..counter /\ counter \in Nat
      BY DEF Fits, vars, tables, IInv, Typed, TypeOK
    <3>2. ASSUME NEW s \in Nat, s = R.seq PROVE HasFound(reader[v], s)'
      <4>1. /\ RootAt(s)' = RootAt(s) /\ DeletedAt(s)' = DeletedAt(s) /\ RowsAt(s)' = RowsAt(s)
            /\ Covered(s) => Covered(s)' /\ CoveringBlock(s)' = CoveringBlock(s)
        BY <1>1, <3>1, <3>2, ReplayStays
      <4>2. HasFound(R, s)
        BY <3>2 DEF Fits
      <4>3. QED
        BY <1>4, <4>1, <4>2 DEF HasFound
    <3>3. R.op = "verify" => \E rc \in receipts' : Judges(R, rc)
      BY DEF Fits
    <3>4. QED
      BY <1>4, <2>1, <3>1, <3>2, <3>3 DEF Fits
  <2>2. CASE u # v
    <3>1. reader'[u] = reader[u] /\ Fits(reader[u])
      BY <2>2 DEF PInv
    <3>2. QED
      BY <1>1, <3>1, OthersStay
  <2>3. QED
    BY <2>1, <2>2
<1>6. QED
  BY <1>2, <1>3, <1>4, <1>5 DEF PInv

-----------------------------------------------------------------------------
(* Steps of a reader *)

\* A reader that begins, or one that reads something no receipt depends on.
LEMMA ReaderAsks ==
  ASSUME IInv, PInv, NEW v \in Readers,
         AskReplay(v) \/ AskVerify(v) \/ AskEvents(v) \/ ReadTip(v)
  PROVE  PInv'
<1>1. UNCHANGED <<vars, receipts>>
  BY DEF AskReplay, AskVerify, AskEvents, ReadTip, ReadOnly
<1>2. counter \in Nat /\ SealedTo \in Nat
  BY SealedToType DEF IInv, Typed, TypeOK
<1>3. Fits(reader[v])
  BY DEF PInv
<1>4. CASE AskReplay(v)
  <2>1. PICK op \in {"state", "receipt"}, b \in Bounds :
          Set(v, [IdleReader EXCEPT !.op = op, !.bound = b,
                                   !.pc = IF op = "receipt" /\ b = 0 THEN "tip" ELSE "resolve"])
    BY <1>4 DEF AskReplay
  <2>2. Fits([IdleReader EXCEPT !.op = op, !.bound = b,
                               !.pc = IF op = "receipt" /\ b = 0 THEN "tip" ELSE "resolve"])
    BY <1>2, ReplayConstantsOK DEF IdleReader, Fits, HasFound, Replays, Looking
  <2>3. QED
    BY <1>1, <2>1, <2>2, ReaderMoves DEF Set
<1>5. CASE AskVerify(v)
  <2>1. PICK rc \in receipts :
          Set(v, [IdleReader EXCEPT !.op = "verify", !.bound = rc.seq, !.claimed = {rc}, !.pc = "resolve"])
    BY <1>5 DEF AskVerify
  <2>2. rc.seq \in Nat
    BY <1>2 DEF PInv, Sound
  <2>3. Fits([IdleReader EXCEPT !.op = "verify", !.bound = rc.seq, !.claimed = {rc}, !.pc = "resolve"])
    BY <1>2, <2>2 DEF IdleReader, Fits, HasFound, Replays, Looking, Judges
  <2>4. QED
    BY <1>1, <2>1, <2>3, ReaderMoves DEF Set
<1>6. CASE AskEvents(v)
  <2>1. Fits([IdleReader EXCEPT !.op = "events", !.pc = "until"])
    BY <1>2 DEF IdleReader, Fits, HasFound, Replays, Looking
  <2>2. QED
    BY <1>1, <1>6, <2>1, ReaderMoves DEF AskEvents, Set
<1>7. CASE ReadTip(v)
  <2>1. reader[v].pc = "tip" /\ reader[v].op # "verify"
    BY <1>3, <1>7 DEF ReadTip, Fits, Judges
  <2>2. /\ Fits([reader[v] EXCEPT !.pc = "done"])
        /\ Fits([reader[v] EXCEPT !.bound = SealedTo, !.pc = "resolve"])
    BY <1>2, <1>3, <2>1 DEF Fits, HasFound, Replays, Looking, IdleReader
  <2>3. QED
    BY <1>1, <1>7, <2>2, ReaderMoves DEF ReadTip, Set
<1>8. QED
  BY <1>4, <1>5, <1>6, <1>7

\* What the receipt a reader verifies is, and that its point is in the past.
LEMMA JudgedIsSound ==
  ASSUME IInv, PInv, NEW v \in Readers, reader[v].op = "verify"
  PROVE  \E rc \in receipts : Judges(reader[v], rc) /\ rc.seq \in 1..counter /\ Sound(rc)
<1>1. PICK rc \in receipts : Judges(reader[v], rc)
  BY DEF PInv, Fits
<1>2. Sound(rc)
  BY DEF PInv
<1>3. rc.seq \in Nat /\ Covered(rc.seq)
  BY <1>2 DEF Sound, IInv, Typed, TypeOK
<1>4. rc.seq \in 1..counter
  BY <1>3, CoveredIsPast
<1>5. QED
  BY <1>1, <1>2, <1>4

\* The live rows are those that a replay at the counter finds.
LEMMA LiveIsNewest ==
  ASSUME IInv, RInv
  PROVE  LiveRows = RowsAt(counter)
<1>1. Committed /\ counter \in Nat /\ \A e \in history : e.seq \in 1..counter /\ e.id \in Ids
  BY DEF IInv, RInv, Typed, TypeOK, EntryType, Counting, CounterBacked
<1>2. \A e \in history : e \in NewestUpTo(counter) <=> IsLatest(e, e.id)
  BY <1>1 DEF NewestUpTo, IsLatest
<1>3. ASSUME NEW m \in Ids, Live(m) PROVE <<m, memories[m]>> \in RowsAt(counter)
  <2>1. PICK f \in history : IsLatest(f, m)
    BY <1>1, <1>3 DEF Committed, Recorded, HasLatest, Known
  <2>2. f.id = m /\ f.after = memories[m]
    BY <1>1, <2>1 DEF Committed, RowsMatchHistory, IsLatest
  <2>3. f \in LiveEntries(counter)
    BY <1>2, <1>3, <2>1, <2>2 DEF LiveEntries, NewestUpTo, Live
  <2>4. QED
    BY <2>2, <2>3 DEF RowsAt
<1>4. ASSUME NEW e \in LiveEntries(counter) PROVE <<e.id, e.after>> \in LiveRows
  <2>1. e \in history /\ e.after # NoRow /\ IsLatest(e, e.id) /\ e.id \in Ids
    BY <1>1, <1>2 DEF LiveEntries, NewestUpTo
  <2>2. e.after = memories[e.id]
    BY <1>1, <2>1 DEF Committed, RowsMatchHistory
  <2>3. QED
    BY <2>1, <2>2 DEF LiveRows, Live
<1>5. QED
  BY <1>3, <1>4 DEF LiveRows, RowsAt

\* The statements before the heads: the point is in the past and stays the one asked for.
LEMMA ReaderReads ==
  ASSUME IInv, RInv, PInv, NEW v \in Readers,
         ResolveSeq(v) \/ ReadCounter(v) \/ ReadSealed(v) \/ ReadUntil(v)
  PROVE  PInv'
<1>1. UNCHANGED <<vars, receipts>>
  BY DEF ResolveSeq, ReadCounter, ReadSealed, ReadUntil, ReadOnly
<1>2. counter \in Nat
  BY DEF IInv, Typed, TypeOK
<1>3. Fits(reader[v])
  BY DEF PInv
<1>4. CASE ResolveSeq(v)
  <2> DEFINE R1 == [reader[v] EXCEPT !.pc = "done", !.problem = TRUE]
             R2 == [reader[v] EXCEPT !.pc = "counter", !.then = LiveRows,
                                     !.seq = IF reader[v].bound = 0 THEN counter ELSE reader[v].bound]
  <2>1. reader[v].pc = "resolve" /\ Set(v, IF reader[v].bound > counter THEN R1 ELSE R2)
    BY <1>4 DEF ResolveSeq
  <2>2. reader[v].op = "verify" => reader[v].bound \in 1..counter
    BY JudgedIsSound DEF Judges
  <2>3. CASE reader[v].bound > counter
    <3>1. Fits(R1)
      BY <1>2, <1>3, <2>2, <2>3 DEF Fits, HasFound, Replays, Looking, IdleReader
    <3>2. QED
      BY <1>1, <2>1, <2>3, <3>1, ReaderMoves DEF Set
  <2>4. CASE reader[v].bound <= counter
    <3>1. /\ R2.seq \in 0..counter /\ R2.pc = "counter" /\ DOMAIN R2 = DOMAIN IdleReader
          /\ R2.bound = reader[v].bound /\ R2.op = reader[v].op /\ R2.claimed = reader[v].claimed
          /\ R2.problem = reader[v].problem
          /\ R2.bound # 0 => R2.seq = R2.bound
          /\ R2.bound = 0 => R2.seq = counter
          /\ R2.then = LiveRows
      BY <1>2, <1>3, <2>4 DEF Fits, IdleReader
    <3>2. R2.op = "verify" => \E rc \in receipts : Judges(R2, rc)
      <4>1. SUFFICES ASSUME reader[v].op = "verify" PROVE \E rc \in receipts : Judges(R2, rc)
        BY <3>1
      <4>2. PICK rc \in receipts : Judges(reader[v], rc) /\ rc.seq \in 1..counter
        BY <4>1, JudgedIsSound
      <4>3. R2.bound = rc.seq /\ rc.seq # 0 /\ R2.claimed = {rc} /\ ~R2.problem
        BY <1>2, <3>1, <4>2 DEF Judges
      <4>4. R2.seq = rc.seq
        BY <3>1, <4>3
      <4> HIDE DEF R2
      <4>5. Judges(R2, rc)
        BY <3>1, <4>3, <4>4 DEF Judges
      <4>6. QED
        BY <4>5
    <3>3. Fits(R2)
      <4> HIDE DEF R2
      <4>1. \A s \in Nat : s = R2.seq => HasFound(R2, s)
        BY <3>1, LiveIsNewest DEF HasFound
      <4>2. QED
        BY <1>3, <3>1, <3>2, <4>1 DEF Fits
    <3>4. ~(reader[v].bound > counter)
      BY <1>2, <1>3, <2>4 DEF Fits
    <3>5. QED
      BY <1>1, <2>1, <3>3, <3>4, ReaderMoves DEF Set
  <2>5. QED
    BY <1>2, <1>3, <2>3, <2>4 DEF Fits
<1>5. CASE ReadCounter(v)
  <2>1. reader[v].pc = "counter"
    BY <1>5 DEF ReadCounter
  <2>2. Fits([reader[v] EXCEPT !.counter = counter, !.pc = "sealed"])
    BY <1>2, <1>3, <2>1 DEF Fits, HasFound, Replays, Looking, Judges, IdleReader
  <2>3. QED
    BY <1>1, <1>5, <2>2, ReaderMoves DEF ReadCounter, Set
<1>6. CASE ReadSealed(v)
  <2>1. reader[v].pc = "sealed"
    BY <1>6 DEF ReadSealed
  <2>2. Fits([reader[v] EXCEPT !.sealed = SealedTo, !.pc = "block"])
    BY <1>2, <1>3, <2>1 DEF Fits, HasFound, Replays, Looking, Judges, IdleReader
  <2>3. QED
    BY <1>1, <1>6, <2>2, ReaderMoves DEF ReadSealed, Set
<1>7. CASE ReadUntil(v)
  <2>1. reader[v].pc = "until" /\ reader[v].op # "verify"
    BY <1>3, <1>7 DEF ReadUntil, Fits, Judges
  <2>2. Fits([reader[v] EXCEPT !.counter = counter, !.pc = "page"])
    BY <1>2, <1>3, <2>1 DEF Fits, HasFound, Replays, Looking, IdleReader
  <2>3. QED
    BY <1>1, <1>7, <2>2, ReaderMoves DEF ReadUntil, Set
<1>8. QED
  BY <1>4, <1>5, <1>6, <1>7

\* A page of events.
LEMMA ReaderPages ==
  ASSUME IInv, PInv, NEW v \in Readers, ReadEvents(v)
  PROVE  PInv'
<1>1. UNCHANGED <<vars, receipts>> /\ reader[v].pc = "page"
  BY DEF ReadEvents, ReadOnly
<1>2. Fits(reader[v]) /\ reader[v].op = "events"
  BY <1>1 DEF PInv, Fits
<1>3. PICK ev, fr, p : /\ p \in {"until", "done"}
                       /\ reader' = [reader EXCEPT ![v] = [reader[v] EXCEPT !.events = ev, !.from = fr, !.pc = p]]
  BY <1>2 DEF ReadEvents, Set, Fits, IdleReader
<1>4. Fits([reader[v] EXCEPT !.events = ev, !.from = fr, !.pc = p])
  BY <1>2, <1>3 DEF Fits, HasFound, Replays, Looking, IdleReader
<1>5. QED
  BY <1>1, <1>3, <1>4, ReaderMoves

\* The block that covers the point: for a receipt, the one it names.
LEMMA ReaderFindsBlock ==
  ASSUME IInv, PInv, NEW v \in Readers, ReadBlock(v)
  PROVE  PInv'
<1> DEFINE R == [reader[v] EXCEPT !.block = CoveringBlock(reader[v].seq), !.pc = "heads"]
<1>1. UNCHANGED <<vars, receipts>> /\ reader[v].pc = "block" /\ Set(v, R)
  BY DEF ReadBlock, ReadOnly
<1>2. Fits(reader[v])
  BY DEF PInv
<1>3. /\ DOMAIN R = DOMAIN IdleReader /\ R.pc = "heads" /\ R.block = CoveringBlock(reader[v].seq)
      /\ R.seq = reader[v].seq /\ R.bound = reader[v].bound /\ R.op = reader[v].op
      /\ R.claimed = reader[v].claimed /\ R.problem = reader[v].problem /\ R.then = reader[v].then
  BY <1>2 DEF Fits, IdleReader
<1>4. ASSUME NEW s \in Nat, s = R.seq PROVE HasFound(R, s)
  <2>1. HasFound(reader[v], s)
    BY <1>2, <1>3, <1>4 DEF Fits
  <2>2. Replays(R) => Replays(reader[v])
    BY <1>1, <1>3 DEF Replays, Looking
  <2> HIDE DEF R
  <2>3. QED
    BY <1>1, <1>3, <1>4, <2>1, <2>2, BlockFound DEF HasFound, Looking
<1>5. ASSUME R.op = "verify" PROVE \E rc \in receipts : Judges(R, rc)
  <2>1. PICK rc \in receipts : Judges(reader[v], rc) /\ Sound(rc)
    BY <1>3, <1>5, JudgedIsSound
  <2>2. reader[v].seq = rc.seq
    BY <1>1, <2>1 DEF Judges
  <2>3. Covered(rc.seq) /\ rc = ReceiptAt(rc.seq)
    BY <2>1 DEF Sound
  <2>4. CoveringBlock(rc.seq) = [height |-> CoveringBlock(rc.seq).height, first |-> CoveringBlock(rc.seq).first,
                                 last |-> CoveringBlock(rc.seq).last]
    BY <2>3 DEF CoveringBlock, Covered
  <2>5. R.block = [height |-> rc.height, first |-> rc.first, last |-> rc.last]
    BY <1>3, <2>2, <2>3, <2>4 DEF ReceiptAt
  <2>6. QED
    BY <1>3, <2>1, <2>2, <2>5 DEF Judges
<1>6. Fits(R)
  BY <1>2, <1>3, <1>4, <1>5 DEF Fits
<1>7. QED
  BY <1>1, <1>6, ReaderMoves DEF Set

\* The heads, and what is made of them: nothing differs from a receipt.
LEMMA ReaderConcludes ==
  ASSUME IInv, PInv, NEW v \in Readers, ReadHeads(v)
  PROVE  PInv'
<1> DEFINE s == reader[v].seq
           p == IF reader[v].op = "receipt" /\ Issuable(v) THEN "store" ELSE "done"
           bad == \E rc \in reader[v].claimed : Differs(v, rc, RootAt(s), DeletedAt(s))
           new == [reader[v] EXCEPT !.root = RootAt(s), !.deleted = DeletedAt(s), !.pc = p, !.problem = bad]
<1>1. UNCHANGED <<vars, receipts>> /\ reader[v].pc = "heads" /\ Set(v, new)
  BY DEF ReadHeads, ReadOnly
<1>2. Fits(reader[v])
  BY DEF PInv
<1>3. /\ DOMAIN new = DOMAIN IdleReader /\ new.pc = p /\ new.block = reader[v].block
      /\ new.root = RootAt(s) /\ new.deleted = DeletedAt(s) /\ new.problem = bad
      /\ new.seq = s /\ new.bound = reader[v].bound /\ new.op = reader[v].op
      /\ new.claimed = reader[v].claimed /\ new.then = reader[v].then
  BY <1>2 DEF Fits, IdleReader
<1>4. p \in {"store", "done"} /\ (p = "store" => reader[v].op = "receipt" /\ reader[v].block # NoBlock)
  BY DEF Issuable
<1>5. s \in 0..counter /\ (reader[v].block # NoBlock => Covered(s) /\ reader[v].block = CoveringBlock(s))
  <2>1. s \in Nat /\ s \in 0..counter
    BY <1>2 DEF Fits, IInv, Typed, TypeOK
  <2>2. HasFound(reader[v], s)
    BY <1>2, <2>1 DEF Fits
  <2>3. QED
    BY <1>1, <2>1, <2>2 DEF HasFound, Replays, Looking
<1>6. ASSUME reader[v].op = "verify" PROVE ~bad /\ \E rc \in receipts : reader[v].claimed = {rc} /\ reader[v].bound = rc.seq
  <2>1. PICK rc \in receipts : Judges(reader[v], rc) /\ Sound(rc)
    BY <1>6, JudgedIsSound
  <2>2. /\ s = rc.seq /\ reader[v].claimed = {rc} /\ reader[v].bound = rc.seq
        /\ reader[v].block = [height |-> rc.height, first |-> rc.first, last |-> rc.last]
    BY <1>1, <2>1 DEF Judges
  <2>3. rc = ReceiptAt(rc.seq)
    BY <2>1 DEF Sound
  <2>4. rc.root = RootAt(s) /\ rc.deleted = DeletedAt(s)
    BY <2>2, <2>3 DEF ReceiptAt
  <2>5. ~Differs(v, rc, RootAt(s), DeletedAt(s))
    BY <2>2, <2>4 DEF Differs
  <2>6. QED
    BY <2>2, <2>5
<1>7. Replays(new) /\ new.bound = 0 => new.then = RowsAt(s)
  <2>1. SUFFICES ASSUME Replays(new), new.bound = 0 PROVE reader[v].then = RowsAt(s)
    BY <1>3
  <2>2. HasFound(reader[v], s)
    BY <1>2, <1>5 DEF Fits, IInv, Typed, TypeOK
  <2>3. Replays(reader[v])
    <3>1. reader[v].op = "state"
      <4> HIDE DEF new
      <4>1. QED
        BY <1>3, <2>1 DEF Replays
    <3>2. reader[v].pc \in Looking
      BY <1>1 DEF Looking
    <3>3. QED
      BY <3>1, <3>2 DEF Replays
  <2>4. QED
    BY <1>3, <2>1, <2>2, <2>3 DEF HasFound
<1> HIDE DEF new, p, bad
<1>8. \A x \in Nat : x = new.seq => HasFound(new, x)
  BY <1>3, <1>4, <1>5, <1>7 DEF HasFound
<1>9. new.op = "verify" => \E rc \in receipts : Judges(new, rc)
  <2>1. SUFFICES ASSUME reader[v].op = "verify" PROVE \E rc \in receipts : Judges(new, rc)
    BY <1>3
  <2>2. p = "done" /\ ~new.problem
    BY <1>3, <1>4, <1>6, <2>1
  <2>3. PICK rc \in receipts : reader[v].claimed = {rc} /\ reader[v].bound = rc.seq
    BY <1>6, <2>1
  <2>4. Judges(new, rc)
    BY <1>3, <2>2, <2>3 DEF Judges
  <2>5. QED
    BY <2>4
<1>10. Fits(new)
  BY <1>2, <1>3, <1>4, <1>5, <1>8, <1>9 DEF Fits
<1>11. QED
  BY <1>1, <1>10, ReaderMoves DEF Set

\* The receipt that is stored is the one a replay at its point gives.
LEMMA ReaderStores ==
  ASSUME IInv, PInv, NEW v \in Readers, StoreReceipt(v)
  PROVE  PInv'
<1> DEFINE s == reader[v].seq
           R == [reader[v] EXCEPT !.pc = "done"]
           rc == [seq |-> s, height |-> reader[v].block.height, first |-> reader[v].block.first,
                  last |-> reader[v].block.last, root |-> reader[v].root, deleted |-> reader[v].deleted]
<1>1. UNCHANGED vars /\ reader[v].pc = "store" /\ Set(v, R) /\ receipts' = receipts \cup {rc}
  BY DEF StoreReceipt
<1>2. Fits(reader[v]) /\ reader[v].op = "receipt"
  BY <1>1 DEF PInv, Fits
<1>3. s \in Nat /\ s \in 0..counter
  BY <1>2 DEF Fits, IInv, Typed, TypeOK
<1>4. HasFound(reader[v], s)
  BY <1>2, <1>3 DEF Fits
<1>5. /\ Covered(s) /\ reader[v].block = CoveringBlock(s)
      /\ reader[v].root = RootAt(s) /\ reader[v].deleted = DeletedAt(s)
  BY <1>1, <1>4 DEF HasFound, Replays, Looking
<1>6. Sound(rc)
  BY <1>3, <1>5 DEF Sound, ReceiptAt
<1>7. Fits(R)
  BY <1>2, <1>3 DEF Fits, HasFound, Replays, Looking, IdleReader
<1>8. QED
  BY <1>1, <1>6, <1>7, ReaderMoves DEF Set

-----------------------------------------------------------------------------
(* The invariant, and what it gives *)

\* Every step keeps what the store's proof knows of the store and what is known of the readers.
LEMMA ReplayStep == IInv /\ RInv /\ PInv /\ [ReplayNext]_allVars => IInv' /\ RInv' /\ PInv'
<1> SUFFICES ASSUME IInv, RInv, PInv, [ReplayNext]_allVars PROVE IInv' /\ RInv' /\ PInv'
  OBVIOUS
<1>1. [Next]_vars
  BY DEF ReplayNext, ReadStep, allVars, AskReplay, AskVerify, AskEvents, ReadTip, ResolveSeq, ReadCounter,
         ReadSealed, ReadBlock, ReadHeads, StoreReceipt, ReadUntil, ReadEvents, ReadOnly
<1>2. IInv' /\ RInv'
  BY <1>1, TypedStep, CountingStep, SealingStep, RecordsStep DEF IInv, Typed
<1>3. CASE UNCHANGED <<reader, receipts>>
  <2>1. BlocksOrdered'
    BY <1>1, OrderedStep DEF PInv
  <2>2. \A rc \in receipts' : Sound(rc)'
    BY <1>1, <1>3, SoundStays DEF PInv
  <2>3. \A v \in Readers : Fits(reader[v])'
    BY <1>1, <1>3, OthersStay DEF PInv
  <2>4. QED
    BY <1>2, <1>3, <2>1, <2>2, <2>3 DEF PInv
<1>4. ASSUME NEW v \in Readers, ReadStep(v) PROVE PInv'
  BY <1>4, ReaderAsks, ReaderReads, ReaderPages, ReaderFindsBlock, ReaderConcludes, ReaderStores DEF ReadStep
<1>5. QED
  BY <1>2, <1>3, <1>4 DEF ReplayNext, allVars

\* At the start there is no block, no receipt and no reader at work.
LEMMA ReplayStart == ReplayInit => IInv /\ RInv /\ PInv
<1> SUFFICES ASSUME ReplayInit PROVE IInv /\ RInv /\ PInv
  OBVIOUS
<1>1. IInv /\ RInv
  BY TypedInit, CountingInit, SealingInit, RecordsInit DEF IInv, ReplayInit
<1>2. counter \in Nat /\ blocks = <<>> /\ Len(blocks) = 0
  BY <1>1 DEF IInv, Typed, TypeOK, ReplayInit, Init
<1>3. Fits(IdleReader)
  BY <1>2 DEF Fits, HasFound, Replays, Looking, IdleReader
<1>4. reader = [v \in Readers |-> IdleReader] /\ receipts = {}
  BY DEF ReplayInit
<1>5. BlocksOrdered
  BY <1>2 DEF BlocksOrdered
<1>6. QED
  BY <1>1, <1>3, <1>4, <1>5 DEF PInv

\* It holds in every state of the store with its readers.
THEOREM ReplayInvariance == ReplaySpec => [](IInv /\ RInv /\ PInv)
  BY ReplayStart, ReplayStep, PTL DEF ReplaySpec

-----------------------------------------------------------------------------
(* The pages of events *)

\* The entries from s up to t are as many as the numbers from s to t.
LEMMA RowsAreMany ==
  ASSUME CounterBacked, counter \in Nat, NEW s \in Nat \ {0}, NEW t \in Nat, t <= counter, s <= t + 1
  PROVE  /\ IsFiniteSet(RowsFrom(s, t)) /\ Cardinality(RowsFrom(s, t)) = t - s + 1
         /\ \A q \in s..t : \E e \in RowsFrom(s, t) : e.seq = q
<1>1. \A q \in s..t : \E e \in RowsFrom(s, t) : e.seq = q
  BY DEF CounterBacked, RowsFrom
<1>2. \A e \in RowsFrom(s, t) : e.seq \in s..t
  BY DEF CounterBacked, RowsFrom
<1>3. \A e, f \in RowsFrom(s, t) : e.seq = f.seq => e = f
  BY DEF CounterBacked, RowsFrom
<1> DEFINE f == [q \in s..t |-> CHOOSE e \in RowsFrom(s, t) : e.seq = q]
<1>4. \A q \in s..t : f[q] \in RowsFrom(s, t) /\ f[q].seq = q
  BY <1>1
<1>5. f \in Bijection(s..t, RowsFrom(s, t))
  <2>1. f \in [s..t -> RowsFrom(s, t)]
    BY <1>4
  <2>3. \A e \in RowsFrom(s, t) : f[e.seq] = e
    BY <1>2, <1>3, <1>4
  <2>4. \A e \in RowsFrom(s, t) : \E q \in s..t : f[q] = e
    BY <1>2, <2>3
  <2>5. \A a, b \in s..t : f[a] = f[b] => a = b
    BY <1>4
  <2> HIDE DEF f
  <2>6. QED
    BY <2>1, <2>4, <2>5, Fun_IsBij
<1>6. /\ IsFiniteSet(s..t)
      /\ Cardinality(s..t) = IF s > t THEN 0 ELSE t - s + 1
  BY FS_Interval
<1>7. IsFiniteSet(RowsFrom(s, t)) /\ Cardinality(RowsFrom(s, t)) = Cardinality(s..t)
  BY <1>5, <1>6, Fun_ExistsBij, FS_Bijection
<1>8. QED
  BY <1>1, <1>6, <1>7

\* The rank of an entry among those from s on is how far its seq is from s.
LEMMA RowsRank ==
  ASSUME CounterBacked, counter \in Nat, NEW s \in Nat \ {0}, NEW t \in Nat, t <= counter, s <= t + 1,
         NEW e \in RowsFrom(s, t)
  PROVE  e.seq \in s..t /\ Rank(e, RowsFrom(s, t)) = e.seq - s
<1>1. e.seq \in s..t /\ \A f \in RowsFrom(s, t) : f.seq \in Nat
  BY DEF CounterBacked, RowsFrom
<1>2. PICK q \in Nat : q = e.seq - 1 /\ q <= counter /\ s <= q + 1
  BY <1>1
<1>3. {f \in RowsFrom(s, t) : f.seq < e.seq} = RowsFrom(s, q)
  BY <1>1, <1>2 DEF RowsFrom, CounterBacked
<1>4. Cardinality(RowsFrom(s, q)) = q - s + 1
  BY <1>2, RowsAreMany
<1>5. Rank(e, RowsFrom(s, t)) = q - s + 1
  BY <1>3, <1>4 DEF Rank
<1>6. QED
  BY <1>1, <1>2, <1>5

\* In their order the entries from s up to t are s, s + 1 and so on.
LEMMA RowsInOrder ==
  ASSUME CounterBacked, counter \in Nat, NEW s \in Nat \ {0}, NEW t \in Nat, t <= counter, s <= t + 1
  PROVE  InOrder(RowsFrom(s, t)) = [i \in 1..(t - s + 1) |-> s + i - 1]
<1>1. ASSUME NEW i \in 1..(t - s + 1)
      PROVE  (CHOOSE e \in RowsFrom(s, t) : Rank(e, RowsFrom(s, t)) = i - 1).seq = s + i - 1
  <2>1. s + i - 1 \in s..t
    OBVIOUS
  <2>2. PICK e \in RowsFrom(s, t) : e.seq = s + i - 1
    BY <2>1, RowsAreMany
  <2>3. Rank(e, RowsFrom(s, t)) = i - 1
    BY <2>2, RowsRank
  <2>4. \A f \in RowsFrom(s, t) : Rank(f, RowsFrom(s, t)) = i - 1 => f.seq = s + i - 1
    <3>1. SUFFICES ASSUME NEW f \in RowsFrom(s, t), Rank(f, RowsFrom(s, t)) = i - 1 PROVE f.seq = s + i - 1
      OBVIOUS
    <3>2. f.seq \in s..t /\ Rank(f, RowsFrom(s, t)) = f.seq - s
      BY RowsRank
    <3>3. QED
      BY <3>1, <3>2
  <2>5. QED
    BY <2>3, <2>4
<1>2. Cardinality(RowsFrom(s, t)) = t - s + 1
  BY RowsAreMany
<1>3. QED
  BY <1>1, <1>2 DEF InOrder

\* A page is the next EventLimit entries, or those that are left.
LEMMA PageIsNext ==
  ASSUME CounterBacked, counter \in Nat, NEW s \in Nat \ {0}, NEW t \in Nat, t <= counter, s <= t + 1,
         NEW n \in Nat, n = IF t - s + 1 > EventLimit THEN EventLimit ELSE t - s + 1
  PROVE  InOrder(FirstRows(RowsFrom(s, t))) = [i \in 1..n |-> s + i - 1]
<1>1. EventLimit \in Nat \ {0}
  BY ReplayConstantsOK
<1>2. PICK u \in Nat : u = s + n - 1 /\ u <= t /\ s <= u + 1
  BY <1>1
<1>3. \A e \in RowsFrom(s, t) : Rank(e, RowsFrom(s, t)) < EventLimit <=> e.seq <= u
  <2>1. SUFFICES ASSUME NEW e \in RowsFrom(s, t)
                 PROVE  Rank(e, RowsFrom(s, t)) < EventLimit <=> e.seq <= u
    OBVIOUS
  <2>2. e.seq \in s..t /\ Rank(e, RowsFrom(s, t)) = e.seq - s
    BY RowsRank
  <2>3. QED
    BY <1>1, <1>2, <2>2
<1>4. FirstRows(RowsFrom(s, t)) = RowsFrom(s, u)
  BY <1>2, <1>3 DEF FirstRows, RowsFrom, CounterBacked
<1>5. InOrder(RowsFrom(s, u)) = [i \in 1..(u - s + 1) |-> s + i - 1]
  BY <1>2, RowsInOrder
<1>6. u - s + 1 = n
  BY <1>2
<1>7. QED
  BY <1>4, <1>5, <1>6

\* The next page starts no later than after the counter.
LEMMA NextPageFits ==
  ASSUME NEW s \in Nat \ {0}, NEW t \in Nat, NEW n \in Nat, NEW c \in Nat, t <= c, t - s + 1 > n
  PROVE  s + n \in Nat /\ s + n - 1 <= c
OBVIOUS

\* A page goes on where the pages before it ended.
LEMMA PageContinues ==
  ASSUME IInv, NEW v \in Readers, ReadEvents(v), Pages(reader[v], counter),
         DOMAIN reader = Readers, Fits(reader[v])
  PROVE  Pages(reader'[v], counter')
<1>1. reader[v].pc = "page" /\ reader[v].op = "events" /\ DOMAIN reader[v] = DOMAIN IdleReader
  BY DEF ReadEvents, Fits
<1>2. /\ CounterBacked /\ counter \in Nat /\ EventLimit \in Nat \ {0} /\ counter' = counter
  BY ReplayConstantsOK DEF IInv, Counting, Typed, TypeOK, ReadEvents, ReadOnly, vars, tables
<1>3. PICK s \in Nat \ {0}, t \in Nat, old \in Seq(Nat) :
        /\ s = reader[v].from /\ t = reader[v].counter /\ old = reader[v].events
        /\ Len(old) = s - 1 /\ s <= t + 1 /\ t <= counter /\ \A i \in 1..Len(old) : old[i] = i
  BY <1>1 DEF Pages
<1>4. PICK n \in Nat : n = IF t - s + 1 > EventLimit THEN EventLimit ELSE t - s + 1
  BY <1>2, <1>3
<1>5. PICK page, ev, from, p :
        /\ page = InOrder(FirstRows(RowsFrom(reader[v].from, reader[v].counter)))
        /\ ev = reader[v].events \o page
        /\ from = IF Cardinality(RowsFrom(reader[v].from, reader[v].counter)) > EventLimit
                  THEN Last(page) + 1 ELSE reader[v].from
        /\ p = IF Cardinality(RowsFrom(reader[v].from, reader[v].counter)) > EventLimit
               THEN "until" ELSE "done"
        /\ Set(v, [reader[v] EXCEPT !.events = ev, !.from = from, !.pc = p])
  BY DEF ReadEvents
<1>6. page = [i \in 1..n |-> s + i - 1]
  BY <1>2, <1>3, <1>4, <1>5, PageIsNext
<1>7. page \in Seq(Nat) /\ Len(page) = n /\ \A i \in 1..n : page[i] = s + i - 1
  BY <1>6
<1>8. ev = old \o page
  BY <1>3, <1>5
<1>9. ev \in Seq(Nat) /\ Len(ev) = s - 1 + n /\ \A i \in 1..Len(ev) : ev[i] = i
  <2>1. ev \in Seq(Nat) /\ Len(ev) = Len(old) + Len(page)
    BY <1>7, <1>8
  <2>2. \A i \in 1..Len(ev) : ev[i] = IF i <= Len(old) THEN old[i] ELSE page[i - Len(old)]
    BY <1>7, <1>8
  <2>3. ASSUME NEW i \in 1..Len(ev) PROVE ev[i] = i
    <3>1. CASE i <= s - 1
      <4>1. i \in 1..Len(old)
        BY <1>3, <3>1
      <4>2. ev[i] = old[i]
        BY <2>2, <4>1
      <4>3. QED
        BY <1>3, <4>1, <4>2
    <3>2. CASE i > s - 1
      <4>1. Len(ev) = s - 1 + n /\ Len(old) = s - 1 /\ i \in Nat
        BY <1>3, <1>7, <2>1
      <4>2. i - (s - 1) \in 1..n /\ ~(i <= s - 1)
        BY <3>2, <4>1
      <4>3. ev[i] = page[i - (s - 1)]
        BY <2>2, <4>1, <4>2
      <4>4. page[i - (s - 1)] = s + (i - (s - 1)) - 1
        BY <1>7, <4>2
      <4>5. QED
        BY <4>1, <4>3, <4>4
    <3>3. QED
      BY <3>1, <3>2
  <2>4. QED
    BY <1>3, <1>7, <2>1, <2>3
<1>10. Cardinality(RowsFrom(s, t)) = t - s + 1
  BY <1>2, <1>3, RowsAreMany
<1>11. PICK R : /\ R = reader'[v] /\ R.op = "events" /\ R.counter = t
                /\ R.events = ev /\ R.from = from /\ R.pc = p
  <2>1. reader'[v] = [reader[v] EXCEPT !.events = ev, !.from = from, !.pc = p]
    BY <1>5 DEF Set
  <2>2. /\ reader'[v].op = "events" /\ reader'[v].counter = t
        /\ reader'[v].events = ev /\ reader'[v].from = from /\ reader'[v].pc = p
    BY <1>1, <1>3, <2>1 DEF IdleReader
  <2>3. QED
    BY <2>2
<1>12. CASE t - s + 1 > EventLimit
  <2>1. n = EventLimit /\ n \in 1..n /\ t - s + 1 > n /\ Last(page) + 1 = s + n
    BY <1>2, <1>4, <1>7, <1>12 DEF Last
  <2>2. from = s + n /\ p = "until"
    BY <1>3, <1>5, <1>10, <1>12, <2>1
  <2>3. Len(R.events) = R.from - 1 /\ R.from \in Nat /\ R.from - 1 <= counter'
    <3>1. Len(ev) = s - 1 + n /\ s + n \in Nat /\ s + n - 1 <= counter'
      <4>1. PICK c \in Nat : c = counter' /\ c = counter
        BY <1>2
      <4>2. t <= c
        BY <1>3, <4>1
      <4>3. t - s + 1 > n
        BY <2>1
      <4>4. s + n \in Nat /\ s + n - 1 <= c
        BY <4>2, <4>3, NextPageFits
      <4>5. QED
        BY <1>9, <4>1, <4>4
    <3>2. QED
      BY <1>3, <1>11, <2>2, <3>1
  <2>4. Pages(R, counter')
    BY <1>9, <1>11, <2>2, <2>3 DEF Pages
  <2>5. QED
    BY <1>11, <2>4
<1>13. CASE ~(t - s + 1 > EventLimit)
  <2>1. from = s /\ p = "done" /\ n = t - s + 1
    BY <1>3, <1>4, <1>5, <1>10, <1>13
  <2>2. Len(R.events) = R.counter /\ R.from \in Nat
    BY <1>3, <1>9, <1>11, <2>1
  <2>3. Pages(R, counter')
    BY <1>9, <1>11, <2>1, <2>2 DEF Pages
  <2>4. QED
    BY <1>11, <2>3
<1>14. QED
  BY <1>12, <1>13

\* A step of the store, or of another reader, leaves the pages of a reader as they are.
LEMMA PagesStay ==
  ASSUME IInv, [Next]_vars, NEW R, Pages(R, counter)
  PROVE  Pages(R, counter')
<1>1. counter \in Nat /\ counter' \in Nat /\ counter <= counter'
  BY TypedStep, HistoryGrows DEF IInv, Typed, TypeOK, Counting
<1>2. QED
  BY <1>1 DEF Pages

\* A reader of a record that is not about events.
LEMMA OtherOps ==
  ASSUME NEW R, R.op # "events"
  PROVE  Pages(R, counter')
BY DEF Pages

\* Every step of a reader keeps its pages in order.
LEMMA PagesStep ==
  ASSUME IInv, PInv, NEW v \in Readers, ReadStep(v), Pages(reader[v], counter)
  PROVE  Pages(reader'[v], counter')
<1>1. DOMAIN reader = Readers /\ Fits(reader[v]) /\ DOMAIN reader[v] = DOMAIN IdleReader
  BY DEF PInv, Fits
<1>2. counter \in Nat /\ (UNCHANGED vars => counter' = counter)
  BY DEF IInv, Typed, TypeOK, vars, tables
<1>3. CASE AskEvents(v)
  <2>1. PICK R : R = [IdleReader EXCEPT !.op = "events", !.pc = "until"] /\ reader'[v] = R /\ counter' = counter
    BY <1>1, <1>2, <1>3 DEF AskEvents, Set, ReadOnly
  <2>2. /\ R.op = "events" /\ R.pc = "until" /\ R.from = 1
        /\ R.events \in Seq(Nat) /\ Len(R.events) = 0
    BY <2>1 DEF IdleReader
  <2>3. QED
    BY <1>2, <2>1, <2>2 DEF Pages
<1>4. CASE ReadUntil(v)
  <2>1. PICK R : /\ R = [reader[v] EXCEPT !.counter = counter, !.pc = "page"] /\ reader'[v] = R
                 /\ counter' = counter /\ reader[v].pc = "until"
    BY <1>1, <1>2, <1>4 DEF ReadUntil, Set, ReadOnly
  <2>2. /\ R.op = reader[v].op /\ R.pc = "page" /\ R.from = reader[v].from
        /\ R.events = reader[v].events /\ R.counter = counter
    BY <1>1, <2>1 DEF IdleReader
  <2>3. QED
    BY <1>2, <2>1, <2>2 DEF Pages
<1>5. CASE ReadEvents(v)
  BY <1>1, <1>5, PageContinues
<1>6. CASE AskReplay(v) \/ AskVerify(v)
  <2>1. reader'[v].op \in {"state", "receipt", "verify"}
    BY <1>1, <1>6 DEF AskReplay, AskVerify, Set, IdleReader
  <2>2. QED
    BY <2>1, OtherOps
<1>7. CASE ReadTip(v) \/ ResolveSeq(v) \/ ReadCounter(v) \/ ReadSealed(v) \/ ReadBlock(v) \/ ReadHeads(v)
           \/ StoreReceipt(v)
  <2>1. reader[v].pc \notin {"until", "page", "done"}
    BY <1>7 DEF ReadTip, ResolveSeq, ReadCounter, ReadSealed, ReadBlock, ReadHeads, StoreReceipt
  <2>2. reader[v].op # "events"
    BY <2>1 DEF Pages
  <2>3. reader'[v].op = reader[v].op
    <3>1. CASE ReadTip(v) \/ ResolveSeq(v) \/ StoreReceipt(v)
      BY <1>1, <3>1 DEF ReadTip, ResolveSeq, StoreReceipt, Set, IdleReader
    <3>2. CASE ReadCounter(v)
      BY <1>1, <3>2 DEF ReadCounter, Set, IdleReader
    <3>3. CASE ReadSealed(v) \/ ReadBlock(v)
      BY <1>1, <3>3 DEF ReadSealed, ReadBlock, Set, IdleReader
    <3>4. CASE ReadHeads(v)
      BY <1>1, <3>4 DEF ReadHeads, Set, IdleReader
    <3>5. QED
      BY <1>7, <3>1, <3>2, <3>3, <3>4
  <2>4. QED
    BY <2>2, <2>3, OtherOps
<1>8. QED
  BY <1>3, <1>4, <1>5, <1>6, <1>7 DEF ReadStep

\* A reader moves alone.
LEMMA OneReader ==
  ASSUME NEW v \in Readers, ReadStep(v), DOMAIN reader = Readers
  PROVE  \A u \in Readers \ {v} : reader'[u] = reader[u]
BY DEF ReadStep, AskReplay, AskVerify, AskEvents, ReadTip, ResolveSeq, ReadCounter, ReadSealed, ReadBlock,
       ReadHeads, StoreReceipt, ReadUntil, ReadEvents, Set

LEMMA EventsStep == IInv /\ PInv /\ EInv /\ [ReplayNext]_allVars => EInv'
<1> SUFFICES ASSUME IInv, PInv, EInv, [ReplayNext]_allVars PROVE EInv'
  OBVIOUS
<1>1. [Next]_vars
  BY DEF ReplayNext, ReadStep, allVars, AskReplay, AskVerify, AskEvents, ReadTip, ResolveSeq, ReadCounter,
         ReadSealed, ReadBlock, ReadHeads, StoreReceipt, ReadUntil, ReadEvents, ReadOnly
<1>2. ASSUME NEW u \in Readers, reader'[u] = reader[u] PROVE Pages(reader'[u], counter')
  <2>1. Pages(reader[u], counter)
    BY DEF EInv
  <2>2. QED
    BY <1>1, <1>2, <2>1, PagesStay
<1>3. ASSUME NEW v \in Readers, ReadStep(v), NEW u \in Readers PROVE Pages(reader'[u], counter')
  <2>1. CASE u = v
    BY <1>3, <2>1, PagesStep DEF EInv
  <2>2. CASE u # v
    BY <1>2, <1>3, <2>2, OneReader DEF PInv
  <2>3. QED
    BY <2>1, <2>2
<1>4. \A u \in Readers : Pages(reader'[u], counter')
  BY <1>2, <1>3 DEF ReplayNext, allVars
<1>5. QED
  BY <1>4 DEF EInv

\* The pages are in order in every state.
THEOREM EventsInOrder == ReplaySpec => [](IInv /\ RInv /\ PInv /\ EInv)
<1>1. ReplayInit => EInv
  BY DEF ReplayInit, EInv, Pages, IdleReader
<1>2. QED
  BY <1>1, ReplayStart, ReplayStep, EventsStep, PTL DEF ReplaySpec

\* A replay of the newest state gives the rows that were live at one instant, the one at which it
\* read the counter, whatever commits between its statements and however often it is overtaken.
THEOREM NewestReplayIsInstant == ReplaySpec => []StateIsInstant
<1>1. ASSUME IInv, PInv PROVE StateIsInstant
  <2>1. SUFFICES ASSUME NEW v \in Readers, Replayed(v), reader[v].bound = 0, NEW m \in Ids,
                        NEW row \in {e.after : e \in history}
                 PROVE  (\E p \in reader[v].root : p.id = m /\ \E e \in history : e.seq = p.entry /\ e.after = row)
                          <=> <<m, row>> \in reader[v].then
    BY DEF StateIsInstant
  <2> DEFINE s == reader[v].seq
  <2>2. s \in Nat /\ Fits(reader[v])
    BY <1>1 DEF PInv, Fits, IInv, Typed, TypeOK
  <2>3. reader[v].root = RootAt(s) /\ reader[v].then = RowsAt(s)
    BY <2>1, <2>2 DEF Fits, HasFound, Replays, Replayed
  <2>4. \A e, f \in history : e.seq = f.seq => e = f
    BY <1>1 DEF IInv, Counting, CounterBacked
  <2>5. LiveEntries(s) \subseteq history
    BY DEF LiveEntries, NewestUpTo
  <2>6. ASSUME NEW p \in RootAt(s), p.id = m, NEW e \in history, e.seq = p.entry, e.after = row
        PROVE  <<m, row>> \in RowsAt(s)
    <3>1. PICK f \in LiveEntries(s) : p = [id |-> f.id, entry |-> f.seq]
      BY DEF RootAt
    <3>2. e = f
      BY <2>4, <2>5, <2>6, <3>1
    <3>3. QED
      BY <2>6, <3>1, <3>2 DEF RowsAt
  <2>7. ASSUME <<m, row>> \in RowsAt(s)
        PROVE  \E p \in RootAt(s) : p.id = m /\ \E e \in history : e.seq = p.entry /\ e.after = row
    <3>1. PICK f \in LiveEntries(s) : f.id = m /\ f.after = row
      BY <2>7 DEF RowsAt
    <3>2. [id |-> f.id, entry |-> f.seq] \in RootAt(s)
      BY DEF RootAt
    <3>3. QED
      BY <2>5, <3>1, <3>2
  <2>8. QED
    BY <2>3, <2>6, <2>7
<1>2. IInv /\ RInv /\ PInv => StateIsInstant
  BY <1>1
<1>3. QED
  BY <1>2, ReplayInvariance, PTL

\* What a replay gives is one picture of the store however many requests commit while it runs:
\* the rows of the newest state are those of one instant, and the events, read page by page, are
\* the whole history in its order with none skipped or given twice.
THEOREM ReplaysAreInstant == ReplaySpec => []ReplayIsInstant
<1>1. IInv /\ RInv /\ PInv /\ EInv => EventsAreWhole
  BY DEF EInv, Pages, EventsAreWhole
<1>2. ReplaySpec => []EventsAreWhole
  BY <1>1, EventsInOrder, PTL
<1>3. QED
  BY <1>2, NewestReplayIsInstant, PTL DEF ReplayIsInstant

\* A receipt that was issued verifies for ever: whatever is written, deleted or sealed since,
\* and whatever commits between the statements of its verification, verify_replay_receipt finds
\* nothing that differs; and one point has one receipt, whoever asks for it and when.
THEOREM ReceiptsAlwaysVerify == ReplaySpec => []ReceiptsVerify
<1>1. ASSUME IInv, PInv PROVE ReceiptsVerify
  <2>1. ASSUME NEW v \in Readers, reader[v].op = "verify" PROVE ~reader[v].problem
    BY <1>1, <2>1 DEF PInv, Fits, Judges
  <2>2. ASSUME NEW a \in receipts, NEW b \in receipts, a.seq = b.seq PROVE a = b
    <3>1. a = ReceiptAt(a.seq) /\ b = ReceiptAt(b.seq)
      BY <1>1 DEF PInv, Sound
    <3>2. QED
      BY <2>2, <3>1
  <2>3. QED
    BY <2>1, <2>2 DEF ReceiptsVerify
<1>2. IInv /\ RInv /\ PInv => ReceiptsVerify
  BY <1>1
<1>3. QED
  BY <1>2, ReplayInvariance, PTL

-----------------------------------------------------------------------------
(* Verifiers *)


(* What is at or below a point of the history. *)
UpTo(s) == {e \in history : e.seq <= s}

(* The rest of a loop over the blocks, of which the one before ended at `last'. *)
LoopFits(loop, last) ==
  \E k \in 0..Len(blocks) :
    /\ loop \in Seq(BlockType) /\ Len(loop) <= Len(blocks) - k
    /\ \A i \in 1..Len(loop) : loop[i] = blocks[k + i]
    /\ last = IF k = 0 THEN 0 ELSE blocks[k].last

(* A head the open loop has still to give has its entry, and unless entries were committed
   since `began' it is the newest. *)
HeadFits(h, began) ==
  /\ \E e \in history : e.seq = h[2].last /\ e.id = h[1] /\ h[2].deleted = (e.after = NoRow)
  /\ counter = began => \A e \in history : e.id = h[1] => e.seq <= h[2].last

HistoryChecks == {"chain", "counter", "newest", "gaps", "heads", "head", "newer", "noHead", "rows"}
BlockChecks == {"blockCounter", "openBlocks", "block"}
Overtakings == {"counterBehind", "newerThanHead", "beyondCounter"}

(* What a run V of an SQL verifier has read and found: nothing but that it was overtaken, and
   nothing at all if it is asked only for blocks that were there when it began. *)
Sees(V) ==
  /\ DOMAIN V = DOMAIN IdleVerifier
  /\ V.began \in Nat /\ V.began <= counter
  /\ V.upTo \in 0..Len(blocks)
  /\ V.upTo # 0 => V.pc \in BlockChecks \cup {"done"}
  /\ V.found \subseteq Overtakings
  /\ V.found # {} => counter > V.began /\ V.upTo = 0
  /\ V.pc \in {"newest", "gaps", "openBlocks", "block"} =>
       V.ctr \in Nat /\ V.began <= V.ctr /\ V.ctr <= counter
  /\ V.pc \in {"openBlocks", "block"} => \A i \in 1..V.upTo : blocks[i].last <= V.ctr
  /\ V.pc \in {"head", "newer"} => \A h \in V.todo : HeadFits(h, V.began)
  /\ V.pc = "newer" => V.last \in Nat
  /\ V.pc = "newer" /\ counter = V.began => \A e \in history : e.id = V.head => e.seq <= V.last
  /\ V.pc = "block" => /\ LoopFits(V.loop, V.last)
                       /\ V.upTo # 0 => \A i \in 1..Len(V.loop) : V.loop[i].last <= V.ctr

(* What a replay of a point gives. *)
RootOf(s) == StateRoot(FoldedLive(UpTo(s)))
DeletedOf(s) == Cardinality(NewestOf(UpTo(s)) \ FoldedLive(UpTo(s)))

(* What was proven of a point goes for good. *)
Proves(c) ==
  /\ c.at \in 0..counter /\ c.root = RootOf(c.at) /\ c.deleted = DeletedOf(c.at)
  /\ c.block = Covering(c.at) /\ c.block # Uncovered

Replaying == {"counter", "history", "fold", "live", "covering", "sqlBlocks", "recompute", "expected"}

(* What an offline run O has read and found, with the SQL verifier V it calls. *)
Follows(O, V) ==
  /\ DOMAIN O = DOMAIN Offline /\ O.run \in {"replay", "verify"} /\ O.ask \in {"end", "block", "claim"}
  /\ O.at \in Nat /\ O.ctr \in Nat
  /\ O.began \in Nat /\ O.began <= counter
  /\ O.found \subseteq Overtakings \cup {"liveDiffers", "liveUnknown"}
  /\ O.found # {} => counter > O.began
  /\ O.run = "replay" /\ O.at < O.ctr => O.found = {}
  /\ O.pc \in {"resolve", "counter", "history", "fold"} => O.found = {}
  /\ O.pc \in {"resolve", "counter", "history", "fold", "live", "covering", "expected"} => O.run = "replay"
  /\ O.run = "replay" /\ O.pc \in Replaying =>
       /\ O.at <= counter
       /\ O.pc # "counter" => O.at <= O.ctr /\ O.began <= O.ctr /\ O.ctr <= counter
       /\ O.pc \in {"fold", "live"} => O.entries = UpTo(O.at)
       /\ O.pc \notin {"counter", "history", "fold"} => O.root = RootOf(O.at) /\ O.deleted = DeletedOf(O.at)
       /\ O.ask = "claim" => \E c \in proven : c.at = O.at
  /\ O.pc = "resolve" /\ O.ask = "claim" => proven # {}
  /\ O.pc = "sqlHistory" => O.run = "verify" /\ V.pc \in HistoryChecks \cup {"done"}
  /\ O.pc = "sqlBlocks" => V.pc \in BlockChecks \cup {"done"} /\ (O.run = "replay" => V.upTo # 0)
  /\ O.pc \in {"sqlHistory", "sqlBlocks"} => O.began <= V.began
  /\ O.pc = "recompute" => LoopFits(O.rows, O.last)

OInv ==
  /\ Sees(verifier) /\ Follows(offline, verifier)
  /\ \A c, d \in proven : c = d
  /\ \A c \in proven : Proves(c)

(* What is known of the store itself. *)
Sure == IInv /\ RInv /\ BlocksOrdered

-----------------------------------------------------------------------------
(* The store, as the statements of a verifier find it *)

\* The store is well typed, and history and blocks are what the invariants say of them.
LEMMA SureFacts ==
  ASSUME Sure
  PROVE  /\ Typed /\ TypeOK /\ Counting /\ CounterBacked /\ BlocksTileHistory /\ Committed
         /\ counter \in Nat /\ Len(blocks) \in Nat /\ blocks \in Seq(BlockType)
         /\ history \subseteq EntryType
         /\ \A e \in history : e.seq \in Nat /\ e.seq # 0 /\ e.seq <= counter
BY SealedToType DEF Sure, IInv, Typed, Counting, Sealing, RInv, TypeOK, EntryType, CounterBacked

\* Every step keeps what is known of the store.
LEMMA SureStep ==
  ASSUME Sure, [Next]_vars
  PROVE  Sure' /\ TypeOK' /\ Counting'
<1>1. IInv'
  BY TypedStep, CountingStep, SealingStep DEF Sure, IInv, Typed
<1>2. RInv'
  BY <1>1, RecordsStep DEF Sure, IInv
<1> QED
  BY <1>1, <1>2, OrderedStep DEF Sure, IInv, Typed

\* At the start it is known.
LEMMA SureInit == Init => Sure
<1> SUFFICES ASSUME Init PROVE Sure
  OBVIOUS
<1>1. IInv /\ RInv
  BY TypedInit, CountingInit, SealingInit, RecordsInit DEF IInv
<1>2. BlocksOrdered
  BY DEF Init, BlocksOrdered
<1> QED
  BY <1>1, <1>2 DEF Sure

\* The history grows beyond the counter only, and not without it.
LEMMA PastStays ==
  ASSUME Sure, [Next]_vars
  PROVE  /\ counter' \in Nat /\ counter <= counter' /\ history \subseteq history'
         /\ \A s \in 0..counter : UpTo(s)' = UpTo(s)
         /\ counter' = counter => history' = history
         /\ Len(blocks') \in Nat /\ Len(blocks) <= Len(blocks')
         /\ \A i \in 1..Len(blocks) : blocks'[i] = blocks[i]
<1>1. Sure' /\ TypeOK' /\ Counting'
  BY SureStep
<1>2. /\ counter \in Nat /\ counter' \in Nat
      /\ \A e \in history : e.seq \in Nat /\ e.seq <= counter
      /\ \A e \in history' : e.seq \in Nat /\ e.seq <= counter'
  BY <1>1, SureFacts DEF TypeOK, Counting, CounterBacked
<1>3. counter <= counter' /\ history \subseteq history' /\ \A e \in history' \ history : e.seq > counter
  BY SureFacts, HistoryGrows
<1>4. \A s \in 0..counter : UpTo(s)' = UpTo(s)
  BY <1>2, <1>3 DEF UpTo
<1>5. counter' = counter => history' = history
  BY <1>2, <1>3
<1> QED
  BY <1>2, <1>3, <1>4, <1>5, OldBlocksStay DEF Sure

\* The entry before another of its record is the one that entry names.
LEMMA ChainIsWhole ==
  ASSUME Sure, NEW e \in history
  PROVE  e.prev = IF PrevOf(e) = {} THEN 0
                  ELSE (CHOOSE f \in PrevOf(e) : \A g \in PrevOf(e) : g.seq <= f.seq).seq
<1>1. CASE PrevOf(e) = {}
  BY <1>1 DEF Sure, RInv, Committed, ChainIntact, PrevOf
<1>2. CASE PrevOf(e) # {}
  <2>1. PICK f \in PrevOf(e) : e.prev = f.seq /\ \A g \in PrevOf(e) : g.seq <= f.seq
    BY <1>2 DEF Sure, RInv, Committed, ChainIntact, PrevOf
  <2>2. PICK h \in PrevOf(e) : /\ h = CHOOSE x \in PrevOf(e) : \A g \in PrevOf(e) : g.seq <= x.seq
                               /\ \A g \in PrevOf(e) : g.seq <= h.seq
    BY <2>1
  <2>3. f.seq \in Nat /\ h.seq \in Nat
    BY SureFacts DEF PrevOf
  <2>4. f.seq = h.seq
    BY <2>1, <2>2, <2>3
  <2> QED
    BY <1>2, <2>1, <2>2, <2>4
<1> QED
  BY <1>1, <1>2

\* A chain head that is read has its entry, the record's newest.
LEMMA HeadsFit ==
  ASSUME Sure, NEW m \in Ids, heads[m].last # 0, NEW began
  PROVE  HeadFits(<<m, heads[m]>>, began)
<1>1. /\ heads[m].last = LatestSeq(m) /\ heads[m].deleted \in BOOLEAN
      /\ heads[m].deleted <=> (heads[m].last # 0 /\ ~Live(m))
      /\ \A e \in history : IsLatest(e, m) => e.after = memories[m]
  BY SureFacts DEF Committed, RowsMatchHistory, TypeOK, HeadType
<1>2. Known(m)
  BY <1>1, LatestOfUnknown
<1>3. PICK f \in history : IsLatest(f, m) /\ LatestSeq(m) = f.seq
  BY <1>2, SureFacts, LatestOfKnown DEF Committed
<1>4. heads[m].deleted = (f.after = NoRow)
  BY <1>1, <1>3 DEF Live
<1> QED
  BY <1>1, <1>3, <1>4 DEF HeadFits, IsLatest

\* A record with an entry has a head.
LEMMA EntriesHaveHeads ==
  ASSUME Sure, NEW e \in history
  PROVE  e.id \in Ids /\ heads[e.id].last # 0
<1>1. e.id \in Ids
  BY SureFacts DEF EntryType
<1>2. LatestSeq(e.id) # 0
  BY SureFacts, LatestOfKnown DEF Committed, Known
<1> QED
  BY <1>1, <1>2, SureFacts DEF Committed, RowsMatchHistory

\* A live row is the image its head's entry recorded.
LEMMA RowsFit ==
  ASSUME Sure, NEW m \in Ids, Live(m)
  PROVE  ~RowDiffers(m)
<1>1. Known(m)
  BY SureFacts DEF Committed, Recorded
<1>2. PICK f \in history : IsLatest(f, m) /\ LatestSeq(m) = f.seq /\ f.seq # 0
  BY <1>1, SureFacts, LatestOfKnown DEF Committed
<1>3. heads[m].last = f.seq /\ ~heads[m].deleted /\ f.after = memories[m]
  BY <1>2, SureFacts DEF Committed, RowsMatchHistory
<1> QED
  BY <1>2, <1>3 DEF RowDiffers

-----------------------------------------------------------------------------
(* One run of an SQL verifier *)

\* A loop over the blocks goes on over the blocks there were.
LEMMA LoopStays ==
  ASSUME Sure, [Next]_vars, NEW loop, NEW last, LoopFits(loop, last)
  PROVE  LoopFits(loop, last)'
<1>1. /\ Len(blocks) \in Nat /\ Len(blocks') \in Nat /\ Len(blocks) <= Len(blocks')
      /\ \A i \in 1..Len(blocks) : blocks'[i] = blocks[i]
  BY SureFacts, PastStays
<1>2. PICK k \in 0..Len(blocks) :
        /\ loop \in Seq(BlockType) /\ Len(loop) <= Len(blocks) - k
        /\ \A i \in 1..Len(loop) : loop[i] = blocks[k + i]
        /\ last = IF k = 0 THEN 0 ELSE blocks[k].last
  BY DEF LoopFits
<1>3. Len(loop) \in Nat
  BY <1>2
<1>4. k \in 0..Len(blocks') /\ Len(loop) <= Len(blocks') - k
  BY <1>1, <1>2, <1>3
<1>5. \A i \in 1..Len(loop) : k + i \in 1..Len(blocks)
  BY <1>1, <1>2, <1>3
<1>6. \A i \in 1..Len(loop) : loop[i] = blocks'[k + i]
  BY <1>1, <1>2, <1>5
<1>7. k # 0 => blocks'[k] = blocks[k]
  BY <1>1, <1>2
<1> QED
  BY <1>2, <1>4, <1>6, <1>7 DEF LoopFits

\* What a run knows stays true while the store moves on.
LEMMA SeesStays ==
  ASSUME Sure, [Next]_vars, NEW V, Sees(V)
  PROVE  Sees(V)'
<1>1. /\ counter \in Nat /\ counter' \in Nat /\ counter <= counter' /\ history \subseteq history'
      /\ counter' = counter => history' = history
      /\ Len(blocks) \in Nat /\ Len(blocks') \in Nat /\ Len(blocks) <= Len(blocks')
      /\ \A i \in 1..Len(blocks) : blocks'[i] = blocks[i]
  BY SureFacts, PastStays
<1>2. /\ V.began \in Nat /\ V.began <= counter /\ V.began <= counter'
      /\ counter' = V.began => counter = V.began /\ counter' = counter
  BY <1>1 DEF Sees
<1>3. ASSUME NEW h, HeadFits(h, V.began) PROVE HeadFits(h, V.began)'
  BY <1>1, <1>2, <1>3 DEF HeadFits
<1>4. ASSUME NEW loop, NEW last, LoopFits(loop, last) PROVE LoopFits(loop, last)'
  BY <1>4, LoopStays
<1>5. V.upTo \in 0..Len(blocks') /\ \A i \in 1..V.upTo : blocks'[i] = blocks[i]
  BY <1>1 DEF Sees
<1>6. V.pc = "newer" /\ counter' = V.began => \A e \in history' : e.id = V.head => e.seq <= V.last
  BY <1>1, <1>2 DEF Sees
<1>7. V.pc \in {"newest", "gaps", "openBlocks", "block"} =>
        V.ctr \in Nat /\ V.began <= V.ctr /\ V.ctr <= counter'
  BY <1>1 DEF Sees
<1>8. V.found # {} => counter' > V.began /\ V.upTo = 0
  BY <1>1 DEF Sees
<1>9. V.pc \in {"head", "newer"} => \A h \in V.todo : HeadFits(h, V.began)'
  BY <1>3 DEF Sees
<1>10. V.pc = "block" => LoopFits(V.loop, V.last)'
  BY <1>4 DEF Sees
<1> QED
  BY <1>2, <1>5, <1>6, <1>7, <1>8, <1>9, <1>10 DEF Sees

\* A run whose step leaves it at W in a store that did not move.
LEMMA SeesNow ==
  ASSUME NEW W, Sees(W), verifier' = W, UNCHANGED vars
  PROVE  Sees(verifier)'
<1>1. Sees(W)'
  BY DEF vars, Sees, HeadFits, LoopFits
<1> QED
  BY <1>1 DEF Sees

\* A run that starts has found nothing.
LEMMA SeesStart ==
  ASSUME Sure, NEW W, DOMAIN W = DOMAIN IdleVerifier, W.pc \in {"chain", "blockCounter"},
         W.upTo \in 0..Len(blocks), W.pc = "chain" => W.upTo = 0, W.began = counter, W.found = {}
  PROVE  Sees(W)
BY SureFacts DEF Sees, BlockChecks

\* An idle run has found nothing.
LEMMA SeesIdle ==
  ASSUME Sure
  PROVE  Sees(IdleVerifier)
BY SureFacts DEF IdleVerifier, Sees

\* 1. The chain is whole.
LEMMA SeesChain ==
  ASSUME Sure, Sees(verifier), VerifyChain
  PROVE  Sees(verifier)'
<1>1. ~ChainBroken
  BY ChainIsWhole DEF ChainBroken
<1>2. PICK p \in {"counter", "heads"} : verifier' = [verifier EXCEPT !.found = verifier.found, !.pc = p]
  BY <1>1 DEF VerifyChain, Verify, Report, When
<1>3. PICK W : W = [verifier EXCEPT !.found = verifier.found, !.pc = p] /\ verifier' = W
  BY <1>2
<1>4. verifier.upTo = 0 /\ DOMAIN verifier = DOMAIN IdleVerifier
  BY DEF VerifyChain, Sees, BlockChecks
<1>5. /\ DOMAIN W = DOMAIN IdleVerifier /\ W.found = verifier.found /\ W.pc = p /\ W.upTo = verifier.upTo
      /\ W.began = verifier.began /\ W.ctr = verifier.ctr
  BY <1>3, <1>4 DEF IdleVerifier
<1>6. Sees(W)
  BY <1>4, <1>5 DEF Sees
<1> QED
  BY <1>3, <1>6, SeesNow DEF VerifyChain, Verify

\* 2. The counter is read ...
LEMMA SeesCounter ==
  ASSUME Sure, Sees(verifier), VerifyCounter
  PROVE  Sees(verifier)'
<1>1. PICK W : W = [verifier EXCEPT !.ctr = counter, !.pc = "newest"] /\ verifier' = W
  BY DEF VerifyCounter, Verify
<1>2. /\ DOMAIN W = DOMAIN IdleVerifier /\ W.pc = "newest" /\ W.ctr = counter
      /\ W.found = verifier.found /\ W.upTo = verifier.upTo /\ W.began = verifier.began
  BY <1>1 DEF Sees, IdleVerifier
<1>3. verifier.upTo = 0 /\ counter \in Nat
  BY SureFacts DEF VerifyCounter, Sees, BlockChecks
<1>4. Sees(W)
  BY <1>2, <1>3 DEF Sees
<1> QED
  BY <1>1, <1>4, SeesNow DEF VerifyCounter, Verify

\* ... entries above it were committed after it was read, ...
LEMMA SeesNewest ==
  ASSUME Sure, Sees(verifier), VerifyNewest
  PROVE  Sees(verifier)'
<1>1. PICK f : /\ f = Report(When(\E e \in history : e.seq > verifier.ctr, "counterBehind"))
               /\ verifier' = [verifier EXCEPT !.found = f, !.pc = "gaps"]
  BY DEF VerifyNewest, Verify
<1>2. PICK W : W = [verifier EXCEPT !.found = f, !.pc = "gaps"] /\ verifier' = W
  BY <1>1
<1>3. /\ verifier.upTo = 0 /\ DOMAIN verifier = DOMAIN IdleVerifier
      /\ verifier.ctr \in Nat /\ verifier.began <= verifier.ctr /\ verifier.ctr <= counter
      /\ verifier.began \in Nat /\ counter \in Nat
  BY SureFacts DEF VerifyNewest, Sees, BlockChecks
<1>4. f \subseteq Overtakings
  BY <1>1 DEF Report, When, Sees, Overtakings
<1>5. f # {} => counter > verifier.began
  <2>1. CASE \E e \in history : e.seq > verifier.ctr
    BY <1>3, <2>1, SureFacts
  <2>2. CASE ~\E e \in history : e.seq > verifier.ctr
    BY <1>1, <2>2 DEF Report, When, Sees
  <2> QED
    BY <2>1, <2>2
<1>6. /\ DOMAIN W = DOMAIN IdleVerifier /\ W.found = f /\ W.pc = "gaps" /\ W.upTo = verifier.upTo
      /\ W.began = verifier.began /\ W.ctr = verifier.ctr
  BY <1>2, <1>3 DEF IdleVerifier
<1>7. Sees(W)
  BY <1>3, <1>4, <1>5, <1>6 DEF Sees
<1> QED
  BY <1>2, <1>7, SeesNow DEF VerifyNewest, Verify

\* ... and none is missing below it.
LEMMA SeesGaps ==
  ASSUME Sure, Sees(verifier), VerifyGaps
  PROVE  Sees(verifier)'
<1>1. /\ verifier.upTo = 0 /\ DOMAIN verifier = DOMAIN IdleVerifier
      /\ verifier.ctr \in Nat /\ verifier.ctr <= counter /\ counter \in Nat
  BY SureFacts DEF VerifyGaps, Sees, BlockChecks
<1>2. \A q \in 1..verifier.ctr : \E e \in history : e.seq = q
  BY <1>1, SureFacts DEF CounterBacked
<1>3. PICK W : W = [verifier EXCEPT !.found = verifier.found, !.pc = "heads"] /\ verifier' = W
  BY <1>2 DEF VerifyGaps, Verify, Report, When
<1>4. /\ DOMAIN W = DOMAIN IdleVerifier /\ W.found = verifier.found /\ W.pc = "heads" /\ W.upTo = verifier.upTo
      /\ W.began = verifier.began /\ W.ctr = verifier.ctr
  BY <1>1, <1>3 DEF IdleVerifier
<1>5. Sees(W)
  BY <1>1, <1>4 DEF Sees
<1> QED
  BY <1>3, <1>5, SeesNow DEF VerifyGaps, Verify

\* 3. The heads the loop will give fit their entries ...
LEMMA SeesHeads ==
  ASSUME Sure, Sees(verifier), OpenHeads
  PROVE  Sees(verifier)'
<1>1. PICK T : /\ T = {<<m, heads[m]>> : m \in {x \in Ids : heads[x].last # 0 /\ ThisRecord(x)}}
               /\ verifier' = [verifier EXCEPT !.todo = T, !.pc = "head"]
  BY DEF OpenHeads, Verify
<1>2. \A h \in T : HeadFits(h, verifier.began)
  BY <1>1, HeadsFit
<1>3. PICK W : W = [verifier EXCEPT !.todo = T, !.pc = "head"] /\ verifier' = W
  BY <1>1
<1>4. verifier.upTo = 0 /\ DOMAIN verifier = DOMAIN IdleVerifier
  BY DEF OpenHeads, Sees, BlockChecks
<1>5. /\ DOMAIN W = DOMAIN IdleVerifier /\ W.found = verifier.found /\ W.pc = "head" /\ W.upTo = verifier.upTo
      /\ W.began = verifier.began /\ W.todo = T
  BY <1>3, <1>4 DEF IdleVerifier
<1>6. Sees(W)
  BY <1>2, <1>4, <1>5 DEF Sees
<1> QED
  BY <1>3, <1>6, SeesNow DEF OpenHeads, Verify

\* ... as each of them still does when it is looked up, ...
LEMMA SeesHead ==
  ASSUME Sure, Sees(verifier), CheckHead
  PROVE  Sees(verifier)'
<1>1. PICK h \in verifier.todo :
        LET entry == {e \in history : e.seq = h[2].last /\ e.id = h[1]}
        IN verifier' = [verifier EXCEPT
             !.todo = @ \ {h}, !.head = h[1], !.last = h[2].last,
             !.found = Report(When(entry = {}, "headWithoutEntry")
                               \cup When(\E e \in entry : (e.after = NoRow) # h[2].deleted, "deletedFlagWrong")),
             !.pc = IF entry = {} THEN "head" ELSE "newer"]
  BY DEF CheckHead, Verify
<1>2. HeadFits(h, verifier.began)
  BY DEF CheckHead, Sees
<1>3. PICK E : E = {e \in history : e.seq = h[2].last /\ e.id = h[1]}
  OBVIOUS
<1>4. E # {} /\ \A e \in E : ~((e.after = NoRow) # h[2].deleted)
  BY <1>2, <1>3, SureFacts DEF HeadFits, CounterBacked
<1>5. Report(When(E = {}, "headWithoutEntry")
             \cup When(\E e \in E : (e.after = NoRow) # h[2].deleted, "deletedFlagWrong")) = verifier.found
  BY <1>4 DEF Report, When
<1>6. verifier' = [verifier EXCEPT !.todo = @ \ {h}, !.head = h[1], !.last = h[2].last,
                                   !.found = verifier.found, !.pc = "newer"]
  BY <1>1, <1>3, <1>4, <1>5
<1>7. PICK W : W = [verifier EXCEPT !.todo = @ \ {h}, !.head = h[1], !.last = h[2].last,
                                    !.found = verifier.found, !.pc = "newer"] /\ verifier' = W
  BY <1>6
<1>8. verifier.upTo = 0 /\ DOMAIN verifier = DOMAIN IdleVerifier
  BY DEF CheckHead, Sees, BlockChecks
<1>9. /\ DOMAIN W = DOMAIN IdleVerifier /\ W.found = verifier.found /\ W.pc = "newer" /\ W.upTo = verifier.upTo
      /\ W.began = verifier.began /\ W.todo = verifier.todo \ {h} /\ W.head = h[1] /\ W.last = h[2].last
  BY <1>7, <1>8 DEF IdleVerifier
<1>10. \A x \in W.todo : HeadFits(x, W.began)
  BY <1>9 DEF CheckHead, Sees
<1>11. counter = W.began => \A e \in history : e.id = W.head => e.seq <= W.last
  BY <1>2, <1>9 DEF HeadFits
<1>12. W.last \in Nat
  BY <1>2, <1>9, SureFacts DEF HeadFits
<1>13. Sees(W)
  BY <1>8, <1>9, <1>10, <1>11, <1>12 DEF Sees
<1> QED
  BY <1>7, <1>13, SeesNow DEF CheckHead, Verify

\* ... and entries newer than it were committed since the run began.
LEMMA SeesNewer ==
  ASSUME Sure, Sees(verifier), CheckNewer
  PROVE  Sees(verifier)'
<1>1. PICK f : /\ f = Report(When(\E e \in history : NewerEntry(e), "newerThanHead"))
               /\ verifier' = [verifier EXCEPT !.found = f, !.pc = "head"]
  BY DEF CheckNewer, Verify
<1>2. PICK W : W = [verifier EXCEPT !.found = f, !.pc = "head"] /\ verifier' = W
  BY <1>1
<1>3. /\ verifier.upTo = 0 /\ DOMAIN verifier = DOMAIN IdleVerifier
      /\ verifier.began \in Nat /\ counter \in Nat /\ verifier.began <= counter
  BY SureFacts DEF CheckNewer, Sees, BlockChecks
<1>4. f \subseteq Overtakings
  BY <1>1 DEF Report, When, Sees, Overtakings
<1>5. f # {} => counter > verifier.began
  <2>1. CASE \E e \in history : NewerEntry(e)
    <3>1. PICK e \in history : e.id = verifier.head /\ e.seq > verifier.last
      BY <2>1 DEF NewerEntry
    <3>2. CASE counter = verifier.began
      <4>1. e.seq <= verifier.last /\ verifier.last \in Nat /\ e.seq \in Nat
        BY <3>1, <3>2, SureFacts DEF CheckNewer, Sees
      <4> QED
        BY <3>1, <4>1
    <3> QED
      BY <1>3, <3>2
  <2>2. CASE ~\E e \in history : NewerEntry(e)
    BY <1>1, <2>2 DEF Report, When, Sees
  <2> QED
    BY <2>1, <2>2
<1>6. /\ DOMAIN W = DOMAIN IdleVerifier /\ W.found = f /\ W.pc = "head" /\ W.upTo = verifier.upTo
      /\ W.began = verifier.began /\ W.todo = verifier.todo
  BY <1>2, <1>3 DEF IdleVerifier
<1>7. \A h \in W.todo : HeadFits(h, W.began)
  BY <1>6 DEF CheckNewer, Sees
<1>8. Sees(W)
  BY <1>3, <1>4, <1>5, <1>6, <1>7 DEF Sees
<1> QED
  BY <1>2, <1>8, SeesNow DEF CheckNewer, Verify

\* The loop ends.
LEMMA SeesHeadsDone ==
  ASSUME Sure, Sees(verifier), HeadsDone
  PROVE  Sees(verifier)'
<1>1. PICK W : W = [verifier EXCEPT !.pc = "noHead"] /\ verifier' = W
  BY DEF HeadsDone, Verify
<1>2. verifier.upTo = 0 /\ DOMAIN verifier = DOMAIN IdleVerifier
  BY DEF HeadsDone, Sees, BlockChecks
<1>3. /\ DOMAIN W = DOMAIN IdleVerifier /\ W.found = verifier.found /\ W.pc = "noHead"
      /\ W.upTo = verifier.upTo /\ W.began = verifier.began
  BY <1>1, <1>2 DEF IdleVerifier
<1>4. Sees(W)
  BY <1>2, <1>3 DEF Sees
<1> QED
  BY <1>1, <1>4, SeesNow DEF HeadsDone, Verify

\* 4. Every record with entries has a head.
LEMMA SeesNoHead ==
  ASSUME Sure, Sees(verifier), CheckNoHead
  PROVE  Sees(verifier)'
<1>1. ~\E e \in history : ThisRecord(e.id) /\ heads[e.id].last = 0
  BY EntriesHaveHeads
<1>2. PICK W : W = [verifier EXCEPT !.found = verifier.found, !.pc = "rows"] /\ verifier' = W
  BY <1>1 DEF CheckNoHead, Verify, Report, When
<1>3. verifier.upTo = 0 /\ DOMAIN verifier = DOMAIN IdleVerifier
  BY DEF CheckNoHead, Sees, BlockChecks
<1>4. /\ DOMAIN W = DOMAIN IdleVerifier /\ W.found = verifier.found /\ W.pc = "rows"
      /\ W.upTo = verifier.upTo /\ W.began = verifier.began
  BY <1>2, <1>3 DEF IdleVerifier
<1>5. Sees(W)
  BY <1>3, <1>4 DEF Sees
<1> QED
  BY <1>2, <1>5, SeesNow DEF CheckNoHead, Verify

\* 5. Every live row is what its head's entry recorded.
LEMMA SeesRows ==
  ASSUME Sure, Sees(verifier), CheckRows
  PROVE  Sees(verifier)'
<1>1. ~\E m \in Ids : ThisRecord(m) /\ Live(m) /\ RowDiffers(m)
  BY RowsFit
<1>2. PICK W : W = [verifier EXCEPT !.found = verifier.found, !.pc = "done"] /\ verifier' = W
  BY <1>1 DEF CheckRows, Verify, Report, When
<1>3. verifier.upTo = 0 /\ DOMAIN verifier = DOMAIN IdleVerifier
  BY DEF CheckRows, Sees, BlockChecks
<1>4. /\ DOMAIN W = DOMAIN IdleVerifier /\ W.found = verifier.found /\ W.pc = "done"
      /\ W.upTo = verifier.upTo /\ W.began = verifier.began
  BY <1>2, <1>3 DEF IdleVerifier
<1>5. Sees(W)
  BY <1>3, <1>4 DEF Sees
<1> QED
  BY <1>2, <1>5, SeesNow DEF CheckRows, Verify

\* The first blocks, up to one of them, are where a loop over the blocks starts.
LEMMA LoopStarts ==
  ASSUME Sure, NEW n \in 0..Len(blocks), NEW loop, loop = SubSeq(blocks, 1, n)
  PROVE  LoopFits(loop, 0) /\ Len(loop) = n /\ \A i \in 1..n : loop[i] = blocks[i]
<1>1. blocks \in Seq(BlockType) /\ Len(blocks) \in Nat
  BY SureFacts
<1>2. loop \in Seq(BlockType) /\ Len(loop) = n /\ \A i \in 1..n : loop[i] = blocks[i]
  <2>1. CASE n = 0
    BY <1>1, <2>1
  <2>2. CASE n # 0
    BY <1>1, <2>2
  <2> QED
    BY <2>1, <2>2
<1>3. \A i \in 1..Len(loop) : loop[i] = blocks[0 + i]
  BY <1>1, <1>2
<1>4. 0 \in 0..Len(blocks) /\ Len(loop) <= Len(blocks) - 0
  BY <1>1, <1>2
<1> QED
  BY <1>2, <1>3, <1>4 DEF LoopFits

\* So are all of them.
LEMMA WholeLoop ==
  ASSUME Sure
  PROVE  LoopFits(blocks, 0)
<1>1. blocks \in Seq(BlockType) /\ Len(blocks) \in Nat
  BY SureFacts
<1>2. 0 \in 0..Len(blocks) /\ Len(blocks) <= Len(blocks) - 0
  BY <1>1
<1>3. \A i \in 1..Len(blocks) : blocks[i] = blocks[0 + i]
  BY <1>1
<1> QED
  BY <1>1, <1>2, <1>3 DEF LoopFits

\* The next block of a loop continues the one before, and commits to its entries.
LEMMA LoopGoesOn ==
  ASSUME Sure, NEW loop, NEW last, LoopFits(loop, last), loop # <<>>, NEW b, b = Head(loop)
  PROVE  /\ b.first = last + 1 /\ b.last \in Nat /\ b.last <= counter
         /\ EntriesOf(b.first, b.last) = b.entries
         /\ Cardinality(b.entries) = b.last - b.first + 1
         /\ Len(loop) \in Nat \ {0} /\ b = loop[1]
         /\ LoopFits(Tail(loop), b.last)
         /\ Len(Tail(loop)) = Len(loop) - 1
         /\ \A i \in 1..Len(Tail(loop)) : Tail(loop)[i] = loop[i + 1]
<1>1. PICK k \in 0..Len(blocks) :
        /\ loop \in Seq(BlockType) /\ Len(loop) <= Len(blocks) - k
        /\ \A i \in 1..Len(loop) : loop[i] = blocks[k + i]
        /\ last = IF k = 0 THEN 0 ELSE blocks[k].last
  BY DEF LoopFits
<1>2. /\ Len(loop) \in Nat \ {0} /\ b = loop[1] /\ Tail(loop) \in Seq(BlockType)
      /\ Len(Tail(loop)) = Len(loop) - 1
      /\ \A i \in 1..Len(Tail(loop)) : Tail(loop)[i] = loop[i + 1]
  BY <1>1
<1>3. Len(blocks) \in Nat /\ k + 1 \in 1..Len(blocks) /\ b = blocks[k + 1] /\ (k + 1) - 1 = k
  BY <1>1, <1>2, SureFacts
<1>4. /\ b.first = IF k + 1 = 1 THEN 1 ELSE blocks[(k + 1) - 1].last + 1
      /\ b.last <= counter /\ b.entries = EntriesOf(b.first, b.last)
      /\ Cardinality(b.entries) = b.last - b.first + 1
  BY <1>3, SureFacts DEF BlocksTileHistory
<1>5. b.first = last + 1
  BY <1>1, <1>3, <1>4
<1>6. b.last \in Nat
  BY <1>3, BlockRange, SureFacts
<1>7. LoopFits(Tail(loop), b.last)
  <2>1. \A i \in 1..Len(Tail(loop)) : Tail(loop)[i] = blocks[(k + 1) + i]
    <3> TAKE i \in 1..Len(Tail(loop))
    <3>1. i + 1 \in 1..Len(loop) /\ k + (i + 1) = (k + 1) + i
      BY <1>1, <1>2
    <3> QED
      BY <1>1, <1>2, <3>1
  <2>2. k + 1 \in 0..Len(blocks) /\ Len(Tail(loop)) <= Len(blocks) - (k + 1)
    BY <1>1, <1>2, <1>3
  <2>3. b.last = IF k + 1 = 0 THEN 0 ELSE blocks[k + 1].last
    BY <1>1, <1>3
  <2> QED
    BY <1>2, <2>1, <2>2, <2>3 DEF LoopFits
<1> QED
  BY <1>2, <1>4, <1>5, <1>6, <1>7

\* The counter is read before the blocks.
LEMMA SeesBlockCounter ==
  ASSUME Sure, Sees(verifier), VerifyBlockCounter
  PROVE  Sees(verifier)'
<1>1. PICK W : W = [verifier EXCEPT !.ctr = counter, !.pc = "openBlocks"] /\ verifier' = W
  BY DEF VerifyBlockCounter, Verify
<1>2. /\ DOMAIN W = DOMAIN IdleVerifier /\ W.found = verifier.found /\ W.pc = "openBlocks"
      /\ W.upTo = verifier.upTo /\ W.began = verifier.began /\ W.ctr = counter
  BY <1>1 DEF Sees, IdleVerifier
<1>3. counter \in Nat /\ \A i \in 1..Len(blocks) : blocks[i].last <= counter
  BY SureFacts DEF BlocksTileHistory
<1>4. \A i \in 1..W.upTo : blocks[i].last <= W.ctr
  <2>1. W.upTo \in 0..Len(blocks) /\ Len(blocks) \in Nat
    BY <1>2, SureFacts DEF Sees
  <2> QED
    BY <1>2, <1>3, <2>1
<1>5. Sees(W)
  BY <1>2, <1>3, <1>4 DEF Sees, BlockChecks
<1> QED
  BY <1>1, <1>5, SeesNow DEF VerifyBlockCounter, Verify

\* The loop over the blocks opens.
LEMMA SeesOpen ==
  ASSUME Sure, Sees(verifier), OpenBlocks
  PROVE  Sees(verifier)'
<1>1. PICK n : n = IF verifier.upTo = 0 THEN Len(blocks) ELSE verifier.upTo
  OBVIOUS
<1>2. n \in 0..Len(blocks) /\ (verifier.upTo # 0 => n = verifier.upTo)
  BY <1>1, SureFacts DEF Sees
<1>3. PICK loop : loop = SubSeq(blocks, 1, n)
  OBVIOUS
<1>4. LoopFits(loop, 0) /\ Len(loop) = n /\ \A i \in 1..n : loop[i] = blocks[i]
  BY <1>2, <1>3, LoopStarts
<1>5. PICK W : W = [verifier EXCEPT !.loop = loop, !.last = 0, !.pc = "block"] /\ verifier' = W
  BY <1>1, <1>3 DEF OpenBlocks, Verify
<1>6. /\ DOMAIN W = DOMAIN IdleVerifier /\ W.found = verifier.found /\ W.pc = "block" /\ W.upTo = verifier.upTo
      /\ W.began = verifier.began /\ W.ctr = verifier.ctr /\ W.loop = loop /\ W.last = 0
  BY <1>5 DEF Sees, IdleVerifier
<1>7. verifier.pc = "openBlocks" /\ \A i \in 1..verifier.upTo : blocks[i].last <= verifier.ctr
  BY DEF OpenBlocks, Sees
<1>8. W.upTo # 0 => \A i \in 1..Len(W.loop) : W.loop[i].last <= W.ctr
  BY <1>2, <1>4, <1>6, <1>7
<1>9. Sees(W)
  BY <1>4, <1>6, <1>7, <1>8 DEF Sees, BlockChecks
<1> QED
  BY <1>5, <1>9, SeesNow DEF OpenBlocks, Verify

\* A block can only be beyond the counter that was read, and not if it was there then.
LEMMA SeesBlock ==
  ASSUME Sure, Sees(verifier), CheckBlock
  PROVE  Sees(verifier)'
<1>1. PICK b : b = Head(verifier.loop)
  OBVIOUS
<1>2. /\ verifier.pc = "block" /\ verifier.loop # <<>> /\ LoopFits(verifier.loop, verifier.last)
      /\ verifier.upTo # 0 => \A i \in 1..Len(verifier.loop) : verifier.loop[i].last <= verifier.ctr
      /\ verifier.ctr \in Nat /\ verifier.began <= verifier.ctr /\ verifier.began \in Nat
  BY DEF CheckBlock, Sees
<1>3. /\ b.first = verifier.last + 1 /\ b.last \in Nat /\ b.last <= counter
      /\ EntriesOf(b.first, b.last) = b.entries
      /\ Cardinality(b.entries) = b.last - b.first + 1
      /\ Len(verifier.loop) \in Nat \ {0} /\ b = verifier.loop[1]
      /\ LoopFits(Tail(verifier.loop), b.last)
      /\ Len(Tail(verifier.loop)) = Len(verifier.loop) - 1
      /\ \A i \in 1..Len(Tail(verifier.loop)) : Tail(verifier.loop)[i] = verifier.loop[i + 1]
  BY <1>1, <1>2, LoopGoesOn
<1>4. PICK f : f = Report(When(BeyondCounter(b), "beyondCounter"))
  OBVIOUS
<1>5. verifier' = [verifier EXCEPT !.found = f, !.loop = Tail(@), !.last = b.last]
  <2>1. f = Report(When(NotTiled(b), "notTiled")
                   \cup When(BeyondCounter(b), "beyondCounter")
                   \cup When(Cardinality(EntriesOf(b.first, b.last)) # b.last - b.first + 1, "countWrong")
                   \cup When(EntriesOf(b.first, b.last) # b.entries, "rootWrong"))
    BY <1>3, <1>4 DEF Report, When, NotTiled
  <2> QED
    BY <1>1, <2>1 DEF CheckBlock, Verify
<1>6. PICK W : W = [verifier EXCEPT !.found = f, !.loop = Tail(@), !.last = b.last] /\ verifier' = W
  BY <1>5
<1>7. /\ DOMAIN W = DOMAIN IdleVerifier /\ W.found = f /\ W.pc = "block" /\ W.upTo = verifier.upTo
      /\ W.began = verifier.began /\ W.ctr = verifier.ctr /\ W.loop = Tail(verifier.loop) /\ W.last = b.last
  BY <1>2, <1>6 DEF Sees, IdleVerifier
<1>8. f \subseteq Overtakings
  BY <1>4 DEF Report, When, Sees, Overtakings
<1>9. f # {} => counter > verifier.began /\ verifier.upTo = 0
  <2>1. CASE BeyondCounter(b)
    <3>1. b.last > verifier.ctr
      BY <2>1 DEF BeyondCounter
    <3>2. verifier.upTo = 0
      BY <1>2, <1>3, <3>1
    <3> QED
      BY <1>2, <1>3, <3>1, <3>2, SureFacts
  <2>2. CASE ~BeyondCounter(b)
    BY <1>4, <2>2 DEF Report, When, Sees
  <2> QED
    BY <2>1, <2>2
<1>10. W.upTo # 0 => \A i \in 1..Len(W.loop) : W.loop[i].last <= W.ctr
  BY <1>2, <1>3, <1>7
<1>11. Sees(W)
  BY <1>2, <1>3, <1>7, <1>8, <1>9, <1>10 DEF Sees, BlockChecks
<1> QED
  BY <1>6, <1>11, SeesNow DEF CheckBlock, Verify

\* The loop ends.
LEMMA SeesBlocksDone ==
  ASSUME Sure, Sees(verifier), BlocksDone
  PROVE  Sees(verifier)'
<1>1. PICK W : W = [verifier EXCEPT !.pc = "done"] /\ verifier' = W
  BY DEF BlocksDone, Verify
<1>2. /\ DOMAIN W = DOMAIN IdleVerifier /\ W.found = verifier.found /\ W.pc = "done"
      /\ W.upTo = verifier.upTo /\ W.began = verifier.began
  BY <1>1 DEF Sees, IdleVerifier
<1>3. Sees(W)
  BY <1>2 DEF Sees
<1> QED
  BY <1>1, <1>3, SeesNow DEF BlocksDone, Verify

\* Whatever statement comes next, a run sees what it should.
LEMMA SeesRun ==
  ASSUME Sure, Sees(verifier), VerifyRun
  PROVE  Sees(verifier)' /\ UNCHANGED vars
<1>1. Sees(verifier)'
  BY SeesChain, SeesCounter, SeesNewest, SeesGaps, SeesHeads, SeesHead, SeesNewer, SeesHeadsDone,
     SeesNoHead, SeesRows, SeesBlockCounter, SeesOpen, SeesBlock, SeesBlocksDone
     DEF VerifyRun
<1>2. UNCHANGED vars
  BY DEF VerifyRun, VerifyChain, VerifyCounter, VerifyNewest, VerifyGaps, OpenHeads, CheckHead, CheckNewer,
     HeadsDone, CheckNoHead, CheckRows, VerifyBlockCounter, OpenBlocks, CheckBlock, BlocksDone, Verify
<1> QED
  BY <1>1, <1>2

\* What is known of the store is known while it does not move.
LEMMA SureNow ==
  ASSUME Sure, UNCHANGED vars
  PROVE  Sure'
<1>1. [Next]_vars
  BY DEF vars
<1> QED
  BY <1>1, SureStep

\* A verifier of the live ledger, started at any moment, runs beside writers and sealers.
THEOREM VerifiersAreRight == VerifySpec => []VerifierIsRight
<1>1. VerifyInit => Sure /\ Sees(verifier)
  BY SureInit, SeesIdle DEF VerifyInit
<1>2. Sure /\ Sees(verifier) /\ [VerifyNext]_verifyVars => (Sure /\ Sees(verifier))'
  <2> SUFFICES ASSUME Sure, Sees(verifier), [VerifyNext]_verifyVars
               PROVE  Sure' /\ Sees(verifier)'
    OBVIOUS
  <2>1. CASE Next /\ UNCHANGED verifier
    <3>1. PICK V : V = verifier
      OBVIOUS
    <3>2. Sees(V) /\ verifier' = V
      BY <2>1, <3>1
    <3>3. Sees(V)'
      BY <2>1, <3>2, SeesStays
    <3>4. Sees(verifier)'
      BY <3>2, <3>3
    <3> QED
      BY <2>1, <3>4, SureStep
  <2>2. CASE StartHistory
    <3>1. PICK m : verifier' = [IdleVerifier EXCEPT !.pc = "chain", !.only = m, !.began = counter] /\ UNCHANGED vars
      BY <2>2 DEF StartHistory, Verify
    <3>2. PICK W : W = [IdleVerifier EXCEPT !.pc = "chain", !.only = m, !.began = counter] /\ verifier' = W
      BY <3>1
    <3>3. Sees(W)
      <4>1. DOMAIN W = DOMAIN IdleVerifier /\ W.pc = "chain" /\ W.upTo = 0 /\ W.began = counter /\ W.found = {}
        BY <3>2 DEF IdleVerifier
      <4> QED
        BY <4>1, SureFacts, SeesStart
    <3> QED
      BY <3>1, <3>2, <3>3, SeesNow, SureNow
  <2>3. CASE StartBlocks
    <3>1. verifier' = [IdleVerifier EXCEPT !.pc = "blockCounter", !.began = counter] /\ UNCHANGED vars
      BY <2>3 DEF StartBlocks, Verify
    <3>2. PICK W : W = [IdleVerifier EXCEPT !.pc = "blockCounter", !.began = counter] /\ verifier' = W
      BY <3>1
    <3>3. Sees(W)
      <4>1. DOMAIN W = DOMAIN IdleVerifier /\ W.pc = "blockCounter" /\ W.upTo = 0 /\ W.began = counter /\ W.found = {}
        BY <3>2 DEF IdleVerifier
      <4> QED
        BY <4>1, SureFacts, SeesStart
    <3> QED
      BY <3>1, <3>2, <3>3, SeesNow, SureNow
  <2>4. CASE VerifyRun
    BY <2>4, SeesRun, SureNow
  <2>5. CASE UNCHANGED verifyVars
    <3>1. UNCHANGED vars /\ verifier' = verifier
      BY <2>5 DEF verifyVars
    <3>2. PICK W : W = verifier /\ verifier' = W
      BY <3>1
    <3> QED
      BY <3>1, <3>2, SeesNow, SureNow
  <2> QED
    BY <2>1, <2>2, <2>3, <2>4, <2>5 DEF VerifyNext, VerifyStep
<1>3. Sees(verifier) => VerifierIsRight
  BY DEF Sees, VerifierIsRight, Overtakings
<1> QED
  BY <1>1, <1>2, <1>3, PTL DEF VerifySpec

-----------------------------------------------------------------------------
(* Points of the history, replayed *)

\* A point lies in one block at most, whichever blocks follow one another.
LEMMA OneCovers ==
  ASSUME NEW B \in Seq(BlockType), NEW s \in Nat, NEW i \in 1..Len(B), B[i].first <= s, s <= B[i].last,
         \A k, l \in 1..Len(B) : k < l => B[k].last < B[l].first
  PROVE  {k \in 1..Len(B) : B[k].first <= s /\ s <= B[k].last} = {i}
<1> SUFFICES ASSUME NEW k \in 1..Len(B), B[k].first <= s, s <= B[k].last
             PROVE  k = i
  OBVIOUS
<1>1. B[i] \in BlockType /\ B[k] \in BlockType
  OBVIOUS
<1>2. B[i].first \in Nat /\ B[i].last \in Nat /\ B[k].first \in Nat /\ B[k].last \in Nat
  BY <1>1 DEF BlockType
<1>3. ~(i < k) /\ ~(k < i)
  BY <1>2
<1> QED
  BY <1>3

\* The block that covers a point is the one it lies in.
LEMMA CoveringIs ==
  ASSUME TypeOK, BlocksOrdered, NEW s \in Nat, NEW i \in 1..Len(blocks),
         blocks[i].first <= s, s <= blocks[i].last
  PROVE  Covering(s) = [height |-> i, first |-> blocks[i].first, last |-> blocks[i].last]
<1>1. {k \in 1..Len(blocks) : blocks[k].first <= s /\ s <= blocks[k].last} = {i}
  BY OneCovers DEF TypeOK, BlocksOrdered
<1> QED
  BY <1>1 DEF Covering

\* After a step, too.
LEMMA CoveringIsNext ==
  ASSUME TypeOK', BlocksOrdered', NEW s \in Nat, NEW i \in 1..Len(blocks'),
         blocks'[i].first <= s, s <= blocks'[i].last
  PROVE  Covering(s)' = [height |-> i, first |-> blocks'[i].first, last |-> blocks'[i].last]
<1>1. {k \in 1..Len(blocks') : blocks'[k].first <= s /\ s <= blocks'[k].last} = {i}
  BY OneCovers DEF TypeOK, BlocksOrdered
<1> QED
  BY <1>1 DEF Covering

\* A point with a covering block lies in a block.
LEMMA CoveredLies ==
  ASSUME NEW s, Covering(s) # Uncovered
  PROVE  \E i \in 1..Len(blocks) :
           /\ blocks[i].first <= s /\ s <= blocks[i].last
           /\ Covering(s) = [height |-> i, first |-> blocks[i].first, last |-> blocks[i].last]
<1>1. PICK at : at = {i \in 1..Len(blocks) : blocks[i].first <= s /\ s <= blocks[i].last}
  OBVIOUS
<1>2. at # {}
  BY <1>1 DEF Covering
<1>3. PICK h \in at : h = CHOOSE i \in at : TRUE
  BY <1>2
<1>4. Covering(s) = [height |-> h, first |-> blocks[h].first, last |-> blocks[h].last]
  BY <1>1, <1>2, <1>3 DEF Covering
<1>5. h \in 1..Len(blocks) /\ blocks[h].first <= s /\ s <= blocks[h].last
  BY <1>1
<1> QED
  BY <1>4, <1>5

\* A point that is history gives the same state, count and block for good.
LEMMA PointStays ==
  ASSUME Sure, [Next]_vars, NEW s \in 0..counter
  PROVE  /\ UpTo(s)' = UpTo(s) /\ RootOf(s)' = RootOf(s) /\ DeletedOf(s)' = DeletedOf(s)
         /\ Covering(s) # Uncovered => Covering(s)' = Covering(s)
<1>1. UpTo(s)' = UpTo(s)
  BY PastStays
<1>2. RootOf(s)' = RootOf(s) /\ DeletedOf(s)' = DeletedOf(s)
  BY <1>1 DEF RootOf, DeletedOf, FoldedLive, NewestOf, StateRoot
<1>3. s \in Nat
  BY SureFacts
<1>4. ASSUME Covering(s) # Uncovered PROVE Covering(s)' = Covering(s)
  <2>1. PICK i \in 1..Len(blocks) :
          /\ blocks[i].first <= s /\ s <= blocks[i].last
          /\ Covering(s) = [height |-> i, first |-> blocks[i].first, last |-> blocks[i].last]
    BY <1>4, CoveredLies
  <2>2. i \in 1..Len(blocks') /\ blocks'[i] = blocks[i]
    BY PastStays, SureFacts
  <2>3. TypeOK' /\ BlocksOrdered'
    BY SureStep DEF Sure
  <2>4. Covering(s)' = [height |-> i, first |-> blocks'[i].first, last |-> blocks'[i].last]
    BY <1>3, <2>1, <2>2, <2>3, CoveringIsNext
  <2> QED
    BY <2>1, <2>2, <2>4
<1> QED
  BY <1>1, <1>2, <1>4

\* What was proven stays proven.
LEMMA ProvesStays ==
  ASSUME Sure, [Next]_vars, NEW c, Proves(c)
  PROVE  Proves(c)'
<1>1. c.at \in 0..counter /\ c.at \in 0..counter'
  BY PastStays, SureFacts DEF Proves
<1> QED
  BY <1>1, PointStays DEF Proves

\* What an offline run has read and found stays true while the store moves on.
LEMMA FollowsStays ==
  ASSUME Sure, [Next]_vars, proven' = proven, NEW O, NEW V, Follows(O, V)
  PROVE  Follows(O, V)'
<1>1. /\ counter \in Nat /\ counter' \in Nat /\ counter <= counter'
      /\ Len(blocks) \in Nat /\ Len(blocks') \in Nat /\ Len(blocks) <= Len(blocks')
      /\ \A i \in 1..Len(blocks) : blocks'[i] = blocks[i]
  BY SureFacts, PastStays
<1>2. O.run = "replay" /\ O.pc \in Replaying => O.at \in 0..counter
  BY <1>1 DEF Follows
<1>3. O.run = "replay" /\ O.pc \in Replaying =>
        UpTo(O.at)' = UpTo(O.at) /\ RootOf(O.at)' = RootOf(O.at) /\ DeletedOf(O.at)' = DeletedOf(O.at)
  BY <1>2, PointStays
<1>4. O.pc = "recompute" => LoopFits(O.rows, O.last)'
  <2>1. SUFFICES ASSUME LoopFits(O.rows, O.last) PROVE LoopFits(O.rows, O.last)'
    BY DEF Follows
  <2> QED
    BY <2>1, LoopStays
<1>5. /\ O.began <= counter'
      /\ O.found # {} => counter' > O.began
  BY <1>1 DEF Follows
<1>6. O.run = "replay" /\ O.pc \in Replaying =>
       /\ O.at <= counter'
       /\ O.pc # "counter" => O.at <= O.ctr /\ O.began <= O.ctr /\ O.ctr <= counter'
       /\ O.pc \in {"fold", "live"} => O.entries = UpTo(O.at)'
       /\ O.pc \notin {"counter", "history", "fold"} => O.root = RootOf(O.at)' /\ O.deleted = DeletedOf(O.at)'
       /\ O.ask = "claim" => \E c \in proven' : c.at = O.at
  BY <1>1, <1>3 DEF Follows
<1> QED
  BY <1>4, <1>5, <1>6 DEF Follows

\* Up to a point of the history no seq is missing, and every entry links to the one before it.
LEMMA PointIsWhole ==
  ASSUME Sure, NEW s \in 0..counter
  PROVE  {e.seq : e \in UpTo(s)} = 1..s /\ ~LinkBroken(UpTo(s))
<1>1. {e.seq : e \in UpTo(s)} = 1..s
  <2>1. counter \in Nat /\ s \in Nat /\ s <= counter
    BY SureFacts
  <2>2. \A e \in UpTo(s) : e.seq \in 1..s
    BY <2>1, SureFacts DEF UpTo
  <2>3. \A q \in 1..s : \E e \in UpTo(s) : e.seq = q
    BY <2>1, SureFacts DEF UpTo, CounterBacked
  <2> QED
    BY <2>2, <2>3
<1>2. ASSUME NEW e \in UpTo(s)
      PROVE  e.prev = IF Before(e, UpTo(s)) = {} THEN 0
                      ELSE (CHOOSE f \in NewestOf(Before(e, UpTo(s))) : TRUE).seq
  <2>1. e \in history /\ e.seq \in Nat /\ e.seq <= s /\ s \in Nat /\ \A f \in history : f.seq \in Nat
    BY SureFacts DEF UpTo
  <2>2. Before(e, UpTo(s)) = PrevOf(e)
    BY <2>1 DEF Before, UpTo, PrevOf
  <2>3. PICK P : P = PrevOf(e)
    OBVIOUS
  <2>4. CASE P = {}
    BY <2>1, <2>2, <2>3, <2>4, SureFacts DEF Committed, ChainIntact, PrevOf
  <2>5. CASE P # {}
    <3>1. PICK f \in P : e.prev = f.seq /\ \A g \in P : g.seq <= f.seq
      BY <2>1, <2>3, <2>5, SureFacts DEF Committed, ChainIntact, PrevOf
    <3>2. f \in NewestOf(P)
      BY <3>1 DEF NewestOf
    <3>3. PICK h \in NewestOf(P) : h = CHOOSE x \in NewestOf(P) : TRUE
      BY <3>2
    <3>4. h \in P /\ h.id = e.id /\ f.id = e.id /\ f.seq \in Nat /\ h.seq \in Nat
      BY <2>1, <2>3 DEF NewestOf, PrevOf
    <3>5. f.seq <= h.seq
      BY <3>3, <3>4 DEF NewestOf
    <3>6. h.seq = f.seq
      BY <3>1, <3>4, <3>5
    <3> QED
      BY <2>2, <2>3, <2>5, <3>1, <3>3, <3>6
  <2> QED
    BY <2>4, <2>5
<1> QED
  BY <1>1, <1>2 DEF LinkBroken

\* The history as a whole gives the live table.
LEMMA EndIsLive ==
  ASSUME Sure
  PROVE  /\ UpTo(counter) = history
         /\ \A e \in FoldedLive(history) : memories[e.id] = e.after
         /\ \A m \in Ids : Live(m) => \E e \in FoldedLive(history) : e.id = m
<1>1. UpTo(counter) = history
  BY SureFacts DEF UpTo
<1>2. ASSUME NEW e \in FoldedLive(history) PROVE memories[e.id] = e.after
  <2>1. e \in history /\ e.id \in Ids /\ IsLatest(e, e.id)
    BY SureFacts DEF FoldedLive, NewestOf, IsLatest, EntryType
  <2> QED
    BY <2>1, SureFacts DEF Committed, RowsMatchHistory
<1>3. ASSUME NEW m \in Ids, Live(m) PROVE \E e \in FoldedLive(history) : e.id = m
  <2>1. PICK f \in history : IsLatest(f, m)
    BY <1>3, SureFacts DEF Committed, Recorded, Known, HasLatest
  <2>2. f.id = m /\ f.after = memories[m] /\ f.after # NoRow
    BY <1>3, <2>1, SureFacts DEF Committed, RowsMatchHistory, IsLatest, Live
  <2>3. f \in FoldedLive(history)
    BY <2>1, <2>2 DEF FoldedLive, NewestOf, IsLatest
  <2> QED
    BY <2>2, <2>3
<1> QED
  BY <1>1, <1>2, <1>3

-----------------------------------------------------------------------------
(* One offline run *)

\* A run whose step leaves it at N, with the verifier it calls at W, in a store that did not move.
LEMMA FollowsNow ==
  ASSUME OInv, NEW N, NEW W, Follows(N, W), Sees(W),
         offline' = N, verifier' = W, UNCHANGED <<vars, proven>>
  PROVE  OInv'
<1>1. Sees(verifier)'
  BY SeesNow
<1>2. Follows(N, W)'
  BY DEF vars, Follows, LoopFits, UpTo, RootOf, DeletedOf
<1>3. Follows(offline, verifier)'
  BY <1>2 DEF Follows
<1>4. ASSUME NEW c \in proven PROVE Proves(c)'
  BY DEF OInv, vars, Proves, RootOf, DeletedOf, UpTo, Covering
<1> QED
  BY <1>1, <1>3, <1>4 DEF OInv

\* What an idle or finished run of the verifier may be, a fresh one of an offline run may be too.
LEMMA FollowsTaken ==
  ASSUME OInv, NEW N, Follows(N, verifier), Take(N)
  PROVE  OInv'
<1>1. PICK W : W = verifier
  OBVIOUS
<1>2. Follows(N, W) /\ Sees(W) /\ offline' = N /\ verifier' = W /\ UNCHANGED <<vars, proven>>
  BY <1>1 DEF OInv, Take, verifyVars
<1> QED
  BY <1>2, FollowsNow

\* A replay starts with nothing found.
LEMMA DoStartReplay ==
  ASSUME Sure, OInv, StartReplay
  PROVE  OInv'
<1>1. PICK ask \in {"end", "block", "claim"} :
        /\ ask = "claim" => proven # {}
        /\ Take([Offline EXCEPT !.pc = "resolve", !.ask = ask, !.began = counter])
  BY DEF StartReplay
<1>2. PICK N : N = [Offline EXCEPT !.pc = "resolve", !.ask = ask, !.began = counter] /\ Take(N)
  BY <1>1
<1>3. /\ DOMAIN N = DOMAIN Offline /\ N.run = "replay" /\ N.ask = ask /\ N.at = 0 /\ N.ctr = 0
      /\ N.began = counter /\ N.found = {} /\ N.pc = "resolve"
  BY <1>2 DEF Offline
<1>4. Follows(N, verifier)
  BY <1>1, <1>3, SureFacts DEF Follows, Replaying
<1> QED
  BY <1>2, <1>4, FollowsTaken

\* The point is one of the history.
LEMMA DoResolve ==
  ASSUME Sure, OInv, Resolve
  PROVE  OInv'
<1>1. PICK at : at = CASE offline.ask = "end" -> counter
                       [] offline.ask = "block" -> IF blocks = <<>> THEN 0 ELSE blocks[1].last
                       [] offline.ask = "claim" -> (CHOOSE c \in proven : TRUE).at
  OBVIOUS
<1>2. PICK p \in {"done", "counter"} : Take([offline EXCEPT !.at = at, !.pc = p])
  BY <1>1 DEF Resolve
<1>3. PICK N : N = [offline EXCEPT !.at = at, !.pc = p] /\ Take(N)
  BY <1>2
<1>4. /\ Follows(offline, verifier) /\ offline.pc = "resolve" /\ offline.run = "replay" /\ offline.found = {}
      /\ offline.ask \in {"end", "block", "claim"} /\ DOMAIN offline = DOMAIN Offline
      /\ offline.ctr \in Nat /\ offline.began \in Nat /\ offline.began <= counter
      /\ offline.ask = "claim" => proven # {}
  BY DEF OInv, Follows, Resolve
<1>5. at \in Nat /\ at <= counter /\ (offline.ask = "claim" => \E c \in proven : c.at = at)
  <2>1. CASE offline.ask = "end"
    BY <1>1, <2>1, SureFacts
  <2>2. CASE offline.ask = "block"
    <3>1. CASE blocks = <<>>
      BY <1>1, <2>2, <3>1, SureFacts
    <3>2. CASE blocks # <<>>
      <4>1. 1 \in 1..Len(blocks)
        BY <3>2, SureFacts
      <4>2. blocks[1].last \in Nat /\ blocks[1].last <= counter
        BY <4>1, SureFacts, BlockRange DEF BlocksTileHistory
      <4> QED
        BY <1>1, <2>2, <3>2, <4>2
    <3> QED
      BY <3>1, <3>2
  <2>3. CASE offline.ask = "claim"
    <3>1. PICK c \in proven : at = c.at
      BY <1>1, <1>4, <2>3
    <3>2. c.at \in 0..counter
      BY <3>1 DEF OInv, Proves
    <3> QED
      BY <3>1, <3>2, SureFacts
  <2> QED
    BY <1>4, <2>1, <2>2, <2>3
<1>6. /\ DOMAIN N = DOMAIN Offline /\ N.run = "replay" /\ N.ask = offline.ask /\ N.at = at
      /\ N.ctr = offline.ctr /\ N.began = offline.began /\ N.found = {} /\ N.pc = p
  BY <1>3, <1>4 DEF Offline
<1>7. Follows(N, verifier)
  BY <1>4, <1>5, <1>6 DEF Follows, Replaying
<1> QED
  BY <1>3, <1>7, FollowsTaken

\* The counter is read after the point was resolved.
LEMMA DoReadEnd ==
  ASSUME Sure, OInv, ReadEnd
  PROVE  OInv'
<1>1. PICK N : N = [offline EXCEPT !.ctr = counter, !.pc = "history"] /\ Take(N)
  BY DEF ReadEnd
<1>2. /\ Follows(offline, verifier) /\ offline.pc = "counter" /\ offline.run = "replay" /\ offline.found = {}
      /\ offline.ask \in {"end", "block", "claim"} /\ DOMAIN offline = DOMAIN Offline
      /\ offline.at \in Nat /\ offline.began \in Nat /\ offline.began <= counter
      /\ offline.at <= counter /\ (offline.ask = "claim" => \E c \in proven : c.at = offline.at)
  BY DEF OInv, Follows, ReadEnd, Replaying
<1>3. /\ DOMAIN N = DOMAIN Offline /\ N.run = "replay" /\ N.ask = offline.ask /\ N.at = offline.at
      /\ N.ctr = counter /\ N.began = offline.began /\ N.found = {} /\ N.pc = "history"
  BY <1>1, <1>2 DEF Offline
<1>4. Follows(N, verifier)
  BY <1>2, <1>3, SureFacts DEF Follows
<1> QED
  BY <1>1, <1>4, FollowsTaken

\* The entries of the point are read.
LEMMA DoReadHistory ==
  ASSUME Sure, OInv, ReadHistory
  PROVE  OInv'
<1>1. PICK N : N = [offline EXCEPT !.entries = UpTo(offline.at), !.pc = "fold"] /\ Take(N)
  BY DEF ReadHistory, UpTo
<1>2. /\ Follows(offline, verifier) /\ offline.pc = "history" /\ offline.run = "replay" /\ offline.found = {}
      /\ offline.ask \in {"end", "block", "claim"} /\ DOMAIN offline = DOMAIN Offline
      /\ offline.at \in Nat /\ offline.ctr \in Nat /\ offline.began \in Nat /\ offline.began <= counter
      /\ offline.at <= counter /\ offline.at <= offline.ctr /\ offline.began <= offline.ctr /\ offline.ctr <= counter
      /\ (offline.ask = "claim" => \E c \in proven : c.at = offline.at)
  BY DEF OInv, Follows, ReadHistory, Replaying
<1>3. /\ DOMAIN N = DOMAIN Offline /\ N.run = "replay" /\ N.ask = offline.ask /\ N.at = offline.at
      /\ N.ctr = offline.ctr /\ N.began = offline.began /\ N.found = {} /\ N.pc = "fold"
      /\ N.entries = UpTo(offline.at)
  BY <1>1, <1>2 DEF Offline
<1>4. Follows(N, verifier)
  BY <1>2, <1>3, SureFacts DEF Follows
<1> QED
  BY <1>1, <1>4, FollowsTaken

\* The fold of the entries reports nothing, and gives the point's state and count.
LEMMA DoFold ==
  ASSUME Sure, OInv, Fold
  PROVE  OInv'
<1>1. /\ Follows(offline, verifier) /\ offline.pc = "fold" /\ offline.run = "replay" /\ offline.found = {}
      /\ offline.ask \in {"end", "block", "claim"} /\ DOMAIN offline = DOMAIN Offline
      /\ offline.at \in Nat /\ offline.ctr \in Nat /\ offline.began \in Nat /\ offline.began <= counter
      /\ offline.at <= counter /\ offline.at <= offline.ctr /\ offline.began <= offline.ctr /\ offline.ctr <= counter
      /\ (offline.ask = "claim" => \E c \in proven : c.at = offline.at)
      /\ offline.entries = UpTo(offline.at)
  BY DEF OInv, Follows, Fold, Replaying
<1>2. PICK root : root = RootOf(offline.at)
  OBVIOUS
<1>3. PICK deleted : deleted = DeletedOf(offline.at)
  OBVIOUS
<1>4. offline.at \in 0..counter /\ ~(offline.at > offline.ctr)
  BY <1>1, SureFacts
<1>5. ~({e.seq : e \in offline.entries} # 1..offline.at) /\ ~LinkBroken(offline.entries)
  BY <1>1, <1>4, PointIsWhole
<1>6. ~(offline.ask = "claim" /\ \E c \in proven : Contradicts(c, root, deleted))
  <2> SUFFICES ASSUME offline.ask = "claim", NEW c \in proven PROVE ~Contradicts(c, root, deleted)
    OBVIOUS
  <2>1. PICK d \in proven : d.at = offline.at
    BY <1>1
  <2>2. c = d /\ Proves(c)
    BY DEF OInv
  <2> QED
    BY <1>2, <1>3, <2>1, <2>2 DEF Proves, Contradicts
<1>7. Take([offline EXCEPT !.root = root, !.deleted = deleted, !.found = offline.found, !.pc = "live"])
  <2>1. /\ root = StateRoot(FoldedLive(offline.entries))
        /\ deleted = Cardinality(NewestOf(offline.entries) \ FoldedLive(offline.entries))
    BY <1>1, <1>2, <1>3 DEF RootOf, DeletedOf
  <2>2. Found(When(offline.at > offline.ctr, "beyondEnd")
              \cup When({e.seq : e \in offline.entries} # 1..offline.at, "entryMissing")
              \cup When(LinkBroken(offline.entries), "linkBroken")
              \cup When(offline.ask = "claim" /\ \E c \in proven : Contradicts(c, root, deleted), "rootDiffers"))
        = offline.found
    BY <1>4, <1>5, <1>6 DEF Found, When
  <2> QED
    BY <2>1, <2>2 DEF Fold
<1>8. PICK N : /\ N = [offline EXCEPT !.root = root, !.deleted = deleted, !.found = offline.found, !.pc = "live"]
               /\ Take(N)
  BY <1>7
<1>9. /\ DOMAIN N = DOMAIN Offline /\ N.run = "replay" /\ N.ask = offline.ask /\ N.at = offline.at
      /\ N.ctr = offline.ctr /\ N.began = offline.began /\ N.found = {} /\ N.pc = "live"
      /\ N.entries = UpTo(offline.at) /\ N.root = root /\ N.deleted = deleted
  BY <1>1, <1>8 DEF Offline
<1>10. Follows(N, verifier)
  BY <1>1, <1>2, <1>3, <1>9 DEF Follows
<1> QED
  BY <1>8, <1>10, FollowsTaken

\* The live table is compared at the end of the history only, and differs from what was folded
\* only if it has moved on since.
LEMMA DoCheckLive ==
  ASSUME Sure, OInv, CheckLive
  PROVE  OInv'
<1>1. /\ Follows(offline, verifier) /\ offline.pc = "live" /\ offline.run = "replay"
      /\ offline.ask \in {"end", "block", "claim"} /\ DOMAIN offline = DOMAIN Offline
      /\ offline.at \in Nat /\ offline.ctr \in Nat /\ offline.began \in Nat /\ offline.began <= counter
      /\ offline.at <= counter /\ offline.at <= offline.ctr /\ offline.began <= offline.ctr /\ offline.ctr <= counter
      /\ (offline.ask = "claim" => \E c \in proven : c.at = offline.at)
      /\ offline.entries = UpTo(offline.at)
      /\ offline.root = RootOf(offline.at) /\ offline.deleted = DeletedOf(offline.at)
      /\ offline.found \subseteq Overtakings \cup {"liveDiffers", "liveUnknown"}
      /\ (offline.found # {} => counter > offline.began)
      /\ (offline.at < offline.ctr => offline.found = {})
  BY DEF OInv, Follows, CheckLive, Replaying
<1>2. PICK f : f = Found(IF ~AtTheEnd THEN {}
                         ELSE When(\E e \in FoldedLive(offline.entries) : memories[e.id] # e.after, "liveDiffers")
                              \cup When(\E m \in Ids : Live(m) /\ \A e \in FoldedLive(offline.entries) : e.id # m,
                                        "liveUnknown"))
  OBVIOUS
<1>3. PICK N : N = [offline EXCEPT !.found = f, !.entries = {}, !.pc = "covering"] /\ Take(N)
  BY <1>2 DEF CheckLive
<1>4. f \subseteq Overtakings \cup {"liveDiffers", "liveUnknown"}
  BY <1>1, <1>2 DEF Found, When
<1>5. offline.at < offline.ctr => f = {}
  <2>1. offline.at < offline.ctr => ~AtTheEnd
    BY <1>1 DEF AtTheEnd
  <2>2. ~AtTheEnd => f = offline.found
    BY <1>2 DEF Found
  <2> QED
    BY <1>1, <2>1, <2>2
<1>6. f # {} => counter > offline.began
  <2>1. CASE counter = offline.began /\ AtTheEnd
    <3>1. offline.at = counter
      BY <1>1, <2>1, SureFacts DEF AtTheEnd
    <3>2. offline.entries = history /\ offline.found = {}
      BY <1>1, <2>1, <3>1, EndIsLive, SureFacts
    <3>3. /\ ~\E e \in FoldedLive(history) : memories[e.id] # e.after
          /\ ~\E m \in Ids : Live(m) /\ \A e \in FoldedLive(history) : e.id # m
      BY EndIsLive
    <3>4. f = {}
      BY <1>2, <3>2, <3>3 DEF Found, When
    <3> QED
      BY <3>4
  <2>2. CASE ~AtTheEnd
    BY <1>1, <1>2, <2>2 DEF Found
  <2>3. CASE counter # offline.began
    BY <1>1, <2>3, SureFacts
  <2> QED
    BY <2>1, <2>2, <2>3
<1>7. /\ DOMAIN N = DOMAIN Offline /\ N.run = "replay" /\ N.ask = offline.ask /\ N.at = offline.at
      /\ N.ctr = offline.ctr /\ N.began = offline.began /\ N.found = f /\ N.pc = "covering"
      /\ N.root = offline.root /\ N.deleted = offline.deleted
  BY <1>1, <1>3 DEF Offline
<1>8. Follows(N, verifier)
  BY <1>1, <1>4, <1>5, <1>6, <1>7 DEF Follows
<1> QED
  BY <1>3, <1>8, FollowsTaken

\* The verifier is asked for the blocks up to the one that covers the point.
LEMMA DoCheckCovering ==
  ASSUME Sure, OInv, CheckCovering
  PROVE  OInv'
<1>1. /\ Follows(offline, verifier) /\ offline.pc = "covering" /\ offline.run = "replay"
      /\ offline.ask \in {"end", "block", "claim"} /\ DOMAIN offline = DOMAIN Offline
      /\ offline.at \in Nat /\ offline.ctr \in Nat /\ offline.began \in Nat /\ offline.began <= counter
      /\ offline.at <= counter /\ offline.at <= offline.ctr /\ offline.began <= offline.ctr /\ offline.ctr <= counter
      /\ (offline.ask = "claim" => \E c \in proven : c.at = offline.at)
      /\ offline.root = RootOf(offline.at) /\ offline.deleted = DeletedOf(offline.at)
      /\ offline.found \subseteq Overtakings \cup {"liveDiffers", "liveUnknown"}
      /\ (offline.found # {} => counter > offline.began)
      /\ (offline.at < offline.ctr => offline.found = {})
  BY DEF OInv, Follows, CheckCovering, Replaying
<1>2. CASE Covering(offline.at) = Uncovered
  <2>1. PICK N : N = [offline EXCEPT !.pc = "expected"] /\ Take(N)
    BY <1>2 DEF CheckCovering
  <2>2. /\ DOMAIN N = DOMAIN Offline /\ N.run = "replay" /\ N.ask = offline.ask /\ N.at = offline.at
        /\ N.ctr = offline.ctr /\ N.began = offline.began /\ N.found = offline.found /\ N.pc = "expected"
        /\ N.root = offline.root /\ N.deleted = offline.deleted
    BY <1>1, <2>1 DEF Offline
  <2>3. Follows(N, verifier)
    BY <1>1, <2>2 DEF Follows
  <2> QED
    BY <2>1, <2>3, FollowsTaken
<1>3. CASE Covering(offline.at) # Uncovered
  <2>1. PICK b : b = Covering(offline.at)
    OBVIOUS
  <2>2. b.height \in 1..Len(blocks)
    <3>1. PICK i \in 1..Len(blocks) : Covering(offline.at) = [height |-> i, first |-> blocks[i].first, last |-> blocks[i].last]
      BY <1>3, CoveredLies
    <3> QED
      BY <2>1, <3>1
  <2>3. /\ offline' = [offline EXCEPT !.block = b, !.pc = "sqlBlocks"]
        /\ verifier' = [IdleVerifier EXCEPT !.pc = "blockCounter", !.upTo = b.height, !.began = counter]
        /\ UNCHANGED <<vars, proven>>
    BY <1>3, <2>1 DEF CheckCovering
  <2>4. PICK N : N = [offline EXCEPT !.block = b, !.pc = "sqlBlocks"] /\ offline' = N
    BY <2>3
  <2>5. PICK W : W = [IdleVerifier EXCEPT !.pc = "blockCounter", !.upTo = b.height, !.began = counter] /\ verifier' = W
    BY <2>3
  <2>6. /\ DOMAIN W = DOMAIN IdleVerifier /\ W.pc = "blockCounter" /\ W.upTo = b.height
        /\ W.began = counter /\ W.found = {}
    BY <2>5 DEF IdleVerifier
  <2>7. Sees(W)
    BY <2>2, <2>6, SureFacts, SeesStart
  <2>8. /\ DOMAIN N = DOMAIN Offline /\ N.run = "replay" /\ N.ask = offline.ask /\ N.at = offline.at
        /\ N.ctr = offline.ctr /\ N.began = offline.began /\ N.found = offline.found /\ N.pc = "sqlBlocks"
        /\ N.root = offline.root /\ N.deleted = offline.deleted
    BY <1>1, <2>4 DEF Offline
  <2>9. Follows(N, W)
    BY <1>1, <2>2, <2>6, <2>8, SureFacts DEF Follows, BlockChecks
  <2> QED
    BY <2>3, <2>4, <2>5, <2>7, <2>9, FollowsNow
<1> QED
  BY <1>2, <1>3

\* A replay names the block that covers its point, and only what is true of the point is proven.
LEMMA DoAnswer ==
  ASSUME Sure, OInv, Answer
  PROVE  OInv'
<1>1. /\ Follows(offline, verifier) /\ offline.pc = "expected" /\ offline.run = "replay"
      /\ offline.ask \in {"end", "block", "claim"} /\ DOMAIN offline = DOMAIN Offline
      /\ offline.at \in Nat /\ offline.ctr \in Nat /\ offline.began \in Nat /\ offline.began <= counter
      /\ offline.at <= counter
      /\ (offline.ask = "claim" => \E c \in proven : c.at = offline.at)
      /\ offline.root = RootOf(offline.at) /\ offline.deleted = DeletedOf(offline.at)
      /\ offline.found \subseteq Overtakings \cup {"liveDiffers", "liveUnknown"}
      /\ (offline.found # {} => counter > offline.began)
      /\ (offline.at < offline.ctr => offline.found = {})
  BY DEF OInv, Follows, Answer, Replaying
<1>2. PICK b : b = Covering(offline.at)
  OBVIOUS
<1>3. ~(offline.ask = "claim" /\ \E c \in proven : c.block # b)
  <2> SUFFICES ASSUME offline.ask = "claim", NEW c \in proven PROVE c.block = b
    OBVIOUS
  <2>1. PICK d \in proven : d.at = offline.at
    BY <1>1
  <2>2. c = d /\ Proves(c)
    BY DEF OInv
  <2> QED
    BY <1>2, <2>1, <2>2 DEF Proves
<1>4. /\ offline' = [offline EXCEPT !.block = b, !.found = offline.found, !.pc = "done"]
      /\ proven' = IF proven = {} /\ offline.found = {} /\ b # Uncovered
                   THEN {[at |-> offline.at, root |-> offline.root, deleted |-> offline.deleted, block |-> b]}
                   ELSE proven
      /\ UNCHANGED verifyVars
  <2>1. Found(When(offline.ask = "claim" /\ \E c \in proven : c.block # b, "blockDiffers")) = offline.found
    BY <1>3 DEF Found, When
  <2> QED
    BY <1>2, <2>1 DEF Answer
<1>5. PICK N : N = [offline EXCEPT !.block = b, !.found = offline.found, !.pc = "done"] /\ offline' = N
  BY <1>4
<1>6. /\ DOMAIN N = DOMAIN Offline /\ N.run = "replay" /\ N.ask = offline.ask /\ N.at = offline.at
      /\ N.ctr = offline.ctr /\ N.began = offline.began /\ N.found = offline.found /\ N.pc = "done"
  BY <1>1, <1>5 DEF Offline
<1>7. PICK W : W = verifier
  OBVIOUS
<1>8. UNCHANGED vars /\ verifier' = W /\ Sees(W)
  BY <1>4, <1>7 DEF verifyVars, OInv
<1>9. Sees(verifier)'
  BY <1>8, SeesNow
<1>10. Follows(N, W)'
  BY <1>1, <1>6, <1>8 DEF Follows, Replaying, vars
<1>11. Follows(offline, verifier)'
  BY <1>5, <1>8, <1>10 DEF Follows
<1>12. \A c, d \in proven' : c = d
  BY <1>4 DEF OInv
<1>13. ASSUME NEW c \in proven' PROVE Proves(c)
  <2>1. CASE c \in proven
    BY <2>1 DEF OInv
  <2>2. CASE c \notin proven
    <3>1. b # Uncovered /\ c = [at |-> offline.at, root |-> offline.root, deleted |-> offline.deleted, block |-> b]
      BY <1>4, <1>13, <2>2
    <3>2. c.at = offline.at /\ c.root = offline.root /\ c.deleted = offline.deleted /\ c.block = b
      BY <3>1
    <3>3. offline.at \in 0..counter
      BY <1>1, SureFacts
    <3> QED
      BY <1>1, <1>2, <3>1, <3>2, <3>3 DEF Proves
  <2> QED
    BY <2>1, <2>2
<1>14. \A c \in proven' : Proves(c)'
  BY <1>8, <1>13 DEF vars, Proves, RootOf, DeletedOf, UpTo, Covering
<1> QED
  BY <1>9, <1>11, <1>12, <1>14 DEF OInv

\* pg_verify starts with the history.
LEMMA DoStartVerify ==
  ASSUME Sure, OInv, StartVerify
  PROVE  OInv'
<1>1. PICK N : N = [Offline EXCEPT !.pc = "sqlHistory", !.run = "verify", !.began = counter] /\ offline' = N
  BY DEF StartVerify
<1>2. PICK W : W = [IdleVerifier EXCEPT !.pc = "chain", !.began = counter] /\ verifier' = W
  BY DEF StartVerify
<1>3. /\ DOMAIN N = DOMAIN Offline /\ N.run = "verify" /\ N.ask = "end" /\ N.at = 0 /\ N.ctr = 0
      /\ N.began = counter /\ N.found = {} /\ N.pc = "sqlHistory"
  BY <1>1 DEF Offline
<1>4. /\ DOMAIN W = DOMAIN IdleVerifier /\ W.pc = "chain" /\ W.upTo = 0 /\ W.began = counter /\ W.found = {}
  BY <1>2 DEF IdleVerifier
<1>5. Sees(W)
  BY <1>4, SureFacts, SeesStart
<1>6. Follows(N, W)
  BY <1>3, <1>4, SureFacts DEF Follows, HistoryChecks
<1> QED
  BY <1>1, <1>2, <1>5, <1>6, FollowsNow DEF StartVerify

\* What the verifier of the history found is taken over, and that of the blocks starts.
LEMMA DoHistoryVerified ==
  ASSUME Sure, OInv, HistoryVerified
  PROVE  OInv'
<1>1. PICK f : f = Found(verifier.found)
  OBVIOUS
<1>2. PICK N : N = [offline EXCEPT !.found = f, !.pc = "sqlBlocks"] /\ offline' = N
  BY <1>1 DEF HistoryVerified
<1>3. PICK W : W = [IdleVerifier EXCEPT !.pc = "blockCounter", !.began = counter] /\ verifier' = W
  BY DEF HistoryVerified
<1>4. /\ offline.pc = "sqlHistory" /\ offline.run = "verify" /\ offline.ask \in {"end", "block", "claim"}
      /\ DOMAIN offline = DOMAIN Offline /\ offline.at \in Nat /\ offline.ctr \in Nat
      /\ offline.began \in Nat /\ offline.began <= counter /\ offline.began <= verifier.began
      /\ offline.found \subseteq Overtakings \cup {"liveDiffers", "liveUnknown"}
      /\ (offline.found # {} => counter > offline.began)
      /\ verifier.found \subseteq Overtakings /\ (verifier.found # {} => counter > verifier.began)
      /\ verifier.began \in Nat
  BY DEF OInv, Follows, Sees, HistoryVerified
<1>5. f \subseteq Overtakings \cup {"liveDiffers", "liveUnknown"} /\ (f # {} => counter > offline.began)
  <2>1. f = offline.found \cup verifier.found
    BY <1>1 DEF Found
  <2> QED
    BY <1>4, <2>1, SureFacts
<1>6. /\ DOMAIN N = DOMAIN Offline /\ N.run = "verify" /\ N.ask = offline.ask /\ N.at = offline.at
      /\ N.ctr = offline.ctr /\ N.began = offline.began /\ N.found = f /\ N.pc = "sqlBlocks"
  BY <1>2, <1>4 DEF Offline
<1>7. /\ DOMAIN W = DOMAIN IdleVerifier /\ W.pc = "blockCounter" /\ W.upTo = 0
      /\ W.began = counter /\ W.found = {}
  BY <1>3 DEF IdleVerifier
<1>8. Sees(W)
  BY <1>7, SureFacts, SeesStart
<1>9. Follows(N, W)
  BY <1>4, <1>5, <1>6, <1>7, SureFacts DEF Follows, BlockChecks
<1> QED
  BY <1>2, <1>3, <1>8, <1>9, FollowsNow DEF HistoryVerified

\* What the verifier of the blocks found is taken over; of a replay's blocks it found nothing.
LEMMA DoBlocksVerified ==
  ASSUME Sure, OInv, BlocksVerified
  PROVE  OInv'
<1>1. PICK f : f = Found(verifier.found)
  OBVIOUS
<1>2. PICK rows : rows = IF verifier.upTo = 0 THEN blocks ELSE SubSeq(blocks, 1, verifier.upTo)
  OBVIOUS
<1>3. PICK N : N = [offline EXCEPT !.found = f, !.pc = "recompute", !.last = 0, !.rows = rows] /\ offline' = N
  BY <1>1, <1>2 DEF BlocksVerified
<1>4. PICK W : W = IdleVerifier /\ verifier' = W
  BY DEF BlocksVerified
<1>5. /\ Follows(offline, verifier) /\ offline.pc = "sqlBlocks" /\ offline.run \in {"replay", "verify"}
      /\ offline.ask \in {"end", "block", "claim"}
      /\ DOMAIN offline = DOMAIN Offline /\ offline.at \in Nat /\ offline.ctr \in Nat
      /\ offline.began \in Nat /\ offline.began <= counter /\ offline.began <= verifier.began
      /\ offline.found \subseteq Overtakings \cup {"liveDiffers", "liveUnknown"}
      /\ (offline.found # {} => counter > offline.began)
      /\ verifier.found \subseteq Overtakings
      /\ (verifier.found # {} => counter > verifier.began /\ verifier.upTo = 0)
      /\ verifier.began \in Nat /\ verifier.upTo \in 0..Len(blocks)
      /\ (offline.run = "replay" => verifier.upTo # 0)
  BY DEF OInv, Follows, Sees, BlocksVerified
<1>6. f = offline.found \cup verifier.found
  BY <1>1 DEF Found
<1>7. f \subseteq Overtakings \cup {"liveDiffers", "liveUnknown"} /\ (f # {} => counter > offline.began)
  BY <1>5, <1>6, SureFacts
<1>8. offline.run = "replay" => f = offline.found
  BY <1>5, <1>6
<1>9. LoopFits(rows, 0)
  <2>1. CASE verifier.upTo = 0
    BY <1>2, <2>1, SureFacts, WholeLoop
  <2>2. CASE verifier.upTo # 0
    BY <1>2, <1>5, <2>2, LoopStarts
  <2> QED
    BY <2>1, <2>2
<1>10. /\ DOMAIN N = DOMAIN Offline /\ N.run = offline.run /\ N.ask = offline.ask /\ N.at = offline.at
       /\ N.ctr = offline.ctr /\ N.began = offline.began /\ N.found = f /\ N.pc = "recompute"
       /\ N.root = offline.root /\ N.deleted = offline.deleted /\ N.rows = rows /\ N.last = 0
  BY <1>3, <1>5 DEF Offline
<1>11. offline.run = "replay" =>
        /\ offline.at <= counter /\ offline.at <= offline.ctr /\ offline.began <= offline.ctr /\ offline.ctr <= counter
        /\ (offline.ask = "claim" => \E c \in proven : c.at = offline.at)
        /\ offline.root = RootOf(offline.at) /\ offline.deleted = DeletedOf(offline.at)
        /\ (offline.at < offline.ctr => offline.found = {})
  BY <1>5 DEF Follows, Replaying
<1>12. Follows(N, W)
  BY <1>5, <1>7, <1>8, <1>9, <1>10, <1>11 DEF Follows
<1>13. Sees(W)
  BY <1>4, SeesIdle
<1> QED
  BY <1>3, <1>4, <1>12, <1>13, FollowsNow DEF BlocksVerified

\* The entries of each block are the block's, and the blocks follow one another.
LEMMA DoRecompute ==
  ASSUME Sure, OInv, Recompute
  PROVE  OInv'
<1>1. PICK b : b = Head(offline.rows)
  OBVIOUS
<1>2. /\ Follows(offline, verifier) /\ offline.pc = "recompute" /\ offline.rows # <<>>
      /\ LoopFits(offline.rows, offline.last) /\ DOMAIN offline = DOMAIN Offline
  BY DEF OInv, Follows, Recompute
<1>3. /\ b.first = offline.last + 1
      /\ EntriesOf(b.first, b.last) = b.entries
      /\ Cardinality(b.entries) = b.last - b.first + 1
      /\ LoopFits(Tail(offline.rows), b.last)
  BY <1>1, <1>2, LoopGoesOn
<1>4. Found(When(b.first # offline.last + 1, "notContinued")
            \cup When(Cardinality(EntriesOf(b.first, b.last)) # b.last - b.first + 1, "leavesMissing")
            \cup When(EntriesOf(b.first, b.last) # b.entries, "leavesDiffer")) = offline.found
  BY <1>3 DEF Found, When
<1>5. Take([offline EXCEPT !.found = offline.found, !.rows = Tail(@), !.last = b.last])
  BY <1>1, <1>4 DEF Recompute
<1>6. PICK N : N = [offline EXCEPT !.found = offline.found, !.rows = Tail(@), !.last = b.last] /\ Take(N)
  BY <1>5
<1>7. /\ DOMAIN N = DOMAIN Offline /\ N.run = offline.run /\ N.ask = offline.ask /\ N.at = offline.at
      /\ N.ctr = offline.ctr /\ N.began = offline.began /\ N.found = offline.found /\ N.pc = "recompute"
      /\ N.root = offline.root /\ N.deleted = offline.deleted /\ N.rows = Tail(offline.rows) /\ N.last = b.last
  BY <1>2, <1>6 DEF Offline
<1>8. Follows(N, verifier)
  BY <1>2, <1>3, <1>7 DEF Follows
<1> QED
  BY <1>6, <1>8, FollowsTaken

\* A replay goes on to its answer, pg_verify is done.
LEMMA DoRecomputed ==
  ASSUME Sure, OInv, Recomputed
  PROVE  OInv'
<1>1. PICK p : p = IF offline.run = "replay" THEN "expected" ELSE "done"
  OBVIOUS
<1>2. PICK N : N = [offline EXCEPT !.pc = p] /\ Take(N)
  BY <1>1 DEF Recomputed
<1>3. Follows(offline, verifier) /\ offline.pc = "recompute" /\ DOMAIN offline = DOMAIN Offline
  BY DEF OInv, Follows, Recomputed
<1>4. /\ DOMAIN N = DOMAIN Offline /\ N.run = offline.run /\ N.ask = offline.ask /\ N.at = offline.at
      /\ N.ctr = offline.ctr /\ N.began = offline.began /\ N.found = offline.found /\ N.pc = p
      /\ N.root = offline.root /\ N.deleted = offline.deleted
  BY <1>2, <1>3 DEF Offline
<1>5. CASE offline.run = "replay"
  <2>1. Follows(N, verifier)
    BY <1>1, <1>3, <1>4, <1>5 DEF Follows, Replaying
  <2> QED
    BY <1>2, <2>1, FollowsTaken
<1>6. CASE offline.run # "replay"
  <2>1. Follows(N, verifier)
    BY <1>1, <1>3, <1>4, <1>6 DEF Follows, Replaying
  <2> QED
    BY <1>2, <2>1, FollowsTaken
<1> QED
  BY <1>5, <1>6

\* A verifier that has begun with the history or with the blocks goes on with it.
LEMMA RunGoesOn ==
  ASSUME VerifyRun, Sees(verifier)
  PROVE  /\ verifier.pc \in HistoryChecks => verifier'.pc \in HistoryChecks \cup {"done"}
         /\ verifier.pc \in BlockChecks => verifier'.pc \in BlockChecks \cup {"done"}
         /\ verifier.pc \in HistoryChecks \cup BlockChecks
         /\ verifier'.began = verifier.began /\ verifier'.upTo = verifier.upTo
<1>1. DOMAIN verifier = DOMAIN IdleVerifier
  BY DEF Sees
<1>2. verifier.pc \in HistoryChecks \cup BlockChecks
  BY DEF VerifyRun, VerifyChain, VerifyCounter, VerifyNewest, VerifyGaps, OpenHeads, CheckHead, CheckNewer,
     HeadsDone, CheckNoHead, CheckRows, VerifyBlockCounter, OpenBlocks, CheckBlock, BlocksDone,
     HistoryChecks, BlockChecks
<1>3. CASE VerifyChain \/ VerifyNewest \/ VerifyGaps \/ CheckNewer \/ CheckNoHead \/ CheckRows
  <2>1. PICK f, p : verifier' = [verifier EXCEPT !.found = f, !.pc = p] /\ p \in HistoryChecks \cup {"done"}
    BY <1>3 DEF VerifyChain, VerifyNewest, VerifyGaps, CheckNewer, CheckNoHead, CheckRows, Verify, HistoryChecks
  <2>2. verifier.pc \notin BlockChecks
    BY <1>3 DEF VerifyChain, VerifyNewest, VerifyGaps, CheckNewer, CheckNoHead, CheckRows, BlockChecks
  <2>3. verifier'.pc = p /\ verifier'.began = verifier.began /\ verifier'.upTo = verifier.upTo
    BY <1>1, <2>1 DEF IdleVerifier
  <2> QED
    BY <1>2, <2>1, <2>2, <2>3
<1>4. CASE VerifyCounter
  <2>1. verifier' = [verifier EXCEPT !.ctr = counter, !.pc = "newest"] /\ verifier.pc = "counter"
    BY <1>4 DEF VerifyCounter, Verify
  <2>2. verifier'.pc = "newest" /\ verifier'.began = verifier.began /\ verifier'.upTo = verifier.upTo
    BY <1>1, <2>1 DEF IdleVerifier
  <2> QED
    BY <1>2, <2>1, <2>2 DEF HistoryChecks, BlockChecks
<1>5. CASE OpenHeads
  <2>1. PICK T : verifier' = [verifier EXCEPT !.todo = T, !.pc = "head"] /\ verifier.pc = "heads"
    BY <1>5 DEF OpenHeads, Verify
  <2>2. verifier'.pc = "head" /\ verifier'.began = verifier.began /\ verifier'.upTo = verifier.upTo
    BY <1>1, <2>1 DEF IdleVerifier
  <2> QED
    BY <1>2, <2>1, <2>2 DEF HistoryChecks, BlockChecks
<1>6. CASE CheckHead
  <2>1. PICK h \in verifier.todo :
          LET entry == {e \in history : e.seq = h[2].last /\ e.id = h[1]}
          IN verifier' = [verifier EXCEPT
               !.todo = @ \ {h}, !.head = h[1], !.last = h[2].last,
               !.found = Report(When(entry = {}, "headWithoutEntry")
                                 \cup When(\E e \in entry : (e.after = NoRow) # h[2].deleted, "deletedFlagWrong")),
               !.pc = IF entry = {} THEN "head" ELSE "newer"]
    BY <1>6 DEF CheckHead, Verify
  <2>2. PICK E : E = {e \in history : e.seq = h[2].last /\ e.id = h[1]}
    OBVIOUS
  <2>3. PICK f, p : /\ verifier' = [verifier EXCEPT !.todo = @ \ {h}, !.head = h[1], !.last = h[2].last,
                                                    !.found = f, !.pc = p]
                    /\ p = IF E = {} THEN "head" ELSE "newer"
    BY <2>1, <2>2
  <2>4. verifier'.pc = p /\ verifier'.began = verifier.began /\ verifier'.upTo = verifier.upTo
    BY <1>1, <2>3 DEF IdleVerifier
  <2>5. p \in {"head", "newer"} /\ verifier.pc = "head"
    BY <1>6, <2>3 DEF CheckHead
  <2> QED
    BY <1>2, <2>4, <2>5 DEF HistoryChecks, BlockChecks
<1>7. CASE HeadsDone
  <2>1. verifier' = [verifier EXCEPT !.pc = "noHead"] /\ verifier.pc = "head"
    BY <1>7 DEF HeadsDone, Verify
  <2>2. verifier'.pc = "noHead" /\ verifier'.began = verifier.began /\ verifier'.upTo = verifier.upTo
    BY <1>1, <2>1 DEF IdleVerifier
  <2> QED
    BY <1>2, <2>1, <2>2 DEF HistoryChecks, BlockChecks
<1>8. CASE VerifyBlockCounter
  <2>1. verifier' = [verifier EXCEPT !.ctr = counter, !.pc = "openBlocks"] /\ verifier.pc = "blockCounter"
    BY <1>8 DEF VerifyBlockCounter, Verify
  <2>2. verifier'.pc = "openBlocks" /\ verifier'.began = verifier.began /\ verifier'.upTo = verifier.upTo
    BY <1>1, <2>1 DEF IdleVerifier
  <2> QED
    BY <1>2, <2>1, <2>2 DEF HistoryChecks, BlockChecks
<1>9. CASE OpenBlocks
  <2>1. PICK loop : verifier' = [verifier EXCEPT !.loop = loop, !.last = 0, !.pc = "block"] /\ verifier.pc = "openBlocks"
    BY <1>9 DEF OpenBlocks, Verify
  <2>2. verifier'.pc = "block" /\ verifier'.began = verifier.began /\ verifier'.upTo = verifier.upTo
    BY <1>1, <2>1 DEF IdleVerifier
  <2> QED
    BY <1>2, <2>1, <2>2 DEF HistoryChecks, BlockChecks
<1>10. CASE CheckBlock
  <2>1. PICK f, b : verifier' = [verifier EXCEPT !.found = f, !.loop = Tail(@), !.last = b.last] /\ verifier.pc = "block"
    BY <1>10 DEF CheckBlock, Verify
  <2>2. verifier'.pc = verifier.pc /\ verifier'.began = verifier.began /\ verifier'.upTo = verifier.upTo
    BY <1>1, <2>1 DEF IdleVerifier
  <2> QED
    BY <1>2, <2>1, <2>2 DEF HistoryChecks, BlockChecks
<1>11. CASE BlocksDone
  <2>1. verifier' = [verifier EXCEPT !.pc = "done"] /\ verifier.pc = "block"
    BY <1>11 DEF BlocksDone, Verify
  <2>2. verifier'.pc = "done" /\ verifier'.began = verifier.began /\ verifier'.upTo = verifier.upTo
    BY <1>1, <2>1 DEF IdleVerifier
  <2> QED
    BY <1>2, <2>1, <2>2 DEF HistoryChecks, BlockChecks
<1> QED
  BY <1>3, <1>4, <1>5, <1>6, <1>7, <1>8, <1>9, <1>10, <1>11 DEF VerifyRun

\* The verifier's statements leave what the run that called it knows alone.
LEMMA DoRun ==
  ASSUME Sure, OInv, VerifyRun, UNCHANGED <<offline, proven>>
  PROVE  OInv'
<1>1. Sees(verifier)' /\ UNCHANGED vars
  BY SeesRun DEF OInv
<1>2. /\ verifier.pc \in HistoryChecks => verifier'.pc \in HistoryChecks \cup {"done"}
      /\ verifier.pc \in BlockChecks => verifier'.pc \in BlockChecks \cup {"done"}
      /\ verifier.pc # "done"
      /\ verifier'.began = verifier.began /\ verifier'.upTo = verifier.upTo
  BY RunGoesOn DEF OInv, HistoryChecks, BlockChecks
<1>3. PICK O : O = offline
  OBVIOUS
<1>4. Follows(O, verifier) /\ offline' = O
  BY <1>3 DEF OInv
<1>5. /\ O.pc = "sqlHistory" => O.run = "verify" /\ verifier'.pc \in HistoryChecks \cup {"done"}
      /\ O.pc = "sqlBlocks" => verifier'.pc \in BlockChecks \cup {"done"} /\ (O.run = "replay" => verifier'.upTo # 0)
      /\ O.pc \in {"sqlHistory", "sqlBlocks"} => O.began <= verifier'.began
  BY <1>2, <1>4 DEF Follows
<1>6. PICK W : W = verifier'
  OBVIOUS
<1>7. Follows(O, W)
  BY <1>4, <1>5, <1>6 DEF Follows
<1>8. Follows(O, W)'
  BY <1>1, <1>7 DEF vars, Follows, LoopFits, UpTo, RootOf, DeletedOf
<1>9. Follows(offline, verifier)'
  BY <1>4, <1>6, <1>8 DEF Follows
<1>10. \A c \in proven : Proves(c)'
  BY <1>1 DEF OInv, vars, Proves, RootOf, DeletedOf, UpTo, Covering
<1> QED
  BY <1>1, <1>9, <1>10 DEF OInv

\* The store moves on.
LEMMA DoStore ==
  ASSUME Sure, OInv, Next, UNCHANGED <<verifier, offline, proven>>
  PROVE  OInv'
<1>1. PICK O, V : O = offline /\ V = verifier
  OBVIOUS
<1>2. Follows(O, V) /\ Sees(V) /\ offline' = O /\ verifier' = V
  BY <1>1 DEF OInv
<1>3. Follows(O, V)' /\ Sees(V)'
  BY <1>2, FollowsStays, SeesStays
<1>4. Follows(offline, verifier)' /\ Sees(verifier)'
  BY <1>2, <1>3
<1>5. \A c \in proven : Proves(c)'
  BY ProvesStays DEF OInv
<1> QED
  BY <1>4, <1>5 DEF OInv

\* Neither the SQL verifiers nor the replays from the raw entries and pg_verify that run beside
\* writers and sealers report damage.
THEOREM OfflineRunsAreRight == OfflineSpec => []NoDamageInvented
<1>1. OfflineInit => Sure /\ OInv
  <2> SUFFICES ASSUME OfflineInit PROVE Sure /\ OInv
    OBVIOUS
  <2>1. Sure
    BY SureInit DEF OfflineInit, VerifyInit
  <2>2. Sees(verifier)
    BY <2>1, SeesIdle DEF OfflineInit, VerifyInit
  <2>3. Follows(offline, verifier)
    BY <2>1, SureFacts DEF OfflineInit, Offline, Follows, Replaying
  <2> QED
    BY <2>1, <2>2, <2>3 DEF OInv, OfflineInit
<1>2. Sure /\ OInv /\ [OfflineNext]_offVars => (Sure /\ OInv)'
  <2> SUFFICES ASSUME Sure, OInv, [OfflineNext]_offVars
               PROVE  Sure' /\ OInv'
    OBVIOUS
  <2>1. CASE Next /\ UNCHANGED <<verifier, offline, proven>>
    BY <2>1, DoStore, SureStep
  <2>2. CASE VerifyRun /\ UNCHANGED <<offline, proven>>
    BY <2>2, DoRun, SeesRun, SureNow DEF OInv
  <2>3. CASE OfflineStep
    <3>1. OInv'
      BY <2>3, DoStartReplay, DoResolve, DoReadEnd, DoReadHistory, DoFold, DoCheckLive, DoCheckCovering, DoAnswer,
         DoStartVerify, DoHistoryVerified, DoBlocksVerified, DoRecompute, DoRecomputed DEF OfflineStep
    <3>2. UNCHANGED vars
      BY <2>3 DEF OfflineStep, StartReplay, Resolve, ReadEnd, ReadHistory, Fold, CheckLive, CheckCovering, Answer,
         StartVerify, HistoryVerified, BlocksVerified, Recompute, Recomputed, Take, verifyVars
    <3> QED
      BY <3>1, <3>2, SureNow
  <2>4. CASE UNCHANGED offVars
    <3>1. UNCHANGED <<vars, proven>> /\ offline' = offline /\ verifier' = verifier
      BY <2>4 DEF offVars, verifyVars
    <3>2. PICK N, W : N = offline /\ W = verifier
      OBVIOUS
    <3>3. Follows(N, W) /\ Sees(W) /\ offline' = N /\ verifier' = W
      BY <3>1, <3>2 DEF OInv
    <3> QED
      BY <3>1, <3>3, FollowsNow, SureNow
  <2> QED
    BY <2>1, <2>2, <2>3, <2>4 DEF OfflineNext
<1>3. OInv => NoDamageInvented
  BY DEF OInv, Sees, Follows, NoDamageInvented, VerifierIsRight, OfflineIsRight, Overtakings
<1> QED
  BY <1>1, <1>2, <1>3, PTL DEF OfflineSpec
=====
