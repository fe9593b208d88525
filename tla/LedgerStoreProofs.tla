-------------------------- MODULE LedgerStoreProofs --------------------------
(***************************************************************************)
(* Invariants of LedgerStore, for every set of requests, sealers and ids,  *)
(* every workload and every bound.                                         *)
(***************************************************************************)
EXTENDS LedgerStore, FiniteSetTheorems, FunctionTheorems, TLAPS

(* What the program counter of a request says about its job and its transaction. *)
JobFits(r) ==
  /\ pc[r] \in {"read", "write"} => job[r].op = "update"
  /\ pc[r] \in {"lockRow", "cascade"} => job[r].op = "delete"
  /\ pc[r] = "insert" => job[r].op = "create"
  /\ pc[r] \in {"checkTarget"} => job[r].op \in {"create", "update"}
  /\ pc[r] = "shareTarget" => Target(r) \in Ids
  /\ pc[r] # "done" => attempt[r] < MaxAttempts

Typed == TypeOK /\ \A r \in Requests : JobFits(r)

(* Only one transaction at a time holds the counter row ... *)
OneCounting ==
  \A r, q \in Requests : tx[r].ctr # 0 /\ tx[q].ctr # 0 => r = q

(* ... and its uncommitted entries continue the numbering without a hole. *)
PendingNumbered ==
  \A r \in Requests :
    /\ tx[r].ctr = 0 => tx[r].pend = {}
    /\ tx[r].ctr # 0 =>
         /\ tx[r].ctr > counter
         /\ \A q \in (counter + 1)..tx[r].ctr : \E e \in tx[r].pend : e.seq = q
         /\ \A e \in tx[r].pend : e.seq \in (counter + 1)..tx[r].ctr
         /\ \A e, f \in tx[r].pend : e.seq = f.seq => e = f

Counting == OneCounting /\ PendingNumbered /\ CounterBacked

(* Sealers work one at a time, on a tip nobody else can move. *)
OneSealing ==
  \A s, z \in Sealers : sealer[s].pc # "idle" /\ sealer[z].pc # "idle" => s = z

SealerKnows ==
  \A s \in Sealers :
    /\ sealer[s].pc \in {"tip", "insert"} => sealer[s].ctr <= counter
    /\ sealer[s].pc = "insert" =>
         /\ sealer[s].height = Len(blocks)
         /\ sealer[s].last = SealedTo
         /\ sealer[s].last < sealer[s].ctr

Sealing == OneSealing /\ SealerKnows /\ BlocksTileHistory

IInv == Typed /\ Counting /\ Sealing

-----------------------------------------------------------------------------
(* Types *)

\* What a job's operation says about its fields.
LEMMA JobShape ==
  ASSUME TypeOK, NEW r \in Requests
  PROVE  /\ job[r] \in JobType
         /\ job[r].op \in {"create", "update", "delete"}
         /\ job[r].op # "create" => job[r].id \in Ids
         /\ job[r].op = "update" => job[r].target \in Ids \cup {NoId, Keep}
         /\ job[r].op # "update" => job[r].target \in Ids \cup {NoId}
  BY DEF TypeOK, JobType

\* The supersedes value a row will have is an id or none.
LEMMA TargetType ==
  ASSUME TypeOK, NEW r \in Requests
  PROVE  Target(r) \in Ids \cup {NoId}
  BY JobShape, ConstantsOK DEF TypeOK, Target, RowType

\* A prev_hash names an entry or none.
LEMMA LatestSeqType ==
  ASSUME TypeOK, NEW m
  PROVE  LatestSeq(m) \in Nat
<1>1. CASE \E e \in history : IsLatest(e, m)
  <2>1. (CHOOSE e \in history : IsLatest(e, m)) \in history
    BY <1>1
  <2>2. QED
    BY <1>1, <2>1 DEF TypeOK, EntryType, LatestSeq
<1>2. CASE ~\E e \in history : IsLatest(e, m)
  BY <1>2 DEF LatestSeq
<1>3. QED
  BY <1>1, <1>2

\* The image a transaction leaves of a record is a row.
LEMMA NewImageType ==
  ASSUME TypeOK, NEW r \in Requests, NEW m \in Ids
  PROVE  NewImage(r, m) \in RowType
<1>1. memories[m] \in RowType /\ seen[r] \in RowType
  BY DEF TypeOK
<1>2. CASE job[r].op = "create"
  BY <1>2, JobShape DEF NewImage, RowType
<1>3. CASE job[r].op = "update"
  BY <1>1, <1>3, TargetType DEF NewImage, RowType
<1>4. CASE job[r].op = "delete"
  BY <1>1, <1>4 DEF NewImage, RowType, NoRow
<1>5. QED
  BY <1>2, <1>3, <1>4, JobShape

\* A transaction that has just begun holds nothing.
LEMMA NoTxType == NoTx \in TxType
  BY DEF NoTx, TxType

\* The counter row hands out positive numbers.
LEMMA NextSeqType ==
  ASSUME TypeOK, NEW r \in Requests
  PROVE  NextSeq(r) \in Nat \ {0}
  BY DEF TypeOK, NextSeq, TxType

\* The seeded store is well typed, and every request is before its first statement.
THEOREM TypedInit == Init => Typed
<1> SUFFICES ASSUME Init PROVE Typed
  OBVIOUS
<1>1. \A i \in 1..Len(Seed) : SeedRow(i) \in RowType
  BY ConstantsOK DEF SeedRow, RowType
<1>2. \A i \in 1..Len(Seed) : SeedEntry(i) \in EntryType
  BY <1>1, ConstantsOK DEF SeedEntry, EntryType, NoRow, RowType
<1>3. \A m \in Ids : SeedIndexes(m) # {} => (CHOOSE i \in SeedIndexes(m) : TRUE) \in 1..Len(Seed)
  BY DEF SeedIndexes
<1>4. memories \in [Ids -> RowType]
  BY <1>1, <1>3 DEF Init, NoRow, RowType
<1>5. heads \in [Ids -> HeadType]
  BY <1>3 DEF Init, HeadType
<1>6. history \subseteq EntryType /\ counter \in Nat
  BY <1>2, ConstantsOK DEF Init
<1>7. NoJob \in JobType /\ IdleSealer \in SealerType
  BY DEF NoJob, JobType, IdleSealer, SealerType
<1>8. NoRow \in RowType
  BY DEF NoRow, RowType
<1>9. TypeOK
  <2>1. blocks \in Seq(BlockType)
    BY DEF Init
  <2>2. job \in [Requests -> JobType] /\ pc \in [Requests -> Pcs] /\ answer \in [Requests -> Answers]
    BY <1>7 DEF Init, Pcs, Answers
  <2>3. attempt \in [Requests -> 0..MaxAttempts] /\ seen \in [Requests -> RowType]
    BY <1>8, ConstantsOK DEF Init
  <2>4. tx \in [Requests -> TxType] /\ sealer \in [Sealers -> SealerType]
    BY <1>7, NoTxType DEF Init
  <2>5. QED
    BY <1>4, <1>5, <1>6, <2>1, <2>2, <2>3, <2>4 DEF TypeOK
<1>10. \A r \in Requests : JobFits(r)
  BY ConstantsOK DEF Init, JobFits
<1>11. QED
  BY <1>9, <1>10 DEF Typed

\* Ending a transaction keeps the types.
LEMMA EndType ==
  ASSUME TypeOK, NEW r \in Requests, NEW a \in Answers, EndWithout(r, a)
  PROVE  /\ tx' \in [Requests -> TxType] /\ answer' \in [Requests -> Answers]
         /\ pc' \in [Requests -> Pcs]
  BY NoTxType DEF TypeOK, EndWithout, Go, Pcs

\* A step of r leaves the facts about the other requests alone.
LEMMA OthersFit ==
  ASSUME Typed, NEW r \in Requests, NEW q \in Requests, q # r,
         job'[q] = job[q], pc'[q] = pc[q], seen'[q] = seen[q], attempt'[q] = attempt[q]
  PROVE  JobFits(q)'
  BY DEF Typed, JobFits, Target

\* A request that arrives starts at the first statement of its operation.
LEMMA TypedBegin ==
  ASSUME Typed, NEW r \in Requests, Begin(r)
  PROVE  Typed'
<1>1. PICK j \in Workload : /\ job' = [job EXCEPT ![r] = j]
                            /\ pc' = [pc EXCEPT ![r] = FirstPc(j)]
  BY DEF Begin, Go
<1>2. j \in JobType
  BY <1>1, ConstantsOK
<1>3. job' \in [Requests -> JobType] /\ pc' \in [Requests -> Pcs]
  BY <1>1, <1>2 DEF Typed, TypeOK, FirstPc, Pcs
<1>4. TypeOK'
  BY <1>3 DEF Typed, TypeOK, Begin, tables
<1>5. JobFits(r)'
  BY <1>1, <1>2 DEF Typed, TypeOK, JobFits, FirstPc, JobType, Begin
<1>6. \A q \in Requests : JobFits(q)'
  BY <1>1, <1>5, OthersFit DEF Typed, TypeOK, Begin
<1>7. QED
  BY <1>4, <1>6 DEF Typed

\* The SELECT of update_memory keeps the types.
LEMMA TypedReadRow ==
  ASSUME Typed, NEW r \in Requests, ReadRow(r)
  PROVE  Typed'
<1>1. TypeOK
  BY DEF Typed
<1>2. CASE \E a \in {"absent", "conflict"} : EndWithout(r, a) /\ seen' = seen
  <2>1. TypeOK'
    BY <1>1, <1>2, EndType DEF TypeOK, ReadRow, tables, Answers
  <2>2. JobFits(r)'
    BY <1>1, <1>2 DEF TypeOK, JobFits, EndWithout, Go
  <2>3. \A q \in Requests : JobFits(q)'
    BY <1>1, <1>2, <2>2, OthersFit DEF TypeOK, ReadRow, EndWithout, Go
  <2>4. QED
    BY <2>1, <2>3 DEF Typed
<1>3. CASE seen' = [seen EXCEPT ![r] = memories[job[r].id]] /\ Go(r, "checkTarget") /\ UNCHANGED <<tx, answer>>
  <2>1. job[r].op = "update" /\ job[r].id \in Ids
    BY <1>1, JobShape DEF Typed, JobFits, ReadRow
  <2>2. seen' \in [Requests -> RowType] /\ pc' \in [Requests -> Pcs]
    BY <1>1, <1>3, <2>1 DEF TypeOK, Go, Pcs
  <2>3. TypeOK'
    BY <1>1, <1>3, <2>2 DEF TypeOK, ReadRow, tables
  <2>4. JobFits(r)'
    BY <1>1, <1>3, <2>1 DEF Typed, TypeOK, JobFits, ReadRow, Go
  <2>5. \A q \in Requests : JobFits(q)'
    BY <1>1, <1>3, <2>4, OthersFit DEF TypeOK, ReadRow, Go
  <2>6. QED
    BY <2>3, <2>5 DEF Typed
<1>4. QED
  BY <1>2, <1>3 DEF ReadRow

\* _supersedes_exists keeps the types.
LEMMA TypedCheckTarget ==
  ASSUME Typed, NEW r \in Requests, CheckTarget(r)
  PROVE  Typed'
<1>1. TypeOK
  BY DEF Typed
<1>2. /\ tx' \in [Requests -> TxType] /\ answer' \in [Requests -> Answers]
      /\ pc' \in [Requests -> Pcs]
  <2>1. CASE EndWithout(r, "badTarget")
    BY <1>1, <2>1, EndType DEF Answers
  <2>2. CASE ~EndWithout(r, "badTarget")
    BY <1>1, <2>2 DEF TypeOK, CheckTarget, Go, Pcs
  <2>3. QED
    BY <2>1, <2>2
<1>3. TypeOK'
  BY <1>1, <1>2 DEF TypeOK, CheckTarget, tables
<1>4. JobFits(r)'
  BY <1>1, JobShape DEF Typed, TypeOK, JobFits, CheckTarget, EndWithout, Go
<1>5. \A q \in Requests : JobFits(q)'
  BY <1>1, <1>4, OthersFit DEF TypeOK, CheckTarget, EndWithout, Go
<1>6. QED
  BY <1>3, <1>5 DEF Typed

\* Taking locks keeps the type of a transaction.
LEMMA LocksType ==
  ASSUME TypeOK, NEW r \in Requests, NEW L \in SUBSET Ids
  PROVE  /\ [tx[r] EXCEPT !.locks = L] \in TxType
         /\ [tx[r] EXCEPT !.shares = L] \in TxType
         /\ tx[r].locks \subseteq Ids
  BY DEF TypeOK, TxType

\* The UPDATE of update_memory keeps the types, and the attempts stay below their bound.
LEMMA TypedWriteRow ==
  ASSUME Typed, NEW r \in Requests, WriteRow(r)
  PROVE  Typed'
<1>1. TypeOK
  BY DEF Typed
<1>2. job[r].op = "update" /\ job[r].id \in Ids /\ attempt[r] < MaxAttempts
  BY <1>1, JobShape DEF Typed, JobFits, WriteRow
<1>3. CASE VersionMatches(r) /\ tx' = [tx EXCEPT ![r].locks = {job[r].id}]
             /\ Go(r, IF Target(r) \in {NoId, seen[r].supersedes} THEN "capture" ELSE "shareTarget")
             /\ UNCHANGED <<attempt, answer>>
  <2>1. tx' \in [Requests -> TxType] /\ pc' \in [Requests -> Pcs]
    BY <1>1, <1>2, <1>3, LocksType DEF TypeOK, Go, Pcs
  <2>2. TypeOK'
    BY <1>1, <1>3, <2>1 DEF TypeOK, WriteRow, tables
  <2>3. JobFits(r)'
    <3>1. pc'[r] = "shareTarget" => Target(r)' \in Ids
      BY <1>1, <1>3, TargetType DEF TypeOK, WriteRow, Go, Target
    <3>2. QED
      BY <1>1, <1>2, <1>3, <3>1 DEF TypeOK, JobFits, WriteRow, Go
  <2>4. \A q \in Requests : JobFits(q)'
    BY <1>1, <1>3, <2>3, OthersFit DEF TypeOK, WriteRow, Go
  <2>5. QED
    BY <2>2, <2>4 DEF Typed
<1>4. CASE attempt' = [attempt EXCEPT ![r] = @ + 1] /\ EndWithout(r, "conflict")
  <2>1. attempt' \in [Requests -> 0..MaxAttempts]
    BY <1>1, <1>2, <1>4, ConstantsOK DEF TypeOK
  <2>2. TypeOK'
    BY <1>1, <1>4, <2>1, EndType DEF TypeOK, WriteRow, tables, Answers
  <2>3. JobFits(r)'
    BY <1>1, <1>4 DEF TypeOK, JobFits, EndWithout, Go
  <2>4. \A q \in Requests : JobFits(q)'
    BY <1>1, <1>4, <2>3, OthersFit DEF TypeOK, WriteRow, EndWithout, Go
  <2>5. QED
    BY <2>2, <2>4 DEF Typed
<1>5. CASE /\ attempt' = [attempt EXCEPT ![r] = @ + 1] /\ ~LastAttempt(r)
           /\ Go(r, RetryFrom) /\ UNCHANGED <<tx, answer>>
  <2>1. attempt' \in [Requests -> 0..MaxAttempts] /\ attempt'[r] < MaxAttempts
    BY <1>1, <1>2, <1>5, ConstantsOK DEF TypeOK, LastAttempt
  <2>2. pc' \in [Requests -> Pcs] /\ pc'[r] = "read"
    BY <1>1, <1>5 DEF TypeOK, Go, Pcs, RetryFrom
  <2>3. TypeOK'
    BY <1>1, <1>5, <2>1, <2>2 DEF TypeOK, WriteRow, tables
  <2>4. JobFits(r)'
    BY <1>2, <2>1, <2>2 DEF JobFits, WriteRow
  <2>5. \A q \in Requests : JobFits(q)'
    BY <1>1, <1>5, <2>4, OthersFit DEF TypeOK, WriteRow, Go
  <2>6. QED
    BY <2>3, <2>5 DEF Typed
<1>6. QED
  BY <1>3, <1>4, <1>5 DEF WriteRow

\* The INSERT of create_memory keeps the types.
LEMMA TypedInsertRow ==
  ASSUME Typed, NEW r \in Requests, InsertRow(r)
  PROVE  Typed'
<1>1. TypeOK
  BY DEF Typed
<1>2. PICK m \in Ids : job' = [job EXCEPT ![r].id = m] /\ tx' = [tx EXCEPT ![r].locks = {m}]
  BY DEF InsertRow
<1>3. job[r].op = "create" /\ job[r].target \in Ids \cup {NoId}
  BY <1>1, JobShape DEF Typed, JobFits, InsertRow
<1>4. [job[r] EXCEPT !.id = m] \in JobType
  BY <1>1, <1>3 DEF TypeOK, JobType
<1>5. job' \in [Requests -> JobType] /\ tx' \in [Requests -> TxType] /\ pc' \in [Requests -> Pcs]
  BY <1>1, <1>2, <1>4, LocksType DEF TypeOK, InsertRow, Go, Pcs
<1>6. TypeOK'
  BY <1>1, <1>5 DEF TypeOK, InsertRow, tables
<1>7. job'[r].op = "create" /\ job'[r].target = job[r].target
  BY <1>1, <1>2, <1>3 DEF TypeOK, JobType
<1>8. JobFits(r)'
  BY <1>1, <1>3, <1>7, ConstantsOK DEF Typed, TypeOK, JobFits, InsertRow, Go, Target
<1>9. \A q \in Requests : JobFits(q)'
  BY <1>1, <1>2, <1>8, OthersFit DEF TypeOK, InsertRow, Go
<1>10. QED
  BY <1>6, <1>9 DEF Typed

\* The foreign-key check keeps the types.
LEMMA TypedShareTarget ==
  ASSUME Typed, NEW r \in Requests, ShareTarget(r)
  PROVE  Typed'
<1>1. TypeOK /\ Target(r) \in Ids
  BY DEF Typed, JobFits, ShareTarget
<1>2. /\ tx' \in [Requests -> TxType] /\ answer' \in [Requests -> Answers]
      /\ pc' \in [Requests -> Pcs]
  <2>1. CASE EndWithout(r, "badTarget")
    BY <1>1, <2>1, EndType DEF Answers
  <2>2. CASE ~EndWithout(r, "badTarget")
    <3>1. tx' = [tx EXCEPT ![r].shares = {Target(r)}] /\ pc' = [pc EXCEPT ![r] = "capture"] /\ answer' = answer
      BY <2>2 DEF ShareTarget, Go
    <3>2. [tx[r] EXCEPT !.shares = {Target(r)}] \in TxType
      BY <1>1, LocksType
    <3>3. QED
      BY <1>1, <3>1, <3>2 DEF TypeOK, Pcs
  <2>3. QED
    BY <2>1, <2>2
<1>3. TypeOK'
  BY <1>1, <1>2 DEF TypeOK, ShareTarget, tables
<1>4. JobFits(r)'
  BY <1>1 DEF Typed, TypeOK, JobFits, ShareTarget, EndWithout, Go
<1>5. \A q \in Requests : JobFits(q)'
  BY <1>1, <1>4, OthersFit DEF TypeOK, ShareTarget, EndWithout, Go
<1>6. QED
  BY <1>3, <1>5 DEF Typed

\* The DELETE of delete_memory keeps the types.
LEMMA TypedLockRow ==
  ASSUME Typed, NEW r \in Requests, LockRow(r)
  PROVE  Typed'
<1>1. TypeOK /\ job[r].op = "delete" /\ job[r].id \in Ids
  BY JobShape DEF Typed, JobFits, LockRow
<1>2. /\ tx' \in [Requests -> TxType] /\ answer' \in [Requests -> Answers]
      /\ pc' \in [Requests -> Pcs]
  <2>1. CASE EndWithout(r, "absent")
    BY <1>1, <2>1, EndType DEF Answers
  <2>2. CASE ~EndWithout(r, "absent")
    <3>1. tx' = [tx EXCEPT ![r].locks = {job[r].id}] /\ pc' = [pc EXCEPT ![r] = "cascade"] /\ answer' = answer
      BY <2>2 DEF LockRow, Go
    <3>2. [tx[r] EXCEPT !.locks = {job[r].id}] \in TxType
      BY <1>1, LocksType
    <3>3. QED
      BY <1>1, <3>1, <3>2 DEF TypeOK, Pcs
  <2>3. QED
    BY <2>1, <2>2
<1>3. TypeOK'
  BY <1>1, <1>2 DEF TypeOK, LockRow, tables
<1>4. JobFits(r)'
  BY <1>1 DEF Typed, TypeOK, JobFits, LockRow, EndWithout, Go
<1>5. \A q \in Requests : JobFits(q)'
  BY <1>1, <1>4, OthersFit DEF TypeOK, LockRow, EndWithout, Go
<1>6. QED
  BY <1>3, <1>5 DEF Typed

\* ON DELETE SET NULL keeps the types.
LEMMA TypedDetachRow ==
  ASSUME Typed, NEW r \in Requests, DetachRow(r)
  PROVE  Typed'
<1>1. TypeOK
  BY DEF Typed
<1>2. PICK m \in Ids : tx' = [tx EXCEPT ![r].locks = @ \cup {m}]
  BY DEF DetachRow, ToDetach
<1>3. tx' \in [Requests -> TxType]
  BY <1>1, <1>2 DEF TypeOK, TxType
<1>4. TypeOK'
  BY <1>1, <1>3 DEF TypeOK, DetachRow, tables
<1>5. \A q \in Requests : JobFits(q)'
  BY DEF Typed, JobFits, Target, DetachRow
<1>6. QED
  BY <1>4, <1>5 DEF Typed

\* The history row that capturing the change of record m adds.
NewEntry(r, m) == [seq |-> NextSeq(r), id |-> m, before |-> memories[m],
                   after |-> NewImage(r, m), prev |-> LatestSeq(m)]

\* What a capture does: one entry, of one changed record, under the next number.
LEMMA CaptureEffect ==
  ASSUME TypeOK, NEW r \in Requests, Capture(r)
  PROVE  /\ tx[r].ctr \in Nat /\ tx[r].pend \subseteq EntryType
         /\ \E m \in Ids \cap Uncaptured(r) :
              /\ NewEntry(r, m) \in EntryType
              /\ tx' = [tx EXCEPT ![r] = [locks |-> tx[r].locks, shares |-> tx[r].shares,
                                         ctr |-> NextSeq(r), pend |-> tx[r].pend \cup {NewEntry(r, m)}]]
<1>1. tx[r] \in TxType
  BY DEF TypeOK
<1>2. PICK m \in Uncaptured(r) :
        tx' = [tx EXCEPT ![r] = [locks |-> tx[r].locks, shares |-> tx[r].shares,
                                 ctr |-> NewEntry(r, m).seq, pend |-> tx[r].pend \cup {NewEntry(r, m)}]]
  BY DEF Capture, NewEntry
<1>3. m \in Ids
  BY <1>1, <1>2 DEF Uncaptured, TxType
<1>4. NewEntry(r, m) \in EntryType
  BY <1>3, NextSeqType, NewImageType, LatestSeqType DEF TypeOK, NewEntry, EntryType
<1>5. NewEntry(r, m).seq = NextSeq(r)
  BY DEF NewEntry
<1>6. tx' = [tx EXCEPT ![r] = [locks |-> tx[r].locks, shares |-> tx[r].shares,
                              ctr |-> NextSeq(r), pend |-> tx[r].pend \cup {NewEntry(r, m)}]]
  BY <1>2, <1>5
<1>7. QED
  BY <1>1, <1>2, <1>3, <1>4, <1>6 DEF TxType

\* The capture trigger keeps the types.
LEMMA TypedCapture ==
  ASSUME Typed, NEW r \in Requests, Capture(r)
  PROVE  Typed'
<1>1. TypeOK
  BY DEF Typed
<1>2. tx' \in [Requests -> TxType]
  <2>1. PICK m \in Ids :
          /\ NewEntry(r, m) \in EntryType
          /\ tx' = [tx EXCEPT ![r] = [locks |-> tx[r].locks, shares |-> tx[r].shares,
                                     ctr |-> NextSeq(r), pend |-> tx[r].pend \cup {NewEntry(r, m)}]]
    BY <1>1, CaptureEffect
  <2>2. [locks |-> tx[r].locks, shares |-> tx[r].shares,
         ctr |-> NextSeq(r), pend |-> tx[r].pend \cup {NewEntry(r, m)}] \in TxType
    BY <1>1, <2>1, NextSeqType DEF TypeOK, TxType
  <2>3. QED
    BY <1>1, <2>1, <2>2 DEF TypeOK
<1>3. TypeOK'
  BY <1>1, <1>2 DEF TypeOK, Capture, tables, Go, Pcs
<1>4. JobFits(r)'
  BY <1>1 DEF Typed, TypeOK, JobFits, Capture, Go
<1>5. \A q \in Requests : JobFits(q)'
  BY <1>1, <1>4, OthersFit DEF TypeOK, Capture, Go
<1>6. QED
  BY <1>3, <1>5 DEF Typed

\* The entry a transaction wrote for a record, if it wrote one.
Written(r, m) == {e \in tx[r].pend : e.id = m}
EntryFor(r, m) == CHOOSE e \in Written(r, m) : TRUE

\* What a commit publishes: the entries, the number of the last of them, and for each
\* record written the image and the head that its entry leaves.
LEMMA CommitEffect ==
  ASSUME TypeOK, NEW r \in Requests, Commit(r)
  PROVE  /\ memories' = [m \in Ids |-> IF Written(r, m) = {} THEN memories[m] ELSE EntryFor(r, m).after]
         /\ heads' = [m \in Ids |-> IF Written(r, m) = {} THEN heads[m]
                                    ELSE HeadAfter(EntryFor(r, m))]
         /\ history' = history \cup tx[r].pend
         /\ counter' = tx[r].ctr
         /\ tx' = [tx EXCEPT ![r] = NoTx]
         /\ pc' = [pc EXCEPT ![r] = "done"]
         /\ \A m : Written(r, m) # {} => /\ EntryFor(r, m) \in tx[r].pend
                                          /\ EntryFor(r, m) \in EntryType
                                          /\ EntryFor(r, m).id = m
<1>1. tx[r].pend \subseteq EntryType
  BY DEF TypeOK, TxType
<1>2. \A m : Written(r, m) # {} => EntryFor(r, m) \in Written(r, m)
  BY DEF EntryFor
<1>3. QED
  BY <1>1, <1>2 DEF Commit, Written, EntryFor, EndWithout, Go

\* A commit keeps the types.
LEMMA TypedCommit ==
  ASSUME Typed, NEW r \in Requests, Commit(r)
  PROVE  Typed'
<1>1. TypeOK
  BY DEF Typed
<1>2. memories' \in [Ids -> RowType]
  <2>1. \A m \in Ids : Written(r, m) # {} => EntryFor(r, m).after \in RowType
    BY <1>1, CommitEffect DEF EntryType
  <2>2. \A m \in Ids : memories[m] \in RowType
    BY <1>1 DEF TypeOK
  <2>3. QED
    BY <1>1, <2>1, <2>2, CommitEffect
<1>3. heads' \in [Ids -> HeadType]
  <2>1. \A e \in EntryType : HeadAfter(e) \in HeadType
    BY DEF HeadAfter, EntryType, HeadType
  <2>2. \A m \in Ids : heads[m] \in HeadType
    BY <1>1 DEF TypeOK
  <2>3. \A m \in Ids : Written(r, m) # {} => HeadAfter(EntryFor(r, m)) \in HeadType
    BY <1>1, <2>1, CommitEffect
  <2>4. QED
    BY <1>1, <2>2, <2>3, CommitEffect
<1>4. history' \subseteq EntryType /\ counter' \in Nat
  BY <1>1, CommitEffect DEF TypeOK, TxType
<1>5. PICK a \in {"ok", "unavailable"} : EndWithout(r, a)
  BY DEF Commit
<1>6. TypeOK'
  BY <1>1, <1>2, <1>3, <1>4, <1>5, EndType DEF TypeOK, Commit, Answers
<1>7. JobFits(r)'
  BY <1>1, <1>5 DEF TypeOK, JobFits, EndWithout, Go
<1>8. \A q \in Requests : JobFits(q)'
  BY <1>1, <1>5, <1>7, OthersFit DEF TypeOK, Commit, EndWithout, Go
<1>9. QED
  BY <1>6, <1>8 DEF Typed

\* A transaction that is rolled back keeps the types.
LEMMA TypedGiveUp ==
  ASSUME Typed, NEW r \in Requests, LockTimeout(r) \/ Abort(r)
  PROVE  Typed'
<1>1. TypeOK /\ EndWithout(r, "unavailable") /\ UNCHANGED <<tables, job, attempt, seen, sealer>>
  BY DEF Typed, LockTimeout, Abort
<1>2. TypeOK'
  BY <1>1, EndType DEF TypeOK, tables, Answers
<1>3. JobFits(r)'
  BY <1>1 DEF TypeOK, JobFits, EndWithout, Go
<1>4. \A q \in Requests : JobFits(q)'
  BY <1>1, <1>3, OthersFit DEF TypeOK, EndWithout, Go
<1>5. QED
  BY <1>2, <1>4 DEF Typed

\* The range a sealer computes is one of numbers, and not empty if something is unsealed.
LEMMA SealBounds ==
  ASSUME TypeOK, NEW s \in Sealers
  PROVE  /\ SealFirst(s) \in Nat \ {0} /\ SealLast(s) \in Nat
         /\ SealFirst(s) = sealer[s].last + 1
         /\ SealLast(s) <= sealer[s].ctr
         /\ sealer[s].last < sealer[s].ctr => SealFirst(s) <= SealLast(s)
  BY ConstantsOK DEF TypeOK, SealerType, SealFirst, SealLast

\* The sealed part ends at a number.
LEMMA SealedToType == ASSUME TypeOK PROVE SealedTo \in Nat /\ Len(blocks) \in Nat
<1>1. blocks \in Seq(BlockType) /\ Len(blocks) \in Nat
  BY DEF TypeOK
<1>2. Len(blocks) # 0 => blocks[Len(blocks)] \in BlockType
  BY <1>1
<1>3. QED
  BY <1>1, <1>2 DEF SealedTo, BlockType

\* The steps of jarvis_seal_block keep the types.
LEMMA TypedSeal ==
  ASSUME Typed, NEW s \in Sealers, SealStep(s) \/ SealAbort(s)
  PROVE  Typed'
<1>1. TypeOK
  BY DEF Typed
<1>2. sealer' \in [Sealers -> SealerType]
  <2>1. sealer[s] \in SealerType /\ IdleSealer \in SealerType
    BY <1>1 DEF TypeOK, IdleSealer, SealerType
  <2>2. \E x \in SealerType : sealer' = [sealer EXCEPT ![s] = x]
    <3>1. CASE SealLock(s)
      BY <1>1, <2>1, <3>1 DEF SealLock, TypeOK, SealerType
    <3>2. CASE SealReadCounter(s)
      BY <1>1, <2>1, <3>2 DEF SealReadCounter, TypeOK, SealerType
    <3>3. CASE SealReadTip(s)
      BY <1>1, <2>1, <3>3, SealedToType DEF SealReadTip, TypeOK, SealerType
    <3>4. CASE SealBelowThreshold(s) \/ SealInsert(s) \/ SealAbort(s)
      BY <2>1, <3>4 DEF SealBelowThreshold, SealInsert, SealAbort
    <3>5. QED
      BY <3>1, <3>2, <3>3, <3>4 DEF SealStep
  <2>3. QED
    BY <1>1, <2>2 DEF TypeOK
<1>3. blocks' \in Seq(BlockType)
  <2>1. CASE SealInsert(s)
    <3>1. [first |-> SealFirst(s), last |-> SealLast(s),
           entries |-> EntriesOf(SealFirst(s), SealLast(s))] \in BlockType
      BY <1>1, SealBounds DEF TypeOK, BlockType, EntriesOf
    <3>2. QED
      BY <1>1, <2>1, <3>1 DEF TypeOK, SealInsert
  <2>2. CASE ~SealInsert(s)
    BY <1>1, <2>2 DEF TypeOK, SealStep, SealLock, SealReadCounter, SealReadTip,
                      SealBelowThreshold, SealAbort, tables
  <2>3. QED
    BY <2>1, <2>2
<1>4. UNCHANGED <<memories, history, counter, heads, job, pc, attempt, seen, tx, answer>>
  BY DEF SealStep, SealLock, SealReadCounter, SealReadTip, SealBelowThreshold, SealInsert,
         SealAbort, tables, control
<1>5. TypeOK'
  BY <1>1, <1>2, <1>3, <1>4 DEF TypeOK
<1>6. \A r \in Requests : JobFits(r)'
  BY <1>4 DEF Typed, JobFits, Target
<1>7. QED
  BY <1>5, <1>6 DEF Typed

\* Every step of a request or a sealer keeps the types and the shape of the jobs.
THEOREM TypedStep == Typed /\ [Next]_vars => Typed'
<1> SUFFICES ASSUME Typed, [Next]_vars PROVE Typed'
  OBVIOUS
<1>1. ASSUME NEW r \in Requests, Begin(r) \/ Serve(r) \/ Abort(r) PROVE Typed'
  BY <1>1, TypedBegin, TypedReadRow, TypedCheckTarget, TypedWriteRow, TypedInsertRow,
     TypedShareTarget, TypedLockRow, TypedDetachRow, TypedCapture, TypedCommit, TypedGiveUp
     DEF Serve
<1>2. CASE UNCHANGED vars
  BY <1>2 DEF vars, Typed, TypeOK, JobFits, Target
<1>3. QED
  BY <1>1, <1>2, TypedSeal DEF Next

\* Every variable has its type, and a request is only ever at a statement that
\* its operation has.
THEOREM TypeCorrect == Spec => []TypeOK
<1>1. Spec => []Typed
  BY TypedInit, TypedStep, PTL DEF Spec
<1>2. QED
  BY <1>1, PTL DEF Typed

-----------------------------------------------------------------------------
(* The counter never runs ahead of the committed history *)

\* The steps of a request that neither number an entry nor publish any.
Quiet(r) ==
  \/ Begin(r) \/ ReadRow(r) \/ CheckTarget(r) \/ WriteRow(r) \/ InsertRow(r)
  \/ ShareTarget(r) \/ LockRow(r) \/ DetachRow(r) \/ LockTimeout(r) \/ Abort(r)

\* Every step of a request but Capture and Commit leaves the tables alone, and leaves each
\* transaction its counter row and its entries, or takes both away.
LEMMA QuietEffect ==
  ASSUME TypeOK, NEW r \in Requests, Quiet(r)
  PROVE  /\ UNCHANGED <<memories, history, counter, heads, blocks, sealer>>
         /\ \A q \in Requests :
              \/ tx'[q].ctr = tx[q].ctr /\ tx'[q].pend = tx[q].pend
              \/ tx'[q].ctr = 0 /\ tx'[q].pend = {}
<1>1. /\ tx \in [Requests -> TxType]
      /\ \A q \in Requests : tx[q] \in TxType
  BY DEF TypeOK
<1>2. UNCHANGED <<memories, history, counter, heads, blocks, sealer>>
  BY DEF Quiet, Begin, ReadRow, CheckTarget, WriteRow, InsertRow, ShareTarget, LockRow,
         DetachRow, LockTimeout, Abort, tables
<1>3. CASE tx' = tx \/ tx' = [tx EXCEPT ![r] = NoTx]
  BY <1>1, <1>2, <1>3 DEF NoTx
<1>4. CASE \E L : tx' = [tx EXCEPT ![r].locks = L] \/ tx' = [tx EXCEPT ![r].shares = L]
  BY <1>1, <1>2, <1>4 DEF TxType
<1>5. QED
  BY <1>3, <1>4 DEF Quiet, Begin, ReadRow, CheckTarget, WriteRow, InsertRow, ShareTarget,
                    LockRow, DetachRow, LockTimeout, Abort, EndWithout

\* The seeded history is numbered 1..counter.
THEOREM CountingInit == Init => Counting
<1> SUFFICES ASSUME Init PROVE Counting
  OBVIOUS
<1>1. OneCounting /\ PendingNumbered
  BY DEF Init, NoTx, OneCounting, PendingNumbered
<1>2. CounterBacked
  <2>1. \A i : SeedEntry(i).seq = i
    BY DEF SeedEntry
  <2>2. history = {SeedEntry(i) : i \in 1..Len(Seed)} /\ counter = Len(Seed)
    BY DEF Init
  <2>3. QED
    BY <2>1, <2>2 DEF CounterBacked
<1>3. QED
  BY <1>1, <1>2 DEF Counting

\* Steps that neither capture nor commit leave the numbering alone.
LEMMA CountingQuiet ==
  ASSUME TypeOK, Counting, UNCHANGED <<history, counter>>,
         \A q \in Requests :
              \/ tx'[q].ctr = tx[q].ctr /\ tx'[q].pend = tx[q].pend
              \/ tx'[q].ctr = 0 /\ tx'[q].pend = {}
  PROVE  Counting'
<1>1. OneCounting'
  BY DEF Counting, OneCounting
<1>2. PendingNumbered'
  BY DEF Counting, PendingNumbered
<1>3. CounterBacked'
  BY DEF Counting, CounterBacked
<1>4. QED
  BY <1>1, <1>2, <1>3 DEF Counting

\* A capture goes on with the numbering, and only the holder of the counter row captures.
LEMMA CountingCapture ==
  ASSUME TypeOK, Counting, NEW r \in Requests, Capture(r)
  PROVE  Counting'
<1>1. PICK m \in Ids :
        /\ NewEntry(r, m) \in EntryType
        /\ tx' = [tx EXCEPT ![r] = [locks |-> tx[r].locks, shares |-> tx[r].shares,
                                   ctr |-> NextSeq(r), pend |-> tx[r].pend \cup {NewEntry(r, m)}]]
  BY CaptureEffect
<1>2. /\ tx'[r].ctr = NextSeq(r) /\ tx'[r].pend = tx[r].pend \cup {NewEntry(r, m)}
      /\ \A q \in Requests \ {r} : tx'[q] = tx[q] /\ tx[q].ctr = 0
  BY <1>1 DEF TypeOK, Capture, CounterFree
<1>3. counter \in Nat /\ tx[r].ctr \in Nat /\ UNCHANGED <<history, counter>>
  BY DEF TypeOK, TxType, Capture, tables
<1>4. NewEntry(r, m).seq = NextSeq(r)
  BY DEF NewEntry
<1>5. OneCounting'
  BY <1>2 DEF OneCounting
<1>6. PendingNumbered'
  <2>1. ASSUME NEW q \in Requests, q # r
        PROVE  tx'[q].ctr = 0 /\ tx'[q].pend = {}
    BY <1>2, <2>1 DEF Counting, PendingNumbered
  <2>2. CASE tx[r].ctr = 0
    <3>1. NextSeq(r) = counter + 1 /\ tx[r].pend = {}
      BY <2>2 DEF NextSeq, Counting, PendingNumbered
    <3>2. QED
      BY <1>2, <1>3, <1>4, <2>1, <3>1 DEF PendingNumbered
  <2>3. CASE tx[r].ctr # 0
    <3>1. /\ NextSeq(r) = tx[r].ctr + 1 /\ tx[r].ctr > counter
          /\ \A q \in (counter + 1)..tx[r].ctr : \E e \in tx[r].pend : e.seq = q
          /\ \A e \in tx[r].pend : e.seq \in (counter + 1)..tx[r].ctr
          /\ \A e, f \in tx[r].pend : e.seq = f.seq => e = f
      BY <2>3 DEF NextSeq, Counting, PendingNumbered
    <3>2. \A q \in (counter + 1)..NextSeq(r) : \E e \in tx'[r].pend : e.seq = q
      BY <1>2, <1>3, <1>4, <3>1
    <3>3. /\ \A e \in tx'[r].pend : e.seq \in (counter + 1)..NextSeq(r)
          /\ \A e, f \in tx'[r].pend : e.seq = f.seq => e = f
      BY <1>2, <1>3, <1>4, <3>1
    <3>4. NextSeq(r) > counter /\ NextSeq(r) # 0
      BY <1>3, <3>1
    <3>5. QED
      BY <1>2, <1>3, <2>1, <3>2, <3>3, <3>4 DEF PendingNumbered
  <2>4. QED
    BY <2>2, <2>3
<1>7. CounterBacked'
  BY <1>3 DEF Counting, CounterBacked
<1>8. QED
  BY <1>5, <1>6, <1>7 DEF Counting

\* A commit appends exactly the numbers the counter moves over.
LEMMA CountingCommit ==
  ASSUME TypeOK, Counting, NEW r \in Requests, Commit(r)
  PROVE  Counting'
<1>1. /\ history' = history \cup tx[r].pend /\ counter' = tx[r].ctr
      /\ tx' = [tx EXCEPT ![r] = NoTx] /\ tx[r].ctr # 0
  BY CommitEffect DEF Commit
<1>2. counter \in Nat /\ tx[r].ctr \in Nat
  BY DEF TypeOK, TxType
<1>3. /\ tx[r].ctr > counter
      /\ \A q \in (counter + 1)..tx[r].ctr : \E e \in tx[r].pend : e.seq = q
      /\ \A e \in tx[r].pend : e.seq \in (counter + 1)..tx[r].ctr
      /\ \A e, f \in tx[r].pend : e.seq = f.seq => e = f
  BY <1>1 DEF Counting, PendingNumbered
<1>4. \A q \in Requests : tx'[q].ctr = 0 /\ tx'[q].pend = {}
  BY <1>1 DEF TypeOK, NoTx, Counting, OneCounting, PendingNumbered
<1>5. CounterBacked'
  <2>1. \A q \in 1..counter' : \E e \in history' : e.seq = q
    <3>1. SUFFICES ASSUME NEW q \in 1..tx[r].ctr PROVE \E e \in history' : e.seq = q
      BY <1>1
    <3>2. q \in 1..counter \/ q \in (counter + 1)..tx[r].ctr
      BY <1>2
    <3>3. QED
      BY <1>1, <1>3, <3>2 DEF Counting, CounterBacked
  <2>2. \A e \in history' : e.seq \in 1..counter'
    BY <1>1, <1>2, <1>3 DEF Counting, CounterBacked
  <2>3. \A e, f \in history' : e.seq = f.seq => e = f
    BY <1>1, <1>2, <1>3 DEF Counting, CounterBacked
  <2>4. QED
    BY <2>1, <2>2, <2>3 DEF CounterBacked
<1>6. QED
  BY <1>4, <1>5 DEF Counting, OneCounting, PendingNumbered

\* Every step keeps the numbering of committed and uncommitted entries.
THEOREM CountingStep == TypeOK /\ Counting /\ [Next]_vars => Counting'
<1> SUFFICES ASSUME TypeOK, Counting, [Next]_vars PROVE Counting'
  OBVIOUS
<1>1. ASSUME NEW r \in Requests, Quiet(r) PROVE Counting'
  BY <1>1, QuietEffect, CountingQuiet
<1>2. ASSUME NEW s \in Sealers, SealStep(s) \/ SealAbort(s) PROVE Counting'
  BY <1>2, CountingQuiet DEF SealStep, SealLock, SealReadCounter, SealReadTip, SealBelowThreshold,
                             SealInsert, SealAbort, tables, control
<1>3. CASE UNCHANGED vars
  BY <1>3, CountingQuiet DEF vars
<1>4. QED
  BY <1>1, <1>2, <1>3, CountingCapture, CountingCommit DEF Next, Serve, Quiet

\* Whatever is in flight, the committed counter is backed by exactly one
\* committed history entry for each number up to it: seals, replays and
\* verifiers may take it as the end of the history.
THEOREM CounterIsBacked == Spec => []CounterBacked
<1>1. Spec => []TypeOK
  BY TypeCorrect
<1>2. Spec => []Counting
  BY <1>1, CountingInit, CountingStep, PTL DEF Spec
<1>3. QED
  BY <1>2, PTL DEF Counting

-----------------------------------------------------------------------------
(* Blocks *)

\* A range the counter covers holds as many entries as it has numbers.
LEMMA EntriesInRange ==
  ASSUME TypeOK, CounterBacked,
         NEW first \in Nat \ {0}, NEW last \in Nat, first <= last, last <= counter
  PROVE  Cardinality(EntriesOf(first, last)) = last - first + 1
<1> DEFINE S == EntriesOf(first, last)
           f == [e \in S |-> e.seq]
<1>1. f \in [S -> first..last]
  BY DEF EntriesOf
<1>2. \A a, b \in S : f[a] = f[b] => a = b
  BY DEF EntriesOf, CounterBacked
<1>3. \A q \in first..last : \E e \in S : f[e] = q
  <2>1. TAKE q \in first..last
  <2>2. q \in 1..counter
    BY DEF TypeOK
  <2>3. PICK e \in history : e.seq = q
    BY <2>2 DEF CounterBacked
  <2>4. e \in S
    BY <2>1, <2>3 DEF EntriesOf
  <2>5. QED
    BY <2>3, <2>4
<1>4. ExistsBijection(S, first..last)
  <2>1. f \in Bijection(S, first..last)
    BY <1>1, <1>2, <1>3, Fun_IsBij
  <2>2. QED
    BY <2>1, Fun_ExistsBij
<1>5. ExistsBijection(first..last, S)
  BY <1>4, Fun_ExistsBijSymmetric
<1>6. IsFiniteSet(first..last) /\ Cardinality(first..last) = last - first + 1
  BY FS_Interval
<1>7. QED
  BY <1>5, <1>6, FS_Bijection

\* What history and counter do in a step: the history only grows, beyond the counter.
LEMMA HistoryGrows ==
  ASSUME TypeOK, Counting, [Next]_vars
  PROVE  /\ counter <= counter' /\ history \subseteq history'
         /\ \A e \in history' \ history : e.seq > counter
<1>1. counter \in Nat
  BY DEF TypeOK
<1>2. CASE UNCHANGED <<history, counter>>
  BY <1>1, <1>2
<1>3. ASSUME NEW r \in Requests, Commit(r)
      PROVE  /\ counter <= counter' /\ history \subseteq history'
             /\ \A e \in history' \ history : e.seq > counter
  <2>1. history' = history \cup tx[r].pend /\ counter' = tx[r].ctr /\ tx[r].ctr # 0
    BY <1>3, CommitEffect DEF Commit
  <2>2. tx[r].ctr \in Nat /\ tx[r].ctr > counter
        /\ \A e \in tx[r].pend : e.seq \in (counter + 1)..tx[r].ctr
    BY <2>1 DEF TypeOK, TxType, Counting, PendingNumbered
  <2>3. QED
    BY <1>1, <2>1, <2>2
<1>4. ASSUME NEW r \in Requests, Quiet(r) \/ Capture(r) PROVE UNCHANGED <<history, counter>>
  BY <1>4, QuietEffect DEF Capture, tables
<1>5. ASSUME NEW s \in Sealers, SealStep(s) \/ SealAbort(s) PROVE UNCHANGED <<history, counter>>
  BY <1>5 DEF SealStep, SealLock, SealReadCounter, SealReadTip, SealBelowThreshold,
              SealInsert, SealAbort, tables
<1>6. CASE UNCHANGED vars
  BY <1>2, <1>6 DEF vars
<1>7. QED
  BY <1>2, <1>3, <1>4, <1>5, <1>6 DEF Next, Serve, Quiet

\* A sealed range means the same entries for ever.
LEMMA EntriesStay ==
  ASSUME TypeOK, Counting, [Next]_vars, NEW first \in Nat, NEW last \in Nat, last <= counter
  PROVE  EntriesOf(first, last)' = EntriesOf(first, last)
<1>1. counter \in Nat
  BY DEF TypeOK
<1>2. \A e \in history' : e.seq \in first..last => e \in history
  BY <1>1, HistoryGrows
<1>3. QED
  BY <1>2, HistoryGrows DEF EntriesOf

\* The part of the tiling that names the next block's first entry.
LEMMA SealedToTiled ==
  ASSUME TypeOK, BlocksTileHistory
  PROVE  SealedTo <= counter
<1>1. Len(blocks) \in Nat /\ counter \in Nat
  BY DEF TypeOK
<1>2. CASE Len(blocks) = 0
  BY <1>1, <1>2 DEF SealedTo
<1>3. CASE Len(blocks) # 0
  BY <1>1, <1>3 DEF SealedTo, BlocksTileHistory
<1>4. QED
  BY <1>2, <1>3

\* A seal that has come to its INSERT can go through.
LEMMA SealGoesThrough ==
  ASSUME TypeOK, Counting, Sealing, NEW s \in Sealers, sealer[s].pc = "insert"
  PROVE  ~SealMissing(s) /\ ~SealCollides(s) /\ SealLast(s) <= counter
<1>1. sealer[s].ctr \in Nat /\ sealer[s].last \in Nat /\ counter \in Nat
  BY DEF TypeOK, SealerType
<1>2. sealer[s].ctr <= counter /\ sealer[s].last < sealer[s].ctr /\ sealer[s].height = Len(blocks)
  BY DEF Sealing, SealerKnows
<1>3. SealFirst(s) \in Nat \ {0} /\ SealLast(s) \in Nat /\ SealLast(s) <= counter
  BY <1>1, <1>2, SealBounds
<1>4. \A q \in SealFirst(s)..SealLast(s) : q \in 1..counter
  BY <1>1, <1>3
<1>5. QED
  BY <1>2, <1>3, <1>4 DEF SealMissing, SealCollides, Counting, CounterBacked

\* No block, no sealer at work.
LEMMA SealingInit == Init => Sealing
  BY DEF Init, IdleSealer, Sealing, OneSealing, SealerKnows, BlocksTileHistory

\* Steps that leave blocks and sealers alone.
LEMMA SealingKept ==
  ASSUME TypeOK, TypeOK', Counting, Counting', Sealing, [Next]_vars, UNCHANGED <<blocks, sealer>>
  PROVE  Sealing'
<1>1. counter \in Nat /\ counter' \in Nat /\ counter <= counter'
  BY HistoryGrows DEF TypeOK
<1>2. OneSealing'
  BY DEF Sealing, OneSealing
<1>3. SealerKnows'
  BY <1>1 DEF Sealing, SealerKnows, SealedTo, TypeOK, SealerType
<1>4. BlocksTileHistory'
  <2>1. SUFFICES ASSUME NEW i \in 1..Len(blocks)
        PROVE  /\ blocks[i].first = IF i = 1 THEN 1 ELSE blocks[i - 1].last + 1
               /\ blocks[i].first <= blocks[i].last /\ blocks[i].last <= counter'
               /\ blocks[i].entries = EntriesOf(blocks[i].first, blocks[i].last)'
               /\ Cardinality(blocks[i].entries) = blocks[i].last - blocks[i].first + 1
    BY DEF BlocksTileHistory
  <2>2. blocks[i] \in BlockType
    BY DEF TypeOK
  <2>3. /\ blocks[i].first = IF i = 1 THEN 1 ELSE blocks[i - 1].last + 1
        /\ blocks[i].first <= blocks[i].last /\ blocks[i].last <= counter
        /\ blocks[i].entries = EntriesOf(blocks[i].first, blocks[i].last)
        /\ Cardinality(blocks[i].entries) = blocks[i].last - blocks[i].first + 1
    BY DEF Sealing, BlocksTileHistory
  <2>4. EntriesOf(blocks[i].first, blocks[i].last)' = EntriesOf(blocks[i].first, blocks[i].last)
    BY <2>2, <2>3, EntriesStay DEF BlockType
  <2>5. QED
    BY <1>1, <2>2, <2>3, <2>4 DEF BlockType
<1>5. QED
  BY <1>2, <1>3, <1>4 DEF Sealing

\* A sealer's steps up to its INSERT, and its early ends, move no table.
LEMMA SealingLooks ==
  ASSUME TypeOK, Sealing, NEW s \in Sealers,
         \/ SealLock(s) \/ SealReadCounter(s) \/ SealReadTip(s)
         \/ SealBelowThreshold(s) \/ SealAbort(s)
  PROVE  Sealing'
<1>1. sealer[s] \in SealerType /\ counter \in Nat /\ sealer \in [Sealers -> SealerType]
  BY DEF TypeOK
<1>2. SealedTo \in Nat /\ Len(blocks) \in Nat
  BY SealedToType
<1>3. UNCHANGED <<tables, control>>
  BY DEF SealLock, SealReadCounter, SealReadTip, SealBelowThreshold, SealAbort
<1>4. SealedTo' = SealedTo /\ Len(blocks)' = Len(blocks)
  BY <1>3 DEF tables, SealedTo
<1>5. BlocksTileHistory'
  BY <1>3 DEF Sealing, BlocksTileHistory, tables, EntriesOf
<1>6. \A z \in Sealers \ {s} : sealer'[z] = sealer[z]
  BY <1>1 DEF SealLock, SealReadCounter, SealReadTip, SealBelowThreshold, SealAbort
<1>7. \A z \in Sealers \ {s} : sealer[z].pc = "idle"
  <2>1. CASE SealLock(s)
    BY <2>1 DEF SealLock, SealLockFree
  <2>2. CASE ~SealLock(s)
    BY <2>2 DEF SealReadCounter, SealReadTip, SealBelowThreshold, SealAbort, Sealing, OneSealing
  <2>3. QED
    BY <2>1, <2>2
<1>8. OneSealing'
  BY <1>6, <1>7 DEF OneSealing
<1>9. /\ sealer'[s].pc \in {"tip", "insert"} => sealer'[s].ctr <= counter
      /\ sealer'[s].pc = "insert" =>
           /\ sealer'[s].height = Len(blocks)
           /\ sealer'[s].last = SealedTo
           /\ sealer'[s].last < sealer'[s].ctr
  <2>1. CASE SealLock(s)
    BY <1>1, <2>1 DEF SealLock, SealerType
  <2>2. CASE SealReadCounter(s)
    BY <1>1, <2>2 DEF SealReadCounter, IdleSealer, SealerType
  <2>3. CASE SealReadTip(s)
    <3>1. CASE NothingNew(s)
      BY <1>1, <2>3, <3>1 DEF SealReadTip, IdleSealer
    <3>2. CASE ~NothingNew(s)
      <4>1. sealer'[s] = [sealer[s] EXCEPT !.pc = "insert", !.height = Len(blocks), !.last = SealedTo]
        BY <1>1, <2>3, <3>2 DEF SealReadTip
      <4>2. /\ sealer'[s].pc = "insert" /\ sealer'[s].ctr = sealer[s].ctr
            /\ sealer'[s].height = Len(blocks) /\ sealer'[s].last = SealedTo
        BY <1>1, <4>1 DEF SealerType
      <4>3. sealer[s].ctr <= counter
        BY <2>3 DEF SealReadTip, Sealing, SealerKnows
      <4>4. QED
        BY <1>1, <1>2, <3>2, <4>2, <4>3 DEF NothingNew, SealerType
    <3>3. QED
      BY <3>1, <3>2
  <2>4. CASE SealBelowThreshold(s) \/ SealAbort(s)
    BY <1>1, <2>4 DEF SealBelowThreshold, SealAbort, IdleSealer
  <2>5. QED
    BY <2>1, <2>2, <2>3, <2>4
<1>10. SealerKnows'
  BY <1>3, <1>4, <1>6, <1>7, <1>9 DEF SealerKnows, tables
<1>11. QED
  BY <1>5, <1>8, <1>10 DEF Sealing

\* The new block continues the tiling.
LEMMA SealingInsert ==
  ASSUME TypeOK, Counting, Sealing, NEW s \in Sealers, SealInsert(s)
  PROVE  Sealing'
<1> DEFINE first == SealFirst(s)
           last == SealLast(s)
           b == [first |-> first, last |-> last, entries |-> EntriesOf(first, last)]
<1>1. /\ sealer[s].pc = "insert" /\ UNCHANGED <<history, counter>>
      /\ sealer' = [sealer EXCEPT ![s] = IdleSealer]
  BY DEF SealInsert
<1>2. blocks' = Append(blocks, b) /\ last <= counter
  BY <1>1, SealGoesThrough DEF SealInsert
<1>3. /\ first \in Nat \ {0} /\ last \in Nat /\ first <= last
      /\ first = SealedTo + 1
  BY <1>1, SealBounds DEF Sealing, SealerKnows
<1>4. Len(blocks) \in Nat /\ blocks \in Seq(BlockType) /\ b \in BlockType
  BY <1>3 DEF TypeOK, BlockType, EntriesOf
<1>5. /\ Len(blocks') = Len(blocks) + 1 /\ blocks'[Len(blocks) + 1] = b
      /\ \A i \in 1..Len(blocks) : blocks'[i] = blocks[i]
  BY <1>2, <1>4
<1>6. \A i \in 1..Len(blocks) :
        /\ blocks[i].first = IF i = 1 THEN 1 ELSE blocks[i - 1].last + 1
        /\ blocks[i].first <= blocks[i].last /\ blocks[i].last <= counter
        /\ blocks[i].entries = EntriesOf(blocks[i].first, blocks[i].last)
        /\ Cardinality(blocks[i].entries) = blocks[i].last - blocks[i].first + 1
  BY DEF Sealing, BlocksTileHistory
<1>7. \A x, y : EntriesOf(x, y)' = EntriesOf(x, y)
  BY <1>1 DEF EntriesOf
<1>8. b.first = IF Len(blocks) + 1 = 1 THEN 1 ELSE blocks[Len(blocks)].last + 1
  BY <1>3, <1>4 DEF SealedTo
<1>9. Cardinality(b.entries) = b.last - b.first + 1
  BY <1>2, <1>3, EntriesInRange DEF Counting
<1>10. BlocksTileHistory'
  <2>1. SUFFICES ASSUME NEW i \in 1..(Len(blocks) + 1)
        PROVE  /\ blocks'[i].first = IF i = 1 THEN 1 ELSE blocks'[i - 1].last + 1
               /\ blocks'[i].first <= blocks'[i].last /\ blocks'[i].last <= counter
               /\ blocks'[i].entries = EntriesOf(blocks'[i].first, blocks'[i].last)
               /\ Cardinality(blocks'[i].entries) = blocks'[i].last - blocks'[i].first + 1
    BY <1>1, <1>5, <1>7 DEF BlocksTileHistory
  <2>2. CASE i \in 1..Len(blocks)
    BY <1>4, <1>5, <1>6, <2>2
  <2>3. CASE i = Len(blocks) + 1
    BY <1>2, <1>3, <1>4, <1>5, <1>8, <1>9, <2>3
  <2>4. QED
    BY <1>4, <2>2, <2>3
<1>11. \A z \in Sealers : sealer'[z].pc = "idle"
  BY <1>1 DEF TypeOK, IdleSealer, Sealing, OneSealing
<1>12. QED
  BY <1>10, <1>11 DEF Sealing, OneSealing, SealerKnows

\* Every step keeps the tiling: writers only add beyond it, and one sealer at a time extends it.
THEOREM SealingStep ==
  TypeOK /\ TypeOK' /\ Counting /\ Counting' /\ Sealing /\ [Next]_vars => Sealing'
<1> SUFFICES ASSUME TypeOK, TypeOK', Counting, Counting', Sealing, [Next]_vars PROVE Sealing'
  OBVIOUS
<1>1. ASSUME NEW r \in Requests, Begin(r) \/ Serve(r) \/ Abort(r) PROVE Sealing'
  <2>1. UNCHANGED <<blocks, sealer>>
    BY <1>1, QuietEffect DEF Serve, Quiet, Capture, Commit, tables
  <2>2. QED
    BY <2>1, SealingKept
<1>2. ASSUME NEW s \in Sealers, SealStep(s) \/ SealAbort(s) PROVE Sealing'
  BY <1>2, SealingLooks, SealingInsert DEF SealStep
<1>3. CASE UNCHANGED vars
  BY <1>3, SealingKept DEF vars
<1>4. QED
  BY <1>1, <1>2, <1>3 DEF Next

\* The inductive invariant: types, numbering and sealing rest on each other
\* in this order.
THEOREM Invariance == Spec => []IInv
<1>1. Init => IInv
  BY TypedInit, CountingInit, SealingInit DEF IInv
<1>2. IInv /\ [Next]_vars => IInv'
  BY TypedStep, CountingStep, SealingStep DEF IInv, Typed
<1>3. QED
  BY <1>1, <1>2, PTL DEF Spec

\* Blocks tile the history from its first entry on, without gap or overlap,
\* never beyond the counter, and go on committing to the entries they were
\* sealed over: jarvis_verify_blocks finds nothing in any committed state.
THEOREM BlocksAlwaysTile == Spec => []BlocksTileHistory
<1>1. IInv => BlocksTileHistory
  BY DEF IInv, Sealing
<1>2. QED
  BY <1>1, Invariance, PTL

\* However many writers and sealers run, a seal that reaches its INSERT is
\* never refused for a missing entry or a taken height.
THEOREM SealIsNeverRefused == Spec => []SealNeverRefused
<1>1. IInv => SealNeverRefused
  BY SealGoesThrough DEF IInv, Typed, SealNeverRefused
<1>2. QED
  BY <1>1, Invariance, PTL

-----------------------------------------------------------------------------
(* Blocks that are sealed stay as they are, and new ones come after them *)

(* Blocks follow one another, so a point lies in one of them at most. *)
BlocksOrdered ==
  /\ \A i \in 1..Len(blocks) : blocks[i].last <= SealedTo
  /\ \A i, k \in 1..Len(blocks) : i < k => blocks[i].last < blocks[k].first

\* A block reaches from a positive number to a number.
LEMMA BlockRange ==
  ASSUME TypeOK, NEW i \in 1..Len(blocks)
  PROVE  blocks[i].first \in Nat \ {0} /\ blocks[i].last \in Nat
<1>1. blocks[i] \in BlockType
  BY DEF TypeOK
<1>2. QED
  BY <1>1 DEF BlockType

\* No block is taken back or changed; at most one is added, after the last.
LEMMA BlocksGrow ==
  ASSUME IInv, [Next]_vars, blocks' # blocks
  PROVE  \E b \in BlockType : /\ blocks' = Append(blocks, b)
                               /\ b.first = SealedTo + 1 /\ b.first <= b.last
<1>1. TypeOK /\ Counting /\ Sealing
  BY DEF IInv, Typed
<1>2. PICK s \in Sealers : SealInsert(s)
  <2>1. ASSUME NEW r \in Requests, Begin(r) \/ Serve(r) \/ Abort(r) PROVE blocks' = blocks
    BY <1>1, <2>1, QuietEffect DEF Serve, Quiet, Capture, Commit, tables
  <2>2. ASSUME NEW s \in Sealers, SealStep(s) \/ SealAbort(s), ~SealInsert(s) PROVE blocks' = blocks
    BY <2>2 DEF SealStep, SealLock, SealReadCounter, SealReadTip, SealBelowThreshold, SealAbort, tables
  <2>3. QED
    BY <2>1, <2>2 DEF Next, vars
<1>3. sealer[s].pc = "insert"
  BY <1>2 DEF SealInsert
<1>4. blocks' = Append(blocks, [first |-> SealFirst(s), last |-> SealLast(s),
                               entries |-> EntriesOf(SealFirst(s), SealLast(s))])
  BY <1>1, <1>2, <1>3, SealGoesThrough DEF SealInsert
<1>5. /\ SealFirst(s) \in Nat \ {0} /\ SealLast(s) \in Nat
      /\ SealFirst(s) <= SealLast(s) /\ SealFirst(s) = SealedTo + 1
  BY <1>1, <1>3, SealBounds DEF Sealing, SealerKnows
<1>6. EntriesOf(SealFirst(s), SealLast(s)) \subseteq EntryType
  BY <1>1 DEF TypeOK, EntriesOf
<1>7. QED
  BY <1>4, <1>5, <1>6 DEF BlockType

\* The blocks there were are there, and end where they ended.
LEMMA OldBlocksStay ==
  ASSUME IInv, [Next]_vars
  PROVE  /\ Len(blocks) \in Nat /\ Len(blocks') \in Nat /\ Len(blocks) <= Len(blocks')
         /\ \A i \in 1..Len(blocks) : blocks'[i] = blocks[i]
<1>1. blocks \in Seq(BlockType)
  BY DEF IInv, Typed, TypeOK
<1>2. CASE blocks' = blocks
  BY <1>1, <1>2
<1>3. CASE blocks' # blocks
  BY <1>1, <1>3, BlocksGrow
<1>4. QED
  BY <1>2, <1>3

\* A new block is beyond the others.
LEMMA OrderedStep ==
  ASSUME IInv, BlocksOrdered, [Next]_vars
  PROVE  BlocksOrdered'
<1>1. TypeOK
  BY DEF IInv, Typed
<1>2. CASE blocks' = blocks
  BY <1>2 DEF BlocksOrdered, SealedTo
<1>3. CASE blocks' # blocks
  <2>1. PICK b \in BlockType : /\ blocks' = Append(blocks, b)
                               /\ b.first = SealedTo + 1 /\ b.first <= b.last
    BY <1>3, BlocksGrow
  <2>2. /\ blocks \in Seq(BlockType) /\ Len(blocks) \in Nat /\ SealedTo \in Nat
        /\ b.first \in Nat /\ b.last \in Nat
        /\ \A i \in 1..Len(blocks) : blocks[i].last \in Nat
    BY <1>1, SealedToType, BlockRange DEF TypeOK, BlockType
  <2>3. /\ Len(blocks') = Len(blocks) + 1 /\ blocks'[Len(blocks) + 1] = b
        /\ \A i \in 1..Len(blocks) : blocks'[i] = blocks[i]
    BY <2>1, <2>2
  <2>4. SealedTo' = b.last
    BY <2>2, <2>3 DEF SealedTo
  <2>5. \A i \in 1..Len(blocks) : blocks[i].last <= SealedTo
    BY DEF BlocksOrdered
  <2>6. \A i \in 1..Len(blocks') : blocks'[i].last <= b.last
    BY <2>1, <2>2, <2>3, <2>5
  <2>7. ASSUME NEW i \in 1..Len(blocks'), NEW k \in 1..Len(blocks'), i < k
        PROVE  blocks'[i].last < blocks'[k].first
    <3>1. i \in 1..Len(blocks)
      BY <2>2, <2>3, <2>7
    <3>2. CASE k = Len(blocks) + 1
      BY <2>1, <2>2, <2>3, <2>5, <3>1, <3>2
    <3>3. CASE k \in 1..Len(blocks)
      BY <2>3, <2>7, <3>1, <3>3 DEF BlocksOrdered
    <3>4. QED
      BY <2>2, <2>3, <3>2, <3>3
  <2>8. QED
    BY <2>4, <2>6, <2>7 DEF BlocksOrdered
<1>4. QED
  BY <1>2, <1>3

-----------------------------------------------------------------------------
(* The store implements the sealed log *)

\* The seeded store is a log nothing of which is sealed.
LEMMA LogInit == Init => Log!Init
<1> SUFFICES ASSUME Init PROVE Log!Init
  OBVIOUS
<1>1. counter \in Nat /\ CounterBacked
  BY TypedInit, CountingInit DEF Typed, TypeOK, Counting
<1>2. Log!Numbered(history, 1, counter)
  BY <1>1 DEF CounterBacked, Log!Numbered
<1>3. SealedTo = 0
  BY DEF Init, SealedTo
<1>4. QED
  BY <1>1, <1>2, <1>3 DEF Log!Init

\* A commit is an Extend: its entries continue the numbering.
LEMMA LogCommit ==
  ASSUME TypeOK, Counting, NEW r \in Requests, Commit(r)
  PROVE  Log!Extend
<1>1. /\ history' = history \cup tx[r].pend /\ counter' = tx[r].ctr /\ tx[r].ctr # 0
      /\ blocks' = blocks
  BY CommitEffect DEF Commit
<1>2. counter \in Nat /\ tx[r].ctr \in Nat /\ tx[r].ctr > counter
      /\ (\A q \in (counter + 1)..tx[r].ctr : \E e \in tx[r].pend : e.seq = q)
      /\ (\A e \in tx[r].pend : e.seq \in (counter + 1)..tx[r].ctr)
      /\ (\A e, f \in tx[r].pend : e.seq = f.seq => e = f)
  BY <1>1 DEF TypeOK, TxType, Counting, PendingNumbered
<1>3. \A e \in history : e.seq \in 1..counter
  BY DEF Counting, CounterBacked
<1>4. history' \ history = tx[r].pend
  BY <1>1, <1>2, <1>3
<1>5. Log!Numbered(tx[r].pend, counter + 1, tx[r].ctr)
  <2>1. {e.seq : e \in tx[r].pend} = (counter + 1)..tx[r].ctr
    BY <1>2
  <2>2. QED
    BY <1>2, <2>1 DEF Log!Numbered
<1>6. SealedTo' = SealedTo
  BY <1>1 DEF SealedTo
<1>7. QED
  BY <1>1, <1>2, <1>4, <1>5, <1>6 DEF Log!Extend

\* A seal that inserts its block is a Seal.
LEMMA LogSeal ==
  ASSUME TypeOK, Counting, Sealing, NEW s \in Sealers, SealInsert(s)
  PROVE  Log!Seal
<1>1. /\ sealer[s].pc = "insert" /\ UNCHANGED <<history, counter>>
      /\ counter \in Nat
  BY DEF SealInsert, TypeOK
<1>2. /\ blocks' = Append(blocks, [first |-> SealFirst(s), last |-> SealLast(s),
                                  entries |-> EntriesOf(SealFirst(s), SealLast(s))])
      /\ SealLast(s) <= counter
  BY <1>1, SealGoesThrough DEF SealInsert
<1>3. /\ SealFirst(s) \in Nat /\ SealLast(s) \in Nat /\ SealFirst(s) <= SealLast(s)
      /\ SealFirst(s) = SealedTo + 1
  BY <1>1, SealBounds DEF Sealing, SealerKnows
<1>4. SealedTo' = SealLast(s)
  BY <1>2 DEF TypeOK, SealedTo
<1>5. QED
  BY <1>1, <1>2, <1>3, <1>4 DEF Log!Seal

\* Every step of the store is one of the log, or none.
LEMMA LogStep == IInv /\ [Next]_vars => [Log!Next]_(Log!vars)
<1> SUFFICES ASSUME IInv, [Next]_vars PROVE Log!Next \/ UNCHANGED Log!vars
  OBVIOUS
<1>1. TypeOK /\ Counting /\ Sealing
  BY DEF IInv, Typed
<1>2. CASE UNCHANGED <<history, counter, blocks>>
  BY <1>2 DEF Log!vars, SealedTo
<1>3. ASSUME NEW r \in Requests, Quiet(r) \/ Capture(r) PROVE UNCHANGED <<history, counter, blocks>>
  BY <1>1, <1>3, QuietEffect DEF Capture, tables
<1>4. ASSUME NEW s \in Sealers, SealStep(s) \/ SealAbort(s), ~SealInsert(s)
      PROVE  UNCHANGED <<history, counter, blocks>>
  BY <1>4 DEF SealStep, SealLock, SealReadCounter, SealReadTip, SealBelowThreshold, SealAbort, tables
<1>5. CASE UNCHANGED vars
  BY <1>2, <1>5 DEF vars
<1>6. QED
  BY <1>1, <1>2, <1>3, <1>4, <1>5, LogCommit, LogSeal DEF Next, Serve, Quiet, Log!Next

\* The row store with all its locks, transactions and sealers is a log that
\* only grows at its end and is sealed from its beginning.
THEOREM StoreIsSealedLog == Spec => ImplementsSealedLog
  BY LogInit, LogStep, Invariance, PTL DEF Spec, ImplementsSealedLog, Log!Spec

------------------------------------------------------------------------------
(* Records: the rows of jarvis_memories, their history and the heads of their chains. *)

Known(m) == \E e \in history : e.id = m

(* A record with entries has a newest one, and a live record has entries. *)
HasLatest == \A e \in history : \E f \in history : IsLatest(f, e.id)
Recorded == \A m \in Ids : Live(m) => memories[m].version # 0 /\ Known(m)

Committed == HasLatest /\ Recorded /\ RowsMatchHistory /\ ChainIntact /\ NoDanglingSupersedes

(* The statements at which a transaction holds row locks, and what they tell it. *)
Holding == {"shareTarget", "cascade", "capture"}

Locked(r) ==
  /\ pc[r] \notin Holding => tx[r] = NoTx
  /\ pc[r] \in Holding =>
       /\ job[r].id \in tx[r].locks
       /\ job[r].op # "delete" => tx[r].locks = {job[r].id}
       /\ job[r].op = "create" => ~Known(job[r].id)
       /\ job[r].op = "update" => VersionMatches(r)
       /\ job[r].op = "delete" =>
            /\ Live(job[r].id)
            /\ \A m \in tx[r].locks \ {job[r].id} : memories[m].supersedes = job[r].id

(* The entries it wrote say what the rows it holds were and will be. *)
Captured(r) ==
  /\ \A e \in tx[r].pend :
       /\ e.id \in tx[r].locks
       /\ e.before = memories[e.id] /\ e.prev = LatestSeq(e.id)
       /\ e.after = NewImage(r, e.id)
  /\ \A e, f \in tx[r].pend : e.id = f.id => e = f

(* The row an update has read was one of the record's, and a version names one row. *)
SeenFits(r) ==
  job[r].op = "update" /\ pc[r] \in {"checkTarget", "write"} \cup Holding =>
    /\ seen[r].version # 0 /\ Known(job[r].id)
    /\ Live(job[r].id) => seen[r].version <= memories[job[r].id].version
    /\ VersionMatches(r) => seen[r] = memories[job[r].id]

(* What a successful update wrote is there as long as the record is. *)
Kept(r) ==
  /\ answer[r] # "none" => pc[r] = "done"
  /\ answer[r] = "ok" /\ job[r].op = "update" =>
       /\ Known(job[r].id)
       /\ Live(job[r].id) => r \in memories[job[r].id].fields

(* What a transaction makes a record point to is kept from being deleted. *)
Linked(r) ==
  /\ \A t \in tx[r].shares : Live(t)
  /\ pc[r] = "capture" /\ job[r].op # "delete" /\ Target(r) # NoId =>
       \/ Target(r) \in tx[r].shares
       \/ job[r].op = "update" /\ Target(r) = seen[r].supersedes
  /\ pc[r] = "capture" /\ job[r].op = "delete" => ToDetach(r) = {}

Fit(r) == Locked(r) /\ Captured(r) /\ SeenFits(r) /\ Kept(r) /\ Linked(r)

(* No two transactions hold one row, or one deletes what another points to. *)
Deletes(r, t) == job[r].op = "delete" /\ job[r].id = t /\ t \in tx[r].locks
Apart ==
  \A r, q \in Requests :
    r # q => /\ tx[r].locks \cap tx[q].locks = {}
             /\ \A t \in tx[q].shares : ~Deletes(r, t)

RInv == Committed /\ (\A r \in Requests : Fit(r)) /\ Apart

-----------------------------------------------------------------------------
(* The newest entry *)

\* An entry above which there is none of its record is the one ORDER BY seq DESC finds.
LEMMA NewestIsFound ==
  ASSUME NEW H, H \subseteq EntryType, NEW m, NEW f \in H,
         f.id = m, \A g \in H : g.id = m => g.seq <= f.seq
  PROVE  (CHOOSE e \in H : e.id = m /\ \A g \in H : g.id = m => g.seq <= e.seq).seq = f.seq
<1> DEFINE e == CHOOSE x \in H : x.id = m /\ \A g \in H : g.id = m => g.seq <= x.seq
<1>1. e \in H /\ e.id = m /\ \A g \in H : g.id = m => g.seq <= e.seq
  OBVIOUS
<1>2. e.seq <= f.seq /\ f.seq <= e.seq
  BY <1>1
<1>3. e.seq \in Nat /\ f.seq \in Nat
  BY <1>1 DEF EntryType
<1> QED
  BY <1>2, <1>3

\* LatestSeq is the number of the newest entry, and 0 without entries.
LEMMA LatestIs ==
  ASSUME TypeOK, NEW m, NEW f \in history, IsLatest(f, m)
  PROVE  LatestSeq(m) = f.seq
<1>1. history \subseteq EntryType
  BY DEF TypeOK
<1>2. (CHOOSE e \in history : IsLatest(e, m)).seq = f.seq
  BY <1>1, NewestIsFound DEF IsLatest
<1> QED
  BY <1>2 DEF LatestSeq

\* The newest entry of the state after a step is the one LatestSeq finds there.
LEMMA LatestIsNext ==
  ASSUME TypeOK', NEW m, NEW f \in history', IsLatest(f, m)'
  PROVE  LatestSeq(m)' = f.seq
<1>1. history' \subseteq EntryType
  BY DEF TypeOK
<1>2. (CHOOSE e \in history' : IsLatest(e, m)').seq = f.seq
  BY <1>1, NewestIsFound DEF IsLatest
<1> QED
  BY <1>2 DEF LatestSeq

\* A record without entries has no newest one.
LEMMA LatestOfUnknown ==
  ASSUME NEW m
  PROVE  /\ ~Known(m) => LatestSeq(m) = 0
         /\ ~Known(m)' => LatestSeq(m)' = 0
BY DEF Known, LatestSeq, IsLatest

\* The newest entry of a record is in the history, and is the record's.
LEMMA LatestOfKnown ==
  ASSUME TypeOK, HasLatest, NEW m, Known(m)
  PROVE  LatestSeq(m) # 0 /\ \E f \in history : IsLatest(f, m) /\ LatestSeq(m) = f.seq
<1>1. PICK f \in history : IsLatest(f, m)
  BY DEF Known, HasLatest
<1>2. LatestSeq(m) = f.seq
  BY <1>1, LatestIs
<1>3. f.seq # 0
  BY DEF TypeOK, EntryType
<1> QED
  BY <1>1, <1>2, <1>3

-----------------------------------------------------------------------------
(* The seeded store *)

\* The seeded tables agree.
LEMMA CommittedInit == Init => Committed
<1> SUFFICES ASSUME Init PROVE Committed
  OBVIOUS
<1>1. \A i, k \in 1..Len(Seed) : Seed[i] = Seed[k] => i = k
  BY ConstantsOK
<1>2. history = {SeedEntry(i) : i \in 1..Len(Seed)} /\ TypeOK
  BY TypedInit DEF Init, Typed
<1>3. \A i \in 1..Len(Seed) : SeedEntry(i).seq = i /\ SeedEntry(i).id = Seed[i] /\ Seed[i] \in Ids
  BY ConstantsOK DEF SeedEntry
<1>4. \A i \in 1..Len(Seed) : IsLatest(SeedEntry(i), Seed[i])
  BY <1>1, <1>2, <1>3 DEF IsLatest
<1>5. HasLatest
  BY <1>2, <1>3, <1>4 DEF HasLatest
<1>6. \A i \in 1..Len(Seed) : LatestSeq(Seed[i]) = i
  BY <1>2, <1>3, <1>4, LatestIs
<1>7. \A m \in Ids : SeedIndexes(m) = {} => memories[m] = NoRow /\ heads[m] = [last |-> 0, deleted |-> FALSE] /\ ~Known(m)
  <2>1. TAKE m \in Ids
  <2>2. HAVE SeedIndexes(m) = {}
  <2>3. memories[m] = NoRow /\ heads[m] = [last |-> 0, deleted |-> FALSE]
    BY <2>2 DEF Init
  <2>4. \A i \in 1..Len(Seed) : Seed[i] # m
    BY <2>2 DEF SeedIndexes
  <2>5. ~Known(m)
    BY <1>2, <1>3, <2>4 DEF Known
  <2> QED
    BY <2>3, <2>5
<1>8. \A i \in 1..Len(Seed) : memories[Seed[i]] = SeedRow(i) /\ heads[Seed[i]] = [last |-> i, deleted |-> FALSE]
  <2>1. TAKE i \in 1..Len(Seed)
  <2>2. SeedIndexes(Seed[i]) = {i}
    BY <1>1 DEF SeedIndexes
  <2>3. (CHOOSE k \in SeedIndexes(Seed[i]) : TRUE) = i
    BY <2>2
  <2> QED
    BY <1>3, <2>2, <2>3 DEF Init
<1>9. \A m \in Ids : SeedIndexes(m) = {} \/ \E i \in 1..Len(Seed) : m = Seed[i]
  BY DEF SeedIndexes
<1>10. \A i : SeedRow(i) # NoRow /\ SeedRow(i).version = 1
  BY DEF SeedRow, NoRow
<1>11. Recorded
  <2>1. SUFFICES ASSUME NEW m \in Ids, Live(m)
        PROVE  memories[m].version # 0 /\ Known(m)
    BY DEF Recorded
  <2>2. PICK i \in 1..Len(Seed) : m = Seed[i]
    BY <1>7, <1>9, <2>1 DEF Live
  <2>3. SeedEntry(i) \in history
    BY <1>2
  <2>4. Known(m)
    BY <1>3, <2>2, <2>3 DEF Known
  <2>5. memories[m].version = 1
    BY <1>8, <1>10, <2>2
  <2> QED
    BY <2>4, <2>5
<1>12. RowsMatchHistory
  <2>1. SUFFICES ASSUME NEW m \in Ids
        PROVE  /\ heads[m].last = LatestSeq(m)
               /\ heads[m].deleted <=> (heads[m].last # 0 /\ ~Live(m))
               /\ \A e \in history : IsLatest(e, m) => e.after = memories[m]
    BY DEF RowsMatchHistory
  <2>2. CASE SeedIndexes(m) = {}
    BY <1>7, <2>2, LatestOfUnknown DEF Known, IsLatest, Live
  <2>3. CASE \E i \in 1..Len(Seed) : m = Seed[i]
    <3>1. PICK i \in 1..Len(Seed) : m = Seed[i]
      BY <2>3
    <3>2. \A e \in history : IsLatest(e, m) => e = SeedEntry(i)
      BY <1>1, <1>2, <1>3, <3>1 DEF IsLatest
    <3>3. SeedEntry(i).after = SeedRow(i)
      BY DEF SeedEntry
    <3>4. heads[m] = [last |-> i, deleted |-> FALSE] /\ LatestSeq(m) = i /\ Live(m)
      BY <1>6, <1>8, <1>10, <3>1 DEF Live
    <3>5. \A e \in history : IsLatest(e, m) => e.after = memories[m]
      BY <1>8, <3>1, <3>2, <3>3
    <3> QED
      BY <3>4, <3>5
  <2> QED
    BY <1>9, <2>2, <2>3
<1>13. ChainIntact
  <2>1. \A i \in 1..Len(Seed) : {f \in history : f.id = SeedEntry(i).id /\ f.seq < SeedEntry(i).seq} = {}
    BY <1>1, <1>2, <1>3
  <2>2. \A i : SeedEntry(i).prev = 0 /\ SeedEntry(i).before = NoRow /\ SeedEntry(i).after.version = 1
    BY <1>10 DEF SeedEntry
  <2> QED
    BY <1>2, <2>1, <2>2 DEF ChainIntact
<1>14. NoDanglingSupersedes
  <2>1. SUFFICES ASSUME NEW m \in Ids, memories[m].supersedes # NoId
        PROVE  Live(memories[m].supersedes)
    BY DEF NoDanglingSupersedes
  <2>2. PICK i \in 1..Len(Seed) : m = Seed[i]
    BY <1>7, <1>9, <2>1 DEF NoRow
  <2>3. i # 1 /\ memories[m].supersedes = Seed[i - 1]
    <3>1. memories[m] = SeedRow(i)
      BY <1>8, <2>2
    <3>2. i # 1
      BY <2>1, <3>1 DEF SeedRow
    <3> QED
      BY <3>1, <3>2 DEF SeedRow
  <2>4. i - 1 \in 1..Len(Seed)
    BY <2>3
  <2> QED
    BY <1>8, <1>10, <2>3, <2>4 DEF Live
<1> QED
  BY <1>5, <1>11, <1>12, <1>13, <1>14 DEF Committed

\* At the start no request has read or locked anything.
LEMMA RecordsInit == Init => RInv
<1> SUFFICES ASSUME Init PROVE RInv
  OBVIOUS
<1>1. Committed
  BY CommittedInit
<1>2. ASSUME NEW r \in Requests PROVE Fit(r)
  BY DEF Init, Fit, Locked, Captured, SeenFits, Kept, Linked, Holding, NoTx
<1>3. Apart
  BY DEF Init, Apart, Deletes, NoTx
<1> QED
  BY <1>1, <1>2, <1>3 DEF RInv

-----------------------------------------------------------------------------
(* Steps that change no record *)

\* A state of the committed records and of one request that stays keeps what is said of them.
LEMMA CommittedStays ==
  ASSUME Committed, UNCHANGED <<memories, history, heads>>
  PROVE  Committed'
BY DEF Committed, HasLatest, Recorded, RowsMatchHistory, ChainIntact, NoDanglingSupersedes,
   IsLatest, Known, Live, LatestSeq

\* What a transaction has captured still fits while the tables stay and its locks only grow.
LEMMA CapturedStays ==
  ASSUME NEW q \in Requests, Captured(q), UNCHANGED <<memories, history>>,
         job'[q] = job[q], seen'[q] = seen[q],
         tx'[q].pend = tx[q].pend, tx[q].locks \subseteq tx'[q].locks
  PROVE  Captured(q)'
<1>1. \A m : NewImage(q, m)' = NewImage(q, m) /\ LatestSeq(m)' = LatestSeq(m)
  BY DEF NewImage, Target, LatestSeq, IsLatest
<1> QED
  BY <1>1 DEF Captured

\* A request that does not move goes on fitting.
LEMMA FitStays ==
  ASSUME NEW q \in Requests, Fit(q), UNCHANGED <<memories, history>>,
         job'[q] = job[q], pc'[q] = pc[q], seen'[q] = seen[q], tx'[q] = tx[q], answer'[q] = answer[q]
  PROVE  Fit(q)'
<1> USE DEF VersionMatches, Known, Live, Target
<1>1. Locked(q)'
  <2>1. CASE pc[q] \notin Holding
    BY <2>1 DEF Fit, Locked, Holding
  <2>2. CASE pc[q] \in Holding
    BY <2>2 DEF Fit, Locked, Holding, NoTx
  <2> QED
    BY <2>1, <2>2
<1>2. Captured(q)'
  BY CapturedStays DEF Fit
<1>3. SeenFits(q)'
  BY DEF Fit, SeenFits
<1>4. Kept(q)'
  BY DEF Fit, Kept
<1>5. Linked(q)'
  BY DEF Fit, Linked, ToDetach
<1> QED
  BY <1>1, <1>2, <1>3, <1>4, <1>5 DEF Fit

\* What one request does to itself alone, records as they are.
Alone(r) ==
  /\ UNCHANGED <<memories, history, heads>>
  /\ \A q \in Requests \ {r} :
       /\ job'[q] = job[q] /\ pc'[q] = pc[q] /\ seen'[q] = seen[q]
       /\ tx'[q] = tx[q] /\ answer'[q] = answer[q]

\* A step that changes nothing but what one request has read, locked or answered.
LEMMA AloneKeeps ==
  ASSUME RInv, NEW r \in Requests, Alone(r), Fit(r)', Apart'
  PROVE  RInv'
<1>1. Committed'
  BY CommittedStays DEF RInv, Alone
<1>2. ASSUME NEW q \in Requests, q # r PROVE Fit(q)'
  BY <1>2, FitStays DEF RInv, Alone
<1> QED
  BY <1>1, <1>2 DEF RInv

\* A transaction that holds nothing new stays apart from the others.
LEMMA NoLocksApart ==
  ASSUME Apart, NEW r \in Requests, Alone(r), tx'[r] = NoTx
  PROVE  Apart'
BY DEF Apart, Alone, Deletes, NoTx

\* The end of a request that was not told of success.
LEMMA EndKeeps ==
  ASSUME TypeOK, RInv, NEW r \in Requests, NEW a \in Answers \ {"ok"}, EndWithout(r, a),
         UNCHANGED <<memories, history, heads, job, seen>>
  PROVE  RInv'
<1>1. /\ tx'[r] = NoTx /\ pc'[r] = "done" /\ answer'[r] = a
      /\ Alone(r)
  BY DEF TypeOK, EndWithout, Go, Alone
<1>2. Fit(r)'
  BY <1>1 DEF Fit, Locked, Captured, SeenFits, Kept, Linked, Holding, NoTx
<1>3. Apart'
  BY <1>1, NoLocksApart DEF RInv
<1> QED
  BY <1>1, <1>2, <1>3, AloneKeeps

\* A request before its end has no answer, and outside Holding no transaction.
LEMMA NotYet ==
  ASSUME RInv, NEW r \in Requests, pc[r] # "done"
  PROVE  answer[r] = "none" /\ (pc[r] \notin Holding => tx[r] = NoTx)
BY DEF RInv, Fit, Locked, Kept

\* A request that arrives has read nothing.
LEMMA RecordsBegin ==
  ASSUME TypeOK, RInv, NEW r \in Requests, Begin(r)
  PROVE  RInv'
<1>1. PICK j \in Workload : /\ job' = [job EXCEPT ![r] = j]
                            /\ pc' = [pc EXCEPT ![r] = FirstPc(j)]
  BY DEF Begin, Go
<1>2. tx'[r] = NoTx /\ answer'[r] = "none"
  BY NotYet DEF Begin, Holding
<1>3. Alone(r) /\ pc'[r] = FirstPc(job'[r])
  BY <1>1 DEF TypeOK, Begin, Alone, tables
<1>4. Fit(r)'
  BY <1>2, <1>3 DEF Fit, Locked, Captured, SeenFits, Kept, Linked, Holding, NoTx, FirstPc
<1> QED
  BY <1>2, <1>3, <1>4, NoLocksApart, AloneKeeps DEF RInv

\* What update_memory reads is the row as it is.
LEMMA RecordsReadRow ==
  ASSUME Typed, RInv, NEW r \in Requests, ReadRow(r)
  PROVE  RInv'
<1>1. TypeOK /\ pc[r] = "read" /\ job[r].op = "update" /\ job[r].id \in Ids
  BY JobShape DEF Typed, JobFits, ReadRow
<1>2. CASE \E a \in {"absent", "conflict"} : EndWithout(r, a) /\ UNCHANGED seen
  BY <1>1, <1>2, EndKeeps DEF ReadRow, tables, Answers
<1>3. CASE /\ memories[job[r].id] # NoRow
           /\ seen' = [seen EXCEPT ![r] = memories[job[r].id]]
           /\ Go(r, "checkTarget") /\ UNCHANGED <<tx, answer>>
  <2>1. tx'[r] = NoTx /\ answer'[r] = "none"
    BY <1>1, <1>3, NotYet DEF Holding
  <2>2. Alone(r) /\ pc'[r] = "checkTarget" /\ seen'[r] = memories[job[r].id] /\ job' = job
    BY <1>1, <1>3 DEF TypeOK, Alone, Go, ReadRow, tables
  <2>3. memories[job[r].id].version # 0 /\ Known(job[r].id) /\ memories[job[r].id].version \in Nat
    BY <1>1, <1>3 DEF RInv, Committed, Recorded, Live, TypeOK, RowType
  <2>4. SeenFits(r)'
    BY <2>2, <2>3 DEF SeenFits, Known, VersionMatches, Alone
  <2>5. Fit(r)'
    BY <2>1, <2>2, <2>4 DEF Fit, Locked, Captured, Kept, Linked, Holding, NoTx
  <2> QED
    BY <2>1, <2>2, <2>5, NoLocksApart, AloneKeeps DEF RInv
<1> QED
  BY <1>2, <1>3 DEF ReadRow

\* The target that _supersedes_exists finds is there, or the request ends.
LEMMA RecordsCheckTarget ==
  ASSUME Typed, RInv, NEW r \in Requests, CheckTarget(r)
  PROVE  RInv'
<1>1. TypeOK
  BY DEF Typed
<1>2. CASE EndWithout(r, "badTarget")
  BY <1>1, <1>2, EndKeeps DEF CheckTarget, tables, Answers
<1>3. CASE /\ Go(r, IF job[r].op = "create" THEN "insert" ELSE "write")
           /\ UNCHANGED <<tx, answer>>
  <2>1. tx'[r] = NoTx /\ answer'[r] = "none"
    BY <1>3, NotYet DEF CheckTarget, Holding
  <2>2. Alone(r) /\ pc'[r] \in {"insert", "write"} /\ seen' = seen /\ job' = job
    BY <1>1, <1>3 DEF TypeOK, Alone, Go, CheckTarget, tables
  <2>3. SeenFits(r)'
    BY <2>2 DEF RInv, Fit, SeenFits, Known, VersionMatches, Alone, CheckTarget, Live
  <2>4. Fit(r)'
    BY <2>1, <2>2, <2>3 DEF Fit, Locked, Captured, Kept, Linked, Holding, NoTx
  <2> QED
    BY <2>1, <2>2, <2>4, NoLocksApart, AloneKeeps DEF RInv
<1> QED
  BY <1>2, <1>3 DEF CheckTarget

\* A transaction that takes its first lock holds that and nothing else.
LEMMA FirstLock ==
  ASSUME TypeOK, NEW r \in Requests, tx[r] = NoTx, NEW m, tx' = [tx EXCEPT ![r].locks = {m}]
  PROVE  tx'[r] = [locks |-> {m}, shares |-> {}, ctr |-> 0, pend |-> {}]
<1>1. tx'[r] = [NoTx EXCEPT !.locks = {m}]
  BY DEF TypeOK
<1> QED
  BY <1>1 DEF NoTx

\* The UPDATE locks the row it matches; what it read is the row.
LEMMA RecordsWriteRow ==
  ASSUME Typed, RInv, NEW r \in Requests, WriteRow(r)
  PROVE  RInv'
<1>1. TypeOK /\ pc[r] = "write" /\ job[r].op = "update" /\ job[r].id \in Ids
  BY JobShape DEF Typed, JobFits, WriteRow
<1>2. tx[r] = NoTx /\ answer[r] = "none" /\ seen[r] \in RowType
  BY <1>1, NotYet DEF Holding, TypeOK
<1>3. CASE EndWithout(r, "conflict")
  BY <1>1, <1>3, EndKeeps DEF WriteRow, tables, Answers
<1>4. CASE Go(r, RetryFrom) /\ UNCHANGED <<tx, answer>>
  <2>1. tx'[r] = NoTx /\ answer'[r] = "none"
    BY <1>2, <1>4
  <2>2. Alone(r) /\ pc'[r] = "read"
    BY <1>1, <1>4 DEF TypeOK, Alone, Go, RetryFrom, WriteRow, tables
  <2>3. Fit(r)'
    BY <2>1, <2>2 DEF Fit, Locked, Captured, SeenFits, Kept, Linked, Holding, NoTx
  <2> QED
    BY <2>1, <2>2, <2>3, NoLocksApart, AloneKeeps DEF RInv
<1>5. CASE /\ VersionMatches(r) /\ RowFree(r, job[r].id)
           /\ tx' = [tx EXCEPT ![r].locks = {job[r].id}]
           /\ Go(r, IF Target(r) \in {NoId, seen[r].supersedes} THEN "capture" ELSE "shareTarget")
           /\ UNCHANGED answer
  <2>1. /\ tx'[r] = [locks |-> {job[r].id}, shares |-> {}, ctr |-> 0, pend |-> {}]
        /\ answer'[r] = "none"
    BY <1>1, <1>2, <1>5, FirstLock
  <2>2. Alone(r) /\ job' = job /\ seen' = seen /\ pc'[r] \in {"capture", "shareTarget"}
    BY <1>1, <1>5 DEF TypeOK, Alone, Go, WriteRow, tables
  <2>3. pc'[r] = "capture" => Target(r) \in {NoId, seen[r].supersedes}
    BY <1>1, <1>5 DEF TypeOK, Go
  <2>4. Target(r)' = Target(r) /\ VersionMatches(r)'
    BY <1>5, <2>2 DEF Target, VersionMatches, Alone
  <2>5. Locked(r)'
    BY <1>1, <2>1, <2>2, <2>4 DEF Locked, Holding
  <2>6. SeenFits(r)'
    BY <1>1, <2>2 DEF RInv, Fit, SeenFits, Known, VersionMatches, Alone, Live
  <2>7. Linked(r)'
    BY <1>1, <2>1, <2>2, <2>3, <2>4 DEF Linked
  <2>8. Fit(r)'
    BY <2>1, <2>2, <2>5, <2>6, <2>7 DEF Fit, Captured, Kept
  <2>9. Apart'
    BY <1>1, <1>5, <2>1, <2>2 DEF RInv, Apart, Alone, Deletes, RowFree
  <2> QED
    BY <2>2, <2>8, <2>9, AloneKeeps
<1> QED
  BY <1>3, <1>4, <1>5 DEF WriteRow

\* A new row gets an id without history that nobody else is inserting.
LEMMA RecordsInsertRow ==
  ASSUME Typed, RInv, NEW r \in Requests, InsertRow(r)
  PROVE  RInv'
<1>1. TypeOK /\ pc[r] = "insert" /\ job[r].op = "create" /\ job[r].target \in Ids \cup {NoId}
  BY JobShape DEF Typed, JobFits, InsertRow
<1>2. tx[r] = NoTx /\ answer[r] = "none"
  BY <1>1, NotYet DEF Holding
<1>3. PICK m \in Ids : /\ heads[m].last = 0 /\ \A q \in Requests : m \notin tx[q].locks
                       /\ job' = [job EXCEPT ![r].id = m]
                       /\ tx' = [tx EXCEPT ![r].locks = {m}]
  BY DEF InsertRow
<1>4. ~Known(m)
  BY <1>1, <1>3, LatestOfKnown DEF RInv, Committed, RowsMatchHistory
<1>5. /\ tx'[r] = [locks |-> {m}, shares |-> {}, ctr |-> 0, pend |-> {}]
      /\ answer'[r] = "none"
  BY <1>1, <1>2, <1>3, FirstLock DEF InsertRow
<1>6. job'[r].id = m /\ job'[r].op = "create" /\ job'[r].target = job[r].target
  BY <1>1, <1>3 DEF TypeOK, JobType
<1>7. Alone(r) /\ pc'[r] \in {"capture", "shareTarget"} /\ (pc'[r] = "capture" => job[r].target = NoId)
  BY <1>1, <1>3 DEF TypeOK, Alone, Go, InsertRow, tables
<1>8. Locked(r)'
  BY <1>4, <1>5, <1>6, <1>7 DEF Locked, Holding, Known, Alone
<1>9. Linked(r)'
  BY <1>1, <1>5, <1>6, <1>7, ConstantsOK DEF Linked, Target
<1>10. Fit(r)'
  BY <1>5, <1>6, <1>7, <1>8, <1>9 DEF Fit, Captured, SeenFits, Kept
<1>11. Apart'
  BY <1>3, <1>5, <1>6, <1>7 DEF RInv, Apart, Alone, Deletes
<1> QED
  BY <1>7, <1>10, <1>11, AloneKeeps

\* The foreign-key check finds its target live and keeps it from being deleted.
LEMMA RecordsShareTarget ==
  ASSUME Typed, RInv, NEW r \in Requests, ShareTarget(r)
  PROVE  RInv'
<1>1. TypeOK /\ pc[r] = "shareTarget" /\ Target(r) \in Ids /\ job[r].op # "delete"
  <2>1. TypeOK /\ pc[r] = "shareTarget" /\ Target(r) \in Ids
    BY DEF Typed, JobFits, ShareTarget
  <2>2. job[r].op = "delete" => job[r].target = NoId
    BY <2>1 DEF TypeOK, JobType
  <2>3. job[r].target = NoId => Target(r) \notin Ids
    BY ConstantsOK DEF Target
  <2> QED
    BY <2>1, <2>2, <2>3
<1>2. CASE EndWithout(r, "badTarget")
  BY <1>1, <1>2, EndKeeps DEF ShareTarget, tables, Answers
<1>3. CASE /\ Live(Target(r)) /\ TargetFree(r, Target(r))
           /\ tx' = [tx EXCEPT ![r].shares = {Target(r)}]
           /\ Go(r, "capture") /\ UNCHANGED answer
  <2>1. /\ tx'[r].locks = tx[r].locks /\ tx'[r].shares = {Target(r)} /\ tx'[r].pend = tx[r].pend
        /\ answer'[r] = "none"
    BY <1>1, <1>3, NotYet DEF TypeOK, TxType
  <2>2. Alone(r) /\ job' = job /\ seen' = seen /\ pc'[r] = "capture"
    BY <1>1, <1>3 DEF TypeOK, Alone, Go, ShareTarget, tables
  <2>3. Target(r)' = Target(r)
    BY <2>2 DEF Target
  <2>4. Locked(r)'
    BY <1>1, <2>1, <2>2 DEF RInv, Fit, Locked, Holding, Alone, Known, VersionMatches, Live
  <2>5. SeenFits(r)'
    BY <1>1, <2>2 DEF RInv, Fit, SeenFits, Known, VersionMatches, Alone, Live, Holding
  <2>6. Captured(r)'
    BY <2>1, <2>2, CapturedStays DEF RInv, Fit, Alone
  <2>7. Linked(r)'
    BY <1>1, <1>3, <2>1, <2>2, <2>3 DEF Linked, Live, Alone
  <2>8. Fit(r)'
    BY <2>1, <2>2, <2>4, <2>5, <2>6, <2>7 DEF Fit, Kept
  <2>9. Apart'
    BY <1>1, <1>3, <2>1, <2>2 DEF RInv, Apart, Alone, Deletes, TargetFree
  <2> QED
    BY <2>2, <2>8, <2>9, AloneKeeps
<1> QED
  BY <1>2, <1>3 DEF ShareTarget

\* The DELETE locks a live row that no transaction is about to point to.
LEMMA RecordsLockRow ==
  ASSUME Typed, RInv, NEW r \in Requests, LockRow(r)
  PROVE  RInv'
<1>1. TypeOK /\ pc[r] = "lockRow" /\ job[r].op = "delete" /\ job[r].id \in Ids
  BY JobShape DEF Typed, JobFits, LockRow
<1>2. CASE EndWithout(r, "absent")
  BY <1>1, <1>2, EndKeeps DEF LockRow, tables, Answers
<1>3. CASE /\ Live(job[r].id) /\ KeyFree(r, job[r].id)
           /\ tx' = [tx EXCEPT ![r].locks = {job[r].id}]
           /\ Go(r, "cascade") /\ UNCHANGED answer
  <2>1. /\ tx'[r] = [locks |-> {job[r].id}, shares |-> {}, ctr |-> 0, pend |-> {}]
        /\ answer'[r] = "none"
    BY <1>1, <1>3, NotYet, FirstLock DEF Holding
  <2>2. Alone(r) /\ job' = job /\ seen' = seen /\ pc'[r] = "cascade"
    BY <1>1, <1>3 DEF TypeOK, Alone, Go, LockRow, tables
  <2>3. Locked(r)'
    BY <1>1, <1>3, <2>1, <2>2 DEF Locked, Holding, Live, Alone
  <2>4. Fit(r)'
    BY <1>1, <2>1, <2>2, <2>3 DEF Fit, Captured, SeenFits, Kept, Linked
  <2>5. Apart'
    BY <1>1, <1>3, <2>1, <2>2 DEF RInv, Apart, Alone, Deletes, KeyFree, RowFree
  <2> QED
    BY <2>2, <2>4, <2>5, AloneKeeps
<1> QED
  BY <1>2, <1>3 DEF LockRow

\* ON DELETE SET NULL locks a row that points to the deleted one and is free.
LEMMA RecordsDetachRow ==
  ASSUME Typed, RInv, NEW r \in Requests, DetachRow(r)
  PROVE  RInv'
<1>1. TypeOK /\ pc[r] = "cascade" /\ job[r].op = "delete" /\ job[r].id \in Ids
  BY JobShape DEF Typed, JobFits, DetachRow
<1>2. PICK m \in ToDetach(r) : RowFree(r, m) /\ tx' = [tx EXCEPT ![r].locks = @ \cup {m}]
  BY DEF DetachRow
<1>3. /\ tx'[r].locks = tx[r].locks \cup {m} /\ tx'[r].shares = tx[r].shares /\ tx'[r].pend = tx[r].pend
      /\ answer' = answer /\ memories[m].supersedes = job[r].id
  BY <1>1, <1>2 DEF TypeOK, TxType, DetachRow, ToDetach
<1>4. Alone(r) /\ job' = job /\ seen' = seen /\ pc' = pc
  BY <1>1, <1>2 DEF TypeOK, Alone, DetachRow, tables
<1>5. Locked(r)'
  BY <1>1, <1>3, <1>4 DEF RInv, Fit, Locked, Holding, Live, Alone
<1>6. Captured(r)'
  BY <1>3, <1>4, CapturedStays DEF RInv, Fit, Alone
<1>7. Linked(r)'
  BY <1>1, <1>3, <1>4 DEF RInv, Fit, Linked, Live, Alone
<1>8. Fit(r)'
  BY <1>1, <1>3, <1>4, <1>5, <1>6, <1>7 DEF RInv, Fit, SeenFits, Kept
<1>9. Apart'
  BY <1>1, <1>2, <1>3, <1>4 DEF RInv, Fit, Locked, Holding, Apart, Alone, Deletes, RowFree
<1> QED
  BY <1>4, <1>8, <1>9, AloneKeeps

\* The capture trigger writes one entry for one of the rows held.
LEMMA RecordsCapture ==
  ASSUME Typed, RInv, NEW r \in Requests, Capture(r)
  PROVE  RInv'
<1>1. TypeOK /\ pc[r] \in {"cascade", "capture"} /\ (pc[r] = "cascade" => job[r].op = "delete" /\ ToDetach(r) = {})
  BY DEF Typed, JobFits, Capture
<1>2. PICK m \in Ids \cap Uncaptured(r) :
        tx' = [tx EXCEPT ![r] = [locks |-> tx[r].locks, shares |-> tx[r].shares,
                                 ctr |-> NextSeq(r), pend |-> tx[r].pend \cup {NewEntry(r, m)}]]
  BY <1>1, CaptureEffect
<1>3. /\ tx'[r].locks = tx[r].locks /\ tx'[r].shares = tx[r].shares
      /\ tx'[r].pend = tx[r].pend \cup {NewEntry(r, m)}
      /\ answer' = answer
  BY <1>1, <1>2 DEF TypeOK, Capture
<1>4. Alone(r) /\ job' = job /\ seen' = seen /\ pc'[r] = "capture"
  BY <1>1, <1>2 DEF TypeOK, Alone, Go, Capture, tables
<1>5. Locked(r)'
  BY <1>1, <1>3, <1>4 DEF RInv, Fit, Locked, Holding, Live, Alone, Known, VersionMatches
<1>6. Captured(r)'
  <2>1. Captured(r)
    BY DEF RInv, Fit
  <2>2. m \in tx[r].locks /\ \A e \in tx[r].pend : e.id # m
    BY <1>2 DEF Uncaptured
  <2>3. /\ NewEntry(r, m).id = m /\ NewEntry(r, m).before = memories[m]
        /\ NewEntry(r, m).prev = LatestSeq(m) /\ NewEntry(r, m).after = NewImage(r, m)
    BY DEF NewEntry
  <2>4. \A k : NewImage(r, k)' = NewImage(r, k) /\ LatestSeq(k)' = LatestSeq(k) /\ memories' = memories
    BY <1>4 DEF NewImage, Target, LatestSeq, IsLatest, Alone
  <2> QED
    BY <1>3, <2>1, <2>2, <2>3, <2>4 DEF Captured
<1>7. SeenFits(r)'
  BY <1>1, <1>4 DEF RInv, Fit, SeenFits, Known, VersionMatches, Alone, Live, Holding
<1>8. Linked(r)'
  BY <1>1, <1>3, <1>4 DEF RInv, Fit, Linked, Live, Alone, Target, ToDetach
<1>9. Fit(r)'
  BY <1>1, <1>3, <1>4, <1>5, <1>6, <1>7, <1>8, NotYet DEF Fit, Kept
<1>10. Apart'
  BY <1>3, <1>4 DEF RInv, Apart, Alone, Deletes
<1> QED
  BY <1>4, <1>9, <1>10, AloneKeeps

-----------------------------------------------------------------------------
(* COMMIT *)

\* What a transaction is about to do to a row it holds.
LEMMA ImageFacts ==
  ASSUME Typed, RInv, NEW r \in Requests, pc[r] = "capture", NEW m \in tx[r].locks
  PROVE  /\ m \in Ids
         /\ Live(m) => \/ NewImage(r, m) = NoRow
                       \/ /\ NewImage(r, m).version = memories[m].version + 1
                          /\ memories[m].fields \subseteq NewImage(r, m).fields
         /\ ~Live(m) => NewImage(r, m).version = 1 /\ ~Known(m)
         /\ NewImage(r, m) = NoRow => job[r].op = "delete" /\ m = job[r].id
         /\ NewImage(r, m).supersedes # NoId =>
              /\ job[r].op # "delete" /\ m = job[r].id /\ NewImage(r, m).supersedes = Target(r)
         /\ job[r].op = "update" => m = job[r].id /\ r \in NewImage(r, m).fields
<1>1. TypeOK /\ Locked(r) /\ SeenFits(r) /\ Recorded
  BY DEF Typed, RInv, Fit, Committed
<1>2. m \in Ids /\ memories[m] \in RowType /\ memories[m].version \in Nat
  BY <1>1 DEF TypeOK, TxType, RowType
<1>3. NoRow.version = 0 /\ NoRow.supersedes = NoId
  BY DEF NoRow
<1>4. CASE job[r].op = "create"
  <2>1. m = job[r].id /\ ~Known(m) /\ ~Live(m)
    BY <1>1, <1>2, <1>4 DEF Locked, Holding, Recorded
  <2>2. job[r].target # Keep
    BY <1>1, <1>4, JobShape, ConstantsOK
  <2>3. /\ NewImage(r, m).version = 1 /\ NewImage(r, m).supersedes = Target(r)
    BY <1>4, <2>2 DEF NewImage, Target
  <2> QED
    BY <1>2, <1>3, <1>4, <2>1, <2>3
<1>5. CASE job[r].op = "update"
  <2>1. m = job[r].id /\ VersionMatches(r)
    BY <1>1, <1>5 DEF Locked, Holding
  <2>2. seen[r] = memories[m] /\ memories[m].version # 0
    BY <1>1, <1>5, <2>1 DEF SeenFits, Holding, VersionMatches
  <2>3. /\ NewImage(r, m).version = memories[m].version + 1
        /\ NewImage(r, m).fields = memories[m].fields \cup {r}
        /\ NewImage(r, m).supersedes = Target(r)
    BY <1>5, <2>2 DEF NewImage
  <2> QED
    BY <1>2, <1>3, <1>5, <2>1, <2>2, <2>3 DEF Live
<1>6. CASE job[r].op = "delete"
  <2>1. Live(m)
    <3>1. m # job[r].id => memories[m].supersedes = job[r].id /\ job[r].id \in Ids
      BY <1>1, <1>6, JobShape DEF Locked, Holding
    <3> QED
      BY <1>1, <1>3, <1>6, <3>1, ConstantsOK DEF Locked, Holding, Live
  <2>2. CASE m = job[r].id
    <3>1. NewImage(r, m) = NoRow
      BY <1>6, <2>2 DEF NewImage
    <3> QED
      BY <1>2, <1>3, <1>6, <2>1, <2>2, <3>1
  <2>3. CASE m # job[r].id
    <3>1. NewImage(r, m) = [version |-> memories[m].version + 1, fields |-> memories[m].fields, supersedes |-> NoId]
      BY <1>6, <2>3 DEF NewImage
    <3>2. NewImage(r, m) # NoRow
      BY <1>2, <1>3, <3>1
    <3> QED
      BY <1>2, <1>6, <2>1, <3>1, <3>2
  <2> QED
    BY <2>2, <2>3
<1> QED
  BY <1>1, <1>4, <1>5, <1>6, JobShape

\* What the commit leaves of a record: its new image and entry if it was held, else what it was.
Rewritten(r, m, e) ==
  /\ memories'[m] = NewImage(r, m)
  /\ heads'[m] = [last |-> e.seq, deleted |-> NewImage(r, m) = NoRow]
  /\ e \in tx[r].pend /\ e.id = m
  /\ e.before = memories[m] /\ e.prev = LatestSeq(m) /\ e.after = NewImage(r, m)
  /\ \A f \in history' : f.id = m => f = e \/ (f \in history /\ f.seq < e.seq)
  /\ \A f \in history : f.seq < e.seq
  /\ IsLatest(e, m)' /\ LatestSeq(m)' = e.seq /\ Known(m)'

Untouched(m) ==
  /\ memories'[m] = memories[m] /\ heads'[m] = heads[m]
  /\ \A e \in history' : e.id = m => e \in history
  /\ Known(m)' <=> Known(m)
  /\ LatestSeq(m)' = LatestSeq(m)

\* The entries of a transaction come after all that are committed.
LEMMA PendingAbove ==
  ASSUME TypeOK, Counting, NEW r \in Requests, tx[r].ctr # 0, NEW e \in tx[r].pend, NEW f \in history
  PROVE  f.seq < e.seq /\ e # f
<1>1. e.seq \in (counter + 1)..tx[r].ctr /\ f.seq \in 1..counter
  BY DEF Counting, PendingNumbered, CounterBacked
<1>2. counter \in Nat /\ tx[r].ctr \in Nat
  BY DEF TypeOK, TxType
<1> QED
  BY <1>1, <1>2

\* A commit writes the rows it has locked, as its entries say, and no other.
LEMMA CommitRecords ==
  ASSUME Typed, Typed', Counting, RInv, NEW r \in Requests, Commit(r)
  PROVE  /\ \A m \in tx[r].locks : \E e \in tx[r].pend : Rewritten(r, m, e)
         /\ \A m \in Ids \ tx[r].locks : Untouched(m)
         /\ history' = history \cup tx[r].pend
         /\ \A e \in tx[r].pend : e.id \in tx[r].locks
<1>1. TypeOK /\ TypeOK' /\ Captured(r) /\ HasLatest
  BY DEF Typed, RInv, Fit, Committed
<1>2. /\ memories' = [m \in Ids |-> IF Written(r, m) = {} THEN memories[m] ELSE EntryFor(r, m).after]
      /\ heads' = [m \in Ids |-> IF Written(r, m) = {} THEN heads[m] ELSE HeadAfter(EntryFor(r, m))]
      /\ history' = history \cup tx[r].pend
      /\ \A m : Written(r, m) # {} => EntryFor(r, m) \in tx[r].pend /\ EntryFor(r, m).id = m
  BY <1>1, CommitEffect
<1>3. tx[r].ctr # 0 /\ Uncaptured(r) = {} /\ tx[r] \in TxType
  BY <1>1 DEF Commit, TypeOK
<1>4. \A e \in tx[r].pend, f \in history : f.seq < e.seq
  BY <1>1, <1>3, PendingAbove
<1>5. \A e \in tx[r].pend : e.id \in tx[r].locks
  BY <1>1 DEF Captured
<1>6. ASSUME NEW m \in tx[r].locks PROVE \E e \in tx[r].pend : Rewritten(r, m, e)
  <2>1. m \in Ids
    BY <1>3 DEF TxType
  <2>2. Written(r, m) # {}
    BY <1>3 DEF Uncaptured, Written
  <2>3. PICK e \in tx[r].pend : e = EntryFor(r, m) /\ e.id = m
    BY <1>2, <2>2
  <2>4. e.before = memories[m] /\ e.prev = LatestSeq(m) /\ e.after = NewImage(r, m)
    BY <1>1, <2>3 DEF Captured
  <2>5. memories'[m] = NewImage(r, m) /\ heads'[m] = HeadAfter(e)
    BY <1>2, <2>1, <2>2, <2>3, <2>4
  <2>6. heads'[m] = [last |-> e.seq, deleted |-> NewImage(r, m) = NoRow]
    BY <2>4, <2>5 DEF HeadAfter
  <2>7. \A f \in history' : f.id = m => f = e \/ (f \in history /\ f.seq < e.seq)
    BY <1>1, <1>2, <1>4, <2>3 DEF Captured
  <2>8. e \in history' /\ history' \subseteq EntryType
    BY <1>1, <1>2, <2>3 DEF TypeOK
  <2>9. \A f \in history' : f.id = m => f.seq <= e.seq
    BY <2>7, <2>8 DEF EntryType
  <2>10. IsLatest(e, m)'
    BY <2>3, <2>9 DEF IsLatest
  <2>11. LatestSeq(m)' = e.seq /\ Known(m)'
    BY <1>1, <2>3, <2>8, <2>10, LatestIsNext DEF Known
  <2> QED
    BY <1>4, <2>3, <2>4, <2>5, <2>6, <2>7, <2>10, <2>11 DEF Rewritten
<1>7. ASSUME NEW m \in Ids \ tx[r].locks PROVE Untouched(m)
  <2>1. Written(r, m) = {}
    BY <1>5 DEF Written
  <2>2. memories'[m] = memories[m] /\ heads'[m] = heads[m]
    BY <1>2, <2>1
  <2>3. \A e \in history' : e.id = m => e \in history
    BY <1>2, <1>5
  <2>4. Known(m)' <=> Known(m)
    BY <1>2, <2>3 DEF Known
  <2>5. LatestSeq(m)' = LatestSeq(m)
    <3>1. CASE Known(m)
      <4>1. PICK f \in history : IsLatest(f, m) /\ LatestSeq(m) = f.seq
        BY <1>1, <3>1, LatestOfKnown
      <4>2. IsLatest(f, m)' /\ f \in history'
        BY <1>2, <2>3, <4>1 DEF IsLatest
      <4> QED
        BY <1>1, <4>1, <4>2, LatestIsNext
    <3>2. CASE ~Known(m)
      BY <2>4, <3>2, LatestOfUnknown
    <3> QED
      BY <3>1, <3>2
  <2> QED
    BY <2>2, <2>3, <2>4, <2>5 DEF Untouched
<1> QED
  BY <1>2, <1>5, <1>6, <1>7

\* Rows, heads, chains and links after a commit.
LEMMA CommittedCommit ==
  ASSUME Typed, Typed', Counting, RInv, NEW r \in Requests, Commit(r)
  PROVE  Committed'
<1>1. TypeOK /\ TypeOK' /\ Committed /\ pc[r] = "capture"
  BY DEF Typed, RInv, Commit
<1>2. /\ \A m \in tx[r].locks : \E e \in tx[r].pend : Rewritten(r, m, e)
      /\ \A m \in Ids \ tx[r].locks : Untouched(m)
      /\ history' = history \cup tx[r].pend
      /\ \A e \in tx[r].pend : e.id \in tx[r].locks
  BY CommitRecords
<1>3. tx[r].locks \subseteq Ids /\ history \subseteq EntryType /\ history' \subseteq EntryType
  BY <1>1 DEF TypeOK, TxType
<1>4. \A e \in history' : e.id \in Ids /\ e.seq \in Nat \ {0}
  BY <1>3 DEF EntryType
<1>5. HasLatest'
  <2>1. SUFFICES ASSUME NEW e \in history' PROVE \E f \in history' : IsLatest(f, e.id)'
    BY DEF HasLatest
  <2>2. CASE e.id \in tx[r].locks
    BY <1>2, <2>2 DEF Rewritten
  <2>3. CASE e.id \notin tx[r].locks
    <3>1. e \in history /\ Untouched(e.id)
      BY <1>2, <1>4, <2>3
    <3>2. PICK f \in history : IsLatest(f, e.id)
      BY <1>1, <3>1 DEF Committed, HasLatest
    <3> QED
      BY <1>2, <3>1, <3>2 DEF IsLatest, Untouched
  <2> QED
    BY <2>2, <2>3
<1>6. Recorded'
  <2>1. SUFFICES ASSUME NEW m \in Ids, Live(m)' PROVE memories'[m].version # 0 /\ Known(m)'
    BY DEF Recorded
  <2>2. CASE m \in tx[r].locks
    <3>1. memories'[m] = NewImage(r, m) /\ Known(m)' /\ memories[m].version \in Nat
      BY <1>1, <1>2, <2>2 DEF Rewritten, TypeOK, RowType
    <3>2. NewImage(r, m) # NoRow
      BY <2>1, <3>1 DEF Live
    <3> QED
      BY <1>1, <2>2, <3>1, <3>2, ImageFacts
  <2>3. CASE m \notin tx[r].locks
    <3>1. Untouched(m) /\ Live(m)
      BY <1>2, <2>1, <2>3 DEF Untouched, Live
    <3> QED
      BY <1>1, <3>1 DEF Committed, Recorded, Untouched
  <2> QED
    BY <2>2, <2>3
<1>7. RowsMatchHistory'
  <2>1. SUFFICES ASSUME NEW m \in Ids
        PROVE  /\ heads'[m].last = LatestSeq(m)'
               /\ heads'[m].deleted <=> (heads'[m].last # 0 /\ ~Live(m)')
               /\ \A e \in history' : IsLatest(e, m)' => e.after = memories'[m]
    BY DEF RowsMatchHistory
  <2>2. CASE m \in tx[r].locks
    <3>1. PICK e \in tx[r].pend : Rewritten(r, m, e)
      BY <1>2, <2>2
    <3>2. e \in history' /\ e.seq # 0
      BY <1>2, <1>4
    <3>3. \A f \in history' : IsLatest(f, m)' => f = e
      <4>1. TAKE f \in history'
      <4>2. HAVE IsLatest(f, m)'
      <4>3. f.id = m /\ f.seq >= e.seq /\ f.seq \in Nat /\ e.seq \in Nat
        BY <1>4, <3>1, <3>2, <4>2 DEF IsLatest, Rewritten
      <4> QED
        BY <3>1, <4>3 DEF Rewritten
    <3>4. heads'[m].last = e.seq /\ LatestSeq(m)' = e.seq /\ memories'[m] = e.after
      BY <3>1 DEF Rewritten
    <3>5. heads'[m].deleted <=> ~Live(m)'
      <4>1. Live(m)' <=> NewImage(r, m) # NoRow
        BY <3>1 DEF Rewritten, Live
      <4>2. CASE NewImage(r, m) = NoRow
        <5>1. heads'[m] = [last |-> e.seq, deleted |-> TRUE]
          BY <3>1, <4>2 DEF Rewritten
        <5> QED
          BY <4>1, <4>2, <5>1
      <4>3. CASE NewImage(r, m) # NoRow
        <5>1. heads'[m] = [last |-> e.seq, deleted |-> FALSE]
          BY <3>1, <4>3 DEF Rewritten
        <5> QED
          BY <4>1, <4>3, <5>1
      <4> QED
        BY <4>2, <4>3
    <3> QED
      BY <3>2, <3>3, <3>4, <3>5
  <2>3. CASE m \notin tx[r].locks
    <3>1. Untouched(m)
      BY <1>2, <2>3
    <3>2. /\ heads[m].last = LatestSeq(m)
          /\ heads[m].deleted <=> (heads[m].last # 0 /\ ~Live(m))
          /\ \A e \in history : IsLatest(e, m) => e.after = memories[m]
      BY <1>1 DEF Committed, RowsMatchHistory
    <3>3. \A e \in history' : IsLatest(e, m)' => e \in history /\ IsLatest(e, m)
      BY <1>2, <3>1 DEF IsLatest, Untouched
    <3> QED
      BY <3>1, <3>2, <3>3 DEF Untouched, Live
  <2> QED
    BY <2>2, <2>3
<1>8. ChainIntact'
  <2> DEFINE Fine(e, H) ==
        LET earlier == {f \in H : f.id = e.id /\ f.seq < e.seq}
        IN IF earlier = {} THEN e.prev = 0 /\ e.before = NoRow /\ e.after.version = 1
           ELSE \E f \in earlier :
                  /\ e.prev = f.seq /\ \A g \in earlier : g.seq <= f.seq
                  /\ e.before = f.after
                  /\ e.after = NoRow \/ e.after.version = f.after.version + 1
  <2>1. SUFFICES ASSUME NEW e \in history' PROVE Fine(e, history')
    BY DEF ChainIntact
  <2>2. CASE e \in history
    <3>1. Fine(e, history)
      BY <1>1, <2>2 DEF Committed, ChainIntact
    <3>2. \A f \in tx[r].pend : ~(f.seq < e.seq)
      <4>1. TAKE f \in tx[r].pend
      <4>2. e.seq < f.seq
        BY <1>1, <2>2, PendingAbove DEF Commit
      <4>3. e.seq \in Nat /\ f.seq \in Nat
        BY <1>2, <1>4
      <4> QED
        BY <4>2, <4>3
    <3>3. {f \in history' : f.id = e.id /\ f.seq < e.seq} = {f \in history : f.id = e.id /\ f.seq < e.seq}
      BY <1>2, <3>2
    <3> QED
      BY <3>1, <3>3
  <2>3. CASE e \in tx[r].pend
    <3> DEFINE m == e.id
               earlier == {f \in history : f.id = m}
    <3>1. m \in tx[r].locks /\ m \in Ids
      BY <1>2, <1>3, <2>3
    <3>2. PICK x \in tx[r].pend : Rewritten(r, m, x)
      BY <1>2, <3>1
    <3>3. e = x
      <4>1. e \notin history
        BY <1>1, <2>3, PendingAbove DEF Commit
      <4> QED
        BY <1>2, <2>3, <3>2, <4>1 DEF Rewritten
    <3>4. {f \in history' : f.id = e.id /\ f.seq < e.seq} = earlier
      BY <1>2, <1>4, <3>2, <3>3 DEF Rewritten
    <3>5. e.before = memories[m] /\ e.prev = LatestSeq(m) /\ e.after = NewImage(r, m)
      BY <3>2, <3>3 DEF Rewritten
    <3>6. CASE earlier = {}
      <4>1. ~Known(m)
        BY <3>6 DEF Known
      <4>2. ~Live(m) /\ LatestSeq(m) = 0
        BY <1>1, <3>1, <4>1, LatestOfUnknown DEF Committed, Recorded
      <4>3. NewImage(r, m).version = 1
        BY <1>1, <3>1, <4>2, ImageFacts
      <4> QED
        BY <3>4, <3>5, <3>6, <4>2, <4>3 DEF Live
    <3>7. CASE earlier # {}
      <4>1. Known(m)
        BY <3>7 DEF Known
      <4>2. PICK f \in history : IsLatest(f, m) /\ LatestSeq(m) = f.seq
        BY <1>1, <4>1, LatestOfKnown DEF Committed
      <4>3. f.after = memories[m]
        BY <1>1, <3>1, <4>2 DEF Committed, RowsMatchHistory
      <4>4. Live(m)
        BY <1>1, <3>1, <4>1, ImageFacts
      <4>5. NewImage(r, m) = NoRow \/ NewImage(r, m).version = memories[m].version + 1
        BY <1>1, <3>1, <4>4, ImageFacts
      <4>6. f \in earlier /\ \A g \in earlier : g.seq <= f.seq
        BY <4>2 DEF IsLatest
      <4> QED
        BY <3>4, <3>5, <3>7, <4>2, <4>3, <4>5, <4>6
    <3> QED
      BY <3>6, <3>7
  <2> QED
    BY <1>2, <2>2, <2>3
<1>9. NoDanglingSupersedes'
  <2>1. SUFFICES ASSUME NEW m \in Ids, memories'[m].supersedes # NoId
        PROVE  memories'[memories'[m].supersedes] # NoRow
    BY DEF NoDanglingSupersedes, Live
  <2>2. PICK t \in Ids : t = memories'[m].supersedes
    BY <1>1, <2>1 DEF TypeOK, RowType
  <2>3. \A k \in Ids : Live(k) /\ memories'[k] = NoRow => job[r].op = "delete" /\ k = job[r].id
    <3>1. SUFFICES ASSUME NEW k \in Ids, Live(k), memories'[k] = NoRow PROVE job[r].op = "delete" /\ k = job[r].id
      OBVIOUS
    <3>2. k \in tx[r].locks
      BY <1>2, <3>1 DEF Untouched, Live
    <3>3. memories'[k] = NewImage(r, k)
      BY <1>2, <3>2 DEF Rewritten
    <3>4. NewImage(r, k) = NoRow
      BY <3>1, <3>3
    <3> QED
      BY <1>1, <3>2, <3>4, ImageFacts
  <2>4. \A k \in Ids : memories[k].supersedes # NoId => Live(memories[k].supersedes)
    BY <1>1 DEF Committed, NoDanglingSupersedes
  <2>5. Locked(r) /\ Linked(r) /\ SeenFits(r)
    BY DEF RInv, Fit
  <2>6. CASE m \notin tx[r].locks
    <3>1. memories'[m] = memories[m]
      BY <1>2, <2>6 DEF Untouched
    <3>2. Live(t)
      BY <2>1, <2>2, <2>4, <3>1
    <3>3. job[r].op = "delete" => t # job[r].id
      <4>1. SUFFICES ASSUME job[r].op = "delete", t = job[r].id PROVE FALSE
        OBVIOUS
      <4>2. m # job[r].id
        BY <1>1, <2>5, <2>6 DEF Locked, Holding
      <4>3. m \in ToDetach(r)
        BY <2>2, <2>6, <3>1, <4>1, <4>2 DEF ToDetach
      <4> QED
        BY <1>1, <2>5, <4>1, <4>3 DEF Linked
    <3> QED
      BY <2>2, <2>3, <3>2, <3>3
  <2>7. CASE m \in tx[r].locks
    <3>1. memories'[m] = NewImage(r, m)
      BY <1>2, <2>7 DEF Rewritten
    <3>2. job[r].op # "delete" /\ m = job[r].id /\ t = Target(r)
      BY <1>1, <2>1, <2>2, <2>7, <3>1, ImageFacts
    <3>3. Live(t)
      <4>1. CASE Target(r) \in tx[r].shares
        BY <2>5, <3>2, <4>1 DEF Linked
      <4>2. CASE job[r].op = "update" /\ Target(r) = seen[r].supersedes
        <5>1. seen[r] = memories[m]
          BY <1>1, <2>5, <3>2, <4>2 DEF Locked, Holding, SeenFits
        <5> QED
          BY <2>1, <2>2, <2>4, <3>2, <4>2, <5>1
      <4> QED
        BY <1>1, <2>1, <2>2, <2>5, <3>2, <4>1, <4>2 DEF Linked
    <3> QED
      BY <2>2, <2>3, <3>2, <3>3
  <2> QED
    BY <2>6, <2>7
<1> QED
  BY <1>5, <1>6, <1>7, <1>8, <1>9 DEF Committed

\* A commit leaves what is said of the other requests true.
LEMMA OthersCommit ==
  ASSUME Typed, Typed', Counting, RInv, NEW r \in Requests, Commit(r), NEW q \in Requests, q # r
  PROVE  Fit(q)'
<1>1. TypeOK /\ TypeOK' /\ Committed /\ pc[r] = "capture" /\ Fit(q) /\ Fit(r) /\ Apart
  BY DEF Typed, RInv, Commit
<1>2. /\ \A m \in tx[r].locks : \E e \in tx[r].pend : Rewritten(r, m, e)
      /\ \A m \in Ids \ tx[r].locks : Untouched(m)
  BY CommitRecords
<1>3. /\ job' = job /\ seen' = seen /\ tx'[q] = tx[q] /\ pc'[q] = pc[q] /\ answer'[q] = answer[q]
  BY <1>1 DEF Commit, EndWithout, Go, TypeOK
<1>4. tx[q].locks \subseteq Ids /\ tx[q].shares \subseteq Ids /\ tx[r].locks \subseteq Ids
  BY <1>1 DEF TypeOK, TxType
<1>5. \A m \in tx[q].locks : Untouched(m)
  BY <1>1, <1>2, <1>4 DEF Apart
<1>6. \A m \in Ids : Known(m) => Known(m)'
  BY <1>2 DEF Rewritten, Untouched
<1>7. Locked(q)'
  <2>1. CASE pc[q] \notin Holding
    BY <1>1, <1>3, <2>1 DEF Fit, Locked, Holding
  <2>2. CASE pc[q] \in Holding
    <3>1. job[q].id \in tx[q].locks /\ Untouched(job[q].id)
      BY <1>1, <1>5, <2>2 DEF Fit, Locked
    <3>2. /\ job[q].op = "create" => ~Known(job[q].id)'
          /\ job[q].op = "update" => VersionMatches(q)'
          /\ job[q].op = "delete" => Live(job[q].id)'
      BY <1>1, <1>3, <2>2, <3>1 DEF Fit, Locked, Untouched, VersionMatches, Live, Known
    <3>3. \A m \in tx[q].locks : memories'[m] = memories[m]
      BY <1>5 DEF Untouched
    <3> QED
      BY <1>1, <1>3, <2>2, <3>1, <3>2, <3>3 DEF Fit, Locked, Holding, Known, Live
  <2> QED
    BY <2>1, <2>2
<1>8. Captured(q)'
  <2>1. \A m \in tx[q].locks : memories'[m] = memories[m] /\ LatestSeq(m)' = LatestSeq(m)
    BY <1>5 DEF Untouched
  <2>2. \A m \in tx[q].locks : NewImage(q, m)' = NewImage(q, m)
    BY <1>3, <2>1 DEF NewImage, Target
  <2> QED
    BY <1>1, <1>3, <2>1, <2>2 DEF Fit, Captured
<1>9. \A m \in Ids : Known(m) =>
        \/ memories'[m] = memories[m]
        \/ memories'[m] = NoRow
        \/ /\ memories'[m].version = memories[m].version + 1
           /\ Live(m) /\ memories[m].fields \subseteq memories'[m].fields
  <2>1. SUFFICES ASSUME NEW m \in Ids, Known(m), m \in tx[r].locks
        PROVE  \/ memories'[m] = NoRow
               \/ /\ memories'[m].version = memories[m].version + 1
                  /\ Live(m) /\ memories[m].fields \subseteq memories'[m].fields
    BY <1>2 DEF Untouched
  <2>2. memories'[m] = NewImage(r, m)
    BY <1>2, <2>1 DEF Rewritten
  <2> QED
    BY <1>1, <2>1, <2>2, ImageFacts
<1>10. SeenFits(q)'
  <2>1. SUFFICES ASSUME job[q].op = "update", pc[q] \in {"checkTarget", "write"} \cup Holding
        PROVE  /\ seen[q].version # 0 /\ Known(job[q].id)'
               /\ Live(job[q].id)' => seen[q].version <= memories'[job[q].id].version
               /\ VersionMatches(q)' => seen[q] = memories'[job[q].id]
    BY <1>3 DEF SeenFits, Holding, Known, Live
  <2>2. job[q].id \in Ids
    BY <1>1, <2>1, JobShape
  <2>3. /\ seen[q].version # 0 /\ Known(job[q].id)
        /\ Live(job[q].id) => seen[q].version <= memories[job[q].id].version
        /\ VersionMatches(q) => seen[q] = memories[job[q].id]
    BY <1>1, <2>1 DEF Fit, SeenFits
  <2>4. seen[q].version \in Nat /\ memories[job[q].id].version \in Nat
    BY <1>1, <2>2 DEF TypeOK, RowType
  <2>5. \A k \in Ids : Known(k) => Known(k)'
    BY <1>6
  <2>6. Known(job[q].id)'
    BY <1>3, <2>2, <2>3, <2>5 DEF Known
  <2>7. CASE memories'[job[q].id] = memories[job[q].id]
    BY <1>3, <2>3, <2>6, <2>7 DEF Live, VersionMatches
  <2>8. CASE memories'[job[q].id] = NoRow
    BY <1>3, <2>3, <2>6, <2>8 DEF Live, VersionMatches, NoRow
  <2>9. CASE memories'[job[q].id].version = memories[job[q].id].version + 1 /\ Live(job[q].id)
    BY <1>3, <2>3, <2>4, <2>6, <2>9 DEF VersionMatches
  <2> QED
    BY <1>9, <2>2, <2>3, <2>7, <2>8, <2>9
<1>11. Kept(q)'
  <2>1. SUFFICES ASSUME answer[q] = "ok", job[q].op = "update"
        PROVE  /\ Known(job[q].id)'
               /\ Live(job[q].id)' => q \in memories'[job[q].id].fields
    BY <1>1, <1>3 DEF Fit, Kept
  <2>2. job[q].id \in Ids /\ Known(job[q].id) /\ (Live(job[q].id) => q \in memories[job[q].id].fields)
    BY <1>1, <2>1, JobShape DEF Fit, Kept
  <2>3. Known(job[q].id)'
    BY <1>3, <1>6, <2>2 DEF Known
  <2>4. memories'[job[q].id] # NoRow => q \in memories'[job[q].id].fields
    BY <1>9, <2>2 DEF Live
  <2> QED
    BY <1>3, <2>3, <2>4 DEF Live
<1>12. Linked(q)'
  <2>1. \A t \in tx[q].shares : memories'[t] # NoRow
    <3>1. TAKE t \in tx[q].shares
    <3>2. Live(t) /\ t \in Ids /\ ~Deletes(r, t)
      BY <1>1, <1>4 DEF Fit, Linked, Apart
    <3>3. CASE t \in tx[r].locks
      <4>1. memories'[t] = NewImage(r, t)
        BY <1>2, <3>3 DEF Rewritten
      <4> QED
        BY <1>1, <3>2, <3>3, <4>1, ImageFacts DEF Deletes
    <3>4. CASE t \notin tx[r].locks
      BY <1>2, <3>2, <3>4 DEF Untouched, Live
    <3> QED
      BY <3>3, <3>4
  <2>2. pc[q] = "capture" /\ job[q].op = "delete" => ToDetach(q)' = {}
    <3>1. SUFFICES ASSUME pc[q] = "capture", job[q].op = "delete", NEW m \in Ids \ {job[q].id},
                          memories'[m].supersedes = job[q].id, m \notin tx[q].locks
          PROVE  FALSE
      BY <1>3 DEF ToDetach
    <3>2. ToDetach(q) = {} /\ job[q].id \in tx[q].locks /\ job[q].id \in Ids
      BY <1>1, <3>1, JobShape DEF Fit, Linked, Locked, Holding
    <3>3. memories[m].supersedes # job[q].id
      BY <3>1, <3>2 DEF ToDetach
    <3>4. m \in tx[r].locks /\ memories'[m] = NewImage(r, m)
      BY <1>2, <3>1, <3>3 DEF Untouched, Rewritten
    <3>5. job[r].op # "delete" /\ m = job[r].id /\ Target(r) = job[q].id
      BY <1>1, <3>1, <3>2, <3>4, ImageFacts, ConstantsOK
    <3>6. Target(r) \notin tx[r].shares
      BY <1>1, <3>1, <3>2, <3>5 DEF Apart, Deletes
    <3>7. job[r].op = "update" /\ Target(r) = seen[r].supersedes
      BY <1>1, <3>2, <3>5, <3>6, ConstantsOK DEF Fit, Linked
    <3>8. seen[r] = memories[m]
      BY <1>1, <3>5, <3>7 DEF Fit, Locked, Holding, SeenFits
    <3> QED
      BY <3>3, <3>5, <3>7, <3>8
  <2> QED
    BY <1>1, <1>3, <2>1, <2>2 DEF Fit, Linked, Target, Live
<1> QED
  BY <1>7, <1>8, <1>10, <1>11, <1>12 DEF Fit

\* A commit keeps all of it.
LEMMA RecordsCommit ==
  ASSUME Typed, Typed', Counting, RInv, NEW r \in Requests, Commit(r)
  PROVE  RInv'
<1>1. TypeOK /\ pc[r] = "capture" /\ Fit(r) /\ Apart
  BY DEF Typed, RInv, Commit
<1>2. /\ job' = job /\ tx'[r] = NoTx /\ pc'[r] = "done"
      /\ \A q \in Requests \ {r} : tx'[q] = tx[q]
  BY <1>1 DEF Commit, EndWithout, Go, TypeOK
<1>3. job[r].op = "update" => Known(job[r].id)' /\ r \in memories'[job[r].id].fields
  <2>1. SUFFICES ASSUME job[r].op = "update" PROVE Known(job[r].id)' /\ r \in memories'[job[r].id].fields
    OBVIOUS
  <2>2. job[r].id \in tx[r].locks
    BY <1>1 DEF Fit, Locked, Holding
  <2>3. PICK e \in tx[r].pend : Rewritten(r, job[r].id, e)
    BY <2>2, CommitRecords
  <2>4. \E f \in history' : f.id = job[r].id
    BY <1>2, <2>3 DEF Rewritten, Known
  <2>5. r \in memories'[job[r].id].fields
    BY <1>1, <2>1, <2>2, <2>3, ImageFacts DEF Rewritten
  <2> QED
    BY <1>2, <2>4, <2>5 DEF Known
<1>4. Fit(r)'
  BY <1>2, <1>3 DEF Fit, Locked, Captured, SeenFits, Kept, Linked, Holding, NoTx
<1>5. Apart'
  BY <1>1, <1>2 DEF Apart, Deletes, NoTx
<1> QED
  BY <1>4, <1>5, CommittedCommit, OthersCommit DEF RInv

-----------------------------------------------------------------------------
(* Every step *)

\* Every step keeps all of it.
LEMMA RecordsStep ==
  ASSUME Typed, Typed', Counting, RInv, [Next]_vars
  PROVE  RInv'
<1>1. ASSUME NEW r \in Requests, LockTimeout(r) \/ Abort(r) PROVE RInv'
  <2>1. EndWithout(r, "unavailable") /\ UNCHANGED <<memories, history, heads, job, seen>>
    BY <1>1 DEF LockTimeout, Abort, tables
  <2> QED
    BY <2>1, EndKeeps DEF Typed, Answers
<1>2. ASSUME NEW r \in Requests, Begin(r) \/ Serve(r) \/ Abort(r) PROVE RInv'
  BY <1>1, <1>2, RecordsBegin, RecordsReadRow, RecordsCheckTarget, RecordsWriteRow, RecordsInsertRow,
     RecordsShareTarget, RecordsLockRow, RecordsDetachRow, RecordsCapture, RecordsCommit DEF Serve, Typed
<1>3. ASSUME UNCHANGED <<memories, history, heads, job, pc, seen, tx, answer>> PROVE RInv'
  <2>1. Committed'
    BY <1>3, CommittedStays DEF RInv
  <2>2. \A q \in Requests : Fit(q)'
    BY <1>3, FitStays DEF RInv
  <2>3. Apart'
    BY <1>3 DEF RInv, Apart, Deletes
  <2> QED
    BY <2>1, <2>2, <2>3 DEF RInv
<1>4. ASSUME NEW s \in Sealers, SealStep(s) \/ SealAbort(s) PROVE RInv'
  BY <1>3, <1>4 DEF SealStep, SealLock, SealReadCounter, SealReadTip, SealBelowThreshold, SealInsert,
     SealAbort, tables, control
<1>5. CASE UNCHANGED vars
  BY <1>3, <1>5 DEF vars
<1> QED
  BY <1>2, <1>4, <1>5 DEF Next

\* The committed tables agree, what each request has read and locked still holds, and no two of
\* them hold the same row, in every state of the store.
THEOREM RecordsInvariance == Spec => []RInv
<1>1. Init => Typed /\ Counting /\ RInv
  BY TypedInit, CountingInit, RecordsInit
<1>2. Typed /\ Counting /\ RInv /\ [Next]_vars => Typed' /\ Counting' /\ RInv'
  BY TypedStep, CountingStep, RecordsStep DEF Typed
<1> QED
  BY <1>1, <1>2, PTL DEF Spec

\* In every committed state the live rows, the chain heads and the history say the same
\* (what jarvis_verify_history asks), whatever locks, waits, retries and rollbacks are going on.
THEOREM RowsAlwaysMatch == Spec => []RowsMatchHistory
<1>1. RInv => RowsMatchHistory
  BY DEF RInv, Committed
<1> QED
  BY <1>1, RecordsInvariance, PTL

\* The history of every record is one chain of hashes, images and versions
\* (jarvis_record_history under the row lock and the counter lock).
THEOREM ChainsAreIntact == Spec => []ChainIntact
<1>1. RInv => ChainIntact
  BY DEF RInv, Committed
<1> QED
  BY <1>1, RecordsInvariance, PTL

\* No update the caller was told had succeeded is ever written over by another that had read
\* the row before it (update_memory: UPDATE ... WHERE version = the version read).
THEOREM UpdatesAreKept == Spec => []NoLostUpdate
<1>1. RInv => NoLostUpdate
  BY DEF RInv, Fit, Kept, NoLostUpdate
<1> QED
  BY <1>1, RecordsInvariance, PTL

\* No order of creates, updates and deletes leaves a record that supersedes one that is gone
\* (the foreign key, its key-share locks and ON DELETE SET NULL).
THEOREM LinksNeverDangle == Spec => []NoDanglingSupersedes
<1>1. RInv => NoDanglingSupersedes
  BY DEF RInv, Committed
<1> QED
  BY <1>1, RecordsInvariance, PTL

-----------------------------------------------------------------------------
(* Answers about versions *)

Entries(m) == {e \in history : e.id = m}

(* A live record has had as many entries as versions. *)
EntriesPerVersion ==
  \A m \in Ids : /\ IsFiniteSet(Entries(m))
                 /\ Live(m) => memories[m].version = Cardinality(Entries(m))

(* The statements of update_memory behind its SELECT. *)
Reading == {"checkTarget", "write", "shareTarget", "cascade", "capture"}

(* An update goes on only with the version its caller expected. *)
AskedFor(r) ==
  job[r].op = "update" /\ pc[r] \in Reading /\ job[r].expected # 0
    => seen[r].version = job[r].expected

(* Before a request has ended nothing of its patch is in any record. *)
Unpublished(r) == pc[r] # "done" => \A m \in Ids : r \notin memories[m].fields

(* Each attempt that failed met an entry of its own. *)
Overtaken(r) ==
  /\ pc[r] = "new" => attempt[r] = 0
  /\ job[r].op = "update" /\ pc[r] = "read" /\ attempt[r] # 0
       => attempt[r] < Cardinality(Entries(job[r].id))
  /\ job[r].op = "update" /\ pc[r] \in Reading =>
       /\ attempt[r] < seen[r].version
       /\ seen[r].version <= Cardinality(Entries(job[r].id))
       /\ ~VersionMatches(r) => seen[r].version < Cardinality(Entries(job[r].id))

(* What VersionAnswersTrue says of one request. *)
AnswerTrue(r) ==
  /\ answer[r] = "ok" /\ job[r].op = "update" /\ job[r].expected # 0
       => \E e \in history : /\ e.id = job[r].id /\ r \in e.after.fields \ e.before.fields
                             /\ e.before.version = job[r].expected
  /\ answer[r] = "conflict" /\ job[r].expected = 0
       => Cardinality(Entries(job[r].id)) > MaxAttempts

Judged(r) == AskedFor(r) /\ Unpublished(r) /\ Overtaken(r) /\ AnswerTrue(r)

VInv == EntriesPerVersion /\ \A r \in Requests : Judged(r)

\* The entries of a record are counted by a number while the record is one of the store's.
LEMMA EntriesCounted ==
  ASSUME VInv, NEW m \in Ids
  PROVE  Cardinality(Entries(m)) \in Nat
BY FS_CardinalityType DEF VInv, EntriesPerVersion

\* The seeded records have one entry and version 1; no request has begun.
LEMMA VersionsInit == Init => VInv
<1> SUFFICES ASSUME Init PROVE VInv
  OBVIOUS
<1>1. /\ \A i, k \in 1..Len(Seed) : Seed[i] = Seed[k] => i = k
      /\ history = {SeedEntry(i) : i \in 1..Len(Seed)}
      /\ \A i \in 1..Len(Seed) : SeedEntry(i).id = Seed[i] /\ Seed[i] \in Ids
      /\ \A i : SeedRow(i).version = 1 /\ SeedRow(i).fields = {}
  BY ConstantsOK DEF Init, SeedEntry, SeedRow
<1>2. ASSUME NEW m \in Ids, SeedIndexes(m) = {}
      PROVE  memories[m] = NoRow /\ Entries(m) = {}
  BY <1>1, <1>2 DEF Init, SeedIndexes, Entries
<1>3. ASSUME NEW m \in Ids, NEW i \in 1..Len(Seed), Seed[i] = m
      PROVE  memories[m] = SeedRow(i) /\ Entries(m) = {SeedEntry(i)}
  <2>1. SeedIndexes(m) = {i}
    BY <1>1, <1>3 DEF SeedIndexes
  <2>2. (CHOOSE k \in SeedIndexes(m) : TRUE) = i
    BY <2>1
  <2>3. memories[m] = SeedRow(i)
    BY <2>1, <2>2 DEF Init
  <2>4. Entries(m) = {SeedEntry(i)}
    BY <1>1, <1>3 DEF Entries
  <2> QED
    BY <2>3, <2>4
<1>4. \A m \in Ids : SeedIndexes(m) = {} \/ \E i \in 1..Len(Seed) : Seed[i] = m
  BY DEF SeedIndexes
<1>5. EntriesPerVersion
  <2>1. SUFFICES ASSUME NEW m \in Ids
        PROVE  /\ IsFiniteSet(Entries(m))
               /\ Live(m) => memories[m].version = Cardinality(Entries(m))
    BY DEF EntriesPerVersion
  <2>2. CASE SeedIndexes(m) = {}
    BY <1>2, <2>2, FS_EmptySet DEF Live
  <2>3. CASE \E i \in 1..Len(Seed) : Seed[i] = m
    <3>1. PICK i \in 1..Len(Seed) : Seed[i] = m
      BY <2>3
    <3>2. memories[m].version = 1 /\ Entries(m) = {SeedEntry(i)}
      BY <1>1, <1>3, <3>1
    <3> QED
      BY <3>2, FS_Singleton
  <2> QED
    BY <1>4, <2>2, <2>3
<1>6. \A m \in Ids : memories[m].fields = {}
  BY <1>1, <1>2, <1>3, <1>4 DEF NoRow
<1>7. ASSUME NEW r \in Requests PROVE Judged(r)
  <2>1. pc[r] = "new" /\ attempt[r] = 0 /\ answer[r] = "none"
    BY DEF Init
  <2> QED
    BY <1>6, <2>1 DEF Judged, AskedFor, Unpublished, Overtaken, AnswerTrue, Reading
<1> QED
  BY <1>5, <1>7 DEF VInv

\* A request that does not move is judged as before while the records stay.
LEMMA JudgedStays ==
  ASSUME NEW q \in Requests, Judged(q), UNCHANGED <<memories, history>>,
         job'[q] = job[q], pc'[q] = pc[q], seen'[q] = seen[q], attempt'[q] = attempt[q],
         answer'[q] = answer[q]
  PROVE  Judged(q)'
<1>1. \A m : Entries(m)' = Entries(m)
  BY DEF Entries
<1>2. VersionMatches(q)' <=> VersionMatches(q)
  BY DEF VersionMatches
<1>3. AskedFor(q)' /\ Unpublished(q)'
  BY DEF Judged, AskedFor, Unpublished
<1>4. Overtaken(q)'
  BY <1>1, <1>2 DEF Judged, Overtaken
<1>5. AnswerTrue(q)'
  BY <1>1 DEF Judged, AnswerTrue
<1> QED
  BY <1>3, <1>4, <1>5 DEF Judged

\* What one request does to itself alone leaves the others judged as they were.
Apace(r) ==
  /\ UNCHANGED <<memories, history>>
  /\ \A q \in Requests \ {r} :
       /\ job'[q] = job[q] /\ pc'[q] = pc[q] /\ seen'[q] = seen[q]
       /\ attempt'[q] = attempt[q] /\ answer'[q] = answer[q]

\* It is enough to judge the request that moved.
LEMMA ApaceKeeps ==
  ASSUME VInv, NEW r \in Requests, Apace(r), Judged(r)'
  PROVE  VInv'
<1>1. EntriesPerVersion'
  BY DEF VInv, EntriesPerVersion, Entries, Apace, Live
<1>2. ASSUME NEW q \in Requests, q # r PROVE Judged(q)'
  BY <1>2, JudgedStays DEF VInv, Apace
<1> QED
  BY <1>1, <1>2 DEF VInv

\* A request that ends with neither success nor a conflict claims nothing about versions.
LEMMA EndsUnjudged ==
  ASSUME TypeOK, NEW r \in Requests, NEW a \in Answers \ {"ok", "conflict"}, EndWithout(r, a)
  PROVE  Judged(r)'
<1>1. pc'[r] = "done" /\ answer'[r] = a
  BY DEF TypeOK, EndWithout, Go
<1> QED
  BY <1>1 DEF Judged, AskedFor, Unpublished, Overtaken, AnswerTrue, Reading

\* Every such end keeps the judgement.
LEMMA VersionsEnd ==
  ASSUME TypeOK, VInv, NEW r \in Requests, NEW a \in Answers \ {"ok", "conflict"}, EndWithout(r, a),
         UNCHANGED <<memories, history, job, seen>>,
         \A q \in Requests \ {r} : attempt'[q] = attempt[q]
  PROVE  VInv'
<1>1. Apace(r)
  BY DEF TypeOK, EndWithout, Go, Apace
<1> QED
  BY <1>1, EndsUnjudged, ApaceKeeps

\* A request that arrives has made no attempt.
LEMMA VersionsBegin ==
  ASSUME TypeOK, RInv, VInv, NEW r \in Requests, Begin(r)
  PROVE  VInv'
<1>1. PICK j \in Workload : /\ job' = [job EXCEPT ![r] = j]
                            /\ pc' = [pc EXCEPT ![r] = FirstPc(j)]
  BY DEF Begin, Go
<1>2. /\ pc[r] = "new" /\ UNCHANGED <<memories, history, seen, attempt, answer>>
      /\ answer[r] = "none" /\ attempt[r] = 0
  BY NotYet DEF Begin, tables, VInv, Judged, Overtaken
<1>3. job'[r] = j /\ pc'[r] = FirstPc(j)
  BY <1>1 DEF TypeOK
<1>4. Apace(r)
  BY <1>1, <1>2 DEF Apace, TypeOK
<1>5. Unpublished(r)'
  BY <1>2 DEF VInv, Judged, Unpublished
<1>6. Judged(r)'
  BY <1>2, <1>3, <1>5 DEF Judged, AskedFor, Overtaken, AnswerTrue, Reading, FirstPc
<1> QED
  BY <1>4, <1>6, ApaceKeeps

\* The SELECT reads a version above the number of attempts that failed, and the expected one.
LEMMA VersionsReadRow ==
  ASSUME Typed, RInv, VInv, NEW r \in Requests, ReadRow(r)
  PROVE  VInv'
<1> DEFINE m == job[r].id
<1>1. TypeOK /\ pc[r] = "read" /\ job[r].op = "update" /\ m \in Ids /\ answer[r] = "none"
  BY JobShape, NotYet DEF Typed, JobFits, ReadRow
<1>2. UNCHANGED <<memories, history, job, attempt>>
  BY DEF ReadRow, tables
<1>3. CASE EndWithout(r, "absent") /\ UNCHANGED seen
  BY <1>1, <1>2, <1>3, VersionsEnd DEF Answers
<1>4. CASE EndWithout(r, "conflict") /\ UNCHANGED seen /\ ~AtExpected(r, memories[m])
  <2>1. pc'[r] = "done" /\ answer'[r] = "conflict" /\ Apace(r) /\ job[r].expected # 0
    BY <1>1, <1>2, <1>4 DEF TypeOK, EndWithout, Go, Apace, AtExpected
  <2>2. Judged(r)'
    BY <1>2, <2>1 DEF Judged, AskedFor, Unpublished, Overtaken, AnswerTrue, Reading
  <2> QED
    BY <2>1, <2>2, ApaceKeeps
<1>5. CASE /\ Live(m) /\ AtExpected(r, memories[m])
           /\ seen' = [seen EXCEPT ![r] = memories[m]]
           /\ Go(r, "checkTarget") /\ UNCHANGED answer
  <2>1. /\ seen'[r] = memories[m] /\ pc'[r] = "checkTarget" /\ answer'[r] = "none" /\ Apace(r)
    BY <1>1, <1>2, <1>5 DEF TypeOK, Go, Apace
  <2>2. AskedFor(r)'
    BY <1>1, <1>2, <1>5, <2>1 DEF AskedFor, AtExpected
  <2>3. Unpublished(r)'
    BY <1>1, <1>2, <2>1 DEF VInv, Judged, Unpublished
  <2>4. Overtaken(r)'
    <3>1. Entries(m)' = Entries(m) /\ VersionMatches(r)'
      BY <1>1, <1>2, <2>1 DEF Entries, VersionMatches
    <3>2. memories[m].version = Cardinality(Entries(m)) /\ memories[m].version # 0
      BY <1>1, <1>5 DEF VInv, EntriesPerVersion, RInv, Committed, Recorded
    <3>3. attempt[r] = 0 \/ attempt[r] < Cardinality(Entries(m))
      BY <1>1 DEF VInv, Judged, Overtaken
    <3>4. attempt[r] \in Nat /\ memories[m].version \in Nat
      BY <1>1, ConstantsOK DEF TypeOK, RowType
    <3>5. attempt[r] < memories[m].version
      BY <3>2, <3>3, <3>4
    <3>6. seen'[r].version <= Cardinality(Entries(m))
      BY <2>1, <3>2, <3>4
    <3> QED
      BY <1>1, <1>2, <2>1, <3>1, <3>5, <3>6 DEF Overtaken
  <2>5. AnswerTrue(r)'
    BY <2>1 DEF AnswerTrue
  <2> QED
    BY <2>1, <2>2, <2>3, <2>4, <2>5, ApaceKeeps DEF Judged
<1> QED
  BY <1>3, <1>4, <1>5 DEF ReadRow, Live

\* _supersedes_exists looks at another record; the version read is still the one judged.
LEMMA VersionsCheckTarget ==
  ASSUME Typed, RInv, VInv, NEW r \in Requests, CheckTarget(r)
  PROVE  VInv'
<1>1. TypeOK /\ pc[r] = "checkTarget" /\ answer[r] = "none"
      /\ UNCHANGED <<memories, history, job, attempt, seen>>
  BY NotYet DEF Typed, CheckTarget, tables
<1>2. CASE EndWithout(r, "badTarget")
  BY <1>1, <1>2, VersionsEnd DEF Answers
<1>3. CASE Go(r, IF job[r].op = "create" THEN "insert" ELSE "write") /\ UNCHANGED answer
  <2>1. /\ pc'[r] = (IF job[r].op = "create" THEN "insert" ELSE "write")
        /\ answer'[r] = "none" /\ Apace(r)
    BY <1>1, <1>3 DEF TypeOK, Go, Apace
  <2>2. Judged(r)'
    BY <1>1, <2>1 DEF VInv, Judged, AskedFor, Unpublished, Overtaken, AnswerTrue, Reading,
                      VersionMatches, Entries
  <2> QED
    BY <2>1, <2>2, ApaceKeeps
<1> QED
  BY <1>2, <1>3 DEF CheckTarget

\* An UPDATE that finds another version was overtaken by an entry that came after its SELECT.
LEMMA VersionsWriteRow ==
  ASSUME Typed, RInv, VInv, NEW r \in Requests, WriteRow(r)
  PROVE  VInv'
<1> DEFINE m == job[r].id
<1>1. TypeOK /\ pc[r] = "write" /\ job[r].op = "update" /\ m \in Ids /\ answer[r] = "none"
      /\ UNCHANGED <<memories, history, job, seen>>
  BY JobShape, NotYet DEF Typed, JobFits, WriteRow, tables
<1>2. Entries(m)' = Entries(m) /\ (VersionMatches(r)' <=> VersionMatches(r))
  BY <1>1 DEF Entries, VersionMatches
<1>3. PICK c \in Nat : c = Cardinality(Entries(m))
  BY <1>1, EntriesCounted
<1>4. /\ attempt[r] \in Nat /\ seen[r].version \in Nat
      /\ attempt[r] < seen[r].version /\ seen[r].version <= c
      /\ ~VersionMatches(r) => seen[r].version < c
  <2>1. attempt[r] \in Nat /\ seen[r].version \in Nat
    BY <1>1, ConstantsOK DEF TypeOK, RowType
  <2> QED
    BY <1>1, <1>3, <2>1 DEF VInv, Judged, Overtaken, Reading
<1>5. Unpublished(r)'
  BY <1>1 DEF VInv, Judged, Unpublished
<1>6. CASE /\ Go(r, IF Target(r) \in {NoId, seen[r].supersedes} THEN "capture" ELSE "shareTarget")
           /\ UNCHANGED <<attempt, answer>>
  <2>1. pc'[r] \in {"capture", "shareTarget"} /\ answer'[r] = "none" /\ Apace(r) /\ attempt' = attempt
    BY <1>1, <1>6 DEF TypeOK, Go, Apace
  <2>2. AskedFor(r)'
    BY <1>1, <2>1 DEF VInv, Judged, AskedFor, Reading
  <2>3. Overtaken(r)'
    BY <1>1, <1>2, <2>1 DEF VInv, Judged, Overtaken, Reading
  <2> QED
    BY <1>5, <2>1, <2>2, <2>3, ApaceKeeps DEF Judged, AnswerTrue
<1>7. CASE ~VersionMatches(r) /\ attempt' = [attempt EXCEPT ![r] = @ + 1]
  <2>1. attempt'[r] = attempt[r] + 1 /\ attempt[r] + 1 < c
    BY <1>1, <1>4, <1>7 DEF TypeOK
  <2>2. CASE job[r].expected # 0 \/ LastAttempt(r)
    <3>1. pc'[r] = "done" /\ answer'[r] = "conflict" /\ Apace(r)
      BY <1>1, <1>7, <2>2 DEF WriteRow, TypeOK, EndWithout, Go, Apace
    <3>2. job[r].expected = 0 => c > MaxAttempts
      BY <2>1, <2>2 DEF LastAttempt
    <3>3. AnswerTrue(r)'
      BY <1>1, <1>2, <1>3, <3>1, <3>2 DEF AnswerTrue
    <3> QED
      BY <1>5, <3>1, <3>3, ApaceKeeps DEF Judged, AskedFor, Overtaken, Reading
  <2>3. CASE job[r].expected = 0 /\ ~LastAttempt(r)
    <3>1. pc'[r] = "read" /\ answer'[r] = "none" /\ Apace(r)
      BY <1>1, <1>7, <2>3 DEF WriteRow, TypeOK, Go, RetryFrom, Apace
    <3>2. Overtaken(r)'
      BY <1>1, <1>2, <1>3, <2>1, <3>1 DEF Overtaken, Reading
    <3> QED
      BY <1>5, <3>1, <3>2, ApaceKeeps DEF Judged, AskedFor, AnswerTrue, Reading
  <2> QED
    BY <2>2, <2>3
<1> QED
  BY <1>6, <1>7 DEF WriteRow

\* A create is no update: it says nothing about versions.
LEMMA VersionsInsertRow ==
  ASSUME Typed, RInv, VInv, NEW r \in Requests, InsertRow(r)
  PROVE  VInv'
<1>1. TypeOK /\ pc[r] = "insert" /\ job[r].op = "create" /\ answer[r] = "none"
      /\ UNCHANGED <<memories, history, attempt, seen, answer>>
  BY NotYet DEF Typed, JobFits, InsertRow, tables
<1>2. PICK m \in Ids : job' = [job EXCEPT ![r].id = m]
  BY DEF InsertRow
<1>3. /\ job'[r].op = "create" /\ pc'[r] \in {"capture", "shareTarget"} /\ Apace(r)
  <2>1. job[r] \in JobType /\ job'[r] = [job[r] EXCEPT !.id = m]
    BY <1>1, <1>2 DEF TypeOK
  <2>2. job'[r].op = "create"
    BY <1>1, <2>1, JobShape DEF JobType
  <2>3. pc'[r] \in {"capture", "shareTarget"} /\ Apace(r)
    BY <1>1, <1>2 DEF InsertRow, Go, TypeOK, Apace
  <2> QED
    BY <2>2, <2>3
<1>4. Unpublished(r)'
  BY <1>1 DEF VInv, Judged, Unpublished
<1>5. Judged(r)'
  BY <1>1, <1>3, <1>4 DEF Judged, AskedFor, Overtaken, AnswerTrue
<1> QED
  BY <1>3, <1>5, ApaceKeeps

\* Steps inside the transaction of one request move it from one such statement to another.
LEMMA VersionsWithin ==
  ASSUME TypeOK, RInv, VInv, NEW r \in Requests, pc[r] \in Holding,
         UNCHANGED <<memories, history, job, attempt, seen, answer>>,
         NEW p \in Holding, pc' = [pc EXCEPT ![r] = p]
  PROVE  VInv'
<1>1. pc'[r] = p /\ Apace(r) /\ answer[r] = "none"
  BY NotYet DEF TypeOK, Apace, Holding
<1>2. Judged(r)'
  BY <1>1 DEF VInv, Judged, AskedFor, Unpublished, Overtaken, AnswerTrue, Reading, Holding,
              VersionMatches, Entries
<1> QED
  BY <1>1, <1>2, ApaceKeeps

\* The other statements of a transaction before its commit.
LEMMA VersionsQuiet ==
  ASSUME Typed, RInv, VInv, NEW r \in Requests,
         ShareTarget(r) \/ LockRow(r) \/ DetachRow(r) \/ Capture(r) \/ LockTimeout(r) \/ Abort(r)
  PROVE  VInv'
<1>1. TypeOK /\ UNCHANGED <<memories, history, job, attempt, seen>>
  BY DEF Typed, ShareTarget, LockRow, DetachRow, Capture, LockTimeout, Abort, tables
<1>2. CASE \E a \in {"badTarget", "absent", "unavailable"} : EndWithout(r, a)
  BY <1>1, <1>2, VersionsEnd DEF Answers
<1>3. CASE pc[r] = "lockRow" /\ Go(r, "cascade") /\ UNCHANGED answer
  <2>1. pc'[r] = "cascade" /\ Apace(r) /\ answer'[r] = "none" /\ job'[r].op = "delete"
    BY <1>1, <1>3, NotYet DEF Typed, JobFits, TypeOK, Go, Apace
  <2>2. Unpublished(r)'
    BY <1>1, <1>3 DEF VInv, Judged, Unpublished
  <2>3. Judged(r)'
    BY <2>1, <2>2 DEF Judged, AskedFor, Overtaken, AnswerTrue
  <2> QED
    BY <2>1, <2>3, ApaceKeeps
<1>4. CASE pc[r] \in Holding /\ pc' = pc /\ UNCHANGED answer
  <2>1. pc' = [pc EXCEPT ![r] = pc[r]]
    BY <1>1, <1>4 DEF TypeOK
  <2> QED
    BY <1>1, <1>4, <2>1, VersionsWithin
<1>5. CASE pc[r] \in Holding /\ Go(r, "capture") /\ UNCHANGED answer
  BY <1>1, <1>5, VersionsWithin DEF Holding, Go
<1> QED
  BY <1>2, <1>3, <1>4, <1>5 DEF ShareTarget, LockRow, DetachRow, Capture, LockTimeout, Abort, Holding

\* A commit adds one entry to the history of each record it holds, and none to any other.
LEMMA EntriesCommit ==
  ASSUME Typed, Typed', Counting, RInv, VInv, NEW r \in Requests, Commit(r), NEW m \in Ids
  PROVE  /\ m \in tx[r].locks =>
              /\ IsFiniteSet(Entries(m)')
              /\ Cardinality(Entries(m)') = Cardinality(Entries(m)) + 1
         /\ m \notin tx[r].locks => Entries(m)' = Entries(m)
<1>1. history' = history \cup tx[r].pend
  BY CommitRecords
<1>2. IsFiniteSet(Entries(m))
  BY DEF VInv, EntriesPerVersion
<1>3. CASE m \in tx[r].locks
  <2>1. PICK e \in tx[r].pend : Rewritten(r, m, e)
    BY <1>3, CommitRecords
  <2>2. e.id = m /\ e \in history' /\ \A f \in history' : f.id = m => f = e \/ f \in history
    BY <1>1, <2>1 DEF Rewritten
  <2>3. e \notin history
    <3>1. \A f \in history : f.seq < e.seq
      BY <2>1 DEF Rewritten
    <3>2. e \in history => e.seq \in Nat
      BY DEF Typed, TypeOK, EntryType
    <3> QED
      BY <3>1, <3>2
  <2>4. Entries(m)' = Entries(m) \cup {e} /\ e \notin Entries(m)
    BY <1>1, <2>2, <2>3 DEF Entries
  <2> QED
    BY <1>2, <1>3, <2>4, FS_AddElement
<1>4. CASE m \notin tx[r].locks
  <2>1. \A f \in history' : f.id = m => f \in history
    BY <1>4, CommitRecords DEF Untouched
  <2>2. Entries(m)' = Entries(m)
    BY <1>1, <2>1 DEF Entries
  <2> QED
    BY <1>4, <2>2
<1> QED
  BY <1>3, <1>4

\* A commit leaves every live record as many versions as entries.
LEMMA EntriesPerVersionCommit ==
  ASSUME Typed, Typed', Counting, RInv, VInv, NEW r \in Requests, Commit(r)
  PROVE  EntriesPerVersion'
<1>1. SUFFICES ASSUME NEW m \in Ids
      PROVE  /\ IsFiniteSet(Entries(m)')
             /\ Live(m)' => memories'[m].version = Cardinality(Entries(m)')
  BY DEF EntriesPerVersion
<1>2. /\ IsFiniteSet(Entries(m))
      /\ Live(m) => memories[m].version = Cardinality(Entries(m))
      /\ Cardinality(Entries(m)) \in Nat
  BY EntriesCounted DEF VInv, EntriesPerVersion
<1>3. CASE m \in tx[r].locks
  <2>1. PICK e \in tx[r].pend : Rewritten(r, m, e)
    BY <1>3, CommitRecords
  <2>2. memories'[m] = NewImage(r, m)
    BY <2>1 DEF Rewritten
  <2>3. pc[r] = "capture"
    BY DEF Commit
  <2>4. CASE Live(m)
    BY <1>2, <1>3, <2>2, <2>3, <2>4, ImageFacts, EntriesCommit DEF Live
  <2>5. CASE ~Live(m)
    <3>1. NewImage(r, m).version = 1 /\ ~Known(m)
      BY <1>3, <2>3, <2>5, ImageFacts
    <3>2. Entries(m) = {}
      BY <3>1 DEF Known, Entries
    <3>3. Cardinality(Entries(m)) = 0
      BY <3>2, FS_EmptySet
    <3> QED
      BY <1>3, <2>2, <3>1, <3>3, EntriesCommit
  <2> QED
    BY <2>4, <2>5
<1>4. CASE m \notin tx[r].locks
  <2>1. memories'[m] = memories[m] /\ Entries(m)' = Entries(m)
    BY <1>4, CommitRecords, EntriesCommit DEF Untouched
  <2> QED
    BY <1>2, <2>1 DEF Live
<1> QED
  BY <1>3, <1>4

\* A commit publishes no field but those of the request that commits.
LEMMA FieldsCommit ==
  ASSUME Typed, Typed', Counting, RInv, VInv, NEW r \in Requests, Commit(r), NEW m \in Ids
  PROVE  memories'[m].fields \subseteq memories[m].fields \cup {r}
<1>1. CASE m \in tx[r].locks
  <2>1. memories'[m] = NewImage(r, m) /\ pc[r] = "capture" /\ TypeOK /\ Locked(r) /\ SeenFits(r)
    BY <1>1, CommitRecords DEF Rewritten, Commit, Typed, RInv, Fit
  <2>2. CASE job[r].op = "create"
    BY <2>1, <2>2 DEF NewImage
  <2>3. CASE job[r].op = "update"
    <3>1. m = job[r].id /\ seen[r] = memories[m]
      BY <1>1, <2>1, <2>3 DEF Locked, SeenFits, Holding
    <3> QED
      BY <2>1, <2>3, <3>1 DEF NewImage
  <2>4. CASE job[r].op = "delete"
    BY <2>1, <2>4 DEF NewImage, NoRow
  <2> QED
    BY <2>1, <2>2, <2>3, <2>4, JobShape
<1>2. CASE m \notin tx[r].locks
  BY <1>2, CommitRecords DEF Untouched
<1> QED
  BY <1>1, <1>2

\* The requests that do not commit are judged as before, or were overtaken by the commit.
LEMMA JudgedBesideCommit ==
  ASSUME Typed, Typed', Counting, RInv, VInv, NEW r \in Requests, Commit(r), NEW q \in Requests, q # r
  PROVE  Judged(q)'
<1>1. /\ job' = job /\ seen' = seen /\ attempt' = attempt /\ pc'[q] = pc[q] /\ answer'[q] = answer[q]
      /\ TypeOK
  BY DEF Typed, TypeOK, Commit, EndWithout, Go
<1>2. Judged(q) /\ history \subseteq history'
  BY CommitRecords DEF VInv
<1>3. AskedFor(q)'
  BY <1>1, <1>2 DEF Judged, AskedFor
<1>4. Unpublished(q)'
  BY <1>1, <1>2, FieldsCommit DEF Judged, Unpublished
<1>5. ASSUME NEW m \in Ids
      PROVE  /\ Cardinality(Entries(m)) \in Nat /\ Cardinality(Entries(m)') \in Nat
             /\ Cardinality(Entries(m)) <= Cardinality(Entries(m)')
             /\ memories'[m] # memories[m] => Cardinality(Entries(m)) < Cardinality(Entries(m)')
  <2>1. Cardinality(Entries(m)) \in Nat
    BY EntriesCounted
  <2>2. m \notin tx[r].locks => memories'[m] = memories[m]
    BY CommitRecords DEF Untouched
  <2> QED
    BY <2>1, <2>2, EntriesCommit
<1>6. Overtaken(q)'
  <2>1. CASE job[q].op # "update"
    BY <1>1, <1>2, <2>1 DEF Judged, Overtaken
  <2>2. CASE job[q].op = "update"
    <3>1. job[q].id \in Ids
      BY <1>1, <2>2, JobShape
    <3>2. attempt[q] \in Nat /\ seen[q].version \in Nat
      BY <1>1, ConstantsOK DEF TypeOK, RowType
    <3>3. VersionMatches(q) /\ ~VersionMatches(q)' => memories'[job[q].id] # memories[job[q].id]
      BY <1>1 DEF VersionMatches
    <3> QED
      BY <1>1, <1>2, <1>5, <2>2, <3>1, <3>2, <3>3 DEF Judged, Overtaken
  <2> QED
    BY <2>1, <2>2
<1>7. AnswerTrue(q)'
  <2>1. answer[q] = "conflict" /\ job[q].expected = 0 => Cardinality(Entries(job[q].id)') > MaxAttempts
    <3>1. SUFFICES ASSUME answer[q] = "conflict", job[q].expected = 0
          PROVE  Cardinality(Entries(job[q].id)') > MaxAttempts
      OBVIOUS
    <3>2. Cardinality(Entries(job[q].id)) > MaxAttempts
      BY <1>2, <3>1 DEF Judged, AnswerTrue
    <3>3. CASE job[q].id \in Ids
      <4>1. PICK m \in Ids : m = job[q].id
        BY <3>3
      <4>2. Cardinality(Entries(m)) > MaxAttempts /\ MaxAttempts \in Nat
        BY <3>2, <4>1, ConstantsOK
      <4>3. Cardinality(Entries(m)') > MaxAttempts
        BY <1>5, <4>2
      <4>4. Entries(job[q].id)' = Entries(m)'
        BY <1>1, <4>1 DEF Entries
      <4> QED
        BY <4>3, <4>4
    <3>4. CASE job[q].id \notin Ids
      <4>1. Entries(job[q].id)' = Entries(job[q].id)
        <5>1. \A e \in tx[r].pend : e.id \in Ids
          BY <1>1 DEF TypeOK, TxType, EntryType
        <5> QED
          BY <1>1, <3>4, <5>1, CommitRecords DEF Entries
      <4> QED
        BY <3>2, <4>1
    <3> QED
      BY <3>3, <3>4
  <2> QED
    BY <1>1, <1>2, <2>1 DEF Judged, AnswerTrue
<1> QED
  BY <1>3, <1>4, <1>6, <1>7 DEF Judged

\* The commit of an update that named a version leaves the entry that changed that version.
LEMMA JudgedCommit ==
  ASSUME Typed, Typed', Counting, RInv, VInv, NEW r \in Requests, Commit(r)
  PROVE  Judged(r)'
<1>1. /\ job' = job /\ pc'[r] = "done" /\ answer'[r] \in {"ok", "unavailable"} /\ pc[r] = "capture" /\ TypeOK
  BY DEF Typed, TypeOK, Commit, EndWithout, Go
<1>2. job[r].op = "update" /\ job[r].expected # 0
        => \E e \in history' : /\ e.id = job[r].id /\ r \in e.after.fields \ e.before.fields
                               /\ e.before.version = job[r].expected
  <2>1. SUFFICES ASSUME job[r].op = "update", job[r].expected # 0
        PROVE  \E e \in history' : /\ e.id = job[r].id /\ r \in e.after.fields \ e.before.fields
                                   /\ e.before.version = job[r].expected
    OBVIOUS
  <2>2. job[r].id \in tx[r].locks /\ VersionMatches(r) /\ job[r].id \in Ids
    BY <1>1, <2>1, JobShape DEF RInv, Fit, Locked, Holding
  <2>3. PICK e \in tx[r].pend : Rewritten(r, job[r].id, e)
    BY <2>2, CommitRecords
  <2>4. e \in history' /\ e.id = job[r].id /\ e.before = memories[job[r].id] /\ e.after = NewImage(r, job[r].id)
    BY <2>3, CommitRecords DEF Rewritten
  <2>5. r \in e.after.fields
    BY <2>1, <2>4 DEF NewImage
  <2>6. r \notin e.before.fields
    BY <1>1, <2>2, <2>4 DEF VInv, Judged, Unpublished
  <2>7. e.before.version = job[r].expected
    BY <1>1, <2>1, <2>2, <2>4 DEF VInv, Judged, AskedFor, Reading, VersionMatches
  <2> QED
    BY <2>4, <2>5, <2>6, <2>7
<1> QED
  BY <1>1, <1>2 DEF Judged, AskedFor, Unpublished, Overtaken, AnswerTrue, Reading

\* Every step keeps the judgement.
LEMMA VersionsStep ==
  ASSUME Typed, Typed', Counting, RInv, VInv, [Next]_vars
  PROVE  VInv'
<1>1. ASSUME NEW r \in Requests, Commit(r) PROVE VInv'
  BY <1>1, EntriesPerVersionCommit, JudgedBesideCommit, JudgedCommit DEF VInv
<1>2. ASSUME NEW r \in Requests, Begin(r) \/ Serve(r) \/ Abort(r) PROVE VInv'
  BY <1>1, <1>2, VersionsBegin, VersionsReadRow, VersionsCheckTarget, VersionsWriteRow,
     VersionsInsertRow, VersionsQuiet DEF Serve, Typed
<1>3. ASSUME UNCHANGED <<memories, history, job, pc, attempt, seen, answer>> PROVE VInv'
  <2>1. EntriesPerVersion'
    BY <1>3 DEF VInv, EntriesPerVersion, Entries, Live
  <2>2. \A q \in Requests : Judged(q)'
    BY <1>3, JudgedStays DEF VInv
  <2> QED
    BY <2>1, <2>2 DEF VInv
<1>4. ASSUME NEW s \in Sealers, SealStep(s) \/ SealAbort(s) PROVE VInv'
  BY <1>3, <1>4 DEF SealStep, SealLock, SealReadCounter, SealReadTip, SealBelowThreshold, SealInsert,
     SealAbort, tables, control
<1>5. CASE UNCHANGED vars
  BY <1>3, <1>5 DEF vars
<1> QED
  BY <1>2, <1>4, <1>5 DEF Next

\* An update that named expected_version changed exactly that version; one without is refused with
\* a conflict only after each of its attempts was overtaken by a change of the record (the loop of
\* update_memory over its SELECT and its UPDATE ... WHERE version = the version read).
THEOREM VersionAnswersAreTrue == Spec => []VersionAnswersTrue
<1>1. Init => Typed /\ Counting /\ RInv /\ VInv
  BY TypedInit, CountingInit, RecordsInit, VersionsInit
<1>2. Typed /\ Counting /\ RInv /\ VInv /\ [Next]_vars => Typed' /\ Counting' /\ RInv' /\ VInv'
  BY TypedStep, CountingStep, RecordsStep, VersionsStep DEF Typed
<1>3. VInv => VersionAnswersTrue
  BY DEF VInv, Judged, AnswerTrue, VersionAnswersTrue, Entries
<1> QED
  BY <1>1, <1>2, <1>3, PTL DEF Spec
=============================================================================
