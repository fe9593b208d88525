----------------------------- MODULE LedgerVerify -----------------------------
(***************************************************************************)
(* The verifiers of app/pg_schema.py, jarvis_verify_history and            *)
(* jarvis_verify_blocks, run beside the writers and sealers of LedgerStore *)
(* (GET /history/verify and /blocks/verify call them on the live ledger).  *)
(*                                                                         *)
(* Both are VOLATILE plpgsql functions called in a READ COMMITTED          *)
(* transaction: every statement of theirs reads the tables as committed at *)
(* its own start, and a FOR loop reads its rows as of the start of the     *)
(* loop.  One action is one such statement.  A hash that is recomputed is  *)
(* the comparison of the data it commits to, so row_hash, block_hash and   *)
(* the block links, which restate immutable rows, have no step.            *)
(***************************************************************************)
EXTENDS LedgerStore

VARIABLE verifier   \* one run of a verifier at a time

verifyVars == <<vars, verifier>>

Kinds == {"chainBroken", "counterBehind", "missingSeq", "headWithoutEntry",
          "deletedFlagWrong", "newerThanHead", "noHead", "rowDiffers",
          "notTiled", "beyondCounter", "countWrong", "rootWrong"}

\* ctr: the counter read; todo, loop: the heads or blocks the open loop has
\* still to give; head, last: the one being checked (last also: where the block
\* before ended); upTo: the last block whose problems the caller keeps (0: of
\* all); began: the counter at the start (history variable).
IdleVerifier == [pc |-> "idle", only |-> NoId, ctr |-> 0, todo |-> {}, head |-> NoId,
                 last |-> 0, loop |-> <<>>, upTo |-> 0, began |-> 0, found |-> {}]

ThisRecord(m) == verifier.only \in {NoId, m}
Verify(new) == verifier' = new /\ UNCHANGED vars
Report(kinds) == verifier.found \cup kinds

When(condition, kind) == IF condition THEN {kind} ELSE {}

-----------------------------------------------------------------------------
(* jarvis_verify_history *)

\* A whole-tenant run (only = NoId) or one for a record.
StartHistory ==
  /\ verifier.pc \in {"idle", "done"}
  /\ \E m \in Ids \cup {NoId} : Verify([IdleVerifier EXCEPT !.pc = "chain", !.only = m, !.began = counter])

\* 1. One statement: every entry's prev_hash is the record's previous entry.
PrevOf(e) == {f \in history : f.id = e.id /\ f.seq < e.seq}
ChainBroken ==
  \E e \in history :
    /\ ThisRecord(e.id)
    /\ e.prev # (IF PrevOf(e) = {} THEN 0
                 ELSE (CHOOSE f \in PrevOf(e) : \A g \in PrevOf(e) : g.seq <= f.seq).seq)
VerifyChain ==
  /\ verifier.pc = "chain"
  /\ Verify([verifier EXCEPT !.found = Report(When(ChainBroken, "chainBroken")),
                             !.pc = IF verifier.only = NoId THEN "counter" ELSE "heads"])

\* 2. The counter, the newest seq and the gaps: three statements.
VerifyCounter ==
  /\ verifier.pc = "counter"
  /\ Verify([verifier EXCEPT !.ctr = counter, !.pc = "newest"])

VerifyNewest ==
  /\ verifier.pc = "newest"
  /\ Verify([verifier EXCEPT
       !.found = Report(When(\E e \in history : e.seq > verifier.ctr, "counterBehind")),
       !.pc = "gaps"])

VerifyGaps ==
  /\ verifier.pc = "gaps"
  /\ Verify([verifier EXCEPT
       !.found = Report(When(\E q \in 1..verifier.ctr : \A e \in history : e.seq # q, "missingSeq")),
       !.pc = "heads"])

\* 3. The loop over the chain heads reads them all at its start ...
OpenHeads ==
  /\ verifier.pc = "heads"
  /\ Verify([verifier EXCEPT
       !.todo = {<<m, heads[m]>> : m \in {x \in Ids : heads[x].last # 0 /\ ThisRecord(x)}},
       !.pc = "head"])

\* ... then looks up the entry of each, in a statement of its own, ...
CheckHead ==
  /\ verifier.pc = "head"
  /\ \E h \in verifier.todo :
       LET m == h[1]
           entry == {e \in history : e.seq = h[2].last /\ e.id = m}
       IN Verify([verifier EXCEPT
            !.todo = @ \ {h},
            !.head = m, !.last = h[2].last,
            !.found = Report(When(entry = {}, "headWithoutEntry")
                              \cup When(\E e \in entry : (e.after = NoRow) # h[2].deleted, "deletedFlagWrong")),
            !.pc = IF entry = {} THEN "head" ELSE "newer"])

\* ... and asks whether the record has entries newer than it, in another one.
NewerEntry(e) == e.id = verifier.head /\ e.seq > verifier.last
CheckNewer ==
  /\ verifier.pc = "newer"
  /\ Verify([verifier EXCEPT
       !.found = Report(When(\E e \in history : NewerEntry(e), "newerThanHead")),
       !.pc = "head"])

HeadsDone ==
  /\ verifier.pc = "head" /\ verifier.todo = {}
  /\ Verify([verifier EXCEPT !.pc = "noHead"])

\* 4. One statement.
CheckNoHead ==
  /\ verifier.pc = "noHead"
  /\ Verify([verifier EXCEPT
       !.found = Report(When(\E e \in history : ThisRecord(e.id) /\ heads[e.id].last = 0, "noHead")),
       !.pc = "rows"])

\* 5. One statement: every live row is the image its head's entry recorded.
RowDiffers(m) ==
  \/ heads[m].last = 0 \/ heads[m].deleted
  \/ \A e \in history : e.seq = heads[m].last => e.after # memories[m]
CheckRows ==
  /\ verifier.pc = "rows"
  /\ Verify([verifier EXCEPT
       !.found = Report(When(\E m \in Ids : ThisRecord(m) /\ Live(m) /\ RowDiffers(m), "rowDiffers")),
       !.pc = "done"])

-----------------------------------------------------------------------------
(* jarvis_verify_blocks *)

StartBlocks ==
  /\ verifier.pc \in {"idle", "done"}
  /\ Verify([IdleVerifier EXCEPT !.pc = "blockCounter", !.began = counter])

\* Before the loop: the counter.  The heights the "heights" check looks for are
\* the positions of the sequence, so none can be missing.
VerifyBlockCounter ==
  /\ verifier.pc = "blockCounter"
  /\ Verify([verifier EXCEPT !.ctr = counter, !.pc = "openBlocks"])

\* The loop over the blocks reads them all at its start.  What is found in a block
\* depends on it and the one before, so those nobody asks about need no look.
OpenBlocks ==
  /\ verifier.pc = "openBlocks"
  /\ Verify([verifier EXCEPT !.loop = SubSeq(blocks, 1, IF verifier.upTo = 0 THEN Len(blocks) ELSE verifier.upTo),
                             !.last = 0, !.pc = "block"])

\* For the next block, one statement reads the entries of its range; then the
\* checks in the order of _BLOCK_CHECK_ORDER.
Overlaps(b) == b.first # verifier.last  \* mutant: off by one
NotTiled(b) == b.first # verifier.last + 1
BeyondCounter(b) == b.last > verifier.ctr
CheckBlock ==
  /\ verifier.pc = "block" /\ verifier.loop # <<>>
  /\ LET b == Head(verifier.loop)
         entries == EntriesOf(b.first, b.last)
     IN Verify([verifier EXCEPT
          !.found = Report(When(NotTiled(b), "notTiled")
                            \cup When(BeyondCounter(b), "beyondCounter")
                            \cup When(Cardinality(entries) # b.last - b.first + 1, "countWrong")
                            \cup When(entries # b.entries, "rootWrong")),
          !.loop = Tail(@), !.last = b.last])

BlocksDone ==
  /\ verifier.pc = "block" /\ verifier.loop = <<>>
  /\ Verify([verifier EXCEPT !.pc = "done"])

-----------------------------------------------------------------------------

\* The statements of a run under way.
VerifyRun ==
  \/ VerifyChain \/ VerifyCounter \/ VerifyNewest \/ VerifyGaps
  \/ OpenHeads \/ CheckHead \/ CheckNewer \/ HeadsDone \/ CheckNoHead \/ CheckRows
  \/ VerifyBlockCounter \/ OpenBlocks \/ CheckBlock \/ BlocksDone

VerifyStep == StartHistory \/ StartBlocks \/ VerifyRun

VerifyInit == Init /\ verifier = IdleVerifier

VerifyNext ==
  \/ Next /\ UNCHANGED verifier
  \/ VerifyStep

VerifySpec == VerifyInit /\ [][VerifyNext]_verifyVars

-----------------------------------------------------------------------------
(* Properties *)

\* On a ledger nobody tampered with, a verifier that runs while writers and
\* sealers commit never reports a broken chain, a gap, a lost head, a row that
\* is not its history, or a block that does not tile or commit to its range.  What it
\* may report is that it was overtaken: when no entry was committed since it began, it
\* reports nothing.
VerifierIsRight ==
  /\ verifier.found \subseteq {"counterBehind", "newerThanHead", "beyondCounter"}
  /\ verifier.found # {} => counter > verifier.began

\* jarvis_verify_history says "counter altered or missing", and
\* jarvis_verify_blocks "counter altered or history removed": no problem is
\* reported of a ledger in which nothing was altered or removed.
AlarmsMeanTampering == verifier.found = {}
=============================================================================
