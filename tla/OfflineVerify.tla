---------------------------- MODULE OfflineVerify ----------------------------
(***************************************************************************)
(* The second implementation of the checks: app/replay.py verify_replay    *)
(* and verify_receipt, which fold the raw history, and app/pg_verify.py,   *)
(* which runs the SQL verifiers of LedgerVerify and recomputes the blocks. *)
(* Both are run from the command line against the live database.           *)
(*                                                                         *)
(* A run is one READ COMMITTED transaction: an action is a statement, or   *)
(* what is computed from the statement before.  Calling an SQL verifier    *)
(* hands over to LedgerVerify until it is done.  Hashes are the data they  *)
(* are computed from; evidence objects, signatures (Signing) and the       *)
(* command line are left out.                                              *)
(***************************************************************************)
EXTENDS LedgerVerify

VARIABLES
  offline,   \* one run at a time
  proven     \* what the first replay of a sealed point gave: a receipt, or --expect-*

offVars == <<verifyVars, offline, proven>>

Uncovered == [height |-> 0, first |-> 0, last |-> 0]

\* at: the point replayed, asked for by "end", "block" or "claim"; ctr: the counter read next;
\* entries: what the history statement gave; rows, last: blocks still to recompute and where
\* the one before ended; began: the counter at the start (history variable).
Offline == [pc |-> "idle", run |-> "replay", ask |-> "end", at |-> 0, ctr |-> 0, entries |-> {}, root |-> {},
            deleted |-> 0, block |-> Uncovered, rows |-> <<>>, last |-> 0, began |-> 0, found |-> {}]

Idle == offline.pc \in {"idle", "done"} /\ verifier.pc \in {"idle", "done"}
Take(new) == offline' = new /\ UNCHANGED <<verifyVars, proven>>
Found(kinds) == offline.found \cup kinds

Covering(s) ==
  LET at == {i \in 1..Len(blocks) : blocks[i].first <= s /\ s <= blocks[i].last}
  IN IF at = {} THEN Uncovered
     ELSE LET h == CHOOSE i \in at : TRUE IN [height |-> h, first |-> blocks[h].first, last |-> blocks[h].last]
-----------------------------------------------------------------------------
(* verify_replay *)

StartReplay ==
  /\ Idle
  /\ \E ask \in {"end", "block"} \cup (IF proven = {} THEN {} ELSE {"claim"}) :
       Take([Offline EXCEPT !.pc = "resolve", !.ask = ask, !.began = counter])

\* resolve_at_seq: the counter, and for --at-block the block; a block that is not there is refused.
Resolve ==
  /\ offline.pc = "resolve"
  /\ LET at == CASE offline.ask = "end" -> counter
                 [] offline.ask = "block" -> IF blocks = <<>> THEN 0 ELSE blocks[1].last
                 [] offline.ask = "claim" -> (CHOOSE c \in proven : TRUE).at
     IN Take([offline EXCEPT !.at = at, !.pc = IF offline.ask = "block" /\ blocks = <<>> THEN "done" ELSE "counter"])

ReadEnd ==
  /\ offline.pc = "counter"
  /\ Take([offline EXCEPT !.ctr = counter, !.pc = "history"])

ReadHistory ==
  /\ offline.pc = "history"
  /\ Take([offline EXCEPT !.entries = {e \in history : e.seq <= offline.at}, !.pc = "fold"])

\* fold_state: the newest entry of each record, apart from those that are deletes.
NewestOf(entries) == {e \in entries : \A f \in entries : f.id = e.id => f.seq <= e.seq}
FoldedLive(entries) == {e \in NewestOf(entries) : e.after # NoRow}

StateRoot(live) == {[id |-> e.id, entry |-> e.seq] : e \in live}

\* A receipt, or an expected root, that the replay of its own point does not give again.
Contradicts(receipt, root, deleted) == receipt.root # root \/ receipt.deleted # deleted

\* Each entry must link to the one before it of the same record, in the order read.
Before(e, entries) == {f \in entries : f.id = e.id /\ f.seq < e.seq}
LinkBroken(entries) ==
  \E e \in entries :
    e.prev # (IF Before(e, entries) = {} THEN 0 ELSE (CHOOSE f \in NewestOf(Before(e, entries)) : TRUE).seq)

\* fold_state and the checks on what was read: _check_seq, _check_chain_link, _check_state_root.
Fold ==
  /\ offline.pc = "fold"
  /\ LET live == FoldedLive(offline.entries)
         root == StateRoot(live)
         deleted == Cardinality(NewestOf(offline.entries) \ live)
     IN Take([offline EXCEPT
          !.root = root, !.deleted = deleted,
          !.found = Found(When(offline.at > offline.ctr, "beyondEnd")
                          \cup When({e.seq : e \in offline.entries} # 1..offline.at, "entryMissing")
                          \cup When(LinkBroken(offline.entries), "linkBroken")
                          \cup When(offline.ask = "claim" /\ \E c \in proven : Contradicts(c, root, deleted), "rootDiffers")),
          !.pc = "live"])

EvenWhenBehind == TRUE        \* mutant: the live table is compared whatever the point
AtTheEnd == offline.at = offline.ctr
\* _check_live_match: at the end of the history, the live table record for record.
CheckLive ==
  /\ offline.pc = "live"
  /\ LET live == FoldedLive(offline.entries)
     IN Take([offline EXCEPT
          !.found = Found(IF ~AtTheEnd THEN {}
                          ELSE When(\E e \in live : memories[e.id] # e.after, "liveDiffers")
                               \cup When(\E m \in Ids : Live(m) /\ \A e \in live : e.id # m, "liveUnknown")),
          !.entries = {}, !.pc = "covering"])

\* _check_blocks: the block that covers the point, then every block up to it as pg_verify
\* checks them; with no such block there is nothing to check.
CheckCovering ==
  /\ offline.pc = "covering"
  /\ LET b == Covering(offline.at)
     IN IF b = Uncovered THEN Take([offline EXCEPT !.pc = "expected"])
        ELSE /\ offline' = [offline EXCEPT !.block = b, !.pc = "sqlBlocks"]
             /\ verifier' = [IdleVerifier EXCEPT !.pc = "blockCounter", !.upTo = b.height, !.began = counter]
             /\ UNCHANGED <<vars, proven>>

\* _check_expected_block and the last reading of the covering block, which the answer names.
Answer ==
  /\ offline.pc = "expected"
  /\ LET b == Covering(offline.at)
         found == Found(When(offline.ask = "claim" /\ \E c \in proven : c.block # b, "blockDiffers"))
     IN /\ offline' = [offline EXCEPT !.block = b, !.found = found, !.pc = "done"]
        /\ proven' = IF proven = {} /\ found = {} /\ b # Uncovered
                     THEN {[at |-> offline.at, root |-> offline.root, deleted |-> offline.deleted, block |-> b]} ELSE proven
        /\ UNCHANGED verifyVars
-----------------------------------------------------------------------------
(* pg_verify *)

\* main, for one tenant: the SQL verifier of the history, then the blocks.
StartVerify ==
  /\ Idle
  /\ offline' = [Offline EXCEPT !.pc = "sqlHistory", !.run = "verify", !.began = counter]
  /\ verifier' = [IdleVerifier EXCEPT !.pc = "chain", !.began = counter]
  /\ UNCHANGED <<vars, proven>>

HistoryVerified ==
  /\ offline.pc = "sqlHistory" /\ verifier.pc = "done"
  /\ offline' = [offline EXCEPT !.found = Found(verifier.found), !.pc = "sqlBlocks"]
  /\ verifier' = [IdleVerifier EXCEPT !.pc = "blockCounter", !.began = counter]
  /\ UNCHANGED <<vars, proven>>

\* _block_problems: first what jarvis_verify_blocks found, then the rows of the blocks ...
BlocksVerified ==
  /\ offline.pc = "sqlBlocks" /\ verifier.pc = "done"
  /\ offline' = [offline EXCEPT !.found = Found(verifier.found), !.pc = "recompute", !.last = 0,
                                !.rows = IF verifier.upTo = 0 THEN blocks ELSE SubSeq(blocks, 1, verifier.upTo)]
  /\ verifier' = IdleVerifier
  /\ UNCHANGED <<vars, proven>>

\* ... and the entries of each, in a statement of its own.
Recompute ==
  /\ offline.pc = "recompute" /\ offline.rows # <<>>
  /\ LET b == Head(offline.rows)
         leaves == EntriesOf(b.first, b.last)
     IN Take([offline EXCEPT
          !.found = Found(When(b.first # offline.last + 1, "notContinued")
                          \cup When(Cardinality(leaves) # b.last - b.first + 1, "leavesMissing")
                          \cup When(leaves # b.entries, "leavesDiffer")),
          !.rows = Tail(@), !.last = b.last])

Recomputed ==
  /\ offline.pc = "recompute" /\ offline.rows = <<>>
  /\ Take([offline EXCEPT !.pc = IF offline.run = "replay" THEN "expected" ELSE "done"])

-----------------------------------------------------------------------------
OfflineStep ==
  \/ StartReplay \/ Resolve \/ ReadEnd \/ ReadHistory \/ Fold \/ CheckLive \/ CheckCovering \/ Answer
  \/ StartVerify \/ HistoryVerified \/ BlocksVerified \/ Recompute \/ Recomputed

OfflineInit == VerifyInit /\ offline = Offline /\ proven = {}
OfflineNext ==
  \/ Next /\ UNCHANGED <<verifier, offline, proven>>
  \/ VerifyRun /\ UNCHANGED <<offline, proven>>
  \/ OfflineStep
OfflineSpec == OfflineInit /\ [][OfflineNext]_offVars
-----------------------------------------------------------------------------
(* Properties *)

\* Beside writers and sealers a replay from the raw entries and pg_verify report no damage: only
\* that the live table, a head or a block is newer than what they read before, which takes an
\* entry committed since they began; and a replay of a point that was history by then reports
\* nothing at all, nor does it ever give another state, count or block for the point of a receipt.
\* (app/replay.py: verify_replay, verify_receipt; app/pg_verify.py: main, _block_problems)
OfflineIsRight ==
  /\ offline.found \subseteq {"counterBehind", "newerThanHead", "beyondCounter", "liveDiffers", "liveUnknown"}
  /\ offline.found # {} => counter > offline.began
  /\ offline.run = "replay" /\ offline.at < offline.ctr => offline.found = {}

\* The two implementations of the checks together: no verifier that runs beside the live ledger
\* reports damage on a ledger nobody tampered with.
NoDamageInvented == VerifierIsRight /\ OfflineIsRight
=============================================================================
