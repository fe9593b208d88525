-------------------------------- MODULE Boards --------------------------------
(***************************************************************************)
(* The board of one tenant in the row store: set_board and patch_board     *)
(* (app/pg_store.py), each a READ COMMITTED transaction of a request.      *)
(***************************************************************************)
EXTENDS Integers

CONSTANTS Writers, Fields, Texts, NoBoard, NoText

VARIABLES row,       \* the committed row, or NoBoard
          write,     \* per writer: its transaction
          expected   \* the board after the committed writes, in commit order (history)

bdVars == <<row, write, expected>>

Boards == [Fields -> Texts]
DefaultBoard == [f \in Fields |-> CHOOSE x \in Texts : TRUE]
Patches == [Fields -> Texts \cup {NoText}]
\* Only the keys given a value.
Merge(board, patch) == [f \in Fields |-> IF patch[f] = NoText THEN board[f] ELSE patch[f]]

\* phase: idle, then asked (nothing sent), inserted (the default, not yet visible to others),
\* locked (the row is held FOR UPDATE and has been read), updated (about to commit).
BdInit ==
  /\ row = NoBoard /\ expected = DefaultBoard
  /\ write = [w \in Writers |-> [phase |-> "idle", patch |-> DefaultBoard, board |-> DefaultBoard, whole |-> FALSE]]

Phase(w) == write[w].phase
\* Another transaction has inserted the row, or holds it.
Held(w) == \E o \in Writers \ {w} : Phase(o) \in {"inserted", "locked", "updated"}
NoLocking(w) == TRUE       \* mutant: SELECT without FOR UPDATE
Waits(w) == ~Held(w)
CurrentBoard == IF row = NoBoard THEN DefaultBoard ELSE row

Ask(w) ==
  /\ Phase(w) = "idle"
  /\ \/ \E b \in Boards : write' = [write EXCEPT ![w] = [@ EXCEPT !.phase = "asked", !.patch = b, !.whole = TRUE]]
     \/ \E p \in Patches : write' = [write EXCEPT ![w] = [@ EXCEPT !.phase = "asked", !.patch = p, !.whole = FALSE]]
  /\ UNCHANGED <<row, expected>>

\* INSERT ... ON CONFLICT DO UPDATE, one statement.
Upsert(w) ==
  /\ Phase(w) = "asked" /\ write[w].whole /\ ~Held(w)
  /\ write' = [write EXCEPT ![w] = [@ EXCEPT !.phase = "updated", !.board = write[w].patch]]
  /\ UNCHANGED <<row, expected>>

\* patch_board: INSERT ... ON CONFLICT DO NOTHING waits only for an insert ...
InsertDefault(w) ==
  /\ Phase(w) = "asked" /\ ~write[w].whole
  /\ row = NoBoard => ~Held(w)
  /\ write' = [write EXCEPT ![w].phase = IF row = NoBoard THEN "inserted" ELSE "ensured"]
  /\ UNCHANGED <<row, expected>>

\* ... SELECT ... FOR UPDATE reads the row as the last holder left it ...
SelectForUpdate(w) ==
  /\ Phase(w) \in {"inserted", "ensured"} /\ Waits(w)
  /\ write' = [write EXCEPT ![w] = [@ EXCEPT !.phase = "locked", !.board = CurrentBoard]]
  /\ UNCHANGED <<row, expected>>

\* ... and the merged board is written back.
UpdateBoard(w) ==
  /\ Phase(w) = "locked"
  /\ write' = [write EXCEPT ![w] = [@ EXCEPT !.phase = "updated", !.board = Merge(write[w].board, write[w].patch)]]
  /\ UNCHANGED <<row, expected>>

CommitBoard(w) ==
  /\ Phase(w) = "updated" /\ row' = write[w].board
  /\ expected' = IF write[w].whole THEN write[w].patch ELSE Merge(expected, write[w].patch)
  /\ write' = [write EXCEPT ![w].phase = "idle"]

LoseConnection(w) ==
  /\ Phase(w) # "idle" /\ write' = [write EXCEPT ![w].phase = "idle"]
  /\ UNCHANGED <<row, expected>>

BdNext == \E w \in Writers :
  Ask(w) \/ Upsert(w) \/ InsertDefault(w) \/ SelectForUpdate(w) \/ UpdateBoard(w) \/ CommitBoard(w) \/ LoseConnection(w)

BdSpec == BdInit /\ [][BdNext]_bdVars

-----------------------------------------------------------------------------

\* Patches and whole-board writes that overlap lose no field: the board is always what the
\* committed writes give, one after the other (the row lock of patch_board).
BoardIsSerial == CurrentBoard = expected
=============================================================================
