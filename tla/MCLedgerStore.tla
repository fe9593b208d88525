---------------------------- MODULE MCLedgerStore ----------------------------
(* Values of LedgerStore's constants for TLC. *)
EXTENDS LedgerStore, TLC

CONSTANTS m1, m2, m3, r1, r2, r3, r4, s1, s2

ThreeIds == {m1, m2, m3}
TwoIds == {m1, m2}
SeedTwo == <<m1, m2>>     \* m2 supersedes m1
Symmetry == Permutations(Requests)

Create(t) == [op |-> "create", id |-> NoId, target |-> t, expected |-> 0]
Update(m, t, v) == [op |-> "update", id |-> m, target |-> t, expected |-> v]
Delete(m) == [op |-> "delete", id |-> m, target |-> NoId, expected |-> 0]

\* Everything that can meet on a chain of two records.
ChainWorkload ==
  {Create(m1), Update(m2, Keep, 0), Update(m2, Keep, 1), Update(m1, Keep, 0),
   Update(m1, m2, 0), Delete(m1), Delete(m2)}

\* One entry (an update) or two in one transaction (the delete of m1); updates
\* of different records meet only at the counter row.
SealWorkload == {Update(m2, Keep, 0), Update(m1, Keep, 0), Delete(m1)}

\* A cycle of supersedes can arise, and with it two deletes that wait for each other.
CycleWorkload == {Update(m1, m2, 0), Update(m2, Keep, 0), Delete(m1), Delete(m2)}

LiveWorkload == CycleWorkload \cup SealWorkload
=============================================================================
