---------------------------- MODULE MCLedgerReaders ----------------------------
(***************************************************************************)
(* Those that read the row store while it is written and sealed: replays   *)
(* (LedgerReplay), the verifiers (LedgerVerify) or the offline checks      *)
(* (OfflineVerify), each beside the same writers and sealer.  A behaviour  *)
(* has one of them.                                                        *)
(***************************************************************************)
EXTENDS LedgerReplay, OfflineVerify, TLC

CONSTANTS Parts, m1, m2, r1, r2, s1, v1

VARIABLE part

ReadersInit == ReplayInit /\ verifier = IdleVerifier /\ offline = Offline /\ proven = {} /\ part \in Parts
ReadersNext ==
  \/ part = "replay" /\ ReplayNext /\ UNCHANGED <<part, verifier, offline, proven>>
  \/ part = "verify" /\ VerifyNext /\ UNCHANGED <<part, reader, receipts, offline, proven>>
  \/ part = "offline" /\ OfflineNext /\ UNCHANGED <<part, reader, receipts>>
ReadersSpec == ReadersInit /\ [][ReadersNext]_<<allVars, part, verifier, offline, proven>>

TwoIds == {m1, m2}
SeedTwo == <<m1, m2>>     \* m2 supersedes m1
Symmetry == Permutations(Requests)

\* One entry, or two in one transaction (the delete of m1 detaches m2).
ReaderWorkload ==
  {[op |-> "update", id |-> m2, target |-> Keep, expected |-> 0],
   [op |-> "delete", id |-> m1, target |-> NoId, expected |-> 0]}
=============================================================================
