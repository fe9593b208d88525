------------------------------- MODULE Signing -------------------------------
(***************************************************************************)
(* Signatures: the trust log and the attestation log of one tenant         *)
(* (app/attest.py, the store's signature routes in app/pg_store.py), the   *)
(* signer that extends the second one (app/signer.py) and the witness that *)
(* checks an export from outside and cosigns (app/witness.py).             *)
(*                                                                         *)
(* Both logs are only appended to, by database functions that enforce the  *)
(* position and the link, or cut back when a backup is restored.  A hash   *)
(* is a number no two rows share.  Signatures are checked, never made      *)
(* wrongly: a row with a bad one got in past the API (a parked row).       *)
(***************************************************************************)
EXTENDS Integers, Sequences, FiniteSetsExt, SequencesExt

CONSTANTS SigningKeys,       \* one signer holds each
          PinnedRoots, LaterRoots,
          MaxStmts, MaxAtts, MaxBlocks, MaxBackups
ASSUME SgConstantsOK == MaxAtts \in Nat

VARIABLES sealed,            \* blocks sealed: 1..sealed
          receipts,          \* blocks with a replay receipt issued at their end
          stmts,             \* the trust log
          atts,              \* the attestation log
          fresh,             \* the last hash given out
          pass,              \* per signer: its pass
          seen,              \* the witness's state file
          alarm,             \* the witness found a row or block it had seen gone or changed
          restored,          \* a backup was restored (history)
          witnessed,         \* rows covered by what a root cosigned (history)
          backups            \* the backup sets, each with an export of both logs

store == <<sealed, receipts, stmts, atts, fresh>>
outside == <<seen, alarm, restored, witnessed, backups>>
sgVars == <<store, pass, outside>>

Genesis == 0
Never == MaxAtts + 1         \* a cutoff that excludes nothing
Roots == PinnedRoots \cup LaterRoots
Least(m, n) == IF m < n THEN m ELSE n

-----------------------------------------------------------------------------
(* The trust log: who may sign *)

\* The checks of evaluate_trust and _apply_statement that the database does not make.
Counts(st, s) ==
  /\ s.by \in st.roots /\ s.good
  /\ CASE s.kind = "root_add" -> s.key \notin st.roots
       [] s.kind = "key" -> st.keys[s.key].from = 0 /\ s.arg >= 1
       [] s.kind = "revoke" -> st.keys[s.key].from > 0 /\ s.arg >= 0
       [] s.kind \in {"void", "cosign"} -> s.by = s.key /\ s.arg >= 1

ApplyStatement(st, s) ==
  CASE s.kind = "root_add" -> [st EXCEPT !.roots = @ \cup {s.key}]
    [] s.kind = "key" -> [st EXCEPT !.keys[s.key] = [from |-> s.arg, cutoff |-> Never]]
    [] s.kind = "revoke" -> [st EXCEPT !.keys[s.key].cutoff = Least(@, s.arg)]
    [] s.kind = "void" -> [st EXCEPT !.voids = [i \in DOMAIN @ \cup {s.arg} |-> IF i = s.arg THEN s.hash ELSE @[i]]]
    [] s.kind = "cosign" -> [st EXCEPT !.cosigns = @ \cup {[seq |-> s.arg, hash |-> s.hash]}]

Untrusting == [roots |-> PinnedRoots, keys |-> [k \in SigningKeys |-> [from |-> 0, cutoff |-> Never]],
               cosigns |-> {}, voids |-> <<>>, problems |-> 0]

AfterStatement(st, s) == IF Counts(st, s) THEN ApplyStatement(st, s) ELSE [st EXCEPT !.problems = @ + 1]
EvaluateTrust(statements) ==
  LET after[n \in 0..Len(statements)] ==
        IF n = 0 THEN Untrusting ELSE AfterStatement(after[n - 1], statements[n])
  IN after[Len(statements)]

-----------------------------------------------------------------------------
(* The attestation log *)

RowKinds == {"block", "receipt", "checkpoint"}
Row(kind, at, head, key, good, prev, hash) ==
  [kind |-> kind, at |-> at, head |-> head, key |-> key, good |-> good, prev |-> prev, hash |-> hash]
LinkOf(rows, i) == IF i = 1 THEN Genesis ELSE rows[i - 1].hash
HeadHash(rows) == LinkOf(rows, Len(rows) + 1)
SameSubject(a, b) == a.kind = b.kind /\ a.at = b.at /\ a.head = b.head

\* _check_subject: the block exists, the receipt is intact, the checkpoint covers the log
\* up to the row before it.
SubjectHolds(rows, i, height, issued) ==
  LET a == rows[i]
  IN CASE a.kind = "block" -> a.at \in 1..height
       [] a.kind = "receipt" -> a.at \in issued
       [] OTHER -> a.at = i - 1 /\ a.head = a.prev

Voided(trust, rows, i) == i \in DOMAIN trust.voids /\ trust.voids[i] = rows[i].hash

KeyAllows(trust, key, i) == trust.keys[key].from \in 1..i /\ i <= trust.keys[key].cutoff

Repeats(trust, rows, i) ==
  \E j \in 1..(i - 1) : ~Voided(trust, rows, j) /\ SameSubject(rows[j], rows[i])

\* evaluate_attestations: what it reports of row i.
Bad(trust, rows, i, height, issued) ==
  \/ rows[i].prev # LinkOf(rows, i)
  \/ i \in DOMAIN trust.voids /\ ~Voided(trust, rows, i)
  \/ /\ ~Voided(trust, rows, i)
     /\ \/ ~KeyAllows(trust, rows[i].key, i)
        \/ ~rows[i].good
        \/ ~SubjectHolds(rows, i, height, issued)
        \/ Repeats(trust, rows, i)

Valid(trust, rows, i, height, issued) ==
  ~Voided(trust, rows, i) /\ ~Bad(trust, rows, i, height, issued)

CosignHolds(rows, c) ==
  c.seq \in DOMAIN rows /\ rows[c.seq].kind = "checkpoint" /\ rows[c.seq].hash = c.hash

\* The problems verify_tenant reports, other than unsigned blocks and receipts.
LogUnhealthy(statements, rows, height, issued) ==
  LET trust == EvaluateTrust(statements)
  IN \/ trust.problems > 0
     \/ \E i \in DOMAIN rows : Bad(trust, rows, i, height, issued)
     \/ \E c \in trust.cosigns : ~CosignHolds(rows, c)

\* attestation_level: 0 unsigned, 1 signed, 2 under a valid checkpoint a root cosigned.
Level(statements, rows, i, height, issued) ==
  LET trust == EvaluateTrust(statements)
  IN IF ~Valid(trust, rows, i, height, issued) THEN 0
     ELSE IF \E c \in trust.cosigns :
               /\ CosignHolds(rows, c) /\ Valid(trust, rows, c.seq, height, issued)
               /\ rows[c.seq].at >= i
          THEN 2 ELSE 1

-----------------------------------------------------------------------------
(* The ledger, and the roots *)

Seal ==
  /\ sealed < MaxBlocks
  /\ sealed' = sealed + 1
  /\ UNCHANGED <<receipts, stmts, atts, fresh, pass, outside>>

IssueReceipt ==
  /\ \E h \in 1..sealed \ receipts : receipts' = receipts \cup {h}
  /\ UNCHANGED <<sealed, stmts, atts, fresh, pass, outside>>

Statement(kind, key, arg, hash, by) ==
  [kind |-> kind, key |-> key, arg |-> arg, hash |-> hash, by |-> by, good |-> TRUE]

\* store_trust_statement: a void or a cosign must name a row by its hash, and the log with
\* the statement must evaluate without a problem of the statement.
Stored(s) ==
  /\ Len(stmts) < MaxStmts
  /\ s.kind = "cosign" => CosignHolds(atts, [seq |-> s.arg, hash |-> s.hash])
  /\ s.kind = "void" => s.arg \in DOMAIN atts /\ atts[s.arg].hash = s.hash
  /\ Counts(EvaluateTrust(stmts), s)
  /\ stmts' = Append(stmts, s)

\* witness.py statement: what a root's holder decides and posts.
RootStatement ==
  /\ \E by \in Roots :
       \/ \E k \in SigningKeys : Stored(Statement("key", k, Len(atts) + 1, Genesis, by))
       \/ \E k \in SigningKeys, n \in {Len(atts) - 1, Len(atts)} :
            Stored(Statement("revoke", k, n, Genesis, by))
       \/ \E r \in LaterRoots : Stored(Statement("root_add", r, 0, Genesis, by))
       \/ \E i \in DOMAIN atts : Stored(Statement("void", by, i, atts[i].hash, by))
  /\ UNCHANGED <<sealed, receipts, atts, fresh, pass, outside>>

\* A row put in the log past the API, by someone who cannot sign (tests/test_attest_api.py).
ParkRow ==
  /\ Len(atts) < MaxAtts
  /\ \A i \in DOMAIN atts : atts[i].good
  /\ \E k \in SigningKeys, h \in 1..sealed :
       atts' = Append(atts, Row("block", h, Genesis, k, FALSE, HeadHash(atts), fresh + 1))
  /\ fresh' = fresh + 1
  /\ UNCHANGED <<sealed, receipts, stmts, pass, outside>>

-----------------------------------------------------------------------------
(* One pass of a signer: run_sign *)

Resting == [pc |-> "idle", plan |-> <<>>, seq |-> 0, prev |-> Genesis, trusted |-> 0, signed |-> FALSE]
StopPass(k) == pass' = [pass EXCEPT ![k] = Resting]

\* pending_attestations: what no row names yet, voided rows included.
Attested(kind) == {atts[i].at : i \in {j \in DOMAIN atts : atts[j].kind = kind}}
Pending(kind, all) == SetToSortSeq(all \ Attested(kind), <)

MayStart(k) ==
  LET auth == EvaluateTrust(stmts).keys[k]
  IN /\ pass[k].pc = "idle"
     /\ auth.from \in 1..(Len(atts) + 1) /\ auth.cutoff = Never
     /\ ~LogUnhealthy(stmts, atts, sealed, receipts)

\* status, require_signing_log_catchup_safe (the log verifies, unsigned work apart) and the
\* plan: blocks in order, then receipts.  The position in the log is read once, here.
PlanPass(k) ==
  /\ MayStart(k)
  /\ LET items(kind, all) == [i \in 1..Len(Pending(kind, all)) |->
                                [kind |-> kind, at |-> Pending(kind, all)[i]]]
         plan == items("block", 1..sealed) \o items("receipt", receipts)
     IN /\ plan # <<>>
        /\ pass' = [pass EXCEPT ![k] = [Resting EXCEPT !.pc = "read", !.plan = plan,
                                            !.seq = Len(atts) + 1, !.prev = HeadHash(atts)]]
  /\ UNCHANGED <<store, outside>>

\* A receipt that does not re-derive from the raw rows is left out (verify_receipt).
RefuseReceipt(k) ==
  /\ pass[k].pc = "read" /\ pass[k].plan # <<>> /\ Head(pass[k].plan).kind = "receipt"
  /\ IF Len(pass[k].plan) = 1 /\ ~pass[k].signed THEN StopPass(k)
     ELSE pass' = [pass EXCEPT ![k].plan = Tail(@)]
  /\ UNCHANGED <<store, outside>>

\* store_attestation reads the statements first.
ReadTrust(k) ==
  /\ pass[k].pc = "read"
  /\ pass' = [pass EXCEPT ![k].pc = "append", ![k].trusted = Len(stmts)]
  /\ UNCHANGED <<store, outside>>

\* What the pass posts next: its plan, then one checkpoint over what it has signed.
NextRow(k) ==
  LET p == pass[k]
  IN IF p.plan # <<>> THEN Row(Head(p.plan).kind, Head(p.plan).at, Genesis, k, TRUE, p.prev, fresh + 1)
     ELSE Row("checkpoint", p.seq - 1, p.prev, k, TRUE, p.prev, fresh + 1)

\* mutant: the row is appended without being judged
TakenUnjudged(rows, trusted) == TRUE

\* The row is of a known kind, and the log with it judged under the statements read before.
Accepted(rows, trusted) ==
  /\ Last(rows).kind \in RowKinds
  /\ ~Bad(EvaluateTrust(SubSeq(stmts, 1, trusted)), rows, Len(rows), sealed, receipts)

\* Then the log; the database function refuses a row that is no longer the next (409).
AppendAttestation(k) ==
  /\ pass[k].pc = "append" /\ Len(atts) < MaxAtts
  /\ pass[k].seq = Len(atts) + 1 /\ pass[k].prev = HeadHash(atts)
  /\ Accepted(Append(atts, NextRow(k)), Least(pass[k].trusted, Len(stmts)))
  /\ atts' = Append(atts, NextRow(k))
  /\ fresh' = fresh + 1
  /\ IF pass[k].plan = <<>> THEN StopPass(k)
     ELSE pass' = [pass EXCEPT ![k] = [@ EXCEPT !.pc = "read", !.plan = Tail(pass[k].plan), !.signed = TRUE,
                                         !.seq = pass[k].seq + 1, !.prev = fresh + 1]]
  /\ UNCHANGED <<sealed, receipts, stmts, outside>>

\* Any refusal ends the pass, as does a crash or an answer that does not arrive: what was
\* posted before stays, and the next pass goes on from there.
PassEnds(k) ==
  /\ pass[k].pc # "idle"
  /\ StopPass(k)
  /\ UNCHANGED <<store, outside>>

-----------------------------------------------------------------------------
(* Backups and the witness *)

NothingSeen == [stmts |-> <<>>, atts |-> <<>>, sealed |-> 0, cosigned |-> 0]

TakeBackup ==
  /\ Len(backups) < MaxBackups
  /\ backups' = Append(backups, [sealed |-> sealed, receipts |-> receipts, stmts |-> stmts, atts |-> atts])
  /\ UNCHANGED <<store, pass, seen, alarm, restored, witnessed>>

RestoreBackup == \E n \in DOMAIN backups :
  /\ ~restored
  /\ sealed' = backups[n].sealed /\ receipts' = backups[n].receipts
  /\ stmts' = backups[n].stmts /\ atts' = backups[n].atts
  /\ restored' = TRUE
  /\ UNCHANGED <<fresh, pass, seen, alarm, witnessed, backups>>

Cosigned(b) == Max({0} \cup {c.seq : c \in {x \in EvaluateTrust(b.stmts).cosigns : CosignHolds(b.atts, x)}})

\* mutant: the prefix test the wrong way round: the trust log may shrink, but not grow
NothingNew(b) == IsPrefix(b.stmts, seen.stmts) /\ IsPrefix(seen.atts, b.atts) /\ seen.sealed <= b.sealed

\* check_tenant: every attestation, statement and block seen before is there, unchanged,
\* and so is the newest cosignature.
Extends(b) ==
  IsPrefix(seen.atts, b.atts) /\ IsPrefix(seen.stmts, b.stmts) /\ seen.sealed <= b.sealed

Clean(b) ==
  /\ Extends(b)
  /\ ~LogUnhealthy(b.stmts, b.atts, b.sealed, b.receipts) /\ seen.cosigned <= Cosigned(b)
Snapshot(b, n) == [stmts |-> b.stmts, atts |-> b.atts, sealed |-> b.sealed, cosigned |-> n]

\* The witness is given the newest export.
\* verify-export --update-state.
WitnessVerifies ==
  /\ backups # <<>>
  /\ LET export == Last(backups)
     IN IF Clean(export) THEN seen' = Snapshot(export, Cosigned(export)) /\ UNCHANGED alarm
        ELSE alarm' = (alarm \/ ~Extends(export)) /\ UNCHANGED seen
  /\ UNCHANGED <<store, pass, backups, restored, witnessed>>

Checkpoints(rows) == {i \in DOMAIN rows : rows[i].kind = "checkpoint"}

\* cosign --post: the newest checkpoint of a clean export, posted to the service as it is now.
WitnessCosigns ==
  /\ backups # <<>> /\ Checkpoints(Last(backups).atts) # {} /\ Clean(Last(backups))
  /\ LET export == Last(backups)
         n == Max(Checkpoints(export.atts))
     IN /\ n > Cosigned(export)
        /\ \E root \in Roots : Stored(Statement("cosign", root, n, export.atts[n].hash, root))
        /\ seen' = Snapshot(export, n)
        /\ witnessed' = witnessed \cup {export.atts[i] : i \in 1..n}
  /\ UNCHANGED <<sealed, receipts, atts, fresh, pass, backups, alarm, restored>>

SgInit ==
  /\ sealed = 0 /\ receipts = {} /\ stmts = <<>> /\ atts = <<>> /\ fresh = Genesis
  /\ pass = [k \in SigningKeys |-> Resting]
  /\ seen = NothingSeen /\ alarm = FALSE
  /\ restored = FALSE /\ witnessed = {} /\ backups = <<>>

Surroundings ==
  \/ Seal \/ IssueReceipt \/ RootStatement \/ ParkRow
  \/ TakeBackup \/ RestoreBackup \/ WitnessVerifies \/ WitnessCosigns
Signer(k) ==
  \/ PlanPass(k) \/ RefuseReceipt(k)
  \/ ReadTrust(k) \/ AppendAttestation(k) \/ PassEnds(k)
SgNext == Surroundings \/ \E k \in SigningKeys : Signer(k)

SgSpec == SgInit /\ [][SgNext]_sgVars

-----------------------------------------------------------------------------
(* Safety *)

\* A row the API took is reported only because of a statement it could not have known: one
\* that revokes its key, stored while the row was on its way.  (A parked row was not taken.)
TakenIsGood ==
  LET trust == EvaluateTrust(stmts)
  IN \A i \in DOMAIN atts :
       atts[i].good /\ Bad(trust, atts, i, sealed, receipts) =>
         i > trust.keys[atts[i].key].cutoff

\* "Covered by a checkpoint that a root cosigned": level 2 is given only to rows the root's
\* holder had before it when it cosigned, also after a restore and a log that went on
\* differently; and the witness reports an entry gone or changed only if the database did go
\* back in time.
WitnessIsRight ==
  /\ \A i \in DOMAIN atts :
       atts[i] \notin witnessed => Level(stmts, atts, i, sealed, receipts) # 2
  /\ alarm => restored

\* signer.py: "a receipt is never attested ahead of its block", every block being "either
\* already attested (the log verified clean above) or in plan".
ReceiptHasSignedBlock ==
  \A i \in DOMAIN atts : atts[i].kind = "receipt" =>
    \E j \in 1..(i - 1) : atts[j].kind = "block" /\ atts[j].at = atts[i].at /\ atts[j].good
=============================================================================
