# Persistence Memory: TLA+ models and proofs

Persistence Memory (Jarvis Memory Board) is a *continuity ledger*: agents write
small records over an HTTP API, and the ledger keeps, per tenant, the records,
a hash-chained history of every change, blocks sealed over that history,
receipts of replays, and signatures over blocks and receipts. Paths below are
relative to the repository (`app/pg_store.py` is `src/app/pg_store.py` in
`PROJECT.json`).

Sections: [1 Inventory](#1-inventory), [2 Modules](#2-modules),
[3 Runs](#3-runs), [4 Fairness](#4-fairness), [5 Proofs](#5-proofs),
[6 Disagreements](#6-where-the-code-and-its-documentation-disagree),
[7 Not modelled](#7-what-is-not-modelled), [8 Plan](#8-plan).

## 1. Inventory

| Component | State it keeps | Operations | What is hard about it | What makes it correct |
|---|---|---|---|---|
| **Row store** `app/pg_store.py`, schema `app/pg_schema.py` V1-V4 | tables `memories`, `record_history`, `history_counters`, `chain_heads` | `create_memory`, `update_memory` (optimistic, retried), `delete_memory`; triggers bump the version and capture history | READ COMMITTED statements of many requests interleave; row, key-share and counter locks; deletes cascade to `supersedes`; deadlocks ended by `lock_timeout`; the answer to a commit can be lost | no lost update; no dangling `supersedes`; history is one chain per record, gapless per tenant; live rows equal their last entry; every request is answered |
| **Continuity blocks** schema V6 | table `blocks` | `jarvis_seal_block` (timer or manual), `seal_blocks` | sealers race; writers commit between a seal's statements; thresholds and age | blocks tile 1..counter, commit to exactly their entries for ever, and nothing stays unsealed |
| **Replay contracts** `app/replay.py`, `pg_store.py` | receipts (evidence objects) | `replay_state`, `replay_events`, `create_replay_receipt`, `verify_replay_receipt` | several statements per answer, beside writers and sealers; receipts verified much later | a replay is the state of one instant; a receipt verifies for ever; the same point gives the same receipt |
| **Verifiers** `jarvis_verify_history`, `jarvis_verify_blocks`, `app/pg_verify.py` | none | whole-tenant or per-record check | run on the live ledger, statement by statement | no damage reported that is not there |
| **Start guards, readiness** `app/main.py` lifespan and `/ready`, `pg_store.py` `_tx` | what a pool was checked for, remembered | guards of the start with retries, checks of a connection, `/ready` | the database changes after it was checked; an unreachable database looks like a failed check | nothing is served that was not verified |
| **Boards** `pg_store.py` | one JSON board per tenant | get, set, patch (`FOR UPDATE`) | patch beside set, first patch without a row | the board is what the committed writes give in their order |
| **Evidence objects** `app/evidence.py` | content-addressed rows, or a sidecar of lines | put, get, link checks | a sidecar line may be torn; a link is resolved before it is stored | a record that passed the gate has evidence of the kind its type needs |
| **Clause V gate** `app/clause_v.py` | none | verdict on creates and updates | judged on the merge of a row and a patch; several updates in a row | no sequence of updates strips the evidence of an admitted record |
| **Attestations and trust** `app/attest.py`, schema V7 | two append-only logs | store attestation, store trust statement, evaluate | trust is read before the append; revocation with a cutoff; voids; cosignatures | nothing is reported of a row that was good when it was taken |
| **Signer, witness** `app/signer.py`, `app/witness.py` | key file; the witness's last seen head | sign what is pending; check an export against what was seen | lost answers, retries, two signers, a restored backup | a witness never accepts a shorter or different past, nor cosigns what the root never had |
| **Tenant jobs** `app/tenant_jobs.py`, `app/signer.py` | one container and pipe per tenant | sign, status and seal passes | answers carry no id; clients and containers hang or die apart | no answer taken for another's; no container outlives its tenant's turn |
| **Call log, call witness** `app/call_log.py`, `app/call_witness.py` | daily JSONL files, anchor, degraded file | preflight, append, flush, rotate and retain, query, verify | several threads and processes; failed writes; crashes between steps; the clock; reading without the lock | every served write is logged or counted in a gap; the chain verifies across retention; a report claims no more than it saw |
| **JSON store** `app/store.py` | one file (or one JSONB row) and its image in memory | the same operations, one lock | save can fail after memory changed; readers take no lock | what readers see is in the file, and what was acknowledged stays |
| **Tenants and keys** `app/tenant_keys.py`, `app/key_auth.py`, `app/public_security.py` | tenants, keys, buckets of failed attempts | create, revoke, suspend, delete, resolve; reserve and release | a check and a use in between which status changes; attempts that finish in any order | no active key of a tenant that goes; no closed key lets anyone in; a failed guess stays counted |
| **Import, migration** `app/pg_import.py`, `app/pg_migrate.py` | the imported tenant | plan, import, compare, resume | interruption, repetition, two imports, a server that writes meanwhile | a document lands whole or not at all |
| **EMR** `app/emr*.py` | the session's working set, a reinforcement overlay with its sidecar file | `emr_remember`, `emr_upsert`, list and cursor, excitation, expansion, outcomes | the gateway holds nothing between its ledger calls; the working set has no lock; the walk meets records in any order | one open claim per subject, no destructive overwrite, sound bundles and pages, no reward twice |
| **AMUL** `app/amul*.py` | a field file with a chain of checkpoints; documents, index, replay log | anchor, check, compact; ingest, query; generate | append-only files, torn lines, compaction beside anchoring, an index replaced after reading | what was acknowledged or sealed stays; answers are backed and on record |
| **Drift, graph** `app/drift.py`, `app/graph.py` | a log of checks | check a summary, derived views | records are read one by one while they change | a summary passes only if the records said so |
| **HTTP API, authentication** `app/main.py`, `app/auth.py`, `app/identity.py` | configuration | middleware, gates, route dependencies | modes, credentials and gates combine | each caller is served as what it has proven to be |
| **Connector client, MCP servers** `app/nx_search_client.py`, `mcp_server/` | a child process and its pipe; background processes | call, retry, watch, serve; tools | late answers, children that die, lost replies | answers are to the question asked; results say what is known; nothing runs unheld |
| **Ledger search, evaluation, deployment, hooks** | derived or none | rankings, benchmarks, timers | | |

**Interaction.** An HTTP route (or an MCP tool, through the API) opens a store for
the caller's tenant and calls one operation; the call-witness middleware logs
the call around it. Every store operation is one or a few PostgreSQL
transactions; history capture happens inside them, in triggers. Sealing, signing
and backups are timers that call the same API or the same SQL functions. The
only shared state between requests is the database (and, for the JSON store and
the call log, files and in-process locks), so the interleavings that matter are
those of SQL statements, transactions and file operations.

`PROJECT.json` lists every component with its status, and under `hazards` every
place in this code that is hard to test, at its line, with the properties that
cover it.

## 2. Modules

The row store and those that read it:

| Module | What it is |
|---|---|
| `LedgerStore` | the row store and the sealer: every statement of `create_memory`, `update_memory`, `delete_memory` and `jarvis_seal_block` is an action |
| `SealedLog` | the abstract specification: a log numbered 1..length that grows at its end, with a sealed prefix |
| `LedgerReplay` | extends `LedgerStore` with readers that replay, issue receipts and verify them |
| `LedgerVerify` | extends `LedgerStore` with the SQL verifiers on the live ledger |
| `OfflineVerify` | extends `LedgerVerify` with `app/replay.py` and `app/pg_verify.py`, which fold the raw entries and recompute the blocks |
| `Boards` | the board of a tenant, statement by statement |
| `Serving` | start guards, what a connection's checks remember, the pool, `/ready`, beside a database that changes |
| `Signing` | trust log and attestation log, the signer's passes, the witness, a restore |
| `TenantKeys` | tenants, keys and their locks, requests that authenticate beside the commands |
| `KeyLimiter` | the limiter of failed attempts |
| `TenantRuns` | sign, status and seal over the tenants, with containers and their pipes |
| `LedgerImport` | the import, interrupted, repeated, racing |

The document ledger and what works on memories:

| Module | What it is |
|---|---|
| `JsonStore` | `JarvisStore` and `PostgresJarvisStore`: memory, file, saves that fail, crashes |
| `ClauseV` | the gate, over sequences of updates of a record |
| `Continuity` | conflicts among records, as operators |
| `EmrWrite` | `emr_remember` and `emr_upsert`, ledger call by ledger call |
| `LedgerReads` | `list_latest` of both stores and paging by cursor |
| `EmrBundle` | excitation step by step: graph walk, abstention, choice of the bundle; working set, expansion |
| `EmrDynamics` | the reinforcement overlay and its sidecar |
| `AmulField`, `AmulRag`, `AmulLlm` | the field with anchoring and compaction; retrieval, index and replay log; governed generation |
| `Drift` | the drift watcher beside writers |

The edges:

| Module | What it is |
|---|---|
| `CallLog` | the call log and its use by the witness: sections under the file lock, one action per file operation, with failures and crashes |
| `CallLogReads` | extends `CallLog` with an auditor: pages, `verify`, the report of `scripts/relay_evidence.py` |
| `Access` | middleware, gates and route dependencies, as functions of the deployment and of the credentials shown |
| `FrontDoor` | composes `Access` and `Serving`: what a request passes before the store works for it |
| `Pipes` | composes `NxClient` and `TenantRuns`: the two places that ask a child over a pipe, with numbered lines and without |
| `NxClient`, `NxBackground` | the connector's client with its child, and the background processes it starts |
| `McpServers` | the two stdio MCP servers and a network that loses requests and replies |

Theorems (section 5) are in `LedgerStoreProofs` (numbering, sealing, records),
`LedgerReadersProofs` (replays, receipts, verifiers), `CallLogProofs`, `MemoryProofs`
(gate, gateway, overlay, JSON store, recall), `AmulProofs` (field, governed generation, retrieval),
`ServicesProofs` (boards, tenant keys, background processes, limiter, MCP servers,
import, drift), `SigningProofs` and `EdgeProofs` (`FrontDoor` and `Pipes`). `MCLedgerStore`,
`MCLedgerReaders`, `MCCallLog`, `MCMemory` and `MCServices` give constants their values. Each
EXTENDS the modules that theorems are about, so that TLC
evaluates the assumptions of the theorems. The last four hold several *parts*:
the first state of a behaviour chooses one from `Parts` and only its variables
move, so one run checks them all and the state spaces add up. `LedgerReplay`,
`LedgerVerify` and `OfflineVerify` share `LedgerStore`'s variables and compose
with its writers and sealers in every step. The other modules do not share
state with one another in the code either, but for the ledger, which appears in
each at the level the code there sees it: rows and statements in `Boards` and
`LedgerImport`, whole calls in `EmrWrite`, `Drift` and `AmulLlm`.

### LedgerStore

*Tables.* `memories[m]` is the row of record `m` (version 0: no row);
`history` the set of entries; `counter` the tenant's `last_seq`; `heads[m]` the
chain head; `blocks` the sequence of blocks. A row's content is the set of
requests whose patch it includes: each request patches a field of its own, so a
lost update is a missing member. Hashes are perfect, so a `row_hash` is named by its
entry's `seq`, a `prev_hash` is the previous entry's `seq`, and an
`entries_root` is the set of entries it was computed from.

*Requests.* `pc[r]` is the SQL statement request `r` comes to next, `seen[r]` the
row its SELECT returned, `tx[r]` its open transaction: row locks, key-share
locks, the counter value it wrote and the history rows it inserted. Nothing of `tx[r]` is
visible to others before `Commit`.

| Code | Actions |
|---|---|
| `update_memory`: SELECT and `expected_version` | `ReadRow` |
| `_supersedes_exists` | `CheckTarget` |
| `UPDATE ... WHERE version = ...`, retry | `WriteRow` |
| `create_memory`: INSERT | `InsertRow` |
| foreign-key check of the new `supersedes` | `ShareTarget` |
| `delete_memory`: DELETE | `LockRow` |
| `ON DELETE SET NULL`, row by row | `DetachRow` |
| trigger `jarvis_record_history`, once per changed row | `Capture` |
| COMMIT, acknowledged or not | `Commit` |
| `lock_timeout` / deadlock detection | `LockTimeout` |
| any other failure: `_tx` rolls back, 503 | `Abort` |
| `jarvis_seal_block`, statement by statement | `SealLock`, `SealReadCounter`, `SealReadTip`, `SealBelowThreshold`, `SealInsert`, `SealAbort` |

PostgreSQL behaviour that the code relies on and the model spells out: an
UPDATE that waited for a row judges it again as it is then; a foreign-key check
takes a key-share lock that a DELETE of the target waits for, and waits for such a
DELETE, but not for an UPDATE; `INSERT ... ON CONFLICT DO UPDATE` holds the counter
row until the transaction ends; AFTER triggers run in the order of their names, so
the foreign-key triggers come before `memories_history`, and what the cascade
changed is captured after the deleted row itself. The per-record advisory lock of the
capture trigger needs no variable: whoever takes it already has the record's row
lock.

### The readers of the row store

`LedgerReplay`, `LedgerVerify` and `OfflineVerify` add processes that only read
(and, for receipts, insert content-addressed objects), one action per SQL
statement, each reading the tables as committed when it starts.
`LedgerReplay!reader[v]` holds what the statements of one call have found so
far; its field `then` (the rows at the instant the counter was read) and
`LedgerVerify`'s `began` are history variables for the properties. A FOR loop of
plpgsql reads its rows as of its start; the statements inside it do not.

### CallLog

A *task* is a request, or a process doing its own housekeeping (the flush of `verify`,
`query` and the shutdown hook). What it does to the log happens in a *section*, one
holding of the file lock; `lock.plan` lists what the section still has to do, and each
entry takes the file operations of `_append_locked` as separate actions, because
each can fail and the process can die between any two. A count the code keeps
(unlogged, refused, suppressed) is the set of calls it counts, so that a call lost or counted
twice can be told; an entry's hash is named by its `seq`, since the head is always read
as a pair. The counts of all (tenant, transport) pairs are one summary per process.

| Code | Actions |
|---|---|
| middleware and `witnessed_dispatch`: arrive, serve, answer | `Arrive`, `Serve`, then `Finish` or `Mark` |
| `preflight`, `append`, `flush`: lock, head, `degraded()` | `Begin`, `BeginFails`, `Finish` |
| `_rotate_and_retain`: anchor, unlinks | `SaveAnchor`, `Unlink` |
| `_append_locked`: open, write, fsync | `Write` (whole or short), `AppendFails` |
| `_clear_degraded` | `Clear` |
| caps and minute windows in `append` | `Window` |
| `_mark_degraded`, persisted or not | `Mark`, `MarkFails` |
| `query`, `query_with_head`, `flush_for_shutdown` | `Flush`, `Shutdown`, `Restart` |
| process death, clock | `Crash`, `NewMinute`, `NewDay` |

`lost`, `cut` and `retired` are history variables: the calls whose only trace a crash or
a failed operation removed, the lines `os.write` cut short, and the calls in files that
retention deleted. `lost` grows at four places only, each of them a named limit of the code: the memory of a
dying process (`docs/call_log.md` says so), a short write, a DEGRADED file that could not be
read when it was rewritten, and one that could not be read when it was removed.

`CallLogReads` adds an auditor. `query_with_head` flushes, then takes head and
sizes under the lock and reads the files after releasing it; `verify` reads the
anchor, the list of files, the files and last `degraded()` without the lock,
each its own action (`walk` is what it knows so far); the report follows the cursor and
then verifies. A page is the set of its entries: newest first is the order of their
numbers, so the newest `PageSize` entries are those with fewer than `PageSize` above them.

### What the other modules take from the code

| Module | Code | Actions or operators |
|---|---|---|
| `Boards` | `set_board`; `patch_board` | `Upsert`; `InsertDefault`, `SelectForUpdate`, `UpdateBoard`; `CommitBoard`, `LoseConnection` |
| `Signing` | `store_attestation`, `store_trust_statement`, `pending_attestations`; signer; witness | rows of two logs that only grow, a pass of a signer from status to its last receipt, an export checked against what was seen |
| `TenantKeys` | commands of `tenant_keys.py` and the triggers of the control schema | a command per session with the rows it locked; requests resolve in between |
| `KeyLimiter` | `reserve`, `release`, `_evict` | one step each (they hold the lock); overlapping attempts; a bucket is the set of its reservations, whose times give the order of the deque |
| `JsonStore` | mutators, `_save_or_restore`, `_load` | change memory, write the file, replace it, undo; readers at any moment; crash |
| `EmrWrite` | one `emr_*` request | a step per ledger call, any of which may answer 503 |
| `EmrBundle` | `excite`, `apply_graph_expansion`, `select_stm`, `expand_stm_entry` | an action per seed, per item taken from the queue, per neighbour and per record chosen, while other excitations, expansions and resets of the session go on; the walk's boosts are compared with all ways of at most `MaxDepth` edges |
| `AmulField` | anchor, verify, compact | one action per file operation, with torn lines and restarts |
| `NxClient` | `_mcp_roundtrip`, `_mcp_call_tool`, `_release` | write, read line by line, time out, fall back to the CLI |
| `Access` | `identity_middleware`, gates, dependencies | one decision per layer; the answer is that of all layers together |
| `Serving` | `_tx`, start guards, `/ready` | one statement each beside edits of the database |

Each module's first comment says what it abstracts; each operator's origin is
in `PROJECT.json` under `map`.

## 3. Runs

| Run | Question | Bounds |
|---|---|---|
| `ledger_safety` | do history, heads, rows, targets and answers stay consistent? | 4 requests over 7 kinds of job, 3 ids of which 2 exist, 2 attempts, no sealer; symmetric requests |
| `ledger_seal` | do blocks tile, are seals never refused, is this a `SealedLog`? | 3 requests, 2 sealers, blocks of at most 2 entries, threshold 2 |
| `ledger_live` | is every request answered, does everything get sealed? | 2 requests that can build a cycle of `supersedes` and delete into it, 2 sealers that may fail |
| `ledger_readers` | are replays instants, are receipts for ever, do the checks invent damage? | 2 requests, 1 sealer, 1 reader, verifier or offline check that repeats its calls, bounds {none, 3} |
| `call_log` | is every answered call logged or counted, once, and reported in time? | 3 requests, 2 processes, caps of 1 a minute, 2 failing file operations, 1 crash or shutdown, 1 day |
| `call_log_days` | is the chain one chain from the anchor on? does an auditor claim only what was seen? | the same with 3 days, retention of 1 day, 1 failing operation; the auditor: 2 pages of 1 entry and 1 pinned file, from the day after the first entry, calls one by one |
| `memory` | eight parts on the document ledger: are saves, gate, gateway, pages, bundles, rewards, field and retrieval sound? | 2 threads and slots; 3 gateway requests over 3 ids; pages of 1; 2 anchoring threads, 2 runs, 1 fault; 2 documents; 4 reports of outcomes; 2 excitations over 3 ledgers of 3 or 4 records, ways of 3 edges from 2 seeds, at most 3 boosts (so some walks are cut off) |
| `services` | fourteen parts around the row store and in front of it: are signatures, keys, boards, imports, callers, answers, children, verdicts and records what they claim to be? | 2 signers, 3 statements, 4 attestations, 1 block, and 1 signer with 2 statements, 2 attestations and 2 backups; 2 keys and sessions, 4 commands; 2 attempts with a limit of 2; 2 board writers; 2 imports, 3 runs; every deployment with two credentials; 2 tenants, 2 handlers, a pool of 2, 1 edit; 2 callers of a connector; 2 starters; 4 lists of tenants, 2 lines each; 2 MCP calls; 2 records, 2 claims, 2 changes; 2 prompts at once |
| `call_log_torn`, `ledger_replay_picture`, `ledger_verify_alarm`, `signing_receipt` | the disagreements of section 6 | as above |

The largest, `call_log_days`, has 4.3 million distinct states; each run takes
from a few seconds to about three minutes with two workers.

*What the parts of `memory` and `services` check.*

| Property | Part | What it excludes |
|---|---|---|
| `DiskIsTheLedger` | JSON store | a reader that keeps what a failed save took back; an acknowledged version lost over saves, crashes, restarts |
| `AdmittedHasEvidence` | gate | a record brought to an inadmissible state by a detour of updates (stripped while archived, then revived) |
| `OneClaimUnlessRaced`, `ArchivedHasSuccessor` | gateway | two open claims on a subject without an overlap or a broken-off request; a record archived before its replacement exists |
| `ListingIsSound` | reads | an item that stood still and is skipped or repeated across pages; two stores that give different pages |
| `RecallIsSound` | bundle | a boost that depends on the order of the walk, or that no way gives; a bundle with a disputed subject, beyond its budget, or short of a record it had room for |
| `EarnedOnce` | overlay | one outcome earned twice by repetition, concurrency or restart |
| `FieldIsKept` | field | an acknowledged artifact, or a sealed range, that changes over torn lines, crashes and compactions |
| `RetrievalIsSound` | retrieval | an index that is not the log; an answer without documents or without a record |
| `TakenIsGood`, `WitnessIsRight` | signers, witness | a row reported though nothing that was known spoke against it; a cosignature over what the root never had; an alarm without a rollback |
| `NoKeyOutlivesTenant`, `FailuresStayCounted` | keys, limiter | an active key of a tenant that goes; a closed key let in; a guess that is not counted |
| `BoardIsSerial`, `ImportIsWhole` | boards, import | a patch lost; an import half there or over somebody's write |
| `ServedAsProven` | access, serving | a combination of gates that serves a caller with nothing proved; a request or `/ready` that rests on a check nobody made |
| `AnswersAreMine` | client, tenants | a late answer taken for the next one; a tenant reported with another's answer, or whose container outlives its turn without a cause |
| `NothingRunsUnheld` | background | two processes of a kind, or one that no slot and no request holds |
| `ResultsAreTrue` | mcp | "nothing was stored" of what was stored; a key sent where it must not go |
| `VerdictIsBacked`, `RecordIsHonest` | drift, llm | a pass no record supports; an answer whose record hides what the model saw |

*Why the bounds are enough to be interesting.* Two seeded records, the second
superseding the first, are the smallest chain on which a delete cascades,
an update keeps a target that may go, and an update can close a cycle.
Three or four requests are needed for the races to overlap: two updates and a delete of
the target of one of them; a cycle of `supersedes` and the two deletes that
deadlock in it. Two attempts (the code has 5) reach both the retry and its
exhaustion. A delete makes two entries visible at once, so seals with a threshold
of 2 and a cap of 2 meet exactly full, partly full and several pending blocks. The
requests are symmetric; records are not, because the seed orders them.

For the call log: two failing operations are what it takes for an increment to stay
in a process's memory (the append fails, then the write of the DEGRADED file), one crash to
fall between a gap and the removal of that file; three requests fill a cap of one, join a
summary and close it by a write; three days with one of retention are the least
in which a file is deleted while others remain. Requests and processes are symmetric. Gaps and
retention do not interact beyond the append they share, hence the two runs. An
auditor with two pages meets every case of its cursor: none, within a file,
across files, cut off.

For the parts of these two runs: two actors is what their races take,
and where a third step is needed (a restart after a failed save after another
request's success; a restore, a log that goes on differently, the next export)
the bound on faults, runs or statements allows it. That each bound is large
enough is what the mutants show: every property fails, within the bounds of its
own run, for a mutant of the code it speaks of (the version left out of the WHERE
clause, no key-share lock, no counter lock, a reservation taken back at the wrong end, the
undo left out, and so on), listed in `PROJECT.json` and defined next to the
definition it replaces (a comment `mutant:` marks it).

Symmetry is used over interchangeable requests, processes and threads, and in no run
with a liveness property. In `memory` and `services` the two actors of every part are the same two
model values, so that one swap is a symmetry of all parts. Deadlock checking stays on in `ledger_seal` and
`ledger_live`, where sealers go on for ever, in `ledger_readers`, whose readers
repeat, and in the violation runs of the readers; it is off elsewhere, where requests,
calls or commands are finite in number and a behaviour may end.

## 4. Fairness

`FairSpec` asks only for what the server and PostgreSQL provide:

* a request that has arrived is served (weak fairness of `Serve(r)`): threads are
  scheduled and each wait ends, at the latest by `lock_timeout` (5 s by default),
  which is itself an action. Whether requests arrive (`Begin`) and whether transactions
  fail (`Abort`) is not fair;
* the seal timer fires again and again (weak fairness of `SealStep(s)`), and its
  attempts do not all fail or stop below the threshold (strong fairness of the
  statements that lead to the INSERT): the oldest unsealed entry becomes older
  than `max_age`, after which the threshold no longer applies (`app/pg_schema.py:672`).

`RequestsAnswered` fails without `lock_timeout`; `EverythingSealed` fails if the
"nothing new" test is off by one.

## 5. Proofs

Eight modules hold theorems; everything in them is checked to the last leaf. Each
result holds for every value of the constants, under the named assumptions of its
module.

| Theorem | States | From |
|---|---|---|
| `LedgerStoreProofs!TypeCorrect` | `TypeOK` | `ConstantsOK` |
| `LedgerStoreProofs!CounterIsBacked` | `CounterBacked` | `ConstantsOK` |
| `LedgerStoreProofs!BlocksAlwaysTile`, `SealIsNeverRefused` | `BlocksTileHistory`, `SealNeverRefused` | `ConstantsOK` |
| `LedgerStoreProofs!StoreIsSealedLog` | `ImplementsSealedLog` | `ConstantsOK` |
| `LedgerStoreProofs!RowsAlwaysMatch`, `ChainsAreIntact` | `RowsMatchHistory`, `ChainIntact` | `ConstantsOK` |
| `LedgerStoreProofs!UpdatesAreKept`, `LinksNeverDangle` | `NoLostUpdate`, `NoDanglingSupersedes` | `ConstantsOK` |
| `LedgerStoreProofs!VersionAnswersAreTrue` | `VersionAnswersTrue` | `ConstantsOK` |
| `LedgerReadersProofs!ReplaysAreInstant`, `ReceiptsAlwaysVerify` | `ReplayIsInstant`, `ReceiptsVerify` | `ConstantsOK`, `ReplayConstantsOK` |
| `LedgerReadersProofs!VerifiersAreRight`, `OfflineRunsAreRight` | `VerifierIsRight`, `NoDamageInvented` | `ConstantsOK` |
| `CallLogProofs!ReportsAreHonest` | `ReportIsHonest` | `CallLogConstantsOK`, `ReadsConstantsOK`: a page holds at least one entry |
| `CallLogProofs!CallLogTypes` | the types and sections of the call log | `CallLogConstantsOK` |
| `CallLogProofs!CallsAccountedFor`, `GapReportedFirst`, `ChainHolds` | `NothingVanishes`, `GapComesFirst`, `ChainUnbroken` | `CallLogConstantsOK` |
| `MemoryProofs!FileIsTheLedger` | `DiskIsTheLedger` | nothing |
| `MemoryProofs!GateAdmits` | `AdmittedHasEvidence` | nothing |
| `MemoryProofs!OneClaimPerSubject`, `NothingIsOverwritten` | `OneClaimUnlessRaced`, `ArchivedHasSuccessor` | `EwConstantsOK` |
| `MemoryProofs!OutcomesCountOnce` | `EarnedOnce` | `EdConstantsOK` |
| `MemoryProofs!ListingsAreSound` | `ListingIsSound` | `LrConstantsOK`: ids and times are numbers, a page holds at least one record |
| `MemoryProofs!RecallHoldsUp` | `RecallIsSound` | `EbConstantsOK`: finite ledgers of numbered records, and no score, cost or limit is negative |
| `ServicesProofs!BoardsAreSerial` | `BoardIsSerial` | there are texts; `NoBoard` is no board |
| `ServicesProofs!NoKeyIsLeft` | `NoKeyOutlivesTenant` | `Idle` is no command, request or key |
| `ServicesProofs!OneInstanceMax` | `NothingRunsUnheld` | `MaxPids` is a number, `Nobody` no starter |
| `ServicesProofs!FailedGuessesCount` | `FailuresStayCounted` | `KlConstantsOK` |
| `ServicesProofs!ToolResultsAreTrue` | `ResultsAreTrue` | nothing |
| `ServicesProofs!ImportsAreWhole` | `ImportIsWhole` | `DocumentsEnd`: a document has finitely many records |
| `ServicesProofs!VerdictsAreBacked` | `VerdictIsBacked` | `RecordsEnd`, `DraftsOK`, `ClaimsOK`: finitely many records, drafts are records, claims are well formed |
| `AmulProofs!FieldKeepsItsWord` | `FieldIsKept` | nothing |
| `AmulProofs!GenerationIsRecorded` | `RecordIsHonest` | `LlConstantsOK`: the caller's own lines are no memories |
| `AmulProofs!RetrievalHoldsUp` | `RetrievalIsSound` | `RgConstantsOK`: documents and scores are numbers, the ledger gives finitely many |
| `SigningProofs!TakenRowsAreGood`, `CosignedRowsWereSeen` | `TakenIsGood`, `WitnessIsRight` | `SgConstantsOK`: `MaxAtts` is a number |
| `EdgeProofs!ServedHolds` | `ServedAsProven` | `SvConstantsOK`: the box is a ledger, ledgers and handlers are not named like facts and observers |
| `EdgeProofs!AnswersHold` | `AnswersAreMine` | `NxConstantsOK`: "nothing" is no caller; `TrConstantsOK`: tenants are names, `""` is none |

None of these properties is inductive by itself.

**Numbering and sealing** (`LedgerStoreProofs`). The inductive invariant `IInv` is

* `Typed`: the types, and for each request what its program counter says about
  its job (an `insert` is a create, a `write` an update with attempts left, ...);
* `Counting`: only one transaction holds the counter row (`OneCounting`), its
  uncommitted entries continue the committed numbering without a hole
  (`PendingNumbered`), and `CounterBacked`. The first two are why a commit, which adds
  several entries at once, moves the counter exactly over them;
* `Sealing`: one sealer at a time (`OneSealing`), what it read is still true
  when it inserts (`SealerKnows`: the counter only grows, the tip is its own), and
  `BlocksTileHistory`. It rests on `Counting`: a range below the counter holds exactly one
  entry per number and later commits add none to it (`EntriesStay`), and its
  cardinality is the length of the range (`EntriesInRange`).

Each of the three has an initial and a step theorem with one lemma per action
or group of actions; most steps of a request are `Quiet`: they leave the tables alone and
at most drop a transaction. The refinement maps `Commit` to `Extend`,
`SealInsert` to `Seal` and every other step to a stutter.

**Records** (`LedgerStoreProofs`, second part). `RInv` adds: the row locks of two requests are
disjoint; the entries a transaction has pending say what the rows it holds were
and will be; a version names one row (so the row an update read, if the version still
fits, is the row it overwrites); what a delete has locked or detached and what
others hold as a foreign key's target stay apart. No induction over the history
is needed: "a record with entries has a newest one" is itself part of the invariant.

**Answers about versions** (`LedgerStoreProofs`, third part). `VInv` counts: a live record
has had as many entries as its version says (`EntriesPerVersion`), so a version is never used
twice, and an update that has failed `n` times has met more than `n` entries of its
record (`Overtaken`). What a request has not yet committed is in no row (`Unpublished`), so the entry
that carries its patch is the one its answer is about.

**Replays** (`LedgerReadersProofs`). `PInv` says that the blocks are ordered, so that
a point lies in one of them at most; that what is at or below the counter never
changes, so what a receipt for a point must say (`ReceiptAt`) is constant; that every stored
receipt says just that; and that what each reader has found so far agrees with it. A replay
of the newest state took the rows when it read the counter, and by `RInv` those are the
rows the entries up to it give. A replay of events adds `EInv`: the pages so far are the numbers
1, 2, ... up to the one the next page starts from, which the counter has reached.

**Verifiers** (`LedgerReadersProofs`, second part). The store itself is `Sure` (the invariants above). What a
run of an SQL verifier has read is related to the counter when it began (`Sees`): the counter it read lies between that one and
today's; a head that its open loop still has to give has its entry, which is the newest unless something was
committed since; the blocks its loop still has to give are a stretch of the blocks there are. Then
every check can only find one of the three `Overtakings`, and only after a commit. An offline run adds
`Follows`: the entries it took are those up to its point, so what they fold to is a function of the point
alone (`RootOf`), the same in every run (`Proves`).

**Call log** (`CallLogProofs`). `TypeOK` and `SectionOK` say which task holds the file lock
and what its plan may still contain. *Accounting* (`AInv`): until a call is over it is counted
nowhere, but for the call whose own section has just ended (`NotYetCounted`), so that
the step which answers it moves it to exactly one place; no count without the mark that
says there is one (`CountsMarked`); and within a section the gap is reported, then
removed, then the entry written (`GapInOrder`), from which `GapComesFirst` follows.
*The chain* (`CInv`): writing goes on in the newest file, numbers grow along the files without a hole
but for lines that were cut, the anchor meets the oldest entry that stays, and the
head a section works with is that of the newest whole line. The delicate step is
retention: the anchor is replaced before the files go, so for a while it lies inside the
chain, and `AnchorSaved` says that it is at the end of just what will be deleted.
*The auditor* (`ReportInv`): for whoever reads without the lock, a step of the log does one of three things
(`LogMoved`): it adds one line at the end, removes the oldest file, which lies behind the anchor, or leaves the lines
alone; and neither anchor, clock nor days go back. `AuditInv` speaks of any report and any walk, so that each of
its parts is first shown to survive such a step (`AuditStays`) and then each action of the auditor. Its
parts: what was read is all the log still holds from the cursor to the head of the first page (`PagesJoin`), where
the newest `PageSize` of a finite set of entries are found by cardinality, not by sorting (`PageIsTop`,
`PageJoins`); while the anchor is zero the calls logged at the start are in the log or were read (`CallsKept`); what was owed
is reported or still owed (`OwedKept`); and a walk that no retention, crash or short write disturbed stands between
two days, at the number the files before end with (`WalkFits`, `StandsAt`).

**Gate, gateway, overlay** (`MemoryProofs`). The gate's property is inductive once every update is judged on
the merged record. For the gateway, `OneClaimUnlessRaced` needs what a request knows between its ledger calls:
as long as no two overlapped, one request is under way (`Alone`), the live records of a subject say the same but for one that another
replaces (`Agree`), such a record is the target of the archive call still to come (`Doomed`), and the peers
that were read are still all there are (`Peered`, `Checked`). For the overlay, an entry's `uses` is the number of its
outcomes, in memory and in the file (`Ledgered`), and as long as no save failed the boost is worth what was earned and
the file is what memory holds (`Worth`).

**Pages of the ledger** (`MemoryProofs`). Both stores list by the same key, so a page is a set of rows, and the newest
`Limit` are those with fewer than `Limit` newer ones. What was shown lies before the cursor, what stays listed and was not
shown behind it (`ShownFits`, `StayingFits`); a page is closed upwards (`TopIsUpper`), and one that is not full is all
there is (`TopIsAll`). The JSON store finds successors in one loop over its records: after each row it has the
newest so far (`NewestSoFar`); that the loop has a run at all goes as for the trust state below (`EveryNumber`).

**Recall** (`MemoryProofs`). That the strongest path wins is not obvious of a breadth-first walk: a record that was met
on a weak way may be met again on a stronger one, and what was reached through it must be reached anew. The invariant of
the walk from one seed (`Explored`) speaks of the items accepted so far. Each ends a way from the seed, and the boost it
earns is in; those in the queue stand in the order of their depth, no more than one edge apart; and from each of the others,
every neighbour was reached by an item no deeper and no weaker than the way through it (`Leads`), unless that way has no
strength left. When the queue is empty it follows, by induction over the number of edges, that every way is covered by an accepted
item at least as strong (`EveryWayIsCovered`): an edge gives more from a stronger way and no more when it is followed
later (`HopOrder`), which rounding down to hundredths keeps. Here the order of depths matters: a stronger but longer
way would end before the weaker one does. `MaxNodes` is the one thing that can spoil this; a walk that was not
cut off in the end never was (`CutStays`). The other direction, that some way gave each boost, needs none of this. For the choice,
`ChoiceFits` counts the tokens as a set and says that whatever was looked at is in or contradicts what is. The ways themselves are a
recursive function; that it meets its equation is shown with `EveryNumber`, as for the pages.

**Boards, keys, processes, limiter, tools** (`ServicesProofs`) and **JSON store** (`MemoryProofs`). Boards: one transaction
holds the row, and whoever has read it knows
the board the committed writes give. Tenant keys: share and update locks on a tenant
exclude each other, so the tenant of a key being made is not going, and a tenant
that goes has every active key among its revocations; keys closed for good stay closed.
Background processes: check, spawn and store under one lock. Limiter: a reservation in an attempt's hands is its
own (`Owned`) and a failed guess is of an attempt that is over (`Spent`), so nobody
takes a failure back, and a bucket with failures at its limit is never dropped. MCP servers:
only a call that passed its checks has left (`Left`), and an answer, once heard or under way, is the last word on
its call (`Final`), because a request is delivered once at most.
JSON store: one save at a time; its undo holds what the file holds; every slot, in
memory and in the file, holds a version some caller may have been told of.

**Import and drift** (`ServicesProofs`). Import: a run that has inserted rows holds the chain heads, and no
two do (`KeepsHeads`), so that between its comparison and its commit the rows stay what the comparison saw
(`InsertsFit`); that every row has one birth in the history (`BornOnce`) is kept by every writer. Drift: ids are
used once, so a record's agent is the same in every state of the ledger during the check (`OneAuthor`), and what
the watcher has read of a record was so in one of them (`ViewsHeld`); the rest is about `RunCheck`, claim by claim.

**Field, generation and retrieval** (`AmulProofs`). Field: what is loaded survives appended lines and torn ones, for
what was loadable from a file is still so from a longer one (`Survives`); as long as no line is damaged the server's
memory and the artifacts a request names are those of the file (`Known`), hence a parent always stands before its
child; a checkpoint holds the bytes of the file at its place but for lines damaged since (`Sealed`), the
chain of checkpoints is contiguous (`Linked`), and a compaction under way goes on from its end (`RunFits`).
Generation: the context is what was recalled and the caller's own lines, and unless it was cut all of what was
recalled (`Told`), and the model has heard exactly that (`HeardFits`).
Retrieval: a line more in the log is a document more in the index that the log gives (`FoldGrows`), so without an overlap
or a line cut off a document on its way is either in neither or in the log only (`IndexFits`). What the context
holds is a function over the number of documents tried: after each, those used were found and fit together
(`BlockFits`); that a best one of those left exists is a lemma about finite sets (`FirstIsOfThem`). A record
stays in the replay log or in an archive (`Held`), because what maintenance expires was old when it looked and a log
that is moved is young.

**Signatures** (`SigningProofs`). `SgInv` speaks of every *copy* of the two logs, the store as it is
now and each backup, because a restore puts any of them back. In each (`StoreSound`) the rows are linked, a void names
the row it is for, and a row with a good signature that is not voided has the authorization and the subject it was
judged to have when it was taken (`Justified`). The trust state is a recursive function over the statements; what the
proof needs of it is that one more statement only adds: authorizations of unknown keys, revocations, voids,
cosignatures (`TrustOfMore`). That the function meets its equation is an induction all the same; it goes by the set
of the numbers up to which it does (`AllNaturals`, from the least number outside), since a set, unlike an operator, can be given to a lemma. Across copies, a hash names a row and
everything before it (`SameRows`), as no hash is given out twice; so where the row that a root cosigned still
is, the witness had it and all before it (`WasSeen`). Until a restore, what the witness saw is a beginning of
the newest backup and that of the log (`SeenSound`), so an alarm means a rollback.

**The front door** (`EdgeProofs`). `CallersAreProven` says of one answered request what the credential it showed must have
been, so it is inductive by itself; its proof goes through the gates of each kind of route, and what it needs of a
list of gates is that the first refusal is the answer and an answer without one has passed them all. For the
guards, `SvInv` says what an observer (the start, the memory of a pool, a connection, a call of `/ready`) relies on: each
fact either holds now or was `broken` since this observer saw it hold. So a check may be overtaken by the database at any
moment, but none can be skipped, remembered for another tenant or carried over a reopened pool.

**Pipes** (`EdgeProofs`). Connector: no id is used twice, and whatever the pipe holds under the id of a call that
waits, question or answer, is about that call's question (`NxInv`); so a late answer can be read, but not taken.
The lines of the jobs over the tenants carry no id, and there the order does the work: between two
tenants there is nothing of a container, while one works at most one line is on its way, and after a timeout the
container is killed with its client, so that no answer to an earlier question can come (`TrInv`).

TLC also checks every property these theorems state, on the bounds of the runs.

*Only model-checked:* both liveness properties. Liveness under fairness, ENABLED and RECURSIVE
operators are beyond this prover, and so is an induction theorem applied to an operator; they stay with TLC.

## 6. Where the code and its documentation disagree

Four runs show a disagreement, each as a violation of what a comment says:

* `OneConsistentPicture` (`ledger_replay_picture`). `replay_state` is documented as
  reading "one consistent picture" because it is one transaction; at READ COMMITTED
  it is not one snapshot. The records and the state root are those of one instant all the same
  (`ReplayIsInstant`), but `sealed_seq` can be greater than `history_seq`, and the
  covering block can lie beyond `sealed_seq`.
* `AlarmsMeanTampering` (`ledger_verify_alarm`). The verifiers word three of their
  problems as tampering ("counter altered or missing", "history newer than its chain head",
  "counter altered or history removed"); on the live ledger each of them is also reported when a
  commit comes between two statements. `NoDamageInvented` shows that these
  three are the only ones, and that they need a commit.
* `TornLineIsSkipped` (`call_log_torn`). `_last_line` is documented to skip "a torn final line
  from a crash mid-write". It does so within a file; when the torn line is the only one in
  the newest file (the first entry of a day), it raises. Every append and every preflight
  reads the head first, so the log stays degraded and ledger writes stay
  refused until the file is repaired by hand: a new day's file is never started.
* `ReceiptHasSignedBlock` (`signing_receipt`). `pending_attestations` counts a voided
  attestation as one, so the block it was for is never signed again, while the signer
  says that "a receipt is never attested ahead of its block" and signs receipts on it.

Others were met while modelling and are in the models, without a run of their own:

* *Row store.* `update_memory`, "retried on concurrent change", checks in a later statement the target
  its own SELECT returned: deleted in between, a caller that never mentioned `supersedes`
  gets "supersedes target not found", although a retry would have succeeded. The retry on an id
  collision in `create_memory` is unreachable: `_tx` has turned UniqueViolation into 503.
* *Offline checks.* A replay at the end of a fully sealed ledger (which is what the signer runs
  on a receipt at the tip before signing it) reports "live record differs" or "record not in
  history" when a write commits between its reading of the counter and of the live
  table. A replay of a past point reports nothing (`OfflineIsRight`).
* *Call log.* A gap entry written between `verify`'s walk and its look at DEGRADED is neither
  newer than its head nor pending, so the report calls its view complete without it. `verify`
  beside retention, or after a crash between the anchor's replacement and the unlink, reports
  "deleted, inserted or reordered" until the next append.
* *Signing.* After `cosign --update-state`, verifying the same export again reports that
  its cosignature is gone. `verify_tenant` reads statements and attestations in two snapshots.
* *Serving.* What a connection's checks found is remembered for the pool's life: a later
  change of role or schema is served until restart, while `/ready` reports it at once.
* *EMR.* Two writers that overlap can both be admitted on one subject ("no silent co-admission",
  `app/emr_write.py:10`), and a verification that comes between check and write is
  overrun; a half-done upsert leaves both claims live, a retried one makes a second copy;
  the answer reports `superseded_target_archived` also when the archive call found nothing. `expand` can take the working set over
  its budget, and one that overlaps an excitation or a reset writes the old set back. A failed
  save of the overlay is not reported, so an acknowledged correction can be undone by a restart.
* *AMUL.* After a torn line later acknowledged appends are lost at the next restart, though
  "append-only guarantees prefix validity" (`app/amul.py:134`); two overlapping compactions
  break the chain for good. An answer may rest on documents below `min_support` when the
  top hit does not fit the budget. The result of `append_jsonl` is ignored by the generation loop, so it
  returns without a replay record when the log cannot be written; the context cut at 32000 characters
  loses the conflict warning first that stands last.
* *Drift.* When listing the ledger fails, a superseded record counts as active, so a true claim
  is called contradicted.
* *MCP.* A `tools/call` sent as a notification over HTTP is executed but not witnessed. A
  write that timed out may have been stored; a retry makes it twice (the tool's
  answer says so).
* *Background processes.* A crash of the server orphans its watcher, after which "One instance
  max" holds only for the processes of the new server.
* *Tenant jobs.* A compose client that dies by itself while its container is stuck leaves the
  container, as does a `docker rm` that fails; the operator's own refused receipts give exit code 4
  but no line in the list of failures.

The properties of the passing runs are stated so that they hold beside all of these: they name the
exception (`OneClaimUnlessRaced`, `NothingVanishes`'s `lost`, and so on).

## 7. What is not modelled

* *Row store.* The text and size limits of records, search, paging of replays, the block hash
  chain (blocks are an immutable sequence), row-level security as data (its checks are in
  `Serving`). The age of the oldest unsealed entry and the back-off between attempts
  are nondeterministic. An id is never handed out twice (48 random bits).
* *Replays and verifiers.* The status of evidence in `replay_events`; `pg_verify`'s checks of
  evidence objects and signatures; command lines.
* *Call log.* The text of entries, route templates, filters, buffering of requests and responses,
  the second entry of a response that fails while it streams, the Windows branch; a clock
  that steps back over midnight. Calls in open summaries of another process are in no page.
* *Signing.* Hashes and signatures (a row is good or not), modes, grace periods, custody of keys.
* *Tenants.* Container start-up and stray output. *Limiter:* eviction below the limit forgets by design.
* *Serving.* What policies, grants and schemas look like; the adoption of a legacy document
  after the tenant's check.
* *Access.* 421, 429 and OPTIONS; the contents of tokens. *MCP:* batching over HTTP.
* *JSON store.* The ambiguous COMMIT of the blob store, several processes on one file (documented as
  last-writer-wins, `SECURITY.md:45`), the iteration of the live dictionary while it changes.
* *EMR.* The scoring of text (an input of `EmrBundle`), the evaluation harness
  (offline benchmarks).
* *AMUL.* Embeddings, texts and their classification, the adoption of a legacy shared chain, the
  tool registry. *Drift:* the parsing of text and `match_call_log`.
* *Ledger search and `app/graph.py`*: read-only rankings and derived views. *Agent hooks:* near-copies of
  the application's modules; *deployment scripts:* timers and shell.

Where the model and PostgreSQL, the file system or a child process meet, their side is
external: `map` marks it, and the module's comments say what is assumed of it.

## 8. Plan

What is left, in this order:

1. An abstract log ("answered implies accounted for") that `CallLog` refines; liveness of its
   sections.
2. Evidence objects and signatures in the offline verification; `match_call_log`; batching in
   the HTTP endpoint; the legacy chain in AMUL.
3. Ledger search and the derived graph view as operators against a reference definition.
