------------------------------- MODULE Serving -------------------------------
(***************************************************************************)
(* When the row store may be served at all: the guards of the start        *)
(* (app/main.py lifespan, app/pg_store.py assert_key_auth_ready and        *)
(* assert_tenant_isolation_ready), the checks of a connection that are     *)
(* made once and remembered (PostgresRowStore._tx), and /ready, which      *)
(* checks all of it on every call.  Every check is a statement of its own  *)
(* under READ COMMITTED, and whoever keeps the database can change what    *)
(* was checked at any time.                                                *)
(***************************************************************************)
EXTENDS Integers, FiniteSets, Sequences, SequencesExt

CONSTANTS Ledgers, Box,       \* tenant keys; Box is the operator's
          Databases,          \* states of the database at the start
          Deployments,        \* [strict, keyed, ignore]: JARVIS_MULTI_TENANT, JARVIS_KEY_TENANTS, JARVIS_PG_IGNORE_LEGACY_BLOB
          Handlers, PoolMax, MaxWaiting, MaxTries, MaxEdits
ASSUME SvConstantsOK ==
  /\ Box \in Ledgers
  /\ Ledgers \cap {"version", "role", "tables", "isolated", "history", "control"} = {}
  /\ Handlers \cap {"start", "memory", "ready"} = {}

VARIABLES database,   \* [up, version, role, tables, history, control, legacy, populated]
          server,     \* [pc, strict, keyed, ignore, todo, tries]
          remembered, \* _ready and _legacy_ok: [ready, legacy]
          handler,    \* per request: [pc, tenant, todo]
          probe,      \* a call of /ready: [pc, todo, ok]
          broken,     \* per check made or remembered, what went bad since (history)
          edits       \* changes of the database so far

svVars == <<database, server, remembered, handler, probe, broken, edits>>

\* _isolation_probe: a tenant that owns nothing is shown rows.
Leaks(d) == (~d.role \/ d.tables = "open") /\ \E t \in Ledgers : d.populated[t]
\* _refuse_if_legacy_data_unimported: records in the old document, none in the rows; a
\* document the role cannot read is passed over.
Unimported(d, t) == d.legacy[t] = "filled" /\ ~d.populated[t]
Good(d, fact) ==
  CASE fact = "version" -> d.version      \* check_schema_version
    [] fact = "role" -> d.role            \* _require_rls_enforced
    [] fact = "tables" -> d.tables = "forced"   \* tenant_tables_without_forced_rls
    [] fact = "isolated" -> ~Leaks(d)
    [] fact = "history" -> d.history      \* _history_is_unwritable
    [] fact = "control" -> d.control      \* resolve_key exists and may be called
    [] OTHER -> ~Unimported(d, fact)
HoldsNow(fact) == database.up /\ Good(database, fact)

Observers == {"start", "memory", "ready"} \cup Handlers
Watches(o) ==
  CASE o = "start" -> {"version", "role", "tables", "isolated", "control"}
    [] o = "memory" -> {"version", "role"} \cup Ledgers
    [] o = "ready" -> {"version", "role", "tables", "history", Box}
    [] OTHER -> {"version", "role"}
Watching(o) ==
  CASE o = "start" -> server.pc # "down"
    [] o = "memory" -> server.pc = "up"
    [] o = "ready" -> probe.pc # "idle"
    [] OTHER -> handler[o].pc = "check"
\* The database changes: what was good and is not any more is noted for whoever watches it.
Becomes(d) ==
  /\ database' = d
  /\ broken' = [o \in Observers |-> IF ~Watching(o) THEN {}
                                 ELSE broken[o] \cup {f \in Watches(o) : Good(database, f) /\ ~Good(d, f)}]

NothingRemembered == [ready |-> FALSE, legacy |-> {}]
NoHandling == [pc |-> "idle", tenant |-> Box, todo |-> <<>>]
NoProbe == [pc |-> "idle", todo |-> <<>>, ok |-> TRUE]
KeyGuard == <<"control">>
IsolationGuard == <<"version", "role", "tables", "isolated">>

SvInit ==
  /\ database \in Databases
  /\ server \in {[pc |-> "down", strict |-> d.strict, keyed |-> d.keyed, ignore |-> d.ignore,
                  todo |-> <<>>, tries |-> 0] : d \in Deployments}
  /\ remembered = NothingRemembered
  /\ handler = [h \in Handlers |-> NoHandling]
  /\ probe = NoProbe
  /\ broken = [o \in Observers |-> {}]
  /\ edits = 0

-----------------------------------------------------------------------------
(* The start *)

\* lifespan: the key guard, then the isolation guard, each if its mode is on.
StartsUp ==
  /\ server.pc = "down"
  /\ server' = [server EXCEPT !.pc = "starting", !.tries = 0,
                  !.todo = (IF server.keyed THEN KeyGuard ELSE <<>>)
                           \o (IF server.strict THEN IsolationGuard ELSE <<>>)]
  /\ remembered' = NothingRemembered
  /\ broken' = [broken EXCEPT !["start"] = {}, !["memory"] = {}]
  /\ UNCHANGED <<database, handler, probe, edits>>
Guarding == server.pc = "starting" /\ server.todo # <<>>
GuardPasses ==
  /\ Guarding /\ HoldsNow(Head(server.todo))
  /\ server' = [server EXCEPT !.todo = Tail(@), !.tries = IF Head(server.todo) = "control" THEN 0 ELSE @]
  /\ broken' = [broken EXCEPT !["start"] = @ \ {Head(server.todo)}]
  /\ UNCHANGED <<database, remembered, handler, probe, edits>>
\* A definitive failure refuses at once.
GuardRefuses ==
  /\ Guarding /\ database.up /\ ~HoldsNow(Head(server.todo))
  /\ server' = [server EXCEPT !.pc = "down", !.todo = <<>>]
  /\ UNCHANGED <<database, remembered, handler, probe, broken, edits>>
\* A database that cannot be reached is asked again, from the guard's first check, until the
\* deadline, and then refused too.
Again == IF Head(server.todo) = "control" THEN server.todo ELSE IsolationGuard
Unreachable ==
  /\ Guarding /\ ~database.up
  /\ server' = IF server.tries < MaxTries THEN [server EXCEPT !.tries = @ + 1, !.todo = Again]
               ELSE [server EXCEPT !.pc = "down", !.todo = <<>>]
  /\ UNCHANGED <<database, remembered, handler, probe, broken, edits>>
IsUp ==
  /\ server.pc = "starting" /\ server.todo = <<>>
  /\ server' = [server EXCEPT !.pc = "up"]
  /\ UNCHANGED <<database, remembered, handler, probe, broken, edits>>

-----------------------------------------------------------------------------
(* Requests *)

InPool(pcs) == Cardinality({h \in Handlers : handler[h].pc \in pcs})
Busy == InPool({"check", "legacy", "served"}) + IF probe.pc = "checks" THEN 1 ELSE 0
HandlerMoves(h, record) == handler' = [handler EXCEPT ![h] = record]
Unchecked == IF remembered.ready THEN <<>> ELSE <<"version", "role">>
LegacyForAll(h) == server.ignore \/ remembered.legacy # {} \/ HoldsNow(handler[h].tenant)   \* mutant: remembered for every tenant
LegacyFine(h) == server.ignore \/ HoldsNow(handler[h].tenant)

\* _pool_for: a request waits for one of PoolMax connections, MaxWaiting of them at most.
Queue(h) ==
  /\ server.pc = "up" /\ handler[h].pc = "idle"
  /\ InPool({"waits"}) < MaxWaiting
  /\ \E t \in Ledgers : HandlerMoves(h, [pc |-> "waits", tenant |-> t, todo |-> <<>>])
  /\ UNCHANGED <<database, server, remembered, probe, broken, edits>>
Connect(h) ==
  /\ handler[h].pc = "waits" /\ Busy < PoolMax /\ database.up
  /\ HandlerMoves(h, [handler[h] EXCEPT !.pc = "check", !.todo = Unchecked])
  /\ broken' = [broken EXCEPT ![h] = {}]
  /\ UNCHANGED <<database, server, remembered, probe, edits>>
\* The wait times out, the database fails or a check does: 503.
Unavailable(h) ==
  /\ \/ handler[h].pc = "waits"
     \/ ~database.up /\ handler[h].pc \in {"check", "legacy", "served"}
     \/ handler[h].pc = "check" /\ handler[h].todo # <<>> /\ ~HoldsNow(Head(handler[h].todo))
     \/ handler[h].pc = "legacy" /\ ~LegacyFine(h)
  /\ HandlerMoves(h, NoHandling)
  /\ broken' = [broken EXCEPT ![h] = {}]
  /\ UNCHANGED <<database, server, remembered, probe, edits>>
Check(h) ==
  /\ handler[h].pc = "check" /\ handler[h].todo # <<>> /\ HoldsNow(Head(handler[h].todo))
  /\ HandlerMoves(h, [handler[h] EXCEPT !.todo = Tail(@)])
  /\ broken' = [broken EXCEPT ![h] = @ \ {Head(handler[h].todo)}]
  /\ UNCHANGED <<database, server, remembered, probe, edits>>
\* _tx: both checks have passed, now or before; the legacy check is made once a tenant.
Checked(h) ==
  /\ handler[h].pc = "check" /\ handler[h].todo = <<>>
  /\ remembered' = [remembered EXCEPT !.ready = TRUE]
  /\ broken' = IF remembered.ready THEN [broken EXCEPT ![h] = {}]
               ELSE [broken EXCEPT !["memory"] = (@ \cap Ledgers) \cup broken[h], ![h] = {}]
  /\ HandlerMoves(h, [handler[h] EXCEPT !.pc = IF handler[h].tenant \in remembered.legacy THEN "served" ELSE "legacy"])
  /\ UNCHANGED <<database, server, probe, edits>>
CheckLegacy(h) ==
  /\ handler[h].pc = "legacy" /\ LegacyFine(h)
  /\ remembered' = [remembered EXCEPT !.legacy = @ \cup {handler[h].tenant}]
  /\ broken' = [broken EXCEPT !["memory"] = @ \ {handler[h].tenant}]
  /\ HandlerMoves(h, [handler[h] EXCEPT !.pc = "served"])
  /\ UNCHANGED <<database, server, probe, edits>>
\* The transaction runs and ends; a write leaves history, which is never empty again.
Serve(h) ==
  /\ handler[h].pc = "served" /\ database.up
  /\ \/ Becomes(database)
     \/ Becomes([database EXCEPT !.populated[handler[h].tenant] = TRUE])
  /\ HandlerMoves(h, NoHandling)
  /\ UNCHANGED <<server, remembered, probe, edits>>

-----------------------------------------------------------------------------
(* Readiness *)

\* readiness: every check in a savepoint of its own, so one that fails hides no other.
LiveFacts == <<"version", "role", "tables", "history", Box>>
AskReady ==
  /\ server.pc = "up" /\ probe.pc = "idle" /\ Busy < PoolMax
  /\ probe' = [pc |-> "checks", todo |-> LiveFacts, ok |-> database.up]
  /\ broken' = [broken EXCEPT !["ready"] = {}]
  /\ UNCHANGED <<database, server, remembered, handler, edits>>
Passes(fact) == database.up /\ (HoldsNow(fact) \/ (fact = Box /\ server.ignore))
LiveCheck ==
  /\ probe.pc = "checks" /\ probe.todo # <<>>
  /\ probe' = [probe EXCEPT !.todo = Tail(@), !.ok = @ /\ Passes(Head(probe.todo))]
  /\ broken' = [broken EXCEPT !["ready"] = @ \ {Head(probe.todo)}]
  /\ UNCHANGED <<database, server, remembered, handler, edits>>
Reported ==
  /\ probe.pc = "checks" /\ probe.todo = <<>>
  /\ probe' = [probe EXCEPT !.pc = "answers"]
  /\ UNCHANGED <<database, server, remembered, handler, broken, edits>>
ProbeAnswered ==
  /\ probe.pc = "answers"
  /\ probe' = NoProbe
  /\ broken' = [broken EXCEPT !["ready"] = {}]
  /\ UNCHANGED <<database, server, remembered, handler, edits>>

-----------------------------------------------------------------------------
(* The database's keeper, and the end of the process *)

Upkeep ==
  /\ edits < MaxEdits
  /\ edits' = edits + 1
  /\ \/ Becomes([database EXCEPT !.up = ~@])
     \/ Becomes([database EXCEPT !.version = ~@])          \* a migration
     \/ Becomes([database EXCEPT !.role = ~@])
     \/ \E how \in {"forced", "unforced", "open"} : Becomes([database EXCEPT !.tables = how])
     \/ Becomes([database EXCEPT !.history = ~@])
     \/ Becomes([database EXCEPT !.control = ~@])
     \/ \E t \in Ledgers :
          \/ database.legacy[t] = "none" /\ Becomes([database EXCEPT !.legacy[t] = "filled"])   \* the old store writes
          \/ Becomes([database EXCEPT !.populated[t] = TRUE])                                   \* an import
  /\ UNCHANGED <<server, remembered, handler, probe>>
Ends ==
  /\ server.pc # "down"
  /\ server' = [server EXCEPT !.pc = "down", !.todo = <<>>]
  /\ remembered' = NothingRemembered
  /\ handler' = [h \in Handlers |-> NoHandling] /\ probe' = NoProbe
  /\ broken' = [o \in Observers |-> {}]
  /\ UNCHANGED <<database, edits>>

SvNext ==
  \/ StartsUp \/ GuardPasses \/ GuardRefuses \/ Unreachable \/ IsUp
  \/ \E h \in Handlers :
       Queue(h) \/ Connect(h) \/ Unavailable(h) \/ Check(h) \/ Checked(h) \/ CheckLegacy(h) \/ Serve(h)
  \/ AskReady \/ LiveCheck \/ Reported \/ ProbeAnswered
  \/ Upkeep \/ Ends

SvSpec == SvInit /\ [][SvNext]_svVars

-----------------------------------------------------------------------------
(* Property *)

\* What an observer relies on held when it was checked: if it does not now, it broke since.
StoodFor(observer, facts) == \A f \in facts : Good(database, f) \/ f \in broken[observer]

\* "Nothing is served that was not verified" (assert_tenant_isolation_ready, _tx, /ready): a
\* strict server is up, a request is served and a call of /ready says ready only if every fact
\* it stands for was seen to hold by a check of this process, this cache or this call; nor is
\* an empty ledger served beside a legacy document that was filled when the tenant was checked.
ServedAsVerified ==
  /\ server.pc = "up" /\ server.strict => StoodFor("start", {"version", "role", "tables", "isolated"})
  /\ server.pc = "up" /\ server.keyed => StoodFor("start", {"control"})
  /\ \A h \in Handlers : handler[h].pc = "served" =>
       /\ StoodFor("memory", {"version", "role"})
       /\ server.ignore \/ StoodFor("memory", {handler[h].tenant})
  /\ probe.pc = "answers" /\ probe.ok =>
       StoodFor("ready", {"version", "role", "tables", "history"} \cup (IF server.ignore THEN {} ELSE {Box}))
=============================================================================
