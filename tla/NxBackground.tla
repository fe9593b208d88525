---------------------------- MODULE NxBackground ----------------------------
(***************************************************************************)
(* The long-running children of nx-search the routes start and stop        *)
(* (app/main.py lifespan, external_watch, external_serve and their stops;  *)
(* app/nx_search_client.py watch, serve).  They hang on                    *)
(* app.state.nx_background, a slot for each kind, under one lock.          *)
(***************************************************************************)
EXTENDS Integers, FiniteSets

CONSTANTS Starters, Kinds, MaxPids, Nobody

VARIABLES slots,      \* nx_background and its lock: [lock, held]
          children,   \* per kind, the children that run
          starter,    \* per request: [pc, pid, kind]
          orphans     \* children left running by a process that died (history)

nbVars == <<slots, children, starter, orphans>>

Unspawned == [pc |-> "idle", pid |-> 0, kind |-> Nobody]
Vacant == [lock |-> Nobody, held |-> [k \in Kinds |-> 0]]
Alive == orphans \cup UNION {children[k] : k \in Kinds}

NbInit ==
  /\ slots = Vacant
  /\ children = [k \in Kinds |-> {}]
  /\ starter = [s \in Starters |-> Unspawned]
  /\ orphans = {}

Wants(s, pc) == starter[s].pc = pc
NoSlotLock(s) == TRUE   \* mutant: check, spawn and store are three steps
SlotFree(s) == slots.lock = Nobody
Runs(k) == slots.held[k] \in children[k]
Goes(s, record) == starter' = [starter EXCEPT ![s] = record]

\* external_watch, external_serve: 409 when one runs; check, spawn and store under one lock.
CheckSlot(s, k) ==
  /\ Wants(s, "idle") /\ SlotFree(s)
  /\ ~Runs(k)
  /\ Cardinality(Alive) < MaxPids
  /\ slots' = [slots EXCEPT !.lock = s]
  /\ Goes(s, [pc |-> "spawn", pid |-> 0, kind |-> k])
  /\ UNCHANGED <<children, orphans>>
Spawn(s) ==
  /\ Wants(s, "spawn")
  /\ \E pid \in (1..MaxPids) \ (Alive \cup {slots.held[k] : k \in Kinds}) :
       /\ children' = [children EXCEPT ![starter[s].kind] = @ \cup {pid}]
       /\ Goes(s, [starter[s] EXCEPT !.pc = "store", !.pid = pid])
  /\ UNCHANGED <<slots, orphans>>
CannotSpawn(s) ==
  /\ Wants(s, "spawn")
  /\ slots' = [slots EXCEPT !.lock = Nobody]
  /\ Goes(s, Unspawned)
  /\ UNCHANGED <<children, orphans>>
Store(s) ==
  /\ Wants(s, "store")
  /\ slots' = [lock |-> Nobody, held |-> [slots.held EXCEPT ![starter[s].kind] = starter[s].pid]]
  /\ Goes(s, Unspawned)
  /\ UNCHANGED <<children, orphans>>

\* external_watch_stop, external_serve_stop: terminated, waited for, forgotten, under the lock.
TakeStop(s, k) ==
  /\ Wants(s, "idle") /\ SlotFree(s)
  /\ Runs(k)
  /\ slots' = [slots EXCEPT !.lock = s]
  /\ Goes(s, [pc |-> "stop", pid |-> slots.held[k], kind |-> k])
  /\ UNCHANGED <<children, orphans>>
Stop(s) ==
  /\ Wants(s, "stop")
  /\ children' = [children EXCEPT ![starter[s].kind] = @ \ {starter[s].pid}]
  /\ slots' = [lock |-> Nobody, held |-> [slots.held EXCEPT ![starter[s].kind] = 0]]
  /\ Goes(s, Unspawned)
  /\ UNCHANGED orphans
ChildExits ==
  /\ \E k \in Kinds : \E pid \in children[k] : children' = [children EXCEPT ![k] = @ \ {pid}]
  /\ UNCHANGED <<slots, starter, orphans>>

\* The lifespan's end ends what the slots hold; a process that dies leaves it running.
Shutdown ==
  /\ \A s \in Starters : Wants(s, "idle")
  /\ slots # Vacant
  /\ children' = [k \in Kinds |-> children[k] \ {slots.held[k]}]
  /\ slots' = Vacant
  /\ UNCHANGED <<starter, orphans>>
Dies ==
  /\ orphans = {} /\ Alive # {}
  /\ orphans' = Alive
  /\ children' = [k \in Kinds |-> {}]
  /\ slots' = Vacant
  /\ starter' = [s \in Starters |-> Unspawned]

NbNext ==
  \/ \E s \in Starters :
       \/ \E k \in Kinds : CheckSlot(s, k) \/ TakeStop(s, k)
       \/ Spawn(s) \/ CannotSpawn(s) \/ Store(s) \/ Stop(s)
  \/ ChildExits \/ Shutdown \/ Dies

NbSpec == NbInit /\ [][NbNext]_nbVars

-----------------------------------------------------------------------------
(* Property *)

\* "One instance max": as long as the process lives, the child of a kind that runs is the one
\* its slot holds or the one the request under the lock is about to store; so that a stop or
\* the shutdown leaves none behind (external_watch, external_watch_stop, lifespan).
NothingRunsUnheld ==
  \A k \in Kinds :
    /\ Cardinality(children[k]) <= 1
    /\ children[k] \subseteq {slots.held[k]} \cup {starter[s].pid : s \in {u \in Starters : starter[u].kind = k}}
=============================================================================
