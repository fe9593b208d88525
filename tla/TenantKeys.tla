------------------------------ MODULE TenantKeys ------------------------------
(***************************************************************************)
(* The control schema: tenants, their lifecycle, and the API keys issued   *)
(* for them (app/tenant_keys.py and the triggers of app/pg_schema.py).     *)
(*                                                                         *)
(* The operator's commands are transactions of the migrator role, one per  *)
(* session, and may overlap.  They are READ COMMITTED: a statement reads   *)
(* what is committed when it starts, and a row another transaction holds   *)
(* makes it wait.  Requests authenticate beside them.                      *)
(***************************************************************************)
EXTENDS Integers, FiniteSets

CONSTANTS Tenants, Keys, Sessions, Clients, MaxCommands, Idle

VARIABLES status,       \* committed status of each tenant; "none" before it is created
          key,          \* committed row of each key, or Idle
          command,      \* per session: its open transaction, or Idle
          request,      \* per client: the request being authenticated, or Idle
          commands      \* how many commands were started

tkVars == <<status, key, command, request, commands>>

TenantStatuses == {"active", "suspended", "quiesced", "restoring", "deleting", "deleted"}
Gone == {"deleting", "deleted"}

TkInit ==
  /\ status = [t \in Tenants |-> "none"]
  /\ key = [k \in Keys |-> Idle]
  /\ command = [s \in Sessions |-> Idle]
  /\ request = [c \in Clients |-> Idle]
  /\ commands = 0

-----------------------------------------------------------------------------
(* Row locks, held until the transaction ends *)

Holds(s, t, modes) == command[s] # Idle /\ command[s].tenant = t /\ command[s].lock \in modes
\* FOR SHARE waits only for an update of the row; an update waits for both.
ShareFree(t) == \A s \in Sessions : ~Holds(s, t, {"update"})
UpdateFree(t) == \A s \in Sessions : ~Holds(s, t, {"share", "update"})
KeyFree(k) == \A s \in Sessions : command[s] # Idle => k \notin command[s].revokes

Open(s, tenant, lock, new, to, revokes) ==
  command' = [command EXCEPT ![s] =
    [tenant |-> tenant, lock |-> lock, new |-> new, to |-> to, revokes |-> revokes]]
Started(s) == command[s] = Idle /\ commands < MaxCommands /\ commands' = commands + 1

-----------------------------------------------------------------------------
(* The commands *)

CreateTenant(s) == \E t \in Tenants :
  /\ Started(s) /\ status[t] = "none"
  /\ status' = [status EXCEPT ![t] = "active"]
  /\ UNCHANGED <<key, command, request>>

\* The trigger of an insert into api_keys reads the tenant's status FOR SHARE.
LocksTenant(t) == ShareFree(t)
NoLock == "none"        \* mutant: the trigger's SELECT without FOR SHARE
ShareLock == "share"

CreateKey(s) == \E t \in Tenants, k \in Keys :
  /\ Started(s) /\ status[t] # "none" /\ key[k] = Idle
  /\ \A o \in Sessions : command[o] # Idle => command[o].new # k
  /\ LocksTenant(t) /\ status[t] \notin Gone
  /\ Open(s, t, ShareLock, k, "none", {})
  /\ UNCHANGED <<status, key, request>>

RevokeKey(s) == \E k \in Keys :
  /\ Started(s) /\ key[k] # Idle /\ key[k].status = "active" /\ KeyFree(k)
  /\ Open(s, key[k].tenant, "none", Idle, "none", {k})
  /\ UNCHANGED <<status, key, request>>

\* set_tenant_status reads the status in a statement of its own ...
ReadStatus(s) == \E t \in Tenants, new \in TenantStatuses :
  /\ Started(s) /\ status[t] # "none"
  /\ status[t] = "deleted" => new = "deleted"
  /\ Open(s, t, "none", Idle, new, {})
  /\ UNCHANGED <<status, key, request>>

\* ... and its update fires tenant_lifecycle_guard, on the row as it is once the update has
\* the lock: a deleted tenant stays deleted, and a tenant that goes loses its active keys.
KeysOf(t) == {k \in Keys : key[k] # Idle /\ key[k].tenant = t /\ key[k].status = "active"}
Guard(old, new) == old = "deleted" => new = "deleted"

UpdateStatus(s) ==
  /\ command[s] # Idle /\ command[s].to # "none" /\ command[s].lock = "none"
  /\ LET t == command[s].tenant
         new == command[s].to
         going == IF new \in Gone /\ status[t] # new THEN KeysOf(t) ELSE {}
     IN /\ UpdateFree(t) /\ \A k \in going : KeyFree(k)
        /\ IF Guard(status[t], new)
           THEN Open(s, t, "update", Idle, new, going)
           ELSE command' = [command EXCEPT ![s] = Idle]      \* check_violation
  /\ UNCHANGED <<status, key, request, commands>>

Commit(s) ==
  /\ command[s] # Idle /\ (command[s].to # "none" => command[s].lock = "update")
  /\ LET c == command[s]
     IN /\ status' = IF c.to = "none" THEN status ELSE [status EXCEPT ![c.tenant] = c.to]
        /\ key' = [k \in Keys |->
             IF k = c.new THEN [tenant |-> c.tenant, status |-> "active", expired |-> FALSE]
             ELSE IF k \in c.revokes THEN [key[k] EXCEPT !.status = "revoked"] ELSE key[k]]
  /\ command' = [command EXCEPT ![s] = Idle]
  /\ UNCHANGED <<request, commands>>

\* A lost connection or a deadlock victim.
RollBack(s) ==
  /\ command[s] # Idle /\ command' = [command EXCEPT ![s] = Idle]
  /\ UNCHANGED <<status, key, request, commands>>

\* expires_at passes.
Expire(k) ==
  /\ key[k] # Idle /\ ~key[k].expired
  /\ key' = [key EXCEPT ![k].expired = TRUE]
  /\ UNCHANGED <<status, command, request, commands>>

-----------------------------------------------------------------------------
(* Authenticating a request with a key: authenticate, resolve *)

\* A key that will never open its tenant again.
Closed(k) == key[k] # Idle /\ (key[k].status = "revoked" \/ status[key[k].tenant] = "deleted")

Arrive(c) == \E k \in Keys :
  /\ request[c] = Idle
  /\ request' = [request EXCEPT ![c] = [key |-> k, phase |-> "arrived", closed |-> Closed(k)]]
  /\ UNCHANGED <<status, key, command, commands>>

\* resolve_key joins the key with its tenant in one statement; touching last_used_at then
\* waits for a transaction that is revoking the key, and does not look at it again.
LookUp(c) ==
  /\ request[c] # Idle /\ request[c].phase = "arrived"
  /\ LET k == request[c].key
         resolved == key[k] # Idle /\ key[k].status = "active" /\ ~key[k].expired
     IN request' = [request EXCEPT ![c].phase =
          IF ~resolved THEN "refused"
          ELSE IF status[key[k].tenant] # "active" THEN "unavailable" ELSE "found"]
  /\ UNCHANGED <<status, key, command, commands>>

Admit(c) ==
  /\ request[c] # Idle /\ request[c].phase = "found" /\ KeyFree(request[c].key)
  /\ request' = [request EXCEPT ![c].phase = "admitted"]
  /\ UNCHANGED <<status, key, command, commands>>

Finish(c) ==
  /\ request[c] # Idle /\ request[c].phase \in {"admitted", "refused", "unavailable"}
  /\ request' = [request EXCEPT ![c] = Idle]
  /\ UNCHANGED <<status, key, command, commands>>

TkNext ==
  \/ \E s \in Sessions : CreateTenant(s) \/ CreateKey(s) \/ RevokeKey(s) \/ ReadStatus(s)
                         \/ UpdateStatus(s) \/ Commit(s) \/ RollBack(s)
  \/ \E k \in Keys : Expire(k)
  \/ \E c \in Clients : Arrive(c) \/ LookUp(c) \/ Admit(c) \/ Finish(c)

TkSpec == TkInit /\ [][TkNext]_tkVars

-----------------------------------------------------------------------------
(* What must hold *)

\* Whatever commands overlap, a tenant that is being deleted, or was, has no active key, and
\* a request that arrives with a key closed for good is never let in (the two triggers of
\* the control schema; resolve).
NoKeyOutlivesTenant ==
  /\ \A k \in Keys : key[k] # Idle /\ status[key[k].tenant] \in Gone => key[k].status = "revoked"
  /\ \A c \in Clients : request[c] # Idle /\ request[c].closed =>
                          request[c].phase \notin {"found", "admitted"}

=============================================================================
