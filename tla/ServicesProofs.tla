---------------------------- MODULE ServicesProofs ----------------------------
(***************************************************************************)
(* Seven of the services that stand beside the ledger (MCServices          *)
(* composes them for TLC), for every value of their constants: the board   *)
(* is what the committed writes give one after the other (Boards); no key  *)
(* outlives its tenant (TenantKeys); one background process of a kind at   *)
(* most, and none that nobody holds (NxBackground); failed guesses of a    *)
(* key stay counted (KeyLimiter); what an MCP tool says of the ledger is   *)
(* true (McpServers); an import keeps whole what it was given              *)
(* (LedgerImport); a verdict on drift rests on records and evidence that   *)
(* are there (Drift).                                                      *)
(***************************************************************************)
EXTENDS Boards, TenantKeys, NxBackground, KeyLimiter, McpServers, LedgerImport, Drift,
        SequenceTheorems, FiniteSetTheorems, TLAPS

-----------------------------------------------------------------------------
(* Boards *)

HoldsRow == {"inserted", "locked", "updated"}
WritePhases == {"idle", "asked", "ensured"} \cup HoldsRow

BoardTyped ==
  /\ row \in Boards \cup {NoBoard}
  /\ write \in [Writers -> [phase : WritePhases, patch : Patches \cup Boards, board : Boards, whole : BOOLEAN]]
  /\ expected \in Boards
  /\ \A w \in Writers : write[w].whole => write[w].patch \in Boards

(* At most one transaction has the row, and only a patch reads it. *)
OneHolder == \A w, o \in Writers : Phase(w) \in HoldsRow /\ Phase(o) \in HoldsRow => w = o
PatchReads == \A w \in Writers : Phase(w) \in {"inserted", "ensured", "locked"} => ~write[w].whole

(* Who has read it knows the serial board; who is about to commit writes the next one. *)
ReadIsSerial == \A w \in Writers : Phase(w) = "locked" => write[w].board = expected
NextIsSerial ==
  \A w \in Writers : Phase(w) = "updated" =>
    write[w].board = IF write[w].whole THEN write[w].patch ELSE Merge(expected, write[w].patch)

BInv == BoardTyped /\ OneHolder /\ PatchReads /\ ReadIsSerial /\ NextIsSerial /\ BoardIsSerial

\* A board with a patch applied is a board.
LEMMA MergeIsBoard ==
  ASSUME NEW old \in Boards, NEW patch \in Patches
  PROVE  Merge(old, patch) \in Boards
BY DEF Merge, Boards, Patches

\* A board is a patch that names every field.
LEMMA BoardIsPatch == Boards \subseteq Patches
BY DEF Boards, Patches

\* At the start nobody has read a board.
LEMMA BoardInitHolds ==
  ASSUME Texts # {}, BdInit
  PROVE  BInv
<1>1. DefaultBoard \in Boards
  BY DEF DefaultBoard, Boards
<1>2. \A w \in Writers : Phase(w) = "idle"
  BY DEF BdInit, Phase
<1> QED
  BY <1>1, <1>2 DEF BdInit, BInv, BoardTyped, OneHolder, PatchReads, ReadIsSerial, NextIsSerial,
     BoardIsSerial, CurrentBoard, HoldsRow, WritePhases

\* Every step of a writer keeps the invariant (set_board, patch_board).
LEMMA BoardStepHolds ==
  ASSUME Texts # {}, NoBoard \notin Boards, BInv, [BdNext]_bdVars
  PROVE  BInv'
<1> USE DEF Phase, HoldsRow
<1>0. DefaultBoard \in Boards
  BY DEF DefaultBoard, Boards
<1>1. CASE UNCHANGED bdVars
  BY <1>1 DEF bdVars, BInv, BoardTyped, OneHolder, PatchReads, ReadIsSerial, NextIsSerial, BoardIsSerial, CurrentBoard
<1>2. ASSUME NEW w \in Writers, Ask(w)
      PROVE  BInv'
  <2>1. PICK p \in Patches \cup Boards, b \in BOOLEAN :
          /\ b => p \in Boards
          /\ write' = [write EXCEPT ![w] = [@ EXCEPT !.phase = "asked", !.patch = p, !.whole = b]]
    BY <1>2, Zenon DEF Ask
  <2>2. UNCHANGED <<row, expected>> /\ write[w].phase = "idle"
    BY <1>2 DEF Ask
  <2>3. BoardTyped'
    BY <2>1, <2>2 DEF BInv, BoardTyped, WritePhases
  <2>4. \A o \in Writers : write'[o].phase # "asked" => write'[o] = write[o]
    BY <2>1, <2>2 DEF BInv, BoardTyped
  <2>5. \A o \in Writers : write'[o].phase \in HoldsRow \cup {"ensured"} => write'[o] = write[o]
    BY <2>4
  <2> QED
    BY <2>2, <2>3, <2>5 DEF BInv, OneHolder, PatchReads, ReadIsSerial, NextIsSerial, BoardIsSerial, CurrentBoard
<1>3. ASSUME NEW w \in Writers, Upsert(w)
      PROVE  BInv'
  BY <1>3 DEF Upsert, Held, BInv, BoardTyped, OneHolder, PatchReads, ReadIsSerial, NextIsSerial, BoardIsSerial, CurrentBoard, WritePhases
<1>4. ASSUME NEW w \in Writers, InsertDefault(w)
      PROVE  BInv'
  BY <1>4 DEF InsertDefault, Held, BInv, BoardTyped, OneHolder, PatchReads, ReadIsSerial, NextIsSerial, BoardIsSerial, CurrentBoard, WritePhases
<1>5. ASSUME NEW w \in Writers, SelectForUpdate(w)
      PROVE  BInv'
  BY <1>0, <1>5 DEF SelectForUpdate, Waits, Held, BInv, BoardTyped, OneHolder, PatchReads, ReadIsSerial, NextIsSerial,
     BoardIsSerial, CurrentBoard, WritePhases
<1>6. ASSUME NEW w \in Writers, UpdateBoard(w)
      PROVE  BInv'
  <2>1. /\ write[w].patch \in Patches
        /\ write[w].board = expected
        /\ ~write[w].whole
    BY <1>6, BoardIsPatch DEF UpdateBoard, BInv, BoardTyped, PatchReads, ReadIsSerial
  <2>2. Merge(expected, write[w].patch) \in Boards
    BY <2>1, MergeIsBoard DEF BInv, BoardTyped
  <2>3. /\ write' = [write EXCEPT ![w] = [@ EXCEPT !.phase = "updated", !.board = Merge(expected, write[w].patch)]]
        /\ UNCHANGED <<row, expected>> /\ write[w].phase = "locked"
    BY <1>6, <2>1 DEF UpdateBoard, BInv, BoardTyped
  <2> HIDE DEF Merge
  <2>4. BoardTyped'
    BY <2>2, <2>3 DEF BInv, BoardTyped, WritePhases
  <2>5. \A o \in Writers \ {w} : write'[o] = write[o]
    BY <2>3 DEF BInv, BoardTyped
  <2>6. /\ write'[w].phase = "updated" /\ write'[w].patch = write[w].patch
        /\ write'[w].board = Merge(expected, write[w].patch) /\ ~write'[w].whole
    BY <2>1, <2>3 DEF BInv, BoardTyped
  <2>7. OneHolder'
    BY <2>3, <2>5 DEF BInv, OneHolder
  <2>8. PatchReads' /\ ReadIsSerial'
    BY <2>3, <2>5, <2>6 DEF BInv, PatchReads, ReadIsSerial
  <2>9. NextIsSerial'
    BY <2>3, <2>5, <2>6 DEF BInv, NextIsSerial
  <2> QED
    BY <2>3, <2>4, <2>7, <2>8, <2>9 DEF BInv, BoardIsSerial, CurrentBoard
<1>7. ASSUME NEW w \in Writers, CommitBoard(w)
      PROVE  BInv'
  <2>1. expected' = write[w].board /\ row' = write[w].board /\ write[w].board \in Boards
    BY <1>7 DEF CommitBoard, BInv, BoardTyped, NextIsSerial
  <2>2. write' = [write EXCEPT ![w].phase = "idle"]
    BY <1>7 DEF CommitBoard
  <2>3. \A o \in Writers : write'[o].phase \notin HoldsRow
    BY <1>7, <2>2 DEF CommitBoard, BInv, BoardTyped, OneHolder
  <2> QED
    BY <2>1, <2>2, <2>3 DEF BInv, BoardTyped, OneHolder, PatchReads, ReadIsSerial, NextIsSerial, BoardIsSerial, CurrentBoard, WritePhases
<1>8. ASSUME NEW w \in Writers, LoseConnection(w)
      PROVE  BInv'
  BY <1>8 DEF LoseConnection, BInv, BoardTyped, OneHolder, PatchReads, ReadIsSerial, NextIsSerial, BoardIsSerial, CurrentBoard, WritePhases
<1> QED
  BY <1>1, <1>2, <1>3, <1>4, <1>5, <1>6, <1>7, <1>8 DEF BdNext

\* Whatever patches and whole-board writes overlap, wait or fail, the board is what the
\* committed ones give in their order; a board is never the mark of a missing row.
THEOREM BoardsAreSerial ==
  ASSUME Texts # {}, NoBoard \notin Boards
  PROVE  BdSpec => []BoardIsSerial
<1>1. BdInit => BInv
  BY BoardInitHolds
<1>2. BInv /\ [BdNext]_bdVars => BInv'
  BY BoardStepHolds
<1>3. BInv => BoardIsSerial
  BY DEF BInv
<1> QED
  BY <1>1, <1>2, <1>3, PTL DEF BdSpec

-----------------------------------------------------------------------------
(* Tenants and keys *)

KeyRow == [tenant : Tenants, status : {"active", "revoked"}, expired : BOOLEAN]
Transaction ==
  [tenant : Tenants, lock : {"none", "share", "update"}, new : Keys \cup {Idle},
   to : TenantStatuses \cup {"none"}, revokes : SUBSET Keys]
Request ==
  [key : Keys, phase : {"arrived", "refused", "unavailable", "found", "admitted"}, closed : BOOLEAN]

(* Idle marks what is not there: it is none of the things that can be. *)
IdleIsNothing == Idle \notin KeyRow \cup Transaction \cup Request \cup Keys

KeysTyped ==
  /\ status \in [Tenants -> TenantStatuses \cup {"none"}]
  /\ key \in [Keys -> KeyRow \cup {Idle}]
  /\ command \in [Sessions -> Transaction \cup {Idle}]
  /\ request \in [Clients -> Request \cup {Idle}]

(* What an open transaction C has read and locked is still so. *)
Creates(C) ==
  C.new # Idle => /\ C.lock = "share" /\ C.to = "none" /\ C.revokes = {}
                  /\ key[C.new] = Idle /\ status[C.tenant] \notin Gone
Closes(C) ==
  C.lock = "update" => /\ C.to # "none" /\ C.new = Idle
                       /\ Guard(status[C.tenant], C.to)
                       /\ C.to \in Gone => KeysOf(C.tenant) \subseteq C.revokes
Refers(C) == (C.to # "none" => C.lock # "share") /\ \A k \in C.revokes : key[k] # Idle
Stands(s) == command[s] # Idle => Creates(command[s]) /\ Closes(command[s]) /\ Refers(command[s])

(* Nobody else locks a tenant whose row is being updated; a new key is one session's. *)
Apart ==
  \A s, o \in Sessions :
    s # o /\ command[s] # Idle /\ command[o] # Idle =>
      /\ command[s].tenant = command[o].tenant /\ command[s].lock = "update" => command[o].lock = "none"
      /\ command[s].new # Idle => command[s].new # command[o].new

GoneHasNone == \A t \in Tenants : status[t] \in Gone => KeysOf(t) = {}

(* A key that was closed when the request arrived is still closed. *)
StaysOut(c) ==
  request[c] # Idle /\ request[c].closed =>
    Closed(request[c].key) /\ request[c].phase \notin {"found", "admitted"}

TInv ==
  /\ KeysTyped /\ Apart /\ GoneHasNone
  /\ \A s \in Sessions : Stands(s)
  /\ \A c \in Clients : StaysOut(c)

\* At the start there is no tenant.
LEMMA KeysInitHolds ==
  ASSUME IdleIsNothing, TkInit
  PROVE  TInv
  BY DEF TkInit, TInv, KeysTyped, Apart, GoneHasNone, Stands, StaysOut, Gone, TenantStatuses

\* Requests let in only what is open as long as what is closed stays closed.
LEMMA ClosedStays ==
  ASSUME TInv, \A k \in Keys : Closed(k) => Closed(k)', UNCHANGED request
  PROVE  \A c \in Clients : StaysOut(c)'
<1> SUFFICES ASSUME NEW c \in Clients, request[c] # Idle, request[c].closed
             PROVE  Closed(request[c].key)' /\ request[c].phase \notin {"found", "admitted"}
  BY DEF StaysOut
<1>1. Closed(request[c].key) /\ request[c].phase \notin {"found", "admitted"} /\ request[c].key \in Keys
  BY DEF TInv, StaysOut, KeysTyped, Request
<1>2. QED
  BY <1>1 DEF Closed

\* A command that begins: its locks exclude what the others have read.
LEMMA CreateTenantHolds ==
  ASSUME IdleIsNothing, TInv, NEW s \in Sessions, CreateTenant(s)
  PROVE  TInv'
<1>1. PICK t \in Tenants : status[t] = "none" /\ status' = [status EXCEPT ![t] = "active"]
  BY DEF CreateTenant
<1>2. UNCHANGED <<key, command, request>>
  BY DEF CreateTenant
<1>3. KeysTyped'
  BY <1>1, <1>2 DEF TInv, KeysTyped, TenantStatuses
<1>4. \A u \in Tenants : status'[u] = status[u] \/ (u = t /\ status'[u] = "active")
  BY <1>1 DEF TInv, KeysTyped
<1>5. Apart' /\ GoneHasNone'
  BY <1>2, <1>4 DEF TInv, Apart, GoneHasNone, KeysOf, Gone
<1>6. ASSUME NEW o \in Sessions PROVE Stands(o)'
  <2>1. SUFFICES ASSUME command[o] # Idle PROVE Creates(command[o])' /\ Closes(command[o])' /\ Refers(command[o])'
    BY <1>2 DEF Stands
  <2>2. command[o].tenant \in Tenants /\ Creates(command[o]) /\ Closes(command[o]) /\ Refers(command[o])
    BY <2>1 DEF TInv, KeysTyped, Stands, Transaction
  <2>3. QED
    BY <1>2, <1>4, <2>2 DEF Creates, Closes, Refers, Guard, KeysOf, Gone
<1>7. \A k \in Keys : Closed(k) => Closed(k)'
  BY <1>1, <1>2, <1>4 DEF Closed, TInv, KeysTyped, KeyRow
<1>8. QED
  BY <1>2, <1>3, <1>5, <1>6, <1>7, ClosedStays DEF TInv

\* A step that only opens, advances or ends the transaction of s, as C.
LEMMA OpenHolds ==
  ASSUME TInv, NEW s \in Sessions, UNCHANGED <<status, key, request>>,
         NEW C \in Transaction \cup {Idle}, command' = [command EXCEPT ![s] = C],
         C # Idle => Creates(C) /\ Closes(C) /\ Refers(C),
         \A o \in Sessions : o # s /\ C # Idle /\ command[o] # Idle =>
           /\ command[o].tenant = C.tenant => /\ C.lock = "update" => command[o].lock = "none"
                                              /\ command[o].lock = "update" => C.lock = "none"
           /\ C.new # Idle => command[o].new # C.new
  PROVE  TInv'
<1>1. command'[s] = C /\ \A o \in Sessions : o # s => command'[o] = command[o]
  BY DEF TInv, KeysTyped
<1>2. KeysTyped' /\ GoneHasNone'
  BY DEF TInv, KeysTyped, GoneHasNone, KeysOf
<1>3. Apart'
  <2>1. SUFFICES ASSUME NEW a \in Sessions, NEW b \in Sessions, a # b, command'[a] # Idle, command'[b] # Idle
                 PROVE  /\ command'[a].tenant = command'[b].tenant /\ command'[a].lock = "update"
                             => command'[b].lock = "none"
                        /\ command'[a].new # Idle => command'[a].new # command'[b].new
    BY DEF Apart
  <2>2. CASE a = s
    BY <1>1, <2>1, <2>2
  <2>3. CASE b = s
    BY <1>1, <2>1, <2>3
  <2>4. CASE a # s /\ b # s
    BY <1>1, <2>1, <2>4 DEF TInv, Apart
  <2>5. QED
    BY <2>2, <2>3, <2>4
<1>4. ASSUME NEW o \in Sessions PROVE Stands(o)'
  <2>1. CASE o = s
    BY <1>1, <2>1 DEF Stands, Creates, Closes, Refers, KeysOf
  <2>2. CASE o # s
    <3>1. Stands(o) /\ command'[o] = command[o]
      BY <1>1, <2>2 DEF TInv
    <3>2. QED
      BY <3>1 DEF Stands, Creates, Closes, Refers, KeysOf
  <2>3. QED
    BY <2>1, <2>2
<1>5. \A k \in Keys : Closed(k) => Closed(k)'
  BY DEF Closed
<1>6. QED
  BY <1>2, <1>3, <1>4, <1>5, ClosedStays DEF TInv

\* The insert of a key takes the tenant's row FOR SHARE and finds it there.
LEMMA CreateKeyHolds ==
  ASSUME IdleIsNothing, TInv, NEW s \in Sessions, CreateKey(s)
  PROVE  TInv'
<1>1. PICK t \in Tenants, k \in Keys :
        /\ key[k] = Idle /\ status[t] \notin Gone /\ LocksTenant(t)
        /\ \A o \in Sessions : command[o] # Idle => command[o].new # k
        /\ Open(s, t, ShareLock, k, "none", {})
  BY DEF CreateKey
<1> DEFINE C == [tenant |-> t, lock |-> "share", new |-> k, to |-> "none", revokes |-> {}]
<1>2. command' = [command EXCEPT ![s] = C] /\ UNCHANGED <<status, key, request>>
  BY <1>1 DEF Open, ShareLock, CreateKey
<1>3. C \in Transaction /\ C # Idle
  BY DEF Transaction, IdleIsNothing
<1>4. Creates(C) /\ Closes(C) /\ Refers(C)
  BY <1>1 DEF Creates, Closes, Refers
<1>5. \A o \in Sessions : command[o] # Idle /\ command[o].tenant = t => command[o].lock # "update"
  BY <1>1 DEF LocksTenant, ShareFree, Holds
<1>6. \A o \in Sessions : o # s /\ C # Idle /\ command[o] # Idle =>
        /\ command[o].tenant = C.tenant => /\ C.lock = "update" => command[o].lock = "none"
                                           /\ command[o].lock = "update" => C.lock = "none"
        /\ C.new # Idle => command[o].new # C.new
  BY <1>1, <1>5
<1> HIDE DEF C
<1>7. QED
  BY <1>2, <1>3, <1>4, <1>6, OpenHolds

\* Revoking a key, and reading a tenant's status, lock no tenant.
LEMMA LockFreeHolds ==
  ASSUME IdleIsNothing, TInv, NEW s \in Sessions, RevokeKey(s) \/ ReadStatus(s) \/ RollBack(s)
  PROVE  TInv'
<1>1. UNCHANGED <<status, key, request>>
  BY DEF RevokeKey, ReadStatus, RollBack
<1>2. CASE RollBack(s)
  BY <1>1, <1>2, OpenHolds DEF RollBack
<1>3. ASSUME NEW t \in Tenants, NEW to \in TenantStatuses \cup {"none"}, NEW ks \in SUBSET Keys,
             \A k \in ks : key[k] # Idle, Open(s, t, "none", Idle, to, ks)
      PROVE  TInv'
  <2> DEFINE C == [tenant |-> t, lock |-> "none", new |-> Idle, to |-> to, revokes |-> ks]
  <2>1. command' = [command EXCEPT ![s] = C] /\ C \in Transaction
    BY <1>3 DEF Open, Transaction
  <2>2. Creates(C) /\ Closes(C) /\ Refers(C)
    BY <1>3 DEF Creates, Closes, Refers
  <2>3. \A o \in Sessions : o # s /\ C # Idle /\ command[o] # Idle =>
          /\ command[o].tenant = C.tenant => /\ C.lock = "update" => command[o].lock = "none"
                                             /\ command[o].lock = "update" => C.lock = "none"
          /\ C.new # Idle => command[o].new # C.new
    OBVIOUS
  <2> HIDE DEF C
  <2>4. QED
    BY <1>1, <2>1, <2>2, <2>3, OpenHolds
<1>4. CASE RevokeKey(s)
  <2>1. PICK k \in Keys : key[k] # Idle /\ Open(s, key[k].tenant, "none", Idle, "none", {k})
    BY <1>4 DEF RevokeKey
  <2>2. key[k].tenant \in Tenants
    BY <2>1 DEF TInv, KeysTyped, KeyRow
  <2>3. QED
    BY <1>3, <2>1, <2>2
<1>5. CASE ReadStatus(s)
  BY <1>3, <1>5 DEF ReadStatus
<1>6. QED
  BY <1>2, <1>4, <1>5

\* The update of a tenant waits for those who share its row; once it has the row, the keys it is
\* about to revoke are all the active ones there will be until it ends.
LEMMA UpdateStatusHolds ==
  ASSUME IdleIsNothing, TInv, NEW s \in Sessions, UpdateStatus(s)
  PROVE  TInv'
<1> DEFINE t == command[s].tenant
           to == command[s].to
           going == IF to \in Gone /\ status[t] # to THEN KeysOf(t) ELSE {}
           C == [tenant |-> t, lock |-> "update", new |-> Idle, to |-> to, revokes |-> going]
<1>1. /\ command[s] # Idle /\ to # "none" /\ UpdateFree(t) /\ UNCHANGED <<status, key, request>>
      /\ IF Guard(status[t], to) THEN command' = [command EXCEPT ![s] = C]
         ELSE command' = [command EXCEPT ![s] = Idle]
  BY DEF UpdateStatus, Open
<1>2. command[s] \in Transaction /\ t \in Tenants /\ to \in TenantStatuses \cup {"none"}
  BY <1>1 DEF TInv, KeysTyped, Transaction
<1>3. CASE ~Guard(status[t], to)
  BY <1>1, <1>3, OpenHolds
<1>4. CASE Guard(status[t], to)
  <2>1. C \in Transaction
    BY <1>2 DEF Transaction, KeysOf
  <2>2. to \in Gone => KeysOf(t) \subseteq going
    BY <1>2 DEF TInv, GoneHasNone
  <2>3. Creates(C) /\ Closes(C) /\ Refers(C)
    BY <1>1, <1>4, <2>2 DEF Creates, Closes, Refers, KeysOf
  <2>4. \A o \in Sessions : o # s /\ command[o] # Idle /\ command[o].tenant = t => command[o].lock = "none"
    BY <1>1 DEF UpdateFree, Holds, TInv, KeysTyped, Transaction
  <2>5. \A o \in Sessions : o # s /\ C # Idle /\ command[o] # Idle =>
          /\ command[o].tenant = C.tenant => /\ C.lock = "update" => command[o].lock = "none"
                                             /\ command[o].lock = "update" => C.lock = "none"
          /\ C.new # Idle => command[o].new # C.new
    BY <2>4
  <2> HIDE DEF C
  <2>6. QED
    BY <1>1, <1>4, <2>1, <2>3, <2>5, OpenHolds
<1>5. QED
  BY <1>3, <1>4

\* A commit closes the keys of a tenant that goes with it, and adds a key only to one that stays.
LEMMA CommitHolds ==
  ASSUME IdleIsNothing, TInv, NEW s \in Sessions, Commit(s)
  PROVE  TInv'
<1> DEFINE C == command[s]
<1>1. /\ C # Idle /\ C \in Transaction /\ (C.to # "none" => C.lock = "update")
      /\ Creates(C) /\ Closes(C) /\ Refers(C)
  BY DEF Commit, TInv, KeysTyped, Stands
<1>2. /\ command' = [command EXCEPT ![s] = Idle] /\ UNCHANGED request
      /\ status' = IF C.to = "none" THEN status ELSE [status EXCEPT ![C.tenant] = C.to]
      /\ key' = [k \in Keys |->
           IF k = C.new THEN [tenant |-> C.tenant, status |-> "active", expired |-> FALSE]
           ELSE IF k \in C.revokes THEN [key[k] EXCEPT !.status = "revoked"] ELSE key[k]]
  BY DEF Commit
<1>3. C.tenant \in Tenants /\ C.to \in TenantStatuses \cup {"none"} /\ C.new \in Keys \cup {Idle}
  BY <1>1 DEF Transaction
<1>4. /\ status \in [Tenants -> TenantStatuses \cup {"none"}] /\ key \in [Keys -> KeyRow \cup {Idle}]
      /\ command \in [Sessions -> Transaction \cup {Idle}] /\ request \in [Clients -> Request \cup {Idle}]
  BY DEF TInv, KeysTyped
<1>5. \A k \in Keys :
        /\ k = C.new => key[k] = Idle /\ key'[k] = [tenant |-> C.tenant, status |-> "active", expired |-> FALSE]
        /\ k # C.new /\ key[k] = Idle => key'[k] = key[k]
        /\ key[k] # Idle => /\ key'[k] # Idle /\ key'[k].tenant = key[k].tenant
                            /\ key'[k].status = IF k \in C.revokes THEN "revoked" ELSE key[k].status
  <2>1. SUFFICES ASSUME NEW k \in Keys
        PROVE /\ k = C.new => key[k] = Idle /\ key'[k] = [tenant |-> C.tenant, status |-> "active", expired |-> FALSE]
              /\ k # C.new /\ key[k] = Idle => key'[k] = key[k]
              /\ key[k] # Idle => /\ key'[k] # Idle /\ key'[k].tenant = key[k].tenant
                                  /\ key'[k].status = IF k \in C.revokes THEN "revoked" ELSE key[k].status
    OBVIOUS
  <2>2. k # Idle
    BY DEF IdleIsNothing
  <2>3. k = C.new => key[k] = Idle
    BY <1>1, <2>2 DEF Creates
  <2>4. CASE k \in C.revokes /\ k # C.new /\ key[k] # Idle
    <3>1. key[k] \in KeyRow /\ key'[k] = [key[k] EXCEPT !.status = "revoked"]
      BY <1>2, <1>4, <2>4
    <3>2. key'[k] \in KeyRow /\ key'[k].tenant = key[k].tenant /\ key'[k].status = "revoked"
      BY <3>1 DEF KeyRow
    <3>3. key'[k] # Idle
      BY <3>2 DEF IdleIsNothing
    <3>4. QED
      BY <2>4, <3>2, <3>3
  <2>5. CASE key[k] = Idle
    <3>1. CASE k = C.new
      BY <1>2, <2>5, <3>1
    <3>2. CASE k # C.new
      <4>1. k \notin C.revokes
        BY <1>1, <2>5 DEF Refers
      <4>2. QED
        BY <1>2, <2>5, <3>2, <4>1
    <3>3. QED
      BY <3>1, <3>2
  <2>6. CASE key[k] # Idle /\ k \notin C.revokes
    BY <1>2, <2>3, <2>6
  <2>7. QED
    BY <2>3, <2>4, <2>5, <2>6
<1>6. \A t \in Tenants : /\ t = C.tenant /\ C.to # "none" => status'[t] = C.to
                         /\ t # C.tenant \/ C.to = "none" => status'[t] = status[t]
  BY <1>2, <1>4
<1>7. C.to # "none" => C.new = Idle /\ C.lock = "update"
  BY <1>1 DEF Closes
<1>8. ASSUME NEW t \in Tenants, NEW k \in KeysOf(t)'
      PROVE  \/ k = C.new /\ t = C.tenant
             \/ k \in KeysOf(t) /\ k \notin C.revokes
  <2>1. k \in Keys /\ key'[k] # Idle /\ key'[k].tenant = t /\ key'[k].status = "active"
    BY DEF KeysOf
  <2>2. CASE key[k] # Idle
    BY <1>5, <2>1, <2>2 DEF KeysOf
  <2>3. CASE key[k] = Idle
    BY <1>5, <2>1, <2>3
  <2>4. QED
    BY <2>2, <2>3
<1>9. KeysTyped'
  <2>1. \A k \in Keys : key'[k] \in KeyRow \cup {Idle}
    <3>1. SUFFICES ASSUME NEW k \in Keys PROVE key'[k] \in KeyRow \cup {Idle}
      OBVIOUS
    <3>2. CASE k = C.new
      <4>1. key'[k] = [tenant |-> C.tenant, status |-> "active", expired |-> FALSE]
        BY <1>5, <3>2
      <4>2. [tenant |-> C.tenant, status |-> "active", expired |-> FALSE] \in KeyRow
        BY <1>3 DEF KeyRow
      <4>3. QED
        BY <4>1, <4>2
    <3>3. CASE k # C.new /\ k \in C.revokes
      <4>1. key[k] \in KeyRow
        BY <1>1, <1>4, <3>3 DEF Refers
      <4>2. key'[k] = [key[k] EXCEPT !.status = "revoked"]
        BY <1>2, <3>3
      <4>3. QED
        BY <4>1, <4>2 DEF KeyRow
    <3>4. CASE k # C.new /\ k \notin C.revokes
      BY <1>2, <1>4, <3>4
    <3>5. QED
      BY <3>2, <3>3, <3>4
  <2>2. key' \in [Keys -> KeyRow \cup {Idle}]
    BY <1>2, <2>1
  <2>3. status' \in [Tenants -> TenantStatuses \cup {"none"}]
    BY <1>2, <1>3, <1>4
  <2>4. command' \in [Sessions -> Transaction \cup {Idle}]
    BY <1>2, <1>4
  <2>5. QED
    BY <1>2, <1>4, <2>2, <2>3, <2>4 DEF KeysTyped
<1>10. GoneHasNone'
  <2>1. SUFFICES ASSUME NEW t \in Tenants, status'[t] \in Gone, NEW k \in KeysOf(t)' PROVE FALSE
    BY DEF GoneHasNone
  <2>2. CASE k = C.new /\ t = C.tenant
    <3>1. k # Idle
      BY DEF KeysOf, IdleIsNothing
    <3>2. QED
      BY <1>1, <1>6, <2>1, <2>2, <3>1 DEF Creates
  <2>3. CASE k \in KeysOf(t) /\ k \notin C.revokes
    BY <1>1, <1>6, <1>7, <2>1, <2>3 DEF Closes, TInv, GoneHasNone
  <2>4. QED
    BY <1>8, <2>2, <2>3
<1>11. \A o \in Sessions : command'[o] # Idle => o # s /\ command'[o] = command[o]
  BY <1>2, <1>4
<1>12. Apart'
  BY <1>11 DEF TInv, Apart
<1>13. ASSUME NEW o \in Sessions PROVE Stands(o)'
  <2> DEFINE D == command[o]
  <2>1. SUFFICES ASSUME D # Idle, o # s, command'[o] = D
                 PROVE  Creates(command[o])' /\ Closes(command[o])' /\ Refers(command[o])'
    BY <1>11 DEF Stands
  <2>2. D \in Transaction /\ Creates(D) /\ Closes(D) /\ Refers(D)
    BY <1>4, <2>1 DEF TInv, Stands
  <2>3. D.tenant \in Tenants /\ D.new \in Keys \cup {Idle} /\ D.revokes \subseteq Keys
    BY <2>2 DEF Transaction
  <2>4. /\ D.tenant = C.tenant /\ C.lock = "update" => D.lock = "none"
        /\ D.tenant = C.tenant /\ D.lock = "update" => C.lock = "none"
        /\ D.new # Idle => D.new # C.new
    BY <1>1, <2>1 DEF TInv, Apart
  <2>5. D.lock # "none" => status'[D.tenant] = status[D.tenant]
    BY <1>6, <1>7, <2>3, <2>4
  <2>6. Creates(command[o])'
    BY <1>5, <2>1, <2>2, <2>3, <2>4, <2>5 DEF Creates
  <2>7. ASSUME D.lock = "update", NEW k \in Keys,
               key'[k] # Idle, key'[k].tenant = D.tenant, key'[k].status = "active"
        PROVE  k \in KeysOf(D.tenant)
    <3>1. key[k] # Idle
      <4>1. SUFFICES ASSUME key[k] = Idle PROVE FALSE
        OBVIOUS
      <4>2. k = C.new /\ C.tenant = D.tenant
        BY <1>5, <2>7, <4>1
      <4>3. k # Idle
        BY DEF IdleIsNothing
      <4>4. QED
        BY <1>1, <2>4, <2>7, <4>2, <4>3 DEF Creates
    <3>2. QED
      BY <1>5, <2>7, <3>1 DEF KeysOf
  <2>8. Closes(command[o])'
    BY <2>1, <2>2, <2>3, <2>5, <2>7 DEF Closes, KeysOf
  <2>9. Refers(command[o])'
    BY <1>5, <2>1, <2>2, <2>3 DEF Refers
  <2>10. QED
    BY <2>6, <2>8, <2>9
<1>14. \A k \in Keys : Closed(k) => Closed(k)'
  <2>1. SUFFICES ASSUME NEW k \in Keys, Closed(k) PROVE Closed(k)'
    OBVIOUS
  <2>2. key[k] # Idle /\ key[k] \in KeyRow /\ key[k].tenant \in Tenants
    BY <1>4, <2>1 DEF Closed, KeyRow
  <2>3. key'[k] # Idle /\ key'[k].tenant = key[k].tenant /\ (key[k].status = "revoked" => key'[k].status = "revoked")
    BY <1>5, <2>2
  <2>4. status[key[k].tenant] = "deleted" => status'[key[k].tenant] = "deleted"
    BY <1>1, <1>6, <1>7, <2>2 DEF Closes, Guard
  <2>5. QED
    BY <2>1, <2>3, <2>4 DEF Closed
<1>15. QED
  BY <1>2, <1>9, <1>10, <1>12, <1>13, <1>14, ClosedStays DEF TInv
\* A request looks at its key once it has arrived, and is let in only if it found it open.
LEMMA RequestHolds ==
  ASSUME IdleIsNothing, TInv, NEW c \in Clients, Arrive(c) \/ LookUp(c) \/ Admit(c) \/ Finish(c)
  PROVE  TInv'
<1>1. UNCHANGED <<status, key, command>>
  BY DEF Arrive, LookUp, Admit, Finish
<1>2. PICK R \in Request \cup {Idle} :
        /\ request' = [request EXCEPT ![c] = R]
        /\ R # Idle /\ R.closed => Closed(R.key) /\ R.phase \notin {"found", "admitted"}
  <2> DEFINE Wanted(R) == /\ request' = [request EXCEPT ![c] = R]
                          /\ R # Idle /\ R.closed => Closed(R.key) /\ R.phase \notin {"found", "admitted"}
  <2>1. CASE Arrive(c)
    <3>1. PICK k \in Keys : request' = [request EXCEPT ![c] = [key |-> k, phase |-> "arrived", closed |-> Closed(k)]]
      BY <2>1 DEF Arrive
    <3>2. Closed(k) \in BOOLEAN
      BY DEF Closed
    <3>3. [key |-> k, phase |-> "arrived", closed |-> Closed(k)] \in Request
      BY <3>2 DEF Request
    <3>4. Wanted([key |-> k, phase |-> "arrived", closed |-> Closed(k)])
      BY <3>1
    <3>5. QED
      BY <3>3, <3>4
  <2>2. ASSUME NEW p \in {"refused", "unavailable", "found", "admitted"}, request[c] # Idle,
               request' = [request EXCEPT ![c].phase = p],
               p = "found" => ~Closed(request[c].key), p = "admitted" => request[c].phase = "found"
        PROVE  \E R \in Request \cup {Idle} : Wanted(R)
    <3>1. request[c] \in Request /\ StaysOut(c)
      BY <2>2 DEF TInv, KeysTyped
    <3> DEFINE R == [key |-> request[c].key, phase |-> p, closed |-> request[c].closed]
    <3>2. R \in Request
      BY <2>2, <3>1 DEF Request
    <3>3. request' = [request EXCEPT ![c] = R]
      <4>1. [request[c] EXCEPT !.phase = p] = R
        BY <3>1 DEF Request
      <4>2. request' = [request EXCEPT ![c] = [request[c] EXCEPT !.phase = p]]
        BY <2>2
      <4>3. QED
        BY <4>1, <4>2
    <3>4. R.closed => Closed(R.key) /\ R.phase \notin {"found", "admitted"}
      BY <2>2, <3>1 DEF StaysOut
    <3>5. QED
      BY <3>2, <3>3, <3>4
  <2>3. CASE LookUp(c)
    <3> DEFINE k == request[c].key
               resolved == key[k] # Idle /\ key[k].status = "active" /\ ~key[k].expired
               p == IF ~resolved THEN "refused"
                    ELSE IF status[key[k].tenant] # "active" THEN "unavailable" ELSE "found"
    <3>1. request[c] # Idle /\ request' = [request EXCEPT ![c].phase = p]
      BY <2>3 DEF LookUp
    <3>2. p \in {"refused", "unavailable", "found", "admitted"} /\ p # "admitted"
      OBVIOUS
    <3>3. p = "found" => ~Closed(k)
      BY DEF Closed
    <3>4. QED
      BY <2>2, <3>1, <3>2, <3>3
  <2>4. CASE Admit(c)
    BY <2>2, <2>4 DEF Admit
  <2>5. CASE Finish(c)
    BY <2>5 DEF Finish
  <2>6. QED
    BY <2>1, <2>3, <2>4, <2>5
<1>3. request'[c] = R /\ \A d \in Clients : d # c => request'[d] = request[d]
  BY <1>2 DEF TInv, KeysTyped
<1>4. KeysTyped' /\ Apart' /\ GoneHasNone'
  BY <1>1, <1>2 DEF TInv, KeysTyped, Apart, GoneHasNone, KeysOf
<1>5. ASSUME NEW s \in Sessions PROVE Stands(s)'
  BY <1>1 DEF TInv, Stands, Creates, Closes, Refers, KeysOf
<1>6. ASSUME NEW d \in Clients PROVE StaysOut(d)'
  <2>1. CASE d = c
    BY <1>1, <1>2, <1>3, <2>1 DEF StaysOut, Closed
  <2>2. CASE d # c
    BY <1>1, <1>3, <2>2 DEF TInv, StaysOut, Closed
  <2>3. QED
    BY <2>1, <2>2
<1>7. QED
  BY <1>4, <1>5, <1>6 DEF TInv

\* A key expires.
LEMMA ExpireHolds ==
  ASSUME IdleIsNothing, TInv, NEW k \in Keys, Expire(k)
  PROVE  TInv'
<1>1. /\ key[k] # Idle /\ key' = [key EXCEPT ![k].expired = TRUE]
      /\ UNCHANGED <<status, command, request>>
  BY DEF Expire
<1>2. key[k] \in KeyRow /\ key \in [Keys -> KeyRow \cup {Idle}]
  BY <1>1 DEF TInv, KeysTyped
<1>3. key'[k] \in KeyRow /\ key'[k].tenant = key[k].tenant /\ key'[k].status = key[k].status
  BY <1>1, <1>2 DEF KeyRow
<1>4. key'[k] # Idle /\ key' \in [Keys -> KeyRow \cup {Idle}]
  BY <1>1, <1>2, <1>3 DEF IdleIsNothing
<1>5. \A j \in Keys : /\ key'[j] = Idle <=> key[j] = Idle
                      /\ key[j] # Idle => key'[j].tenant = key[j].tenant /\ key'[j].status = key[j].status
  BY <1>1, <1>2, <1>3, <1>4
<1>6. \A t : KeysOf(t)' = KeysOf(t)
  BY <1>5 DEF KeysOf
<1>7. KeysTyped' /\ Apart' /\ GoneHasNone'
  BY <1>1, <1>4, <1>6 DEF TInv, KeysTyped, Apart, GoneHasNone
<1>8. ASSUME NEW s \in Sessions PROVE Stands(s)'
  <2>1. SUFFICES ASSUME command[s] # Idle
                 PROVE  Creates(command[s])' /\ Closes(command[s])' /\ Refers(command[s])'
    BY <1>1 DEF Stands
  <2>2. command[s] \in Transaction /\ Creates(command[s]) /\ Closes(command[s]) /\ Refers(command[s])
    BY <2>1 DEF TInv, KeysTyped, Stands
  <2>3. command[s].new \in Keys \cup {Idle} /\ command[s].revokes \subseteq Keys
    BY <2>2 DEF Transaction
  <2>4. Creates(command[s])' /\ Refers(command[s])'
    BY <1>1, <1>5, <2>2, <2>3 DEF Creates, Refers
  <2>5. Closes(command[s])'
    BY <1>1, <1>5, <2>2 DEF Closes, KeysOf
  <2>6. QED
    BY <2>4, <2>5
<1>9. \A j \in Keys : Closed(j) => Closed(j)'
  BY <1>1, <1>5 DEF Closed
<1>10. QED
  BY <1>1, <1>7, <1>8, <1>9, ClosedStays DEF TInv

\* A stutter changes nothing.
LEMMA StutterHolds ==
  ASSUME TInv, UNCHANGED tkVars
  PROVE  TInv'
  BY DEF tkVars, TInv, KeysTyped, Apart, GoneHasNone, Stands, Creates, Closes, Refers, StaysOut, Closed, KeysOf

\* Whatever creations, revocations and changes of status overlap, wait, are rolled back or are
\* committed after what they read has changed: a tenant that is being deleted, or was, has no
\* active key, and a key that was closed for good lets no later request in.
THEOREM NoKeyIsLeft ==
  ASSUME IdleIsNothing
  PROVE  TkSpec => []NoKeyOutlivesTenant
<1>1. TkInit => TInv
  BY KeysInitHolds
<1>2. TInv /\ [TkNext]_tkVars => TInv'
  BY CreateTenantHolds, CreateKeyHolds, LockFreeHolds, UpdateStatusHolds, CommitHolds,
     RequestHolds, ExpireHolds, StutterHolds DEF TkNext
<1>3. TInv => NoKeyOutlivesTenant
  <2>1. ASSUME TInv, NEW k \in Keys, key[k] # Idle, status[key[k].tenant] \in Gone
        PROVE  key[k].status = "revoked"
    <3>1. key[k] \in KeyRow
      BY <2>1 DEF TInv, KeysTyped
    <3>2. key[k].tenant \in Tenants /\ key[k].status \in {"active", "revoked"}
      BY <3>1 DEF KeyRow
    <3>3. k \notin KeysOf(key[k].tenant)
      BY <2>1, <3>2 DEF TInv, GoneHasNone
    <3>4. QED
      BY <2>1, <3>2, <3>3 DEF KeysOf
  <2>2. QED
    BY <2>1 DEF NoKeyOutlivesTenant, TInv, StaysOut
<1>4. QED
  BY <1>1, <1>2, <1>3, PTL DEF TkSpec

-----------------------------------------------------------------------------
(* Background processes *)

Busy == {"spawn", "store", "stop"}

NxTyped ==
  /\ slots \in [lock : Starters \cup {Nobody}, held : [Kinds -> Nat]]
  /\ children \in [Kinds -> SUBSET Nat]
  /\ starter \in [Starters -> [pc : Busy \cup {"idle"}, pid : Nat, kind : Kinds \cup {Nobody}]]
  /\ \A s \in Starters : starter[s].pc \in Busy => starter[s].kind \in Kinds

(* A request between its check and its store or stop has the lock. *)
LockIsMine == \A s \in Starters : starter[s].pc \in Busy => slots.lock = s

(* What runs is in its slot, but for the child that is about to be stored. *)
Storing(k) == \E s \in Starters : starter[s].pc = "store" /\ starter[s].kind = k
HeldUnlessStored == \A k \in Kinds : Storing(k) \/ children[k] \subseteq {slots.held[k]}
AboutToHold ==
  \A s \in Starters :
    /\ starter[s].pc = "spawn" => children[starter[s].kind] = {}
    /\ starter[s].pc = "store" => children[starter[s].kind] \subseteq {starter[s].pid}
    /\ starter[s].pc = "stop" => children[starter[s].kind] \subseteq {starter[s].pid}

NInv == NxTyped /\ LockIsMine /\ HeldUnlessStored /\ AboutToHold

\* At the start nothing runs.
LEMMA NxInitHolds ==
  ASSUME NbInit
  PROVE  NInv
BY DEF NbInit, Vacant, Unspawned, NInv, NxTyped, LockIsMine, HeldUnlessStored, Storing, AboutToHold, Busy

\* Check, spawn and store are under one lock, so no other request moves between them.
LEMMA NxStepHolds ==
  ASSUME MaxPids \in Nat, Nobody \notin Starters, NInv, [NbNext]_nbVars
  PROVE  NInv'
<1> USE DEF Busy, Wants, Goes, SlotFree
<1>1. CASE UNCHANGED nbVars
  BY <1>1 DEF nbVars, NInv, NxTyped, LockIsMine, HeldUnlessStored, Storing, AboutToHold
<1>2. ASSUME NEW s \in Starters, NEW k \in Kinds, CheckSlot(s, k)
      PROVE  NInv'
  <2>1. \A o \in Starters : starter[o].pc = "idle"
    BY <1>2 DEF CheckSlot, NInv, NxTyped, LockIsMine
  <2>2. children[k] = {}
    BY <1>2, <2>1 DEF CheckSlot, Runs, NInv, NxTyped, HeldUnlessStored, Storing
  <2>3. starter' = [starter EXCEPT ![s] = [pc |-> "spawn", pid |-> 0, kind |-> k]]
        /\ slots' = [slots EXCEPT !.lock = s] /\ children' = children
    BY <1>2 DEF CheckSlot
  <2>4. NxTyped'
    BY <2>3 DEF NInv, NxTyped
  <2>5. /\ starter'[s].pc = "spawn" /\ starter'[s].kind = k
        /\ \A o \in Starters \ {s} : starter'[o] = starter[o]
        /\ slots'.lock = s /\ slots'.held = slots.held
    BY <2>3 DEF NInv, NxTyped
  <2>6. LockIsMine' /\ AboutToHold'
    BY <2>1, <2>2, <2>3, <2>5 DEF LockIsMine, AboutToHold
  <2>7. \A j \in Kinds : children[j] \subseteq {slots.held[j]}
    BY <2>1 DEF NInv, HeldUnlessStored, Storing
  <2>8. HeldUnlessStored'
    BY <2>3, <2>5, <2>7 DEF HeldUnlessStored
  <2> QED
    BY <2>4, <2>6, <2>8 DEF NInv
<1>3. ASSUME NEW s \in Starters, Spawn(s)
      PROVE  NInv'
  <2>1. PICK pid \in 1..MaxPids :
          /\ children' = [children EXCEPT ![starter[s].kind] = @ \cup {pid}]
          /\ starter' = [starter EXCEPT ![s] = [starter[s] EXCEPT !.pc = "store", !.pid = pid]]
    BY <1>3 DEF Spawn
  <2>2. /\ starter[s].pc = "spawn" /\ slots' = slots
        /\ starter[s].kind \in Kinds /\ children[starter[s].kind] = {}
    BY <1>3 DEF Spawn, NInv, NxTyped, AboutToHold
  <2>3. \A o \in Starters \ {s} : starter[o].pc = "idle"
    BY <2>2 DEF NInv, NxTyped, LockIsMine
  <2>4. NxTyped'
    <3>1. pid \in Nat
      OBVIOUS
    <3>2. children' \in [Kinds -> SUBSET Nat]
      <4>1. children[starter[s].kind] \cup {pid} \in SUBSET Nat
        BY <2>2, <3>1 DEF NInv, NxTyped
      <4> QED
        BY <2>1, <2>2, <4>1 DEF NInv, NxTyped
    <3>3. starter' \in [Starters -> [pc : Busy \cup {"idle"}, pid : Nat, kind : Kinds \cup {Nobody}]]
      BY <2>1, <3>1 DEF NInv, NxTyped
    <3>4. \A o \in Starters : starter'[o].kind = starter[o].kind
      BY <2>1 DEF NInv, NxTyped
    <3>5. \A o \in Starters : starter'[o].pc \in Busy => starter[o].pc \in Busy
      BY <2>1, <2>2 DEF NInv, NxTyped
    <3> QED
      BY <2>2, <3>2, <3>3, <3>4, <3>5 DEF NInv, NxTyped
  <2>5. /\ starter'[s].pc = "store" /\ starter'[s].kind = starter[s].kind /\ starter'[s].pid = pid
        /\ \A o \in Starters \ {s} : starter'[o] = starter[o]
    BY <2>1 DEF NInv, NxTyped
  <2>6. /\ children'[starter[s].kind] = {pid}
        /\ \A k \in Kinds \ {starter[s].kind} : children'[k] = children[k]
    BY <2>1, <2>2 DEF NInv, NxTyped
  <2>7. LockIsMine' /\ AboutToHold'
    BY <2>2, <2>3, <2>5, <2>6 DEF NInv, NxTyped, LockIsMine, AboutToHold
  <2>8. HeldUnlessStored'
    BY <2>2, <2>3, <2>5, <2>6 DEF NInv, NxTyped, HeldUnlessStored, Storing
  <2> QED
    BY <2>4, <2>7, <2>8 DEF NInv
<1>4. ASSUME NEW s \in Starters, CannotSpawn(s)
      PROVE  NInv'
  <2>1. \A o \in Starters \ {s} : starter[o].pc = "idle"
    BY <1>4 DEF CannotSpawn, NInv, NxTyped, LockIsMine
  <2> QED
    BY <1>4, <2>1 DEF CannotSpawn, Unspawned, NInv, NxTyped, LockIsMine, HeldUnlessStored, Storing, AboutToHold
<1>5. ASSUME NEW s \in Starters, Store(s)
      PROVE  NInv'
  <2>1. \A o \in Starters \ {s} : starter[o].pc = "idle"
    BY <1>5 DEF Store, NInv, NxTyped, LockIsMine
  <2>2. /\ starter' = [starter EXCEPT ![s] = Unspawned] /\ children' = children
        /\ slots' = [lock |-> Nobody, held |-> [slots.held EXCEPT ![starter[s].kind] = starter[s].pid]]
        /\ starter[s].kind \in Kinds /\ children[starter[s].kind] \subseteq {starter[s].pid}
        /\ starter[s].pc = "store"
    BY <1>5 DEF Store, NInv, NxTyped, AboutToHold
  <2>3. \A k \in Kinds : children'[k] \subseteq {slots'.held[k]}
    BY <2>1, <2>2 DEF NInv, NxTyped, HeldUnlessStored, Storing
  <2> QED
    BY <2>1, <2>2, <2>3 DEF Unspawned, NInv, NxTyped, LockIsMine, HeldUnlessStored, AboutToHold
<1>6. ASSUME NEW s \in Starters, NEW k \in Kinds, TakeStop(s, k)
      PROVE  NInv'
  <2>1. \A o \in Starters : starter[o].pc = "idle"
    BY <1>6 DEF TakeStop, NInv, NxTyped, LockIsMine
  <2> QED
    BY <1>6, <2>1 DEF TakeStop, NInv, NxTyped, LockIsMine, HeldUnlessStored, Storing, AboutToHold
<1>7. ASSUME NEW s \in Starters, Stop(s)
      PROVE  NInv'
  <2>1. \A o \in Starters \ {s} : starter[o].pc = "idle"
    BY <1>7 DEF Stop, NInv, NxTyped, LockIsMine
  <2>2. /\ starter' = [starter EXCEPT ![s] = Unspawned] /\ starter[s].pc = "stop"
        /\ slots' = [lock |-> Nobody, held |-> [slots.held EXCEPT ![starter[s].kind] = 0]]
        /\ children' = [children EXCEPT ![starter[s].kind] = @ \ {starter[s].pid}]
        /\ starter[s].kind \in Kinds /\ children'[starter[s].kind] = {}
    BY <1>7 DEF Stop, NInv, NxTyped, AboutToHold
  <2>3. \A k \in Kinds : children'[k] \subseteq {slots'.held[k]}
    BY <2>1, <2>2 DEF NInv, NxTyped, HeldUnlessStored, Storing
  <2> QED
    BY <2>1, <2>2, <2>3 DEF Unspawned, NInv, NxTyped, LockIsMine, HeldUnlessStored, AboutToHold
<1>8. CASE ChildExits
  <2>1. PICK k \in Kinds, pid \in Nat : children' = [children EXCEPT ![k] = @ \ {pid}]
    BY <1>8 DEF ChildExits, NInv, NxTyped
  <2>2. slots' = slots /\ starter' = starter
    BY <1>8 DEF ChildExits
  <2>3. \A j \in Kinds : children'[j] \subseteq children[j]
    BY <2>1 DEF NInv, NxTyped
  <2>4. children' \in [Kinds -> SUBSET Nat]
    BY <2>1 DEF NInv, NxTyped
  <2> QED
    BY <2>2, <2>3, <2>4 DEF NInv, NxTyped, LockIsMine, HeldUnlessStored, Storing, AboutToHold
<1>9. CASE Shutdown
  BY <1>9 DEF Shutdown, Vacant, NInv, NxTyped, LockIsMine, HeldUnlessStored, Storing, AboutToHold
<1>10. CASE Dies
  BY <1>10 DEF Dies, Vacant, Unspawned, NInv, NxTyped, LockIsMine, HeldUnlessStored, Storing, AboutToHold
<1> QED
  BY <1>1, <1>2, <1>3, <1>4, <1>5, <1>6, <1>7, <1>8, <1>9, <1>10 DEF NbNext

\* What runs is held, and one instance at most.
LEMMA NxInvImplies ==
  ASSUME NInv
  PROVE  NothingRunsUnheld
<1> SUFFICES ASSUME NEW k \in Kinds
             PROVE  /\ Cardinality(children[k]) <= 1
                    /\ children[k] \subseteq {slots.held[k]} \cup {starter[s].pid : s \in {u \in Starters : starter[u].kind = k}}
  BY DEF NothingRunsUnheld
<1> DEFINE Stores == {starter[s].pid : s \in {u \in Starters : starter[u].kind = k}}
<1>1. \E pid : children[k] \subseteq {pid} /\ pid \in {slots.held[k]} \cup Stores
  <2>1. CASE Storing(k)
    <3>1. PICK s \in Starters : starter[s].pc = "store" /\ starter[s].kind = k
      BY <2>1 DEF Storing
    <3>2. children[k] \subseteq {starter[s].pid} /\ starter[s].pid \in Stores
      BY <3>1 DEF NInv, AboutToHold
    <3> QED
      BY <3>2
  <2>2. CASE children[k] \subseteq {slots.held[k]}
    BY <2>2
  <2> QED
    BY <2>1, <2>2 DEF NInv, HeldUnlessStored
<1>2. PICK pid : children[k] \subseteq {pid} /\ pid \in {slots.held[k]} \cup Stores
  BY <1>1
<1>3. IsFiniteSet({pid}) /\ Cardinality({pid}) = 1
  BY FS_Singleton
<1>4. Cardinality(children[k]) <= Cardinality({pid})
  BY <1>2, <1>3, FS_Subset
<1> QED
  BY <1>2, <1>3, <1>4

\* Whichever requests, exits, shutdowns and deaths interleave, a kind has one child at most and
\* the one that runs is held (external_watch, external_serve, their stops, lifespan).
THEOREM OneInstanceMax ==
  ASSUME MaxPids \in Nat, Nobody \notin Starters
  PROVE  NbSpec => []NothingRunsUnheld
<1>1. NbInit => NInv
  BY NxInitHolds
<1>2. NInv /\ [NbNext]_nbVars => NInv'
  BY NxStepHolds
<1>3. NInv => NothingRunsUnheld
  BY NxInvImplies
<1> QED
  BY <1>1, <1>2, <1>3, PTL DEF NbSpec

-----------------------------------------------------------------------------
(* KeyLimiter *)

Reserved(s, r, T) == s \in Subjects /\ r.at \in Nat /\ r.id[1] \in T

LTyped ==
  /\ now \in Nat
  /\ DOMAIN bucket = Subjects /\ DOMAIN attempt = Attempts
  /\ \A s \in Subjects : IsFiniteSet(bucket[s]) /\ \A r \in bucket[s] : r.at \in Nat
  /\ \A a \in Attempts : /\ DOMAIN attempt[a] = {"todo", "taken", "phase"}
                         /\ attempt[a].todo \in Seq(Subjects)

\* A reservation of an attempt is nobody else's; a failed one was made by an attempt that is
\* over, so no attempt will ever take it back.
Owned == \A a \in Attempts : \A t \in attempt[a].taken :
           t = <<t[1], t[2]>> /\ Reserved(t[1], t[2], {a})
Spent == \A f \in failed :
           /\ f = <<f[1], f[2]>> /\ Reserved(f[1], f[2], Attempts) /\ Recent(f[2])
           /\ attempt[f[2].id[1]].phase = "over"

Within(b) == \A s \in Subjects : Cardinality(b[s]) <= Limit
LInv == LTyped /\ Owned /\ Spent /\ FailuresStayCounted

LEMMA FinitePart ==
  ASSUME NEW S, IsFiniteSet(S), NEW T \in SUBSET S
  PROVE  IsFiniteSet(T) /\ Cardinality(T) \in Nat /\ Cardinality(S) \in Nat
         /\ Cardinality(T) <= Cardinality(S)
BY FS_Subset, FS_CardinalityType

\* What reserve does to the table: it drops some of the buckets below their limit, forgets
\* what has aged in its own, and adds its reservation there if that leaves it room.
Reserves(b, s, r, out) ==
  /\ s \notin out.dropped
  /\ DOMAIN out.bucket = Subjects
  /\ \A x \in out.dropped : x \in Subjects /\ (Unaged(b[x]) = {} \/ Cardinality(b[x]) < Limit)
  /\ \A x \in Subjects \ {s} : out.bucket[x] = IF x \in out.dropped THEN {} ELSE b[x]
  /\ \/ out.taken = {} /\ out.bucket[s] \in {b[s], Unaged(b[s])}
     \/ /\ out.taken = {<<s, r>>} /\ Cardinality(Unaged(b[s])) < Limit
        /\ out.bucket[s] = Unaged(b[s]) \cup {r}

LEMMA EvictionsAreSmall ==
  ASSUME LTyped, NEW d \in Evictions(bucket), NEW x \in d
  PROVE  x \in InTable(bucket) /\ (Unaged(bucket[x]) = {} \/ Cardinality(bucket[x]) < Limit)
<1> DEFINE fresh == Dropping(bucket, Idlers(bucket))
<1>1. CASE x \in Idlers(bucket)
  BY <1>1 DEF Idlers
<1>2. CASE x \notin Idlers(bucket)
  <2>1. PICK e \in Oldest(fresh, Droppable(fresh), MaxBuckets \div 2) : x \in e
    BY <1>2 DEF Evictions
  <2>2. e \subseteq Droppable(fresh)
    BY <2>1 DEF Oldest
  <2>3. x \in Subjects /\ fresh[x] # {} /\ Cardinality(fresh[x]) < Limit
    BY <2>1, <2>2 DEF Droppable, InTable
  <2>4. fresh[x] = bucket[x]
    BY <1>2, <2>3 DEF Dropping
  <2>5. QED
    BY <2>3, <2>4 DEF InTable
<1>3. QED
  BY <1>1, <1>2

LEMMA CountedIsReserved ==
  ASSUME NEW b, DOMAIN b = Subjects, NEW s \in Subjects, NEW r, NEW d
  PROVE  LET out == Counted(b, s, r, d)
         IN /\ out.dropped = d /\ DOMAIN out.bucket = Subjects
            /\ \A x \in Subjects \ {s} : out.bucket[x] = b[x]
            /\ \/ out.taken = {} /\ out.bucket[s] \in {b[s], Unaged(b[s])}
               \/ /\ out.taken = {<<s, r>>} /\ ~(Cardinality(Unaged(b[s])) >= Limit)
                  /\ out.bucket[s] = Unaged(b[s]) \cup {r}
<1> DEFINE kept == [b EXCEPT ![s] = Unaged(@)]
           out == Counted(b, s, r, d)
<1>1. /\ DOMAIN kept = Subjects /\ kept[s] = Unaged(b[s])
      /\ \A x \in Subjects \ {s} : kept[x] = b[x]
  OBVIOUS
<1>2. \/ out = Outcome(b, d, {}) \/ out = Outcome(kept, d, {})
      \/ ~(Cardinality(kept[s]) >= Limit) /\ out = Outcome([kept EXCEPT ![s] = @ \cup {r}], d, {<<s, r>>})
  BY DEF Counted
<1> HIDE DEF kept, out
<1>3. CASE out = Outcome(b, d, {})
  BY <1>3 DEF Outcome, out
<1>4. CASE out = Outcome(kept, d, {})
  BY <1>1, <1>4 DEF Outcome, out
<1>5. CASE ~(Cardinality(kept[s]) >= Limit) /\ out = Outcome([kept EXCEPT ![s] = @ \cup {r}], d, {<<s, r>>})
  <2>1. PICK more : more = [kept EXCEPT ![s] = @ \cup {r}]
    OBVIOUS
  <2>2. /\ DOMAIN more = Subjects /\ more[s] = kept[s] \cup {r}
        /\ \A x \in Subjects \ {s} : more[x] = kept[x]
    BY <1>1, <2>1
  <2>3. out.bucket = more /\ out.dropped = d /\ out.taken = {<<s, r>>}
    BY <1>5, <2>1 DEF Outcome
  <2>4. QED
    BY <1>1, <1>5, <2>2, <2>3 DEF out
<1>6. QED
  BY <1>2, <1>3, <1>4, <1>5

LEMMA ReserveReserves ==
  ASSUME LTyped, NEW s \in Subjects, NEW r, NEW out \in Reserve(bucket, s, r)
  PROVE  Reserves(bucket, s, r, out)
<1>1. Limit \in Nat /\ Cardinality(Unaged(bucket[s])) \in Nat
  <2>1. Unaged(bucket[s]) \subseteq bucket[s] /\ IsFiniteSet(bucket[s])
    BY DEF Unaged, LTyped
  <2>2. QED
    BY <2>1, FinitePart, KlConstantsOK
<1>2. CASE Cardinality(InTable(bucket)) >= MaxBuckets /\ s \notin InTable(bucket)
  <2>1. PICK d \in Evictions(bucket) : out = Counted(Dropping(bucket, d), s, r, d)
    BY <1>2 DEF Reserve
  <2>2. PICK b : b = Dropping(bucket, d)
    OBVIOUS
  <2>3. s \notin d /\ d \subseteq Subjects
    BY <1>2, EvictionsAreSmall DEF InTable
  <2>4. /\ DOMAIN b = Subjects /\ b[s] = bucket[s]
        /\ \A x \in Subjects : b[x] = IF x \in d THEN {} ELSE bucket[x]
    BY <2>2, <2>3 DEF Dropping
  <2>5. /\ out.dropped = d /\ DOMAIN out.bucket = Subjects
        /\ \A x \in Subjects \ {s} : out.bucket[x] = b[x]
        /\ \/ out.taken = {} /\ out.bucket[s] \in {b[s], Unaged(b[s])}
           \/ /\ out.taken = {<<s, r>>} /\ ~(Cardinality(Unaged(b[s])) >= Limit)
              /\ out.bucket[s] = Unaged(b[s]) \cup {r}
    BY <2>1, <2>2, <2>4, CountedIsReserved
  <2>6. \A x \in d : Unaged(bucket[x]) = {} \/ Cardinality(bucket[x]) < Limit
    BY EvictionsAreSmall
  <2>7. \/ out.taken = {} /\ out.bucket[s] \in {bucket[s], Unaged(bucket[s])}
        \/ /\ out.taken = {<<s, r>>} /\ Cardinality(Unaged(bucket[s])) < Limit
           /\ out.bucket[s] = Unaged(bucket[s]) \cup {r}
    BY <1>1, <2>4, <2>5
  <2>8. \A x \in Subjects \ {s} : out.bucket[x] = IF x \in out.dropped THEN {} ELSE bucket[x]
    BY <2>4, <2>5
  <2>9. QED
    BY <2>3, <2>5, <2>6, <2>7, <2>8 DEF Reserves
<1>3. CASE ~(Cardinality(InTable(bucket)) >= MaxBuckets /\ s \notin InTable(bucket))
  <2>1. out = Counted(bucket, s, r, {})
    BY <1>3 DEF Reserve
  <2>2. /\ out.dropped = {} /\ DOMAIN out.bucket = Subjects
        /\ \A x \in Subjects \ {s} : out.bucket[x] = bucket[x]
        /\ \/ out.taken = {} /\ out.bucket[s] \in {bucket[s], Unaged(bucket[s])}
           \/ /\ out.taken = {<<s, r>>} /\ ~(Cardinality(Unaged(bucket[s])) >= Limit)
              /\ out.bucket[s] = Unaged(bucket[s]) \cup {r}
    BY <2>1, CountedIsReserved DEF LTyped
  <2>3. QED
    BY <1>1, <2>2 DEF Reserves
<1>4. QED
  BY <1>2, <1>3

LEMMA LimiterStart == KlInit => LInv
<1> SUFFICES ASSUME KlInit PROVE LInv
  OBVIOUS
<1>1. IsFiniteSet({}) /\ Cardinality({}) = 0
  BY FS_EmptySet
<1>2. \A s \in Subjects : bucket[s] = {}
  BY DEF KlInit
<1>3. DOMAIN Stage("free", <<>>) = {"todo", "taken", "phase"} /\ Stage("free", <<>>).todo \in Seq(Subjects)
  BY DEF Stage
<1>4. \A a \in Attempts : attempt[a] = Stage("free", <<>>) /\ attempt[a].taken = {}
  BY DEF KlInit, Stage
<1>5. LTyped
  BY <1>1, <1>2, <1>3, <1>4 DEF KlInit, LTyped
<1>6. Owned /\ Spent
  BY <1>4 DEF KlInit, Owned, Spent
<1>7. FailuresStayCounted
  <2>1. \A s \in Subjects : Cardinality(bucket[s]) <= Limit
    BY <1>1, <1>2, KlConstantsOK
  <2>2. QED
    BY <1>2, <2>1 DEF KlInit, FailuresStayCounted
<1>8. QED
  BY <1>5, <1>6, <1>7 DEF LInv

\* An attempt that moves to record c, with what it owns.
LEMMA AttemptMoves ==
  ASSUME LInv, NEW a \in Attempts, NEW c, attempt' = [attempt EXCEPT ![a] = c],
         DOMAIN c = {"todo", "taken", "phase"}, c.todo \in Seq(Subjects),
         \A t \in c.taken : t = <<t[1], t[2]>> /\ Reserved(t[1], t[2], {a}),
         attempt[a].phase # "over"
  PROVE  /\ attempt'[a] = c /\ \A x \in Attempts \ {a} : attempt'[x] = attempt[x]
         /\ DOMAIN attempt' = Attempts
         /\ \A x \in Attempts : /\ DOMAIN attempt'[x] = {"todo", "taken", "phase"}
                                /\ attempt'[x].todo \in Seq(Subjects)
         /\ Owned'
         /\ \A f \in failed : f[2].id[1] # a /\ attempt'[f[2].id[1]].phase = "over"
<1>1. /\ attempt'[a] = c /\ \A x \in Attempts \ {a} : attempt'[x] = attempt[x]
      /\ DOMAIN attempt' = Attempts
  BY DEF LInv, LTyped
<1>2. \A x \in Attempts : /\ DOMAIN attempt'[x] = {"todo", "taken", "phase"}
                          /\ attempt'[x].todo \in Seq(Subjects)
  BY <1>1 DEF LInv, LTyped
<1>3. Owned'
  BY <1>1 DEF LInv, Owned
<1>4. \A f \in failed : f[2].id[1] # a /\ attempt'[f[2].id[1]].phase = "over"
  BY <1>1 DEF LInv, Spent, Reserved
<1>5. QED
  BY <1>1, <1>2, <1>3, <1>4

LEMMA BeginCounts ==
  ASSUME LInv, NEW a \in Attempts, Begin(a)
  PROVE  LInv'
<1>1. PICK named \in Seq(Subjects) : /\ attempt[a].phase = "free"
                                     /\ attempt' = [attempt EXCEPT ![a] = Stage("reserving", named)]
                                     /\ UNCHANGED <<now, bucket, failed>>
  <2>1. PICK first \in Subjects, second \in Subjects :
          \E named \in {<<first>>, <<first, second>>} :
            /\ attempt[a].phase = "free" /\ attempt' = [attempt EXCEPT ![a] = Stage("reserving", named)]
            /\ UNCHANGED <<now, bucket, failed>>
    BY DEF Begin
  <2>2. <<first>> \in Seq(Subjects) /\ <<first, second>> \in Seq(Subjects)
    OBVIOUS
  <2>3. QED
    BY <2>1, <2>2
<1>2. PICK c : c = Stage("reserving", named)
  OBVIOUS
<1>3. DOMAIN c = {"todo", "taken", "phase"} /\ c.todo = named /\ c.taken = {} /\ c.phase = "reserving"
  BY <1>2 DEF Stage
<1>4. /\ attempt'[a] = c /\ \A x \in Attempts \ {a} : attempt'[x] = attempt[x]
      /\ DOMAIN attempt' = Attempts
      /\ \A x \in Attempts : /\ DOMAIN attempt'[x] = {"todo", "taken", "phase"}
                             /\ attempt'[x].todo \in Seq(Subjects)
      /\ Owned'
      /\ \A f \in failed : f[2].id[1] # a /\ attempt'[f[2].id[1]].phase = "over"
  BY <1>1, <1>2, <1>3, AttemptMoves
<1>5. LTyped'
  BY <1>1, <1>4 DEF LInv, LTyped
<1>6. Spent'
  BY <1>1, <1>4 DEF LInv, Spent, Recent
<1>7. FailuresStayCounted'
  <2>1. \A x \in Attempts : Ongoing(x) => attempt'[x].phase \notin {"free", "over"} /\ attempt'[x] = attempt[x]
    BY <1>1, <1>4 DEF Ongoing
  <2>2. QED
    BY <1>1, <2>1 DEF LInv, FailuresStayCounted, Recent, Ongoing
<1>8. QED
  BY <1>4, <1>5, <1>6, <1>7 DEF LInv

LEMMA FailCounts ==
  ASSUME LInv, NEW a \in Attempts, Fail(a)
  PROVE  LInv'
<1>1. PICK new : /\ new = {f \in attempt[a].taken : Recent(f[2]) /\ f[2] \in bucket[f[1]]}
                 /\ failed' = failed \cup new
  BY DEF Fail
<1>2. PICK c : c = Stage("over", <<>>)
  OBVIOUS
<1>3. /\ attempt[a].phase = "checking" /\ attempt' = [attempt EXCEPT ![a] = c]
      /\ UNCHANGED <<now, bucket>>
  BY <1>2 DEF Fail
<1>4. /\ DOMAIN c = {"todo", "taken", "phase"} /\ c.todo \in Seq(Subjects) /\ c.taken = {}
      /\ c.phase = "over"
  BY <1>2 DEF Stage
<1>5. /\ attempt'[a] = c /\ \A x \in Attempts \ {a} : attempt'[x] = attempt[x]
      /\ DOMAIN attempt' = Attempts
      /\ \A x \in Attempts : /\ DOMAIN attempt'[x] = {"todo", "taken", "phase"}
                             /\ attempt'[x].todo \in Seq(Subjects)
      /\ Owned'
      /\ \A f \in failed : f[2].id[1] # a /\ attempt'[f[2].id[1]].phase = "over"
  BY <1>3, <1>4, AttemptMoves
<1>6. \A f \in new : f = <<f[1], f[2]>> /\ Reserved(f[1], f[2], {a}) /\ Recent(f[2])
  BY <1>1 DEF LInv, Owned
<1>7. LTyped'
  BY <1>3, <1>5 DEF LInv, LTyped
<1>8. Spent'
  BY <1>1, <1>3, <1>4, <1>5, <1>6 DEF LInv, Spent, Recent, Reserved
<1>9. FailuresStayCounted'
  <2>1. \A f \in failed' : f[2] \in bucket'[f[1]]
    BY <1>1, <1>3 DEF LInv, FailuresStayCounted
  <2>2. ASSUME NEW s \in Subjects, NEW r \in bucket[s], <<s, r>> \notin failed', now - r.at < Window
        PROVE  \E x \in Attempts : attempt'[x].phase \notin {"free", "over"} /\ <<s, r>> \in attempt'[x].taken
    <3>1. PICK x \in Attempts : attempt[x].phase \notin {"free", "over"} /\ <<s, r>> \in attempt[x].taken
      BY <1>1, <2>2 DEF LInv, FailuresStayCounted, Ongoing, Recent
    <3>2. x # a
      BY <1>1, <2>2, <3>1 DEF Recent
    <3>3. QED
      BY <1>5, <3>1, <3>2
  <2>3. QED
    BY <1>3, <2>1, <2>2 DEF LInv, FailuresStayCounted, Ongoing, Recent
<1>10. QED
  BY <1>5, <1>7, <1>8, <1>9 DEF LInv

LEMMA SettleCounts ==
  ASSUME LInv, NEW a \in Attempts, Settle(a)
  PROVE  LInv'
<1>1. attempt[a].phase \in {"checking", "refused"} /\ UNCHANGED <<now, failed>>
  BY DEF Settle
<1>2. CASE attempt[a].taken = {}
  <2>1. PICK c : c = Stage("over", <<>>)
    OBVIOUS
  <2>2. attempt' = [attempt EXCEPT ![a] = c] /\ UNCHANGED bucket
    BY <1>2, <2>1 DEF Settle
  <2>3. /\ DOMAIN c = {"todo", "taken", "phase"} /\ c.todo \in Seq(Subjects) /\ c.taken = {}
        /\ c.phase = "over"
    BY <2>1 DEF Stage
  <2>4. /\ attempt'[a] = c /\ \A x \in Attempts \ {a} : attempt'[x] = attempt[x]
        /\ DOMAIN attempt' = Attempts
        /\ \A x \in Attempts : /\ DOMAIN attempt'[x] = {"todo", "taken", "phase"}
                               /\ attempt'[x].todo \in Seq(Subjects)
        /\ Owned'
        /\ \A f \in failed : f[2].id[1] # a /\ attempt'[f[2].id[1]].phase = "over"
    BY <1>1, <2>2, <2>3, AttemptMoves
  <2>5. LTyped' /\ Spent'
    BY <1>1, <2>2, <2>4 DEF LInv, LTyped, Spent, Recent
  <2>6. FailuresStayCounted'
    BY <1>1, <1>2, <2>2, <2>4 DEF LInv, FailuresStayCounted, Ongoing, Recent
  <2>7. QED
    BY <2>4, <2>5, <2>6 DEF LInv
<1>3. CASE attempt[a].taken # {}
  <2>1. PICK t \in attempt[a].taken :
          /\ bucket' = Release(bucket, t[1], t[2])
          /\ attempt' = [attempt EXCEPT ![a].taken = @ \ {t}, ![a].phase = "refused"]
    BY <1>3 DEF Settle
  <2>2. PICK c : c = [attempt[a] EXCEPT !.taken = @ \ {t}, !.phase = "refused"]
    OBVIOUS
  <2>3. attempt' = [attempt EXCEPT ![a] = c]
    BY <2>1, <2>2 DEF LInv, LTyped
  <2>4. DOMAIN attempt[a] = {"todo", "taken", "phase"} /\ attempt[a].todo \in Seq(Subjects)
    BY DEF LInv, LTyped
  <2>5. /\ DOMAIN c = {"todo", "taken", "phase"} /\ c.todo \in Seq(Subjects)
        /\ c.taken = attempt[a].taken \ {t} /\ c.phase = "refused"
    BY <2>2, <2>4
  <2>6. \A x \in attempt[a].taken : x = <<x[1], x[2]>> /\ Reserved(x[1], x[2], {a})
    BY DEF LInv, Owned
  <2>7. /\ attempt'[a] = c /\ \A x \in Attempts \ {a} : attempt'[x] = attempt[x]
        /\ DOMAIN attempt' = Attempts
        /\ \A x \in Attempts : /\ DOMAIN attempt'[x] = {"todo", "taken", "phase"}
                               /\ attempt'[x].todo \in Seq(Subjects)
        /\ Owned'
        /\ \A f \in failed : f[2].id[1] # a /\ attempt'[f[2].id[1]].phase = "over"
    BY <1>1, <2>3, <2>5, <2>6, AttemptMoves
  <2>8. /\ t = <<t[1], t[2]>> /\ t[1] \in Subjects /\ t[2].id[1] = a
        /\ DOMAIN bucket' = Subjects /\ bucket'[t[1]] = bucket[t[1]] \ {t[2]}
        /\ \A s \in Subjects \ {t[1]} : bucket'[s] = bucket[s]
    BY <2>1, <2>6 DEF Release, LInv, LTyped, Reserved
  <2>9. \A s \in Subjects : bucket'[s] \subseteq bucket[s]
    BY <2>8
  <2>10. \A s \in Subjects : IsFiniteSet(bucket'[s]) /\ Cardinality(bucket'[s]) <= Limit
    <3>1. SUFFICES ASSUME NEW s \in Subjects
                   PROVE  IsFiniteSet(bucket'[s]) /\ Cardinality(bucket'[s]) <= Limit
      OBVIOUS
    <3>2. IsFiniteSet(bucket[s]) /\ Cardinality(bucket[s]) <= Limit
      BY DEF LInv, LTyped, FailuresStayCounted
    <3>3. /\ IsFiniteSet(bucket'[s]) /\ Cardinality(bucket'[s]) \in Nat
          /\ Cardinality(bucket[s]) \in Nat /\ Cardinality(bucket'[s]) <= Cardinality(bucket[s])
      BY <2>9, <3>2, FinitePart
    <3>4. QED
      BY <3>2, <3>3, KlConstantsOK
  <2>11. LTyped'
    BY <1>1, <2>7, <2>8, <2>9, <2>10 DEF LInv, LTyped
  <2>12. Spent'
    BY <1>1, <2>7 DEF LInv, Spent, Recent
  <2>13. FailuresStayCounted'
    <3>1. ASSUME NEW f \in failed PROVE f[2] \in bucket'[f[1]]
      <4>1. f[2] \in bucket[f[1]] /\ f[2].id[1] # a /\ f[1] \in Subjects
        BY <2>7 DEF LInv, FailuresStayCounted, Spent, Reserved
      <4>2. QED
        BY <2>8, <4>1
    <3>2. ASSUME NEW s \in Subjects, NEW r \in bucket'[s], <<s, r>> \notin failed, now - r.at < Window
          PROVE  \E x \in Attempts : attempt'[x].phase \notin {"free", "over"} /\ <<s, r>> \in attempt'[x].taken
      <4>1. PICK x \in Attempts : attempt[x].phase \notin {"free", "over"} /\ <<s, r>> \in attempt[x].taken
        BY <2>9, <3>2 DEF LInv, FailuresStayCounted, Ongoing, Recent
      <4>2. <<s, r>> # t
        BY <2>8, <3>2
      <4>3. QED
        BY <2>5, <2>7, <4>1, <4>2
    <3>3. QED
      BY <1>1, <2>10, <3>1, <3>2 DEF FailuresStayCounted, Ongoing, Recent
  <2>14. QED
    BY <2>7, <2>11, <2>12, <2>13 DEF LInv
<1>4. QED
  BY <1>2, <1>3

LEMMA TickCounts ==
  ASSUME LInv, Tick
  PROVE  LInv'
<1>1. /\ now' = now + 1 /\ UNCHANGED <<bucket, attempt>>
      /\ failed' = {f \in failed : now' - f[2].at < Window}
  BY DEF Tick
<1>2. LTyped' /\ Owned'
  <2>1. LTyped'
    BY <1>1 DEF LInv, LTyped
  <2>2. Owned'
    BY <1>1 DEF LInv, Owned
  <2>3. QED
    BY <2>1, <2>2
<1>3. Spent'
  BY <1>1 DEF LInv, Spent, Recent
<1>4. FailuresStayCounted'
  <2>1. \A f \in failed' : f[2] \in bucket'[f[1]]
    BY <1>1 DEF LInv, FailuresStayCounted
  <2>2. ASSUME NEW s \in Subjects, NEW r \in bucket[s], <<s, r>> \notin failed', now' - r.at < Window
        PROVE  \E x \in Attempts : Ongoing(x) /\ <<s, r>> \in attempt[x].taken
    <3>1. <<s, r>> \notin failed
      BY <1>1, <2>2
    <3>2. now - r.at < Window
      BY <1>1, <2>2, KlConstantsOK DEF LInv, LTyped
    <3>3. QED
      BY <3>1, <3>2 DEF LInv, FailuresStayCounted, Recent
  <2>3. QED
    BY <1>1, <2>1, <2>2 DEF LInv, FailuresStayCounted, Recent, Ongoing
<1>5. QED
  BY <1>2, <1>3, <1>4 DEF LInv

LEMMA ReserveCounts ==
  ASSUME LInv, NEW a \in Attempts, ReserveNext(a)
  PROVE  LInv'
<1>1. attempt[a].phase = "reserving" /\ attempt[a].todo # <<>> /\ now' = now
  BY DEF ReserveNext
<1>2. DOMAIN attempt[a] = {"todo", "taken", "phase"} /\ attempt[a].todo \in Seq(Subjects)
  BY DEF LInv, LTyped
<1>3. PICK s \in Subjects : s = Head(attempt[a].todo)
  BY <1>1, <1>2
<1>4. PICK r : r = [at |-> now, id |-> <<a, Len(attempt[a].todo)>>]
  OBVIOUS
<1>5. r.at = now /\ r.id[1] = a /\ now \in Nat
  BY <1>4 DEF LInv, LTyped
<1>6. PICK out \in Reserve(bucket, s, r) :
        /\ bucket' = out.bucket
        /\ failed' = {f \in failed : f[1] \notin out.dropped \/ Cardinality(bucket[f[1]]) >= Limit}
        /\ attempt' = [attempt EXCEPT ![a] = Reserving(attempt[a], out.taken)]
  BY <1>3, <1>4 DEF ReserveNext
<1>7. Reserves(bucket, s, r, out)
  BY ReserveReserves DEF LInv
<1>8. out.taken = {} \/ out.taken = {<<s, r>>}
  BY <1>7 DEF Reserves
<1>9. PICK c : c = Reserving(attempt[a], out.taken)
  OBVIOUS
<1>10. attempt' = [attempt EXCEPT ![a] = c]
  BY <1>6, <1>9
<1>11. /\ DOMAIN c = {"todo", "taken", "phase"} /\ c.todo \in {<<>>, Tail(attempt[a].todo)}
       /\ c.taken = attempt[a].taken \cup out.taken /\ c.phase \in {"refused", "checking", "reserving"}
  <2>1. CASE out.taken = {}
    BY <1>2, <1>9, <2>1 DEF Reserving
  <2>2. CASE out.taken # {}
    BY <1>1, <1>2, <1>9, <2>2 DEF Reserving
  <2>3. QED
    BY <2>1, <2>2
<1>12. c.todo \in Seq(Subjects)
  <2>1. Tail(attempt[a].todo) \in Seq(Subjects) /\ <<>> \in Seq(Subjects)
    BY <1>1, <1>2
  <2>2. QED
    BY <1>11, <2>1
<1>13. \A t \in c.taken : t = <<t[1], t[2]>> /\ Reserved(t[1], t[2], {a})
  <2>1. \A t \in attempt[a].taken : t = <<t[1], t[2]>> /\ Reserved(t[1], t[2], {a})
    BY DEF LInv, Owned
  <2>2. \A t \in out.taken : t = <<t[1], t[2]>> /\ Reserved(t[1], t[2], {a})
    BY <1>5, <1>8 DEF Reserved
  <2>3. QED
    BY <1>11, <2>1, <2>2
<1>14. /\ attempt'[a] = c /\ \A x \in Attempts \ {a} : attempt'[x] = attempt[x]
       /\ DOMAIN attempt' = Attempts
       /\ \A x \in Attempts : /\ DOMAIN attempt'[x] = {"todo", "taken", "phase"}
                              /\ attempt'[x].todo \in Seq(Subjects)
       /\ Owned'
       /\ \A f \in failed : f[2].id[1] # a /\ attempt'[f[2].id[1]].phase = "over"
  BY <1>1, <1>10, <1>11, <1>12, <1>13, AttemptMoves
<1>15. /\ s \notin out.dropped /\ DOMAIN bucket' = Subjects /\ out.dropped \subseteq Subjects
       /\ \A x \in out.dropped : Unaged(bucket[x]) = {} \/ Cardinality(bucket[x]) < Limit
       /\ \A x \in Subjects \ {s} : bucket'[x] = IF x \in out.dropped THEN {} ELSE bucket[x]
       /\ \/ out.taken = {} /\ bucket'[s] \in {bucket[s], Unaged(bucket[s])}
          \/ /\ out.taken = {<<s, r>>} /\ Cardinality(Unaged(bucket[s])) < Limit
             /\ bucket'[s] = Unaged(bucket[s]) \cup {r}
  BY <1>6, <1>7 DEF Reserves
<1>16. \A x \in Subjects : IsFiniteSet(bucket'[x]) /\ Cardinality(bucket'[x]) <= Limit
  <2>1. SUFFICES ASSUME NEW x \in Subjects
                 PROVE  IsFiniteSet(bucket'[x]) /\ Cardinality(bucket'[x]) <= Limit
    OBVIOUS
  <2>2. IsFiniteSet(bucket[x]) /\ Cardinality(bucket[x]) <= Limit
    BY DEF LInv, LTyped, FailuresStayCounted
  <2>3. CASE bucket'[x] \subseteq bucket[x]
    <3>1. /\ IsFiniteSet(bucket'[x]) /\ Cardinality(bucket'[x]) \in Nat
          /\ Cardinality(bucket[x]) \in Nat /\ Cardinality(bucket'[x]) <= Cardinality(bucket[x])
      BY <2>2, <2>3, FinitePart
    <3>2. QED
      BY <2>2, <3>1, KlConstantsOK
  <2>4. CASE x = s /\ bucket'[s] = Unaged(bucket[s]) \cup {r} /\ Cardinality(Unaged(bucket[s])) < Limit
    <3>1. Unaged(bucket[s]) \subseteq bucket[s]
      BY DEF Unaged
    <3>2. IsFiniteSet(Unaged(bucket[s])) /\ Cardinality(Unaged(bucket[s])) \in Nat
      BY <2>2, <2>4, <3>1, FinitePart
    <3>3. /\ IsFiniteSet(bucket'[s])
          /\ Cardinality(bucket'[s]) \in {Cardinality(Unaged(bucket[s])), Cardinality(Unaged(bucket[s])) + 1}
      BY <2>4, <3>2, FS_AddElement
    <3>4. QED
      BY <2>4, <3>2, <3>3, KlConstantsOK
  <2>5. QED
    BY <1>15, <2>3, <2>4 DEF Unaged
<1>17. LTyped'
  <2>1. \A x \in Subjects : \A q \in bucket'[x] : q.at \in Nat
    <3>1. \A x \in Subjects : \A q \in bucket[x] : q.at \in Nat
      BY DEF LInv, LTyped
    <3>2. QED
      BY <1>5, <1>15, <3>1 DEF Unaged
  <2>2. QED
    BY <1>1, <1>5, <1>14, <1>15, <1>16, <2>1 DEF LTyped
<1>18. Spent'
  <2>1. \A f \in failed' : f \in failed
    BY <1>6
  <2>2. QED
    BY <1>1, <1>14, <2>1 DEF LInv, Spent, Recent
<1>19. FailuresStayCounted'
  <2>1. ASSUME NEW f \in failed' PROVE f[2] \in bucket'[f[1]]
    <3>1. f \in failed /\ (f[1] \notin out.dropped \/ Cardinality(bucket[f[1]]) >= Limit)
      BY <1>6, <2>1
    <3>2. f[1] \in Subjects /\ f[2] \in Unaged(bucket[f[1]])
      BY <3>1 DEF LInv, FailuresStayCounted, Spent, Reserved, Unaged
    <3>3. f[1] \notin out.dropped
      <4>1. IsFiniteSet(bucket[f[1]]) /\ Cardinality(bucket[f[1]]) \in Nat
        BY <3>2, FS_CardinalityType DEF LInv, LTyped
      <4>2. QED
        BY <1>15, <3>1, <3>2, <4>1, KlConstantsOK
    <3>4. CASE f[1] = s
      BY <1>15, <3>2, <3>4 DEF Unaged
    <3>5. CASE f[1] # s
      BY <1>15, <3>2, <3>3, <3>5 DEF Unaged
    <3>6. QED
      BY <3>4, <3>5
  <2>2. ASSUME NEW x \in Subjects, NEW q \in bucket'[x], <<x, q>> \notin failed', now - q.at < Window
        PROVE  \E y \in Attempts : attempt'[y].phase \notin {"free", "over"} /\ <<x, q>> \in attempt'[y].taken
    <3>1. CASE x = s /\ q = r /\ out.taken = {<<s, r>>}
      BY <1>11, <1>14, <3>1
    <3>2. CASE q \in bucket[x] /\ x \notin out.dropped
      <4>1. <<x, q>> \notin failed
        <5>1. SUFFICES ASSUME <<x, q>> \in failed PROVE FALSE
          OBVIOUS
        <5>2. <<x, q>>[1] = x
          OBVIOUS
        <5>3. QED
          BY <1>6, <2>2, <3>2, <5>1, <5>2
      <4>2. PICK y \in Attempts : attempt[y].phase \notin {"free", "over"} /\ <<x, q>> \in attempt[y].taken
        BY <2>2, <3>2, <4>1 DEF LInv, FailuresStayCounted, Ongoing, Recent
      <4>3. QED
        BY <1>11, <1>14, <4>2
    <3>3. QED
      BY <1>15, <2>2, <3>1, <3>2 DEF Unaged
  <2>3. QED
    BY <1>1, <1>16, <2>1, <2>2 DEF FailuresStayCounted, Ongoing, Recent
<1>20. QED
  BY <1>14, <1>17, <1>18, <1>19 DEF LInv

\* McpRateLimiter.reserve and release: a burst of guesses that overlap cannot pass the limit,
\* a success takes back its own reservation and never a failed guess, and no flood of other
\* subjects resets a throttle that is at its limit.
THEOREM FailedGuessesCount == KlSpec => []FailuresStayCounted
<1>1. LInv /\ [KlNext]_klVars => LInv'
  <2> SUFFICES ASSUME LInv, [KlNext]_klVars PROVE LInv'
    OBVIOUS
  <2>1. ASSUME NEW a \in Attempts, Begin(a) \/ ReserveNext(a) \/ Fail(a) \/ Settle(a) PROVE LInv'
    BY <2>1, BeginCounts, ReserveCounts, FailCounts, SettleCounts
  <2>2. CASE Tick
    BY <2>2, TickCounts
  <2>3. CASE UNCHANGED klVars
    BY <2>3 DEF klVars, LInv, LTyped, Owned, Spent, FailuresStayCounted, Recent, Ongoing
  <2>4. QED
    BY <2>1, <2>2, <2>3 DEF KlNext
<1>2. LInv => FailuresStayCounted
  BY DEF LInv
<1>3. QED
  BY <1>1, <1>2, LimiterStart, PTL DEF KlSpec

-----------------------------------------------------------------------------
(* McpServers *)

Asked == {s[1] : s \in sent}   \* the calls whose request left
Heard == {"stored", "clause_v_violation", "http_error", "unreachable", "ok", "not_found"}
Codes == {"write_disabled", "bad_argument", "user_request_required", "secret_refused",
          "no_url", "no_key", "key_not_allowed"}

MTyped ==
  /\ DOMAIN tool = Calls
  /\ \A c \in Calls :
       /\ DOMAIN tool[c] = {"pc", "name", "args", "said"}
       /\ tool[c].pc \in {"new", "read", "waiting", "done"}
       /\ tool[c].pc # "new" => tool[c].args \in Arguments(tool[c].name)
       /\ tool[c].pc = "done" => tool[c].said \in Heard \cup Codes

\* Only a call that passed its checks has left, and what left may still be on its way.
Left ==
  /\ wire \cup records \cup DOMAIN replies \subseteq Asked /\ wire \cap records = {}
  /\ \A c \in Calls : c \in Asked =>
       /\ tool[c].pc \in {"waiting", "done"}
       /\ tool[c].pc = "done" => tool[c].said \in Heard
       /\ setup.server = "ledger" /\ tool[c].name = "write" => tool[c].args = "good" /\ setup.write
  /\ Asked \subseteq Calls
  /\ \A s \in sent : s[2] # "" => KeyMayTravel
  /\ setup.server = "ledger" => \A c \in records : tool[c].name = "write"

\* An answer, heard or under way, is the last word on its call.
Decided(c, o, R, W) ==
  /\ o = "stored" => c \in R
  /\ o = "clause_v_violation" => c \notin R \cup W
Final ==
  /\ \A c \in DOMAIN replies : replies[c] \in Heard /\ Decided(c, replies[c], records, wire) /\ c \notin wire
  /\ \A c \in Calls : tool[c].pc = "done" => Decided(c, tool[c].said, records, wire)

MInv == MTyped /\ Left /\ Final

LEMMA McpStart == MsInit => MInv
<1> SUFFICES ASSUME MsInit PROVE MInv
  OBVIOUS
<1>1. \A c \in Calls : tool[c] = Untouched
  BY DEF MsInit
<1>2. Untouched.pc = "new" /\ DOMAIN Untouched = {"pc", "name", "args", "said"}
  BY DEF Untouched
<1>3. wire = {} /\ records = {} /\ sent = {} /\ DOMAIN replies = {}
  BY DEF MsInit
<1>4. QED
  BY <1>1, <1>2, <1>3 DEF MsInit, MInv, MTyped, Left, Final, Asked

\* A call that moves.
LEMMA CallMoves ==
  ASSUME MInv, NEW c \in Calls, NEW t, tool' = [tool EXCEPT ![c] = t]
  PROVE  tool'[c] = t /\ DOMAIN tool' = Calls /\ \A b \in Calls \ {c} : tool'[b] = tool[b]
BY DEF MInv, MTyped

LEMMA ReceiveSays ==
  ASSUME MInv, NEW c \in Calls, Receive(c)
  PROVE  MInv'
<1>1. PICK n, a : /\ a \in Arguments(n)
                  /\ tool' = [tool EXCEPT ![c] = [pc |-> "read", name |-> n, args |-> a, said |-> ""]]
  BY DEF Receive
<1>2. tool[c].pc = "new" /\ UNCHANGED <<setup, keyFile, wire, replies, sent, records>>
  BY DEF Receive
<1>3. PICK t : t = [pc |-> "read", name |-> n, args |-> a, said |-> ""]
  OBVIOUS
<1>4. DOMAIN t = {"pc", "name", "args", "said"} /\ t.pc = "read" /\ t.name = n /\ t.args = a
  BY <1>3
<1>5. tool'[c] = t /\ DOMAIN tool' = Calls /\ \A b \in Calls \ {c} : tool'[b] = tool[b]
  BY <1>1, <1>3, CallMoves
<1>6. c \notin Asked /\ UNCHANGED Asked
  BY <1>2 DEF MInv, Left, Asked
<1>7. MTyped'
  <2>1. \A b \in Calls : /\ DOMAIN tool'[b] = {"pc", "name", "args", "said"}
                         /\ tool'[b].pc \in {"new", "read", "waiting", "done"}
                         /\ tool'[b].pc # "new" => tool'[b].args \in Arguments(tool'[b].name)
                         /\ tool'[b].pc = "done" => tool'[b].said \in Heard \cup Codes
    BY <1>1, <1>4, <1>5 DEF MInv, MTyped
  <2>2. QED
    BY <1>5, <2>1 DEF MTyped, Arguments
<1>8. Left'
  BY <1>2, <1>5, <1>6 DEF MInv, Left, KeyMayTravel
<1>9. Final'
  BY <1>2, <1>4, <1>5 DEF MInv, Final, Decided
<1>10. QED
  BY <1>7, <1>8, <1>9 DEF MInv

\* What Refusal says, and what its silence means.
LEMMA SilenceMeansChecked ==
  ASSUME NEW n, NEW a \in Arguments(n), NEW works \in BOOLEAN
  PROVE  /\ Refusal(n, a, works) \in {""} \cup Codes
         /\ Refusal(n, a, works) = "" =>
              /\ KeyFor(n) # "" => KeyMayTravel
              /\ setup.server = "ledger" /\ n = "write" => a = "good" /\ setup.write
<1>1. /\ SendRefusal(n) \in {""} \cup Codes
      /\ SendRefusal(n) = "" => (KeyFor(n) # "" => KeyMayTravel)
  BY DEF SendRefusal, Codes
<1>2. ReadRefusal(a) \in {""} \cup Codes
  BY DEF ReadRefusal, Codes
<1>3. /\ WriteRefusal(a, works) \in {""} \cup Codes
      /\ WriteRefusal(a, works) = "" =>
           setup.write /\ a \notin {"not a decision", "not asked for", "secret"}
  BY DEF WriteRefusal, LooksSecret, Codes
<1>4. n = "write" => a \in {"good", "not a decision", "not asked for", "secret"}
  BY DEF Arguments
<1>5. QED
  BY <1>1, <1>2, <1>3, <1>4 DEF Refusal

LEMMA HandleSays ==
  ASSUME MInv, NEW c \in Calls, NEW works \in BOOLEAN, Handle(c, works)
  PROVE  MInv'
<1> DEFINE n == tool[c].name
           code == Refusal(tool[c].name, tool[c].args, works)
<1>1. tool[c].pc = "read" /\ UNCHANGED <<setup, keyFile, replies, records>>
  BY DEF Handle
<1>2. /\ code \in {""} \cup Codes
      /\ code = "" => /\ KeyFor(n) # "" => KeyMayTravel
                      /\ setup.server = "ledger" /\ n = "write" => tool[c].args = "good" /\ setup.write
  BY <1>1, SilenceMeansChecked DEF MInv, MTyped
<1>3. c \notin Asked
  BY <1>1 DEF MInv, Left
<1>4. DOMAIN tool[c] = {"pc", "name", "args", "said"}
  BY DEF MInv, MTyped
<1>5. CASE code # ""
  <2>1. Answers(c, code) /\ UNCHANGED <<wire, sent>>
    BY <1>5 DEF Handle
  <2>2. PICK t : t = [tool[c] EXCEPT !.pc = "done", !.said = code]
    OBVIOUS
  <2>3. /\ DOMAIN t = {"pc", "name", "args", "said"} /\ t.pc = "done" /\ t.said = code
        /\ t.name = n /\ t.args = tool[c].args
    BY <1>4, <2>2
  <2>4. tool' = [tool EXCEPT ![c] = t]
    BY <2>1, <2>2 DEF Answers, MInv, MTyped
  <2>5. tool'[c] = t /\ DOMAIN tool' = Calls /\ \A b \in Calls \ {c} : tool'[b] = tool[b]
    BY <2>4, CallMoves
  <2> HIDE DEF code, n
  <2>6. UNCHANGED Asked
    BY <2>1 DEF Asked
  <2>7. MTyped'
    <3>1. tool[c].args \in Arguments(tool[c].name)
      BY <1>1 DEF MInv, MTyped
    <3>2. \A b \in Calls : /\ DOMAIN tool'[b] = {"pc", "name", "args", "said"}
                           /\ tool'[b].pc \in {"new", "read", "waiting", "done"}
                           /\ tool'[b].pc # "new" => tool'[b].args \in Arguments(tool'[b].name)
                           /\ tool'[b].pc = "done" => tool'[b].said \in Heard \cup Codes
      BY <1>2, <1>5, <2>3, <2>5, <3>1 DEF MInv, MTyped, n
    <3>3. QED
      BY <2>5, <3>2 DEF MTyped, Arguments
  <2>8. Left'
    BY <1>1, <1>3, <2>1, <2>5, <2>6 DEF MInv, Left, KeyMayTravel
  <2>9. code \notin {"stored", "clause_v_violation"}
    BY <1>2 DEF Codes
  <2>10. Final'
    BY <1>1, <2>1, <2>3, <2>5, <2>9 DEF MInv, Final, Decided
  <2>11. QED
    BY <2>7, <2>8, <2>10 DEF MInv
<1>6. CASE code = ""
  <2> PICK k : k = KeyFor(n)
    OBVIOUS
  <2>1. /\ tool' = [tool EXCEPT ![c].pc = "waiting"]
        /\ wire' = wire \cup {c} /\ sent' = sent \cup {<<c, k>>}
    BY <1>6 DEF Handle
  <2>2. PICK t : t = [tool[c] EXCEPT !.pc = "waiting"]
    OBVIOUS
  <2>3. /\ DOMAIN t = {"pc", "name", "args", "said"} /\ t.pc = "waiting"
        /\ t.name = n /\ t.args = tool[c].args
    BY <1>4, <2>2
  <2>4. tool' = [tool EXCEPT ![c] = t]
    BY <2>1, <2>2 DEF MInv, MTyped
  <2>5. tool'[c] = t /\ DOMAIN tool' = Calls /\ \A b \in Calls \ {c} : tool'[b] = tool[b]
    BY <2>4, CallMoves
  <2>6. Asked' = Asked \cup {c}
    <3>1. <<c, k>>[1] = c
      OBVIOUS
    <3>2. Asked' = {s[1] : s \in sent} \cup {<<c, k>>[1]}
      BY <2>1 DEF Asked
    <3>3. QED
      BY <3>1, <3>2 DEF Asked
  <2> HIDE DEF code
  <2>7. MTyped'
    <3>1. tool[c].args \in Arguments(tool[c].name)
      BY <1>1 DEF MInv, MTyped
    <3>2. \A b \in Calls : /\ DOMAIN tool'[b] = {"pc", "name", "args", "said"}
                           /\ tool'[b].pc \in {"new", "read", "waiting", "done"}
                           /\ tool'[b].pc # "new" => tool'[b].args \in Arguments(tool'[b].name)
                           /\ tool'[b].pc = "done" => tool'[b].said \in Heard \cup Codes
      BY <2>3, <2>5, <3>1 DEF MInv, MTyped
    <3>3. QED
      BY <2>5, <3>2 DEF MTyped, Arguments
  <2>8. Left'
    <3>1. wire' \cup records' \cup DOMAIN replies' \subseteq Asked' /\ wire' \cap records' = {}
      BY <1>1, <1>3, <2>1, <2>6 DEF MInv, Left
    <3>2. \A b \in Calls : b \in Asked' =>
            /\ tool'[b].pc \in {"waiting", "done"}
            /\ tool'[b].pc = "done" => tool'[b].said \in Heard
            /\ setup'.server = "ledger" /\ tool'[b].name = "write" => tool'[b].args = "good" /\ setup'.write
      <4>1. ASSUME NEW b \in Calls, b # c, b \in Asked'
            PROVE  /\ tool[b].pc \in {"waiting", "done"}
                   /\ tool[b].pc = "done" => tool[b].said \in Heard
                   /\ setup.server = "ledger" /\ tool[b].name = "write" => tool[b].args = "good" /\ setup.write
        BY <2>6, <4>1 DEF MInv, Left
      <4>2. t.pc = "waiting" /\ (setup.server = "ledger" /\ t.name = "write" => t.args = "good" /\ setup.write)
        BY <1>2, <1>6, <2>3
      <4>3. QED
        BY <1>1, <2>5, <4>1, <4>2
    <3>3. \A s \in sent' : s[2] # "" => KeyMayTravel
      <4>1. <<c, k>>[2] = k /\ (k # "" => KeyMayTravel)
        BY <1>2, <1>6
      <4>2. QED
        BY <2>1, <4>1 DEF MInv, Left
    <3>4. \A b \in records : b \in Calls /\ b # c
      BY <1>3 DEF MInv, Left
    <3>5. setup'.server = "ledger" => \A b \in records' : tool'[b].name = "write"
      BY <1>1, <2>5, <3>4 DEF MInv, Left
    <3>6. QED
      BY <1>1, <2>6, <3>1, <3>2, <3>3, <3>5 DEF MInv, Left, KeyMayTravel
  <2>9. Final'
    <3>1. c \notin records /\ c \notin DOMAIN replies
      BY <1>3 DEF MInv, Left
    <3>2. \A b \in DOMAIN replies : replies[b] \in Heard /\ Decided(b, replies[b], records', wire') /\ b \notin wire'
      BY <1>1, <2>1, <3>1 DEF MInv, Final, Decided
    <3>3. \A b \in Calls : tool'[b].pc = "done" => Decided(b, tool[b].said, records', wire') /\ tool'[b] = tool[b]
      BY <1>1, <2>1, <2>3, <2>5 DEF MInv, Final, Decided
    <3>4. QED
      BY <1>1, <3>2, <3>3 DEF Final, Decided
  <2>10. QED
    BY <2>7, <2>8, <2>9 DEF MInv
<1>7. QED
  BY <1>5, <1>6

LEMMA DeliverSays ==
  ASSUME MInv, NEW c \in Calls, Deliver(c)
  PROVE  MInv'
<1>1. PICK o \in Outcomes(c), heard \in BOOLEAN :
        /\ records' = IF o = "stored" THEN records \cup {c} ELSE records
        /\ replies' = IF heard /\ tool[c].pc = "waiting" THEN [x \in {c} |-> o] ELSE replies
  BY DEF Deliver
<1>2. c \in wire /\ wire' = wire \ {c} /\ UNCHANGED <<setup, keyFile, tool, sent>>
  BY DEF Deliver
<1>3. o \in Heard /\ (o = "stored" => tool[c].name = "write")
  BY <1>1 DEF Outcomes, DraftTools, Heard
<1>4. c \in Asked /\ UNCHANGED Asked /\ c \notin DOMAIN replies
  BY <1>2 DEF MInv, Left, Final, Asked
<1>5. DOMAIN replies' \subseteq DOMAIN replies \cup {c}
      /\ \A x \in DOMAIN replies' : (x # c /\ x \in DOMAIN replies /\ replies'[x] = replies[x]) \/ (x = c /\ replies'[x] = o)
  BY <1>1, <1>4
<1>6. MTyped'
  BY <1>2 DEF MInv, MTyped, Arguments
<1>7. Left'
  BY <1>1, <1>2, <1>3, <1>4, <1>5 DEF MInv, Left, KeyMayTravel
<1>8. Final'
  <2>1. ASSUME NEW x, NEW p, x # c, Decided(x, p, records, wire) PROVE Decided(x, p, records', wire')
    BY <1>1, <1>2, <2>1 DEF Decided
  <2>2. o = "stored" => c \in records'
    BY <1>1
  <2>3. ASSUME o = "clause_v_violation", c \notin records PROVE c \notin records' \cup wire'
    BY <1>1, <1>2, <2>3
  <2>4. ASSUME tool[c].pc = "done" PROVE Decided(c, tool[c].said, records', wire')
    BY <1>1, <1>2, <2>4 DEF MInv, Final, Decided
  <2>5. ASSUME NEW x \in DOMAIN replies'
        PROVE  replies'[x] \in Heard /\ Decided(x, replies'[x], records', wire') /\ x \notin wire'
    <3>1. CASE x # c
      BY <1>2, <1>5, <2>1, <3>1 DEF MInv, Final
    <3>2. CASE x = c
      <4>1. c \notin records /\ c \notin wire'
        BY <1>2 DEF MInv, Left
      <4>2. QED
        BY <1>3, <1>5, <2>2, <2>3, <3>2, <4>1 DEF Decided
    <3>3. QED
      BY <3>1, <3>2
  <2>6. ASSUME NEW x \in Calls, tool[x].pc = "done" PROVE Decided(x, tool[x].said, records', wire')
    <3>1. CASE x # c
      BY <2>1, <2>6, <3>1 DEF MInv, Final
    <3>2. CASE x = c
      BY <2>4, <2>6, <3>2
    <3>3. QED
      BY <3>1, <3>2
  <2>7. QED
    BY <1>2, <2>5, <2>6 DEF Final, Decided
<1>9. QED
  BY <1>6, <1>7, <1>8 DEF MInv

\* A call that hears its answer, or stops waiting for it.
LEMMA AnswerSays ==
  ASSUME MInv, NEW c \in Calls, Hear(c) \/ GiveUp(c)
  PROVE  MInv'
<1>1. PICK o : Answers(c, o) /\ o \in Heard /\ Decided(c, o, records, wire)
  <2>1. CASE Hear(c)
    BY <2>1 DEF Hear, MInv, Final
  <2>2. CASE GiveUp(c)
    BY <2>2 DEF GiveUp, Decided, Heard
  <2>3. QED
    BY <2>1, <2>2
<1>2. /\ tool[c].pc = "waiting" /\ replies' = <<>> /\ DOMAIN replies' = {}
      /\ UNCHANGED <<setup, keyFile, wire, sent, records>>
  BY DEF Hear, GiveUp
<1>3. PICK t : t = [tool[c] EXCEPT !.pc = "done", !.said = o]
  OBVIOUS
<1>4. DOMAIN tool[c] = {"pc", "name", "args", "said"} /\ tool[c].args \in Arguments(tool[c].name)
  BY <1>2 DEF MInv, MTyped
<1>5. /\ DOMAIN t = {"pc", "name", "args", "said"} /\ t.pc = "done" /\ t.said = o
      /\ t.name = tool[c].name /\ t.args = tool[c].args
  BY <1>3, <1>4
<1>6. tool' = [tool EXCEPT ![c] = t]
  BY <1>1, <1>3 DEF Answers, MInv, MTyped
<1>7. tool'[c] = t /\ DOMAIN tool' = Calls /\ \A b \in Calls \ {c} : tool'[b] = tool[b]
  BY <1>6, CallMoves
<1>8. UNCHANGED Asked
  BY <1>2 DEF Asked
<1>9. MTyped'
  <2>1. \A b \in Calls : /\ DOMAIN tool'[b] = {"pc", "name", "args", "said"}
                         /\ tool'[b].pc \in {"new", "read", "waiting", "done"}
                         /\ tool'[b].pc # "new" => tool'[b].args \in Arguments(tool'[b].name)
                         /\ tool'[b].pc = "done" => tool'[b].said \in Heard \cup Codes
    BY <1>1, <1>4, <1>5, <1>7 DEF MInv, MTyped
  <2>2. QED
    BY <1>7, <2>1 DEF MTyped, Arguments
<1>10. Left'
  <2>1. \A b \in Calls : tool'[b].name = tool[b].name /\ tool'[b].args = tool[b].args
    BY <1>5, <1>7
  <2>2. \A b \in Calls : b \in Asked =>
          /\ tool'[b].pc \in {"waiting", "done"}
          /\ tool'[b].pc = "done" => tool'[b].said \in Heard
    BY <1>1, <1>5, <1>7 DEF MInv, Left
  <2>3. QED
    BY <1>2, <1>8, <2>1, <2>2 DEF MInv, Left, KeyMayTravel
<1>11. Final'
  BY <1>1, <1>2, <1>5, <1>7 DEF MInv, Final, Decided
<1>12. QED
  BY <1>9, <1>10, <1>11 DEF MInv

\* _request, _http_post and the servers' refusals: what a tool result says of the ledger is
\* true when it is said and stays true, whatever the network still delivers or loses.
THEOREM ToolResultsAreTrue == MsSpec => []ResultsAreTrue
<1>1. MInv /\ [MsNext]_msVars => MInv'
  <2> SUFFICES ASSUME MInv, [MsNext]_msVars PROVE MInv'
    OBVIOUS
  <2>1. ASSUME NEW c \in Calls, Receive(c) \/ (\E works \in BOOLEAN : Handle(c, works)) \/ Deliver(c)
        PROVE  MInv'
    BY <2>1, ReceiveSays, HandleSays, DeliverSays
  <2>2. ASSUME NEW c \in Calls, Hear(c) \/ GiveUp(c) PROVE MInv'
    BY <2>2, AnswerSays
  <2>3. ASSUME NEW c \in Calls, Lost(c) PROVE MInv'
    <3>1. wire' \subseteq wire /\ UNCHANGED <<setup, keyFile, tool, replies, sent, records>>
      BY <2>3 DEF Lost
    <3>2. MTyped'
      BY <3>1 DEF MInv, MTyped, Arguments
    <3>3. Left'
      BY <3>1 DEF MInv, Left, Asked, KeyMayTravel
    <3>4. Final'
      BY <3>1 DEF MInv, Final, Decided
    <3>5. QED
      BY <3>2, <3>3, <3>4 DEF MInv
  <2>4. CASE FileChanges
    BY <2>4 DEF FileChanges, MInv, MTyped, Arguments, Left, Asked, KeyMayTravel, Final, Decided
  <2>5. CASE UNCHANGED msVars
    BY <2>5 DEF msVars, MInv, MTyped, Arguments, Left, Asked, KeyMayTravel, Final, Decided
  <2>6. QED
    BY <2>1, <2>2, <2>3, <2>4, <2>5 DEF MsNext
<1>2. MInv => ResultsAreTrue
  <2> SUFFICES ASSUME MInv PROVE ResultsAreTrue
    OBVIOUS
  <2>1. ASSUME NEW c \in Calls, tool[c].pc = "done"
        PROVE  /\ tool[c].said = "stored" => c \in records
               /\ tool[c].said = "clause_v_violation" => c \notin records
               /\ tool[c].said \notin Heard => c \notin records \cup Asked
    BY <2>1 DEF MInv, Left, Final, Decided
  <2>2. \A s \in sent : s[2] # "" => KeyMayTravel
    BY DEF MInv, Left
  <2>3. setup.server = "ledger" => \A c \in records : tool[c].args = "good" /\ setup.write
    BY DEF MInv, Left
  <2>4. QED
    BY <2>1, <2>2, <2>3 DEF ResultsAreTrue, Heard, Asked
<1>3. QED
  BY <1>1, <1>2, McpStart, PTL DEF MsSpec

-----------------------------------------------------------------------------
(* The import *)

Planned == UNION {DOMAIN d.records : d \in Sources}
Entries == [id : Ids \cup Planned, op : {"create", "update", "backfill"}]

ImportRun(r) ==
  /\ r.phase \in {"off", "planned", "read", "inserted", "verified", "applied"}
  /\ r.phase # "off" =>
       /\ r = [phase |-> r.phase, mode |-> r.mode, resume |-> r.resume, source |-> r.source, plan |-> r.plan,
               inserts |-> r.inserts, boards |-> r.boards]
       /\ IsFiniteSet(DOMAIN r.plan.records) /\ DOMAIN r.plan.records \subseteq Planned
       /\ IsFiniteSet(r.inserts) /\ r.inserts \subseteq DOMAIN r.plan.records

\* A run that inserted rows keeps the chain heads locked; nobody else has them, so that the
\* rows stay those its comparison saw.
KeepsHeads(r) == r.phase \in {"inserted", "verified"} /\ r.inserts # {}
With(have, r) == [i \in DOMAIN have \cup r.inserts |-> IF i \in r.inserts THEN r.plan.records[i] ELSE have[i]]
InsertsFit(r, have) ==
  /\ r.inserts \cap DOMAIN have = {}
  /\ r.phase = "verified" => With(have, r) = r.plan.records

BornOnce(have, log) ==
  \A i \in Ids \cup Planned :
    IF i \in DOMAIN have THEN \E n \in DOMAIN log : Births(log, i) = {n} ELSE Births(log, i) = {}

ImportTyped ==
  /\ file \in Sources
  /\ rows = [i \in DOMAIN rows |-> rows[i]] /\ DOMAIN rows \subseteq Ids \cup Planned
  /\ history \in Seq(Entries)
  /\ DOMAIN run = Imports /\ \A p \in Imports : ImportRun(run[p])

IInv ==
  /\ ImportTyped
  /\ \A p, o \in Imports : KeepsHeads(run[p]) /\ KeepsHeads(run[o]) => p = o
  /\ \A p \in Imports : KeepsHeads(run[p]) => InsertsFit(run[p], rows)
  /\ BornOnce(rows, history)

\* SetToSeq lists every member of a finite set once.
LEMMA SetToSeqOnce ==
  ASSUME NEW S, IsFiniteSet(S)
  PROVE  /\ SetToSeq(S) \in Seq(S)
         /\ \A x \in S : \E j \in DOMAIN SetToSeq(S) : \A k \in DOMAIN SetToSeq(S) : SetToSeq(S)[k] = x <=> k = j
<1>1. PICK n \in Nat : n = Cardinality(S)
  BY FS_CardinalityType
<1>2. ExistsBijection(1..n, S)
  BY <1>1, FS_CardinalityType
<1>3. PICK g : g \in Bijection(1..n, S)
  BY <1>2 DEF ExistsBijection
<1>4. g \in [1..n -> S] /\ IsInjective(g)
  BY <1>3 DEF Bijection, Injection, IsInjective
<1>5. PICK f : f = SetToSeq(S)
  OBVIOUS
<1>6. f \in [1..n -> S] /\ IsInjective(f)
  BY <1>1, <1>4, <1>5 DEF SetToSeq
<1>7. f \in Injection(1..n, S)
  BY <1>6 DEF Injection
<1>8. Cardinality(1..n) = n
  BY FS_Interval
<1>9. f \in Surjection(1..n, S)
  BY <1>1, <1>7, <1>8, FS_Injection
<1>10. \A x \in S : \E i \in 1..n : f[i] = x
  BY <1>9 DEF Surjection
<1>11. f \in Seq(S) /\ DOMAIN f = 1..n
  BY <1>6
<1>12. ASSUME NEW x \in S
       PROVE  \E j \in DOMAIN f : \A k \in DOMAIN f : f[k] = x <=> k = j
  <2>1. PICK j \in 1..n : f[j] = x
    BY <1>10
  <2>2. \A k \in 1..n : f[k] = x <=> k = j
    BY <1>6, <2>1 DEF IsInjective
  <2>3. j \in DOMAIN f /\ \A k \in DOMAIN f : f[k] = x <=> k = j
    BY <1>11, <2>2
  <2>4. QED
    BY <2>3
<1>13. QED
  BY <1>5, <1>11, <1>12

\* The births in a longer history are those there were and those that are new.
LEMMA BirthsAdd ==
  ASSUME NEW log \in Seq(Entries), NEW more \in Seq(Entries), NEW i
  PROVE  Births(log \o more, i) = Births(log, i) \cup {Len(log) + k : k \in Births(more, i)}
<1>1. PICK len \in Nat : len = Len(log) /\ DOMAIN log = 1..len
  OBVIOUS
<1>2. PICK add \in Nat : add = Len(more) /\ DOMAIN more = 1..add
  OBVIOUS
<1>3. PICK all \in Seq(Entries) : all = log \o more
  BY ConcatProperties
<1>4. Len(all) = len + add /\ \A n \in 1..(len + add) : all[n] = IF n <= len THEN log[n] ELSE more[n - len]
  BY <1>1, <1>2, <1>3, ConcatProperties
<1>5. DOMAIN all = 1..(len + add)
  BY <1>4
<1>6. \A n \in 1..len : n \in 1..(len + add) /\ all[n] = log[n]
  BY <1>4
<1>7. \A k \in 1..add : len + k \in 1..(len + add) /\ all[len + k] = more[k]
  BY <1>4
<1>8. \A n \in 1..(len + add) : n \in 1..len \/ \E k \in 1..add : n = len + k
  <2> SUFFICES ASSUME NEW n \in 1..(len + add), n \notin 1..len PROVE n - len \in 1..add /\ n = len + (n - len)
    OBVIOUS
  <2>1. QED
    OBVIOUS
<1>9. ASSUME NEW n PROVE n \in Births(all, i) <=> n \in Births(log, i) \/ \E k \in Births(more, i) : n = len + k
  <2>1. n \in Births(log, i) => n \in Births(all, i)
    BY <1>1, <1>5, <1>6 DEF Births
  <2>2. \A k \in Births(more, i) : len + k \in Births(all, i)
    BY <1>2, <1>5, <1>7 DEF Births
  <2>3. n \in Births(all, i) => n \in Births(log, i) \/ \E k \in Births(more, i) : n = len + k
    <3> SUFFICES ASSUME n \in Births(all, i), n \notin 1..len
                 PROVE  \E k \in Births(more, i) : n = len + k
      BY <1>1, <1>6 DEF Births
    <3>1. PICK k \in 1..add : n = len + k
      BY <1>5, <1>8 DEF Births
    <3>2. k \in Births(more, i)
      BY <1>2, <1>7, <3>1 DEF Births
    <3>3. QED
      BY <3>1, <3>2
  <2>4. QED
    BY <2>1, <2>2, <2>3
<1>10. Births(all, i) = Births(log, i) \cup {len + k : k \in Births(more, i)}
  BY <1>9
<1>11. QED
  BY <1>1, <1>3, <1>10

\* One entry more.
LEMMA BirthsAppend ==
  ASSUME NEW log \in Seq(Entries), NEW e \in Entries, NEW i
  PROVE  /\ Append(log, e) \in Seq(Entries) /\ DOMAIN log \subseteq DOMAIN Append(log, e)
         /\ e.id = i /\ e.op # "update" =>
              Births(Append(log, e), i) = Births(log, i) \cup {Len(log) + 1} /\ Len(log) + 1 \in DOMAIN Append(log, e)
         /\ e.id # i \/ e.op = "update" => Births(Append(log, e), i) = Births(log, i)
<1>1. PICK len \in Nat : len = Len(log) /\ DOMAIN log = 1..len
  OBVIOUS
<1>2. PICK more \in Seq(Entries) : more = <<e>>
  <2>1. <<e>> \in Seq(Entries)
    OBVIOUS
  <2>2. QED
    BY <2>1
<1>3. PICK all \in Seq(Entries) : all = Append(log, e) /\ Len(all) = len + 1
  BY <1>1, AppendProperties
<1>4. all = log \o more
  BY <1>2, <1>3, AppendIsConcat
<1>5. DOMAIN all = 1..(len + 1)
  BY <1>3
<1>6. DOMAIN more = {1} /\ more[1] = e
  BY <1>2
<1>7. Births(more, i) = IF e.id = i /\ e.op # "update" THEN {1} ELSE {}
  BY <1>6 DEF Births
<1>8. Births(all, i) = Births(log, i) \cup {len + k : k \in Births(more, i)}
  BY <1>1, <1>4, BirthsAdd
<1>9. {len + k : k \in {1}} = {len + 1} /\ {len + k : k \in {}} = {}
  OBVIOUS
<1>10. /\ e.id = i /\ e.op # "update" => Births(all, i) = Births(log, i) \cup {len + 1}
       /\ e.id # i \/ e.op = "update" => Births(all, i) = Births(log, i)
  BY <1>7, <1>8, <1>9
<1>11. 1..len \subseteq 1..(len + 1) /\ len + 1 \in 1..(len + 1)
  OBVIOUS
<1>12. QED
  BY <1>1, <1>3, <1>5, <1>10, <1>11

\* Many, one for each of some new rows.
LEMMA BirthsOfImport ==
  ASSUME NEW log \in Seq(Entries), NEW new \in SUBSET (Ids \cup Planned), IsFiniteSet(new),
         NEW all, all = log \o SetToSeq({[id |-> i, op |-> "backfill"] : i \in new}), NEW have, NEW r,
         r.inserts = new, new \cap DOMAIN have = {}, BornOnce(have, log)
  PROVE  all \in Seq(Entries) /\ BornOnce(With(have, r), all)
<1>1. PICK E : E = {[id |-> i, op |-> "backfill"] : i \in new}
  OBVIOUS
<1>2. IsFiniteSet(E)
  <2>1. PICK f : f = [i \in new |-> [id |-> i, op |-> "backfill"]]
    OBVIOUS
  <2>2. f \in Surjection(new, E)
    BY <1>1, <2>1 DEF Surjection
  <2>3. QED
    BY <2>2, FS_Surjection
<1>3. E \subseteq Entries
  BY <1>1 DEF Entries
<1>4. SetToSeq(E) \in Seq(E) /\ \A x \in E : \E n \in DOMAIN SetToSeq(E) : \A k \in DOMAIN SetToSeq(E) : SetToSeq(E)[k] = x <=> k = n
  BY <1>2, SetToSeqOnce
<1>5. PICK more \in Seq(E) : more = SetToSeq(E)
  BY <1>4
<1>6. more \in Seq(Entries)
  BY <1>3, SeqMonotonic
<1>7. \A x \in E : \E n \in DOMAIN more : \A k \in DOMAIN more : more[k] = x <=> k = n
  BY <1>4, <1>5
<1>8. \A k \in DOMAIN more : more[k] \in E
  OBVIOUS
<1>9. all = log \o more
  BY <1>1, <1>5
<1>10. PICK len \in Nat : len = Len(log) /\ DOMAIN log = 1..len
  OBVIOUS
<1>11. PICK add \in Nat : add = Len(more) /\ DOMAIN more = 1..add
  OBVIOUS
<1>12. all \in Seq(Entries) /\ DOMAIN all = 1..(len + add)
  <2>1. log \o more \in Seq(Entries) /\ Len(log \o more) = Len(log) + Len(more)
    BY <1>6, ConcatProperties
  <2>2. all \in Seq(Entries) /\ Len(all) = len + add
    BY <1>9, <1>10, <1>11, <2>1
  <2>3. QED
    BY <2>2
<1>13. \A i \in new : \E n \in 1..add : Births(more, i) = {n}
  <2> SUFFICES ASSUME NEW i \in new PROVE \E n \in 1..add : Births(more, i) = {n}
    OBVIOUS
  <2>1. PICK x : x = [id |-> i, op |-> "backfill"] /\ x \in E
    BY <1>1
  <2>2. PICK n \in DOMAIN more : \A k \in DOMAIN more : more[k] = x <=> k = n
    BY <1>7, <2>1
  <2>3. n \in 1..add /\ \A k \in 1..add : more[k] = x <=> k = n
    BY <1>11, <2>2
  <2>4. \A y \in E : y.id = i /\ y.op # "update" <=> y = x
    BY <1>1, <2>1
  <2>5. \A k \in 1..add : more[k].id = i /\ more[k].op # "update" <=> k = n
    BY <1>8, <1>11, <2>3, <2>4
  <2>6. Births(more, i) = {n}
    BY <1>11, <2>3, <2>5 DEF Births
  <2>7. QED
    BY <2>3, <2>6
<1>14. \A i \in (Ids \cup Planned) \ new : Births(more, i) = {}
  <2>1. \A y \in E : y.id \in new
    BY <1>1
  <2>2. QED
    BY <1>8, <2>1 DEF Births
<1>15. ASSUME NEW i
       PROVE  Births(all, i) = Births(log, i) \cup {len + k : k \in Births(more, i)}
  <2>1. Births(log \o more, i) = Births(log, i) \cup {Len(log) + k : k \in Births(more, i)}
    BY <1>6, BirthsAdd
  <2>2. QED
    BY <1>9, <1>10, <2>1
<1>16. DOMAIN With(have, r) = DOMAIN have \cup new
  BY DEF With
<1>17. ASSUME NEW i \in Ids \cup Planned
       PROVE  IF i \in DOMAIN have \cup new THEN \E n \in DOMAIN all : Births(all, i) = {n} ELSE Births(all, i) = {}
  <2>1. CASE i \in new
    <3>1. PICK n \in 1..add : Births(more, i) = {n}
      BY <1>13, <2>1
    <3>2. Births(log, i) = {}
      BY <2>1 DEF BornOnce
    <3>3. Births(all, i) = {len + n}
      BY <1>15, <3>1, <3>2
    <3>4. len + n \in 1..(len + add)
      OBVIOUS
    <3>5. QED
      BY <1>12, <2>1, <3>3, <3>4
  <2>2. CASE i \notin new
    <3>1. Births(all, i) = Births(log, i)
      <4>1. Births(more, i) = {} /\ {len + k : k \in {}} = {}
        BY <1>14, <2>2
      <4>2. QED
        BY <1>15, <4>1
    <3>2. DOMAIN log \subseteq DOMAIN all
      BY <1>10, <1>12
    <3>3. QED
      BY <2>2, <3>1, <3>2 DEF BornOnce
  <2>3. QED
    BY <2>1, <2>2
<1>18. QED
  BY <1>12, <1>16, <1>17 DEF BornOnce

\* A step of one run that leaves rows and history alone.
LEMMA ImportRunStep ==
  ASSUME IInv, NEW p \in Imports, NEW r, ImportRun(r),
         KeepsHeads(r) => InsertsFit(r, rows) /\ \A o \in Imports \ {p} : ~KeepsHeads(run[o]),
         run' = [run EXCEPT ![p] = r], UNCHANGED <<file, rows, history>>
  PROVE  IInv'
<1>1. \A o \in Imports : run'[o] = IF o = p THEN r ELSE run[o]
  BY DEF IInv, ImportTyped
<1>2. DOMAIN run' = Imports
  BY DEF IInv, ImportTyped
<1>3. ImportTyped'
  BY <1>1, <1>2 DEF IInv, ImportTyped
<1>4. \A a, b \in Imports : KeepsHeads(run'[a]) /\ KeepsHeads(run'[b]) => a = b
  BY <1>1 DEF IInv
<1>5. \A o \in Imports : KeepsHeads(run'[o]) => InsertsFit(run'[o], rows)
  BY <1>1 DEF IInv
<1>6. QED
  BY <1>3, <1>4, <1>5 DEF IInv

LEMMA EndKeeps ==
  ASSUME IInv, NEW p \in Imports, End(p), UNCHANGED <<file, rows, history>>
  PROVE  IInv'
<1>1. PICK r : r = Off
  OBVIOUS
<1>2. ImportRun(r) /\ ~KeepsHeads(r) /\ run' = [run EXCEPT ![p] = r]
  BY <1>1 DEF ImportRun, KeepsHeads, Off, End
<1>3. QED
  BY <1>2, ImportRunStep

\* A plan has the records of its document.
LEMMA PlanIsOfDocument ==
  ASSUME NEW doc \in Sources, NEW null, NEW plan, plan = BuildPlan(doc, null), plan # None
  PROVE  IsFiniteSet(DOMAIN plan.records) /\ DOMAIN plan.records \subseteq Planned
<1>1. PICK stored : stored = IF null THEN NullDangling(doc) ELSE doc.records
  OBVIOUS
<1>2. plan = [records |-> stored, board |-> doc.board]
  BY <1>1 DEF BuildPlan
<1>3. DOMAIN stored = DOMAIN doc.records
  BY <1>1 DEF NullDangling
<1>4. IsFiniteSet(DOMAIN doc.records) /\ DOMAIN doc.records \subseteq Planned
  BY DocumentsEnd DEF Planned
<1>5. QED
  BY <1>2, <1>3, <1>4

LEMMA StartImportKeeps ==
  ASSUME IInv, NEW p \in Imports, Start(p)
  PROVE  IInv'
<1>1. UNCHANGED <<file, rows, history>>
  BY DEF Start
<1>2. PICK mode, resume, null : LET plan == BuildPlan(file, null)
     IN run' = [run EXCEPT ![p] =
          IF plan = None \/ (mode = "verify" /\ resume) THEN Off
          ELSE [phase |-> "planned", mode |-> mode, resume |-> resume, source |-> file, plan |-> plan,
                inserts |-> {}, boards |-> FALSE]]
  BY DEF Start
<1>3. PICK plan : plan = BuildPlan(file, null)
  OBVIOUS
<1>4. CASE plan = None \/ (mode = "verify" /\ resume)
  <2>1. End(p)
    BY <1>2, <1>3, <1>4 DEF End
  <2>2. QED
    BY <1>1, <2>1, EndKeeps
<1>5. CASE ~(plan = None \/ (mode = "verify" /\ resume))
  <2>1. PICK source : source = file
    OBVIOUS
  <2>2. PICK r : r = [phase |-> "planned", mode |-> mode, resume |-> resume, source |-> source, plan |-> plan,
                      inserts |-> {}, boards |-> FALSE]
    OBVIOUS
  <2>3. run' = [run EXCEPT ![p] = r]
    BY <1>2, <1>3, <1>5, <2>1, <2>2
  <2>4. IsFiniteSet(DOMAIN plan.records) /\ DOMAIN plan.records \subseteq Planned
    BY <1>3, <1>5, PlanIsOfDocument DEF IInv, ImportTyped
  <2>5. /\ r = [phase |-> r.phase, mode |-> r.mode, resume |-> r.resume, source |-> r.source, plan |-> r.plan,
                inserts |-> r.inserts, boards |-> r.boards]
        /\ r.phase = "planned" /\ r.plan = plan /\ r.inserts = {}
    BY <2>2
  <2>6. ImportRun(r) /\ ~KeepsHeads(r)
    BY <2>4, <2>5, FS_EmptySet DEF ImportRun, KeepsHeads
  <2>7. QED
    BY <1>1, <2>3, <2>6, ImportRunStep
<1>6. QED
  BY <1>4, <1>5

LEMMA ReadTargetKeeps ==
  ASSUME IInv, NEW p \in Imports, ReadTarget(p)
  PROVE  IInv'
<1>1. UNCHANGED <<file, rows, history>>
  BY DEF ReadTarget
<1>2. CASE End(p)
  BY <1>1, <1>2, EndKeeps
<1>3. CASE ~End(p)
  <2>1. PICK r : r = run[p] /\ r.phase = "planned" /\ ImportRun(r)
    BY DEF ReadTarget, IInv, ImportTyped
  <2>2. PICK boards, inserts : boards = (board = None) /\ inserts = DOMAIN r.plan.records \ DOMAIN rows
    OBVIOUS
  <2>3. PICK c : c = [r EXCEPT !.phase = "read", !.boards = boards, !.inserts = inserts]
    OBVIOUS
  <2>4. run' = [run EXCEPT ![p] = c]
    BY <1>3, <2>1, <2>2, <2>3 DEF ReadTarget
  <2>5. /\ c = [phase |-> c.phase, mode |-> c.mode, resume |-> c.resume, source |-> c.source, plan |-> c.plan,
                inserts |-> c.inserts, boards |-> c.boards]
        /\ c.phase = "read" /\ c.plan = r.plan /\ c.inserts = inserts
    BY <2>1, <2>3 DEF ImportRun
  <2>6. IsFiniteSet(inserts) /\ inserts \subseteq DOMAIN r.plan.records
    BY <2>1, <2>2, FS_Subset DEF ImportRun
  <2>7. ImportRun(c) /\ ~KeepsHeads(c)
    BY <2>1, <2>5, <2>6 DEF ImportRun, KeepsHeads
  <2>8. QED
    BY <1>1, <2>4, <2>7, ImportRunStep
<1>4. QED
  BY <1>2, <1>3

\* A run that goes on to the next phase.
LEMMA PhaseRun ==
  ASSUME NEW r, ImportRun(r), r.phase # "off",
         NEW phase \in {"inserted", "verified", "applied"}, NEW c, c = [r EXCEPT !.phase = phase]
  PROVE  ImportRun(c) /\ c.phase = phase /\ c.plan = r.plan /\ c.inserts = r.inserts
<1>1. /\ c = [phase |-> c.phase, mode |-> c.mode, resume |-> c.resume, source |-> c.source, plan |-> c.plan,
              inserts |-> c.inserts, boards |-> c.boards]
      /\ c.phase = phase /\ c.plan = r.plan /\ c.inserts = r.inserts
  BY DEF ImportRun
<1>2. QED
  BY <1>1 DEF ImportRun

LEMMA InsertKeeps ==
  ASSUME IInv, NEW p \in Imports, Insert(p)
  PROVE  IInv'
<1>1. UNCHANGED <<file, rows, history>>
  BY DEF Insert
<1>2. CASE End(p)
  BY <1>1, <1>2, EndKeeps
<1>3. CASE ~End(p)
  <2>1. PICK r : r = run[p] /\ r.phase = "read" /\ ImportRun(r)
    BY DEF Insert, IInv, ImportTyped
  <2>2. PICK c : c = [r EXCEPT !.phase = "inserted"]
    OBVIOUS
  <2>3. r.inserts \cap DOMAIN rows = {} /\ run' = [run EXCEPT ![p] = c]
    BY <1>3, <2>1, <2>2 DEF Insert
  <2>4. ImportRun(c) /\ c.phase = "inserted" /\ c.inserts = r.inserts
    BY <2>1, <2>2, PhaseRun
  <2>5. KeepsHeads(c) => InsertsFit(c, rows) /\ \A o \in Imports \ {p} : ~KeepsHeads(run[o])
    BY <2>1, <2>3, <2>4 DEF KeepsHeads, InsertsFit, Insert, ChainFree
  <2>6. QED
    BY <1>1, <2>3, <2>4, <2>5, ImportRunStep
<1>4. QED
  BY <1>2, <1>3

LEMMA VerifyKeeps ==
  ASSUME IInv, NEW p \in Imports, Verify(p)
  PROVE  IInv'
<1>1. UNCHANGED <<file, rows, history>>
  BY DEF Verify
<1>2. CASE End(p)
  BY <1>1, <1>2, EndKeeps
<1>3. CASE ~End(p)
  <2>1. PICK r : r = run[p] /\ r.phase = "inserted" /\ ImportRun(r)
    BY DEF Verify, IInv, ImportTyped
  <2>2. PICK c : c = [r EXCEPT !.phase = "verified"]
    OBVIOUS
  <2>3. Same(p) /\ run' = [run EXCEPT ![p] = c]
    BY <1>3, <2>1, <2>2 DEF Verify
  <2>4. ImportRun(c) /\ c.phase = "verified" /\ c.plan = r.plan /\ c.inserts = r.inserts
    BY <2>1, <2>2, PhaseRun
  <2>5. With(rows, c) = c.plan.records
    BY <2>1, <2>3, <2>4 DEF With, Same, OwnRows
  <2>6. KeepsHeads(c) => KeepsHeads(r)
    BY <2>1, <2>4 DEF KeepsHeads
  <2>7. KeepsHeads(c) => InsertsFit(c, rows) /\ \A o \in Imports \ {p} : ~KeepsHeads(run[o])
    BY <2>1, <2>4, <2>5, <2>6 DEF IInv, InsertsFit
  <2>8. QED
    BY <1>1, <2>3, <2>4, <2>7, ImportRunStep
<1>4. QED
  BY <1>2, <1>3

\* What a commit leaves: rows and history of the plan, or as they were.
LEMMA CommitLeaves ==
  ASSUME IInv, NEW p \in Imports, CommitImport(p)
  PROVE  /\ rows' = With(rows, run[p]) /\ history' \in Seq(Entries) /\ BornOnce(rows', history')
         /\ DOMAIN rows' \subseteq Ids \cup Planned
         /\ run[p].inserts = {} => rows' = rows
<1>1. PICK r : r = run[p] /\ r.phase = "verified" /\ ImportRun(r)
  BY DEF CommitImport, IInv, ImportTyped
<1>2. PICK have : have = rows
  OBVIOUS
<1>3. PICK log \in Seq(Entries) : log = history
  BY DEF IInv, ImportTyped
<1>4. rows' = With(have, r)
  BY <1>1, <1>2 DEF CommitImport, OwnRows, With
<1>5. PICK new \in SUBSET (Ids \cup Planned) : new = r.inserts /\ IsFiniteSet(new)
  <2>1. r.inserts \in SUBSET (Ids \cup Planned) /\ IsFiniteSet(r.inserts)
    BY <1>1 DEF ImportRun
  <2>2. QED
    BY <2>1
<1>6. PICK all : all = log \o SetToSeq({[id |-> i, op |-> "backfill"] : i \in new})
  OBVIOUS
<1>7. history' = all
  BY <1>1, <1>3, <1>5, <1>6 DEF CommitImport
<1>8. new \cap DOMAIN have = {}
  BY <1>1, <1>2, <1>5 DEF IInv, KeepsHeads, InsertsFit
<1>9. BornOnce(have, log)
  BY <1>2, <1>3 DEF IInv
<1>10. all \in Seq(Entries) /\ BornOnce(With(have, r), all)
  BY <1>5, <1>6, <1>8, <1>9, BirthsOfImport
<1>11. DOMAIN With(have, r) \subseteq Ids \cup Planned
  <2>1. DOMAIN have \subseteq Ids \cup Planned
    BY <1>2 DEF IInv, ImportTyped
  <2>2. QED
    BY <1>5, <2>1 DEF With
<1>12. r.inserts = {} => With(have, r) = have
  <2>1. have = [i \in DOMAIN have |-> have[i]]
    BY <1>2 DEF IInv, ImportTyped
  <2>2. QED
    BY <2>1 DEF With
<1>13. QED
  BY <1>1, <1>2, <1>4, <1>7, <1>10, <1>11, <1>12

LEMMA CommitKeeps ==
  ASSUME IInv, NEW p \in Imports, CommitImport(p)
  PROVE  IInv'
<1>1. PICK r : r = run[p] /\ r.phase = "verified" /\ ImportRun(r)
  BY DEF CommitImport, IInv, ImportTyped
<1>2. PICK c : c = [r EXCEPT !.phase = "applied"]
  OBVIOUS
<1>3. run' = [run EXCEPT ![p] = c] /\ file' = file
  BY <1>1, <1>2 DEF CommitImport
<1>4. ImportRun(c) /\ c.phase = "applied"
  BY <1>1, <1>2, PhaseRun
<1>5. \A o \in Imports : run'[o] = IF o = p THEN c ELSE run[o]
  BY <1>3 DEF IInv, ImportTyped
<1>6. /\ rows' = With(rows, r) /\ history' \in Seq(Entries) /\ BornOnce(rows', history')
      /\ DOMAIN rows' \subseteq Ids \cup Planned
      /\ r.inserts = {} => rows' = rows
  BY <1>1, CommitLeaves
<1>7. rows' = [i \in DOMAIN rows' |-> rows'[i]]
  BY <1>6 DEF With
<1>8. DOMAIN run' = Imports
  BY <1>3 DEF IInv, ImportTyped
<1>9. ImportTyped'
  BY <1>3, <1>4, <1>5, <1>6, <1>7, <1>8 DEF IInv, ImportTyped
<1>10. ~KeepsHeads(c)
  BY <1>4 DEF KeepsHeads
<1>11. \A o \in Imports \ {p} : KeepsHeads(run[o]) => r.inserts = {}
  BY <1>1 DEF IInv, KeepsHeads
<1>12. \A o \in Imports : KeepsHeads(run'[o]) => InsertsFit(run'[o], rows')
  BY <1>5, <1>6, <1>10, <1>11 DEF IInv
<1>13. \A a, b \in Imports : KeepsHeads(run'[a]) /\ KeepsHeads(run'[b]) => a = b
  BY <1>5, <1>10 DEF IInv
<1>14. QED
  BY <1>6, <1>9, <1>12, <1>13 DEF IInv

\* The server writes only while nobody keeps the chain heads.
LEMMA ServerWriteKeeps ==
  ASSUME IInv, ServerCreates \/ ServerUpdates
  PROVE  IInv'
<1>1. UNCHANGED <<file, run>>
  BY DEF ServerCreates, ServerUpdates
<1>2. \A p \in Imports : ~KeepsHeads(run[p])
  BY DEF ServerCreates, ServerUpdates, HeadsFree, KeepsHeads
<1>3. PICK log \in Seq(Entries) : log = history
  BY DEF IInv, ImportTyped
<1>4. PICK have : have = rows
  OBVIOUS
<1>5. BornOnce(have, log) /\ DOMAIN have \subseteq Ids \cup Planned
  BY <1>3, <1>4 DEF IInv, ImportTyped
<1>6. CASE ServerCreates
  <2>1. PICK i \in Ids \ DOMAIN have, x \in Contents :
          /\ rows' = [j \in DOMAIN have \cup {i} |-> IF j = i THEN [content |-> x, supersedes |-> None] ELSE have[j]]
          /\ history' = Append(log, [id |-> i, op |-> "create"])
    BY <1>3, <1>4, <1>6 DEF ServerCreates
  <2>2. PICK e : e = [id |-> i, op |-> "create"]
    OBVIOUS
  <2>3. e \in Entries /\ e.id = i /\ e.op = "create"
    BY <2>2 DEF Entries
  <2>4. PICK all : all = Append(log, e)
    OBVIOUS
  <2>5. all \in Seq(Entries) /\ DOMAIN log \subseteq DOMAIN all /\ Len(log) + 1 \in DOMAIN all
        /\ Births(all, i) = Births(log, i) \cup {Len(log) + 1}
    BY <2>3, <2>4, BirthsAppend
  <2>6. \A k \in Ids \cup Planned : k # i => Births(all, k) = Births(log, k)
    BY <2>3, <2>4, BirthsAppend
  <2>7. Births(log, i) = {}
    BY <1>5, <2>1 DEF BornOnce
  <2>8. history' = all /\ DOMAIN rows' = DOMAIN have \cup {i} /\ rows' = [j \in DOMAIN rows' |-> rows'[j]]
    BY <2>1, <2>2, <2>4
  <2>9. BornOnce(rows', all)
    BY <1>5, <2>5, <2>6, <2>7, <2>8 DEF BornOnce
  <2>10. ImportTyped'
    BY <1>1, <1>5, <2>5, <2>8 DEF IInv, ImportTyped
  <2>11. QED
    BY <1>1, <1>2, <2>8, <2>9, <2>10 DEF IInv
<1>7. CASE ServerUpdates
  <2>1. PICK i \in DOMAIN have, x \in Contents :
          rows' = [have EXCEPT ![i].content = x] /\ history' = Append(log, [id |-> i, op |-> "update"])
    BY <1>3, <1>4, <1>7 DEF ServerUpdates
  <2>2. PICK e : e = [id |-> i, op |-> "update"]
    OBVIOUS
  <2>3. e \in Entries /\ e.op = "update"
    BY <1>5, <2>1, <2>2 DEF Entries
  <2>4. PICK all : all = Append(log, e)
    OBVIOUS
  <2>5. all \in Seq(Entries) /\ DOMAIN log \subseteq DOMAIN all
    BY <2>3, <2>4, BirthsAppend
  <2>6. \A k \in Ids \cup Planned : Births(all, k) = Births(log, k)
    BY <2>3, <2>4, BirthsAppend
  <2>7. history' = all /\ DOMAIN rows' = DOMAIN have /\ rows' = [j \in DOMAIN rows' |-> rows'[j]]
    BY <2>1, <2>2, <2>4
  <2>8. BornOnce(rows', all)
    BY <1>5, <2>5, <2>6, <2>7 DEF BornOnce
  <2>9. ImportTyped'
    BY <1>1, <1>5, <2>5, <2>7 DEF IInv, ImportTyped
  <2>10. QED
    BY <1>1, <1>2, <2>7, <2>8, <2>9 DEF IInv
<1>8. QED
  BY <1>6, <1>7

LEMMA ImportStart == ImInit => IInv
<1> SUFFICES ASSUME ImInit PROVE IInv
  OBVIOUS
<1>1. /\ file \in Sources /\ rows = <<>> /\ history = <<>> /\ DOMAIN run = Imports
      /\ \A p \in Imports : run[p] = Off
  BY DEF ImInit
<1>2. ImportRun(Off) /\ ~KeepsHeads(Off)
  BY DEF ImportRun, KeepsHeads, Off
<1>3. DOMAIN rows = {} /\ DOMAIN history = {} /\ rows = [i \in DOMAIN rows |-> rows[i]] /\ history \in Seq(Entries)
  BY <1>1
<1>4. ImportTyped
  BY <1>1, <1>2, <1>3 DEF ImportTyped
<1>5. BornOnce(rows, history)
  BY <1>3 DEF BornOnce, Births
<1>6. QED
  BY <1>1, <1>2, <1>4, <1>5 DEF IInv

LEMMA ImportStep == IInv /\ [ImNext]_imVars => IInv'
<1> SUFFICES ASSUME IInv, [ImNext]_imVars PROVE IInv'
  OBVIOUS
<1>1. CASE UNCHANGED imVars
  BY <1>1 DEF IInv, ImportTyped, imVars
<1>2. ASSUME NEW p \in Imports, Start(p) \/ ReadTarget(p) \/ Insert(p)
      PROVE  IInv'
  BY <1>2, StartImportKeeps, ReadTargetKeeps, InsertKeeps
<1>3. ASSUME NEW p \in Imports, Verify(p) \/ CommitImport(p)
      PROVE  IInv'
  BY <1>3, VerifyKeeps, CommitKeeps
<1>4. ASSUME NEW p \in Imports, Abandon(p)
      PROVE  IInv'
  BY <1>4, EndKeeps DEF Abandon
<1>5. CASE EditSource
  BY <1>5 DEF EditSource, IInv, ImportTyped
<1>6. CASE ServerCreates \/ ServerUpdates
  BY <1>6, ServerWriteKeeps
<1>7. CASE ServerSetsBoard
  BY <1>7 DEF ServerSetsBoard, IInv, ImportTyped
<1>8. QED
  BY <1>1, <1>2, <1>3, <1>4, <1>5, <1>6, <1>7 DEF ImNext

\* Only its own commit applies a run that was verified.
LEMMA AppliedByCommit ==
  ASSUME IInv, [ImNext]_imVars, NEW p \in Imports, run[p].phase = "verified", run'[p].phase = "applied"
  PROVE  CommitImport(p)
<1>1. DOMAIN run = Imports
  BY DEF IInv, ImportTyped
<1>2. CASE UNCHANGED run
  BY <1>2
<1>3. ASSUME NEW o \in Imports, NEW r, run' = [run EXCEPT ![o] = r], o # p
      PROVE  FALSE
  BY <1>1, <1>3
<1>4. ASSUME NEW o \in Imports, End(o)
      PROVE  FALSE
  <2>1. o = p
    BY <1>3, <1>4 DEF End
  <2>2. run'[p] = Off
    BY <1>1, <1>4, <2>1 DEF End
  <2>3. QED
    BY <2>2 DEF Off
<1>5. ASSUME NEW o \in Imports, NEW r, run' = [run EXCEPT ![o] = r], run[o].phase # "verified"
      PROVE  FALSE
  BY <1>3, <1>5
<1>6. ASSUME NEW o \in Imports, Start(o) PROVE FALSE
  BY <1>5, <1>6 DEF Start
<1>7. ASSUME NEW o \in Imports, ReadTarget(o) PROVE FALSE
  BY <1>4, <1>5, <1>7 DEF ReadTarget
<1>8. ASSUME NEW o \in Imports, Insert(o) PROVE FALSE
  <2>1. CASE End(o)
    BY <1>4, <2>1
  <2>2. CASE run' = [run EXCEPT ![o].phase = "inserted"]
    <3>1. PICK r : r = [run[o] EXCEPT !.phase = "inserted"]
      OBVIOUS
    <3>2. QED
      BY <1>5, <1>8, <2>2, <3>1 DEF Insert
  <2>3. QED
    BY <1>8, <2>1, <2>2 DEF Insert
<1>9. ASSUME NEW o \in Imports, Verify(o) PROVE FALSE
  <2>1. CASE End(o)
    BY <1>4, <2>1
  <2>2. CASE run' = [run EXCEPT ![o].phase = "verified"]
    <3>1. PICK r : r = [run[o] EXCEPT !.phase = "verified"]
      OBVIOUS
    <3>2. QED
      BY <1>5, <1>9, <2>2, <3>1 DEF Verify
  <2>3. QED
    BY <1>9, <2>1, <2>2 DEF Verify
<1>10. ASSUME NEW o \in Imports, Abandon(o) PROVE FALSE
  BY <1>4, <1>10 DEF Abandon
<1>11. ASSUME NEW o \in Imports, CommitImport(o) PROVE CommitImport(p)
  <2>1. PICK r : r = [run[o] EXCEPT !.phase = "applied"]
    OBVIOUS
  <2>2. run' = [run EXCEPT ![o] = r]
    BY <1>11, <2>1 DEF CommitImport
  <2>3. o = p
    BY <1>3, <2>2
  <2>4. QED
    BY <1>11, <2>3
<1>12. CASE EditSource \/ ServerCreates \/ ServerUpdates \/ ServerSetsBoard \/ UNCHANGED imVars
  BY <1>2, <1>12 DEF EditSource, ServerCreates, ServerUpdates, ServerSetsBoard, imVars
<1>13. QED
  BY <1>6, <1>7, <1>8, <1>9, <1>10, <1>11, <1>12 DEF ImNext

\* execute and main (app/pg_import.py): an import that commits rows leaves exactly the records
\* of its plan, its board if there was none, and one birth in the history for every row,
\* whatever else writes, edits the source, crashes or is run again beside it.
THEOREM ImportsAreWhole == ImSpec => ImportIsWhole
<1>1. IInv /\ [ImNext]_imVars => [CommitIsWhole]_imVars
  <2> SUFFICES ASSUME IInv, [ImNext]_imVars, NEW p \in Imports,
                      run[p].phase = "verified", run'[p].phase = "applied", run[p].inserts # {}
               PROVE  /\ rows' = run[p].plan.records
                      /\ run[p].boards => board' = run[p].plan.board
                      /\ \A i \in DOMAIN rows' : \E n \in DOMAIN history' : Births(history', i) = {n}
    BY DEF CommitIsWhole
  <2>1. CommitImport(p)
    BY AppliedByCommit
  <2>2. rows' = With(rows, run[p]) /\ BornOnce(rows', history') /\ DOMAIN rows' \subseteq Ids \cup Planned
    BY <2>1, CommitLeaves
  <2>3. With(rows, run[p]) = run[p].plan.records
    BY DEF IInv, KeepsHeads, InsertsFit
  <2>4. run[p].boards => board' = run[p].plan.board
    BY <2>1 DEF CommitImport, OwnBoard
  <2>5. \A i \in DOMAIN rows' : \E n \in DOMAIN history' : Births(history', i) = {n}
    BY <2>2 DEF BornOnce
  <2>6. QED
    BY <2>2, <2>3, <2>4, <2>5
<1>2. QED
  BY <1>1, ImportStart, ImportStep, PTL DEF ImSpec, ImportIsWhole

-----------------------------------------------------------------------------
(* The drift watcher *)

\* HeldThen, of any check.
HeldIn(i, listed, ledgers) ==
  {View(m[i], listed /\ i \in Replaced(l)) : m \in {n \in ledgers : i \in DOMAIN n}, l \in ledgers}

\* Every id is used once, so that the agent of a record never changes.
OneAuthor(ledgers, ids) ==
  /\ \A m \in ledgers : DOMAIN m \subseteq ids /\ \A i \in DOMAIN m : IsRecord(m[i])
  /\ \A m, n \in ledgers : \A i \in DOMAIN m \cap DOMAIN n : m[i].agent = n[i].agent

ViewsHeld(views, listed, ledgers) ==
  \A i \in DOMAIN views : i \in Records /\ (views[i] # NotFound => views[i] \in HeldIn(i, listed, ledgers))

CheckFits(c, ledgers) ==
  /\ c.pc \in {"none", "list", "read", "log", "ok", "refused", "degraded"}
  /\ c.pc \in {"list", "read", "log"} =>
       /\ c = [pc |-> c.pc, views |-> c.views, superseded |-> c.superseded, listed |-> c.listed,
               served |-> c.served, said |-> c.said]
       /\ ViewsHeld(c.views, c.listed, ledgers)
  /\ c.pc = "list" => DOMAIN c.views = {} /\ c.superseded = {} /\ ~c.listed
  /\ c.pc = "read" => \E l \in ledgers : c.superseded = IF c.listed THEN Replaced(l) ELSE {}
  /\ c.pc = "log" => /\ DOMAIN c.views = Records /\ c.said.summary \in Summaries
                     /\ c.said.verdict = RunCheck(c.said.summary, c.views)

DInv ==
  /\ OneAuthor(moments \cup {recorded}, everUsed)
  /\ CheckFits(check, moments)
  /\ check.pc = "read" => recorded \in moments

Found(views) == {i \in DOMAIN views : views[i] # NotFound}

LEMMA FoundIsHeld ==
  ASSUME DInv, check.pc = "log", NEW V, V = check.views, NEW i \in Found(V)
  PROVE  i \in Records /\ V[i] \in HeldThen(i)
BY DEF DInv, CheckFits, ViewsHeld, HeldIn, HeldThen, Found

\* The records a claim is judged by are those found in its scope.
LEMMA LiveIsFound ==
  ASSUME NEW V, NEW claim
  PROVE  Live(claim, V) = {V[i] : i \in Found(V) \cap Scope(claim, V)}
<1>1. Scope(claim, V) \subseteq DOMAIN V
  BY DEF Scope, Cited
<1>2. QED
  BY <1>1 DEF Live, Found

LEMMA EndpointIsFound ==
  ASSUME NEW V, NEW term
  PROVE  /\ ResolveEndpoint(term, V) \subseteq Found(V)
         /\ term = "old" /\ ResolveEndpoint(term, V) # {} => ResolveEndpoint(term, V) = {V[i].supersedes : i \in Newer(V)}
         /\ term = "new" /\ ResolveEndpoint(term, V) # {} => ResolveEndpoint(term, V) = Newer(V)
         /\ term \notin {"new", "old"} /\ ResolveEndpoint(term, V) # {} =>
              ResolveEndpoint(term, V) = {i \in Found(V) : term \in {i, V[i].agent}}
<1>1. PICK who : who = IF term \in {"new", "old"} THEN Newer(V) ELSE {i \in DOMAIN V : V[i] # NotFound /\ term \in {i, V[i].agent}}
  OBVIOUS
<1>2. ResolveEndpoint(term, V) = IF Cardinality(who) # 1 THEN {} ELSE IF term = "old" THEN {V[i].supersedes : i \in who} ELSE who
  BY <1>1 DEF ResolveEndpoint
<1>3. Newer(V) \subseteq Found(V) /\ \A i \in Newer(V) : V[i].supersedes \in Found(V)
  BY DEF Newer, Found
<1>4. term \notin {"new", "old"} => who = {i \in Found(V) : term \in {i, V[i].agent}}
  BY <1>1 DEF Found
<1>5. QED
  BY <1>1, <1>2, <1>3, <1>4

\* Who a record was by is the same at every moment.
LEMMA AgentIsKept ==
  ASSUME DInv, NEW i, NEW r \in HeldThen(i), NEW o \in HeldThen(i)
  PROVE  r.agent = o.agent
<1>1. PICK m \in moments : i \in DOMAIN m /\ r.agent = m[i].agent
  BY DEF HeldThen, View
<1>2. PICK n \in moments : i \in DOMAIN n /\ o.agent = n[i].agent
  BY DEF HeldThen, View
<1>3. QED
  BY <1>1, <1>2 DEF DInv, OneAuthor

\* Whoever the newer end of a claim may be is somebody the claim is about.
LEMMA NewerIsAbout ==
  ASSUME DInv, check.pc = "log", NEW V, V = check.views, NEW claim, NEW part, part.family = "supersede"
  PROVE  ResolveEndpoint(part.newer, V) \subseteq About(part, claim)
<1>1. About(part, claim) = {i \in Found(V) : part.newer \in {"new", "old"} \/ \E r \in HeldThen(i) : part.newer \in {i, r.agent}}
  BY DEF About, Found
<1>2. CASE part.newer \in {"new", "old"}
  BY <1>1, <1>2, EndpointIsFound
<1>3. CASE part.newer \notin {"new", "old"}
  <2>1. \A i \in Found(V) : V[i] \in HeldThen(i)
    BY FoundIsHeld
  <2>2. QED
    BY <1>1, <1>3, <2>1, EndpointIsFound
<1>4. QED
  BY <1>2, <1>3

\* What replaces the older end of a claim, by the views and by what was held.
LEMMA ReplacedAsHeld ==
  ASSUME DInv, check.pc = "log", NEW V, V = check.views, NEW part,
         NEW b, b = ResolveEndpoint(part.older, V), b # {}, NEW i \in Found(V)
  PROVE  Replaces(i, V[i], part) <=> V[i].supersedes \in b
<1>1. Replaces(i, V[i], part) <=>
        \E j \in Found(V) : /\ V[i].supersedes = j
                            /\ \/ part.older = "old"
                               \/ part.older = "new" /\ j = i
                               \/ part.older \notin {"old", "new"} /\ \E o \in HeldThen(j) : part.older \in {j, o.agent}
  BY DEF Replaces, Found
<1>2. b \subseteq Found(V)
  BY EndpointIsFound
<1>3. V[i].supersedes \in Found(V) <=> i \in Newer(V)
  BY DEF Newer, Found
<1>4. CASE part.older = "old"
  <2>1. b = {V[k].supersedes : k \in Newer(V)}
    BY <1>4, EndpointIsFound
  <2>2. QED
    BY <1>1, <1>2, <1>3, <1>4, <2>1
<1>5. CASE part.older = "new"
  <2>1. b = Newer(V) /\ \A k, l \in b : k = l
    <3>1. b = Newer(V) /\ Cardinality(b) = 1
      BY <1>5 DEF ResolveEndpoint
    <3>2. b \subseteq Records
      BY <1>2, FoundIsHeld
    <3>3. IsFiniteSet(b)
      BY <3>2, RecordsEnd, FS_Subset
    <3>4. QED
      BY <3>1, <3>3, FS_Singleton
  <2>2. QED
    BY <1>1, <1>2, <1>3, <1>5, <2>1
<1>6. CASE part.older \notin {"old", "new"}
  <2>1. b = {j \in Found(V) : part.older \in {j, V[j].agent}}
    BY <1>6, EndpointIsFound
  <2>2. \A j \in Found(V) : \A o \in HeldThen(j) : o.agent = V[j].agent
    BY FoundIsHeld, AgentIsKept
  <2>3. \A j \in Found(V) : V[j] \in HeldThen(j)
    BY FoundIsHeld
  <2>4. \A j \in Found(V) : part.older \in {j, V[j].agent} <=> \E o \in HeldThen(j) : part.older \in {j, o.agent}
    BY <2>2, <2>3
  <2>5. QED
    BY <1>1, <1>2, <1>6, <2>1, <2>4
<1>7. QED
  BY <1>4, <1>5, <1>6

-----------------------------------------------------------------------------
(* What the verdict on one part of a claim says of the records *)

ClaimPart(part) ==
  /\ part.family \in {"actor", "status", "supersede", "commit", "number", "state", "absolute", "entity"}
  /\ part.family = "actor" => part.deed \in {"wrote", "did"}

\* Any other part is about the records it is judged by.
LEMMA PartIsAbout ==
  ASSUME DInv, check.pc = "log", NEW V, V = check.views, NEW claim, NEW part, part.family \notin {"supersede", "status"}
  PROVE  /\ \A i \in About(part, claim) : V[i] \in Live(claim, V) /\ V[i] \in HeldThen(i)
         /\ \A r \in Live(claim, V) : \E i \in About(part, claim) : r = V[i] /\ r \in HeldThen(i)
<1>1. About(part, claim) = Found(V) \cap Scope(claim, V)
  BY DEF About, Found
<1>2. \A i \in Found(V) : V[i] \in HeldThen(i)
  BY FoundIsHeld
<1>3. Live(claim, V) = {V[i] : i \in About(part, claim)}
  BY <1>1, LiveIsFound
<1>4. QED
  BY <1>1, <1>2, <1>3

LEMMA StatusIsAbout ==
  ASSUME DInv, check.pc = "log", NEW V, V = check.views, NEW claim, NEW part, part.family = "status",
         NEW about, about = IF part.about \in DOMAIN V /\ V[part.about] # NotFound THEN {V[part.about]} ELSE Live(claim, V)
  PROVE  \A r \in about : \E i \in About(part, claim) : r = V[i] /\ r \in HeldThen(i)
<1>1. About(part, claim) = IF part.about \in Found(V) THEN {part.about} ELSE Found(V) \cap Scope(claim, V)
  BY DEF About, Found
<1>2. \A i \in Found(V) : V[i] \in HeldThen(i)
  BY FoundIsHeld
<1>3. part.about \in Found(V) <=> part.about \in DOMAIN V /\ V[part.about] # NotFound
  BY DEF Found
<1>4. CASE part.about \in Found(V)
  BY <1>1, <1>2, <1>3, <1>4
<1>5. CASE part.about \notin Found(V)
  <2>1. about = {V[i] : i \in About(part, claim)}
    BY <1>1, <1>3, <1>5, LiveIsFound
  <2>2. QED
    BY <1>1, <1>2, <1>5, <2>1
<1>6. QED
  BY <1>4, <1>5

LEMMA PartIsBacked ==
  ASSUME DInv, check.pc = "log", NEW V, V = check.views, NEW claim, NEW part, ClaimPart(part), Live(claim, V) # {},
         "contradicted" \notin Findings(part, Live(claim, V), V), "unsupported" \notin Findings(part, Live(claim, V), V)
  PROVE  Backed(part, About(part, claim))
<1>1. PICK live : live = Live(claim, V) /\ live # {}
  OBVIOUS
<1>2. PICK found : found = Findings(part, live, V) /\ "contradicted" \notin found /\ "unsupported" \notin found
  BY <1>1
<1>3. CASE part.family = "supersede"
  <2>1. PICK a, b : a = ResolveEndpoint(part.newer, V) /\ b = ResolveEndpoint(part.older, V)
    OBVIOUS
  <2>2. a # {} /\ b # {} /\ \E i \in a : V[i].supersedes \in b
    BY <1>2, <1>3, <2>1 DEF Findings, CheckSupersede, Verdict
  <2>3. PICK i \in a : V[i].supersedes \in b
    BY <2>2
  <2>4. i \in Found(V) /\ V[i] \in HeldThen(i) /\ i \in About(part, claim)
    BY <1>3, <2>1, EndpointIsFound, FoundIsHeld, NewerIsAbout
  <2>5. Replaces(i, V[i], part)
    BY <2>1, <2>2, <2>3, <2>4, ReplacedAsHeld
  <2>6. Opinion(part, i, V[i]) = "yes"
    BY <1>3, <2>5 DEF Opinion
  <2>7. QED
    BY <1>3, <2>4, <2>6 DEF Backed
<1>4. CASE part.family = "status"
  <2>1. PICK about : about = IF part.about \in DOMAIN V /\ V[part.about] # NotFound THEN {V[part.about]} ELSE live
    OBVIOUS
  <2>2. PICK r \in about : Field(r, part.field) = part.word
    BY <1>1, <1>2, <1>4, <2>1 DEF Findings, CheckStatus, Verdict
  <2>3. PICK i \in About(part, claim) : r \in HeldThen(i)
    BY <1>1, <1>4, <2>1, StatusIsAbout
  <2>4. Opinion(part, i, r) = "yes"
    BY <1>4, <2>2 DEF Opinion
  <2>5. QED
    BY <1>4, <2>3, <2>4 DEF Backed
<1>5. ASSUME part.family \notin {"supersede", "status"}, NEW r \in live, \A i : Opinion(part, i, r) = "yes",
             part.family \in {"actor", "state"} => \A o \in live : \A i : Opinion(part, i, o) # "no"
      PROVE  Backed(part, About(part, claim))
  <2>1. PICK i \in About(part, claim) : r \in HeldThen(i)
    BY <1>1, <1>5, PartIsAbout
  <2>2. \A j \in About(part, claim) : V[j] \in live /\ V[j] \in HeldThen(j)
    BY <1>1, <1>5, PartIsAbout
  <2>3. QED
    BY <1>5, <2>1, <2>2 DEF Backed
<1>6. CASE part.family = "actor" /\ part.deed = "wrote"
  <2>1. PICK verdicts : verdicts = {Verdict(r.agent = part.actor) : r \in live}
    OBVIOUS
  <2>2. found = Pick(verdicts) /\ verdicts # {}
    BY <1>1, <1>2, <1>6, <2>1 DEF Findings, CheckActor
  <2>3. "contradicted" \notin verdicts
    BY <1>2, <2>2 DEF Pick
  <2>4. \A r \in live : r.agent = part.actor
    BY <2>1, <2>3 DEF Verdict
  <2>5. \A r \in live : \A i : Opinion(part, i, r) = "yes"
    BY <1>6, <2>4 DEF Opinion
  <2>6. QED
    BY <1>1, <1>5, <1>6, <2>5
<1>7. CASE part.family = "actor" /\ part.deed = "did"
  <2>1. PICK verdicts : verdicts = {IF r.text.did = {} THEN "unsupported" ELSE Verdict(part.actor \in r.text.did) : r \in live}
    OBVIOUS
  <2>2. found = Pick(verdicts) /\ verdicts # {}
    BY <1>1, <1>2, <1>7, <2>1 DEF Findings, CheckActor
  <2>3. "contradicted" \notin verdicts /\ verdicts # {"unsupported"}
    BY <1>2, <2>2 DEF Pick
  <2>4. PICK r \in live : r.text.did # {} /\ part.actor \in r.text.did
    BY <2>1, <2>2, <2>3 DEF Verdict
  <2>5. \A o \in live : o.text.did = {} \/ part.actor \in o.text.did
    BY <2>1, <2>3 DEF Verdict
  <2>6. \A i : Opinion(part, i, r) = "yes"
    BY <1>7, <2>4 DEF Opinion
  <2>7. \A o \in live : \A i : Opinion(part, i, o) # "no"
    BY <1>7, <2>5 DEF Opinion
  <2>8. QED
    BY <1>5, <1>7, <2>6, <2>7
<1>8. CASE part.family = "commit"
  <2>1. PICK r \in live : part.commit \in r.text.commits
    BY <1>2, <1>8 DEF Findings, CheckTokens
  <2>2. \A i : Opinion(part, i, r) = "yes"
    BY <1>8, <2>1 DEF Opinion
  <2>3. QED
    BY <1>5, <1>8, <2>2
<1>9. CASE part.family = "number"
  <2>1. PICK r \in live : \E n \in r.text.numbers : n[2] = part.number
    BY <1>2, <1>9 DEF Findings, CheckNumbers
  <2>2. \A i : Opinion(part, i, r) = "yes"
    BY <1>9, <2>1 DEF Opinion
  <2>3. QED
    BY <1>5, <1>9, <2>2
<1>10. CASE part.family = "state"
  <2>1. {r.text.state : r \in live} \ {"silent"} = {"for"}
    BY <1>2, <1>10 DEF Findings, CheckState
  <2>2. PICK r \in live : r.text.state = "for"
    BY <2>1
  <2>3. \A o \in live : o.text.state \in {"for", "silent"}
    BY <2>1
  <2>4. \A i : Opinion(part, i, r) = "yes"
    BY <1>10, <2>2 DEF Opinion
  <2>5. \A o \in live : \A i : Opinion(part, i, o) # "no"
    BY <1>10, <2>3 DEF Opinion
  <2>6. QED
    BY <1>5, <1>10, <2>4, <2>5
<1>11. CASE part.family \in {"absolute", "entity"}
  <2>1. PICK r \in live : part.word \in r.text.words \cup {r.agent}
    BY <1>1, <1>2, <1>11 DEF Findings, CheckMention
  <2>2. \A i : Opinion(part, i, r) = "yes"
    BY <1>11, <2>1 DEF Opinion
  <2>3. QED
    BY <1>5, <1>11, <2>2
<1>12. QED
  BY <1>3, <1>4, <1>6, <1>7, <1>8, <1>9, <1>10, <1>11 DEF ClaimPart

LEMMA PartIsDisputed ==
  ASSUME DInv, check.pc = "log", NEW V, V = check.views, NEW claim, NEW part, ClaimPart(part),
         "contradicted" \in Findings(part, Live(claim, V), V)
  PROVE  Disputed(part, About(part, claim))
<1>1. PICK live : live = Live(claim, V)
  OBVIOUS
<1>2. PICK found : found = Findings(part, live, V) /\ "contradicted" \in found
  BY <1>1
<1>3. CASE part.family = "supersede"
  <2>1. PICK a, b : a = ResolveEndpoint(part.newer, V) /\ b = ResolveEndpoint(part.older, V)
    OBVIOUS
  <2>2. a # {} /\ b # {} /\ ~\E i \in a : V[i].supersedes \in b
    BY <1>2, <1>3, <2>1 DEF Findings, CheckSupersede, Verdict
  <2>3. PICK i \in a : V[i].supersedes \notin b
    BY <2>2
  <2>4. i \in Found(V) /\ V[i] \in HeldThen(i) /\ i \in About(part, claim)
    BY <1>3, <2>1, EndpointIsFound, FoundIsHeld, NewerIsAbout
  <2>5. ~Replaces(i, V[i], part)
    BY <2>1, <2>2, <2>3, <2>4, ReplacedAsHeld
  <2>6. Opinion(part, i, V[i]) = "no"
    BY <1>3, <2>5 DEF Opinion
  <2>7. QED
    BY <2>4, <2>6 DEF Disputed
<1>4. CASE part.family = "status"
  <2>1. PICK about : about = IF part.about \in DOMAIN V /\ V[part.about] # NotFound THEN {V[part.about]} ELSE live
    OBVIOUS
  <2>2. PICK r \in about : Field(r, part.field) # part.word
    BY <1>1, <1>2, <1>4, <2>1 DEF Findings, CheckStatus, Verdict
  <2>3. PICK i \in About(part, claim) : r \in HeldThen(i)
    BY <1>1, <1>4, <2>1, StatusIsAbout
  <2>4. Opinion(part, i, r) = "no"
    BY <1>4, <2>2 DEF Opinion
  <2>5. QED
    BY <2>3, <2>4 DEF Disputed
<1>5. ASSUME part.family \notin {"supersede", "status"}, NEW r \in live, \A i : Opinion(part, i, r) = "no"
      PROVE  Disputed(part, About(part, claim))
  <2>1. PICK i \in About(part, claim) : r \in HeldThen(i)
    BY <1>1, <1>5, PartIsAbout
  <2>2. QED
    BY <1>5, <2>1 DEF Disputed
<1>6. CASE part.family = "actor" /\ part.deed = "wrote"
  <2>1. PICK verdicts : verdicts = {Verdict(r.agent = part.actor) : r \in live}
    OBVIOUS
  <2>2. found = Pick(verdicts)
    BY <1>2, <1>6, <2>1 DEF Findings, CheckActor
  <2>3. "contradicted" \in verdicts
    BY <1>2, <2>2 DEF Pick
  <2>4. PICK r \in live : r.agent # part.actor
    BY <2>1, <2>3 DEF Verdict
  <2>5. \A i : Opinion(part, i, r) = "no"
    BY <1>6, <2>4 DEF Opinion
  <2>6. QED
    BY <1>5, <1>6, <2>5
<1>7. CASE part.family = "actor" /\ part.deed = "did"
  <2>1. PICK verdicts : verdicts = {IF r.text.did = {} THEN "unsupported" ELSE Verdict(part.actor \in r.text.did) : r \in live}
    OBVIOUS
  <2>2. found = Pick(verdicts)
    BY <1>2, <1>7, <2>1 DEF Findings, CheckActor
  <2>3. "contradicted" \in verdicts
    BY <1>2, <2>2 DEF Pick
  <2>4. PICK r \in live : r.text.did # {} /\ part.actor \notin r.text.did
    BY <2>1, <2>3 DEF Verdict
  <2>5. \A i : Opinion(part, i, r) = "no"
    BY <1>7, <2>4 DEF Opinion
  <2>6. QED
    BY <1>5, <1>7, <2>5
<1>8. CASE part.family = "commit"
  <2>1. PICK r \in live : r.text.slotted /\ part.commit \notin r.text.commits
    BY <1>2, <1>8 DEF Findings, CheckTokens
  <2>2. \A i : Opinion(part, i, r) = "no"
    BY <1>8, <2>1 DEF Opinion
  <2>3. QED
    BY <1>5, <1>8, <2>2
<1>9. CASE part.family = "number"
  <2>1. PICK said : said = UNION {r.text.numbers : r \in live}
    OBVIOUS
  <2>2. (~\E n \in said : n[2] = part.number) /\ \E n \in said : n[1] = part.near
    BY <1>2, <1>9, <2>1 DEF Findings, CheckNumbers
  <2>3. PICK r \in live : (~\E n \in r.text.numbers : n[2] = part.number) /\ \E n \in r.text.numbers : n[1] = part.near
    BY <2>1, <2>2
  <2>4. \A i : Opinion(part, i, r) = "no"
    BY <1>9, <2>3 DEF Opinion
  <2>5. QED
    BY <1>5, <1>9, <2>4
<1>10. CASE part.family = "state"
  <2>1. PICK r \in live : r.text.state = "against"
    <3>1. {r.text.state : r \in live} \ {"silent"} = {"against"}
      BY <1>2, <1>10 DEF Findings, CheckState
    <3>2. QED
      BY <3>1
  <2>2. \A i : Opinion(part, i, r) = "no"
    BY <1>10, <2>1 DEF Opinion
  <2>3. QED
    BY <1>5, <1>10, <2>2
<1>11. CASE part.family \in {"absolute", "entity"}
  BY <1>2, <1>11 DEF Findings, CheckMention
<1>12. QED
  BY <1>3, <1>4, <1>6, <1>7, <1>8, <1>9, <1>10, <1>11 DEF ClaimPart

\* "pass" and "drift" are what the verdicts on the parts come to.
LEMMA VerdictSays ==
  ASSUME NEW summary, NEW V
  PROVE  /\ RunCheck(summary, V) = "pass" =>
              /\ {c \in summary : ~c.skipped} # {}
              /\ \A c \in {d \in summary : ~d.skipped} :
                   /\ c.cites \subseteq Cited(c, V) /\ Live(c, V) # {}
                   /\ \A part \in c.parts : /\ "contradicted" \notin Findings(part, Live(c, V), V)
                                            /\ "unsupported" \notin Findings(part, Live(c, V), V)
         /\ RunCheck(summary, V) = "drift" =>
              \E c \in {d \in summary : ~d.skipped} : \E part \in c.parts : "contradicted" \in Findings(part, Live(c, V), V)
<1>1. PICK claims : claims = {c \in summary : ~c.skipped}
  OBVIOUS
<1>2. PICK results : results = {CheckClaim(c, V) : c \in claims}
  OBVIOUS
<1>3. /\ RunCheck(summary, V) = "pass" => results = {"supported"}
      /\ RunCheck(summary, V) = "drift" => "contradicted" \in results
  BY <1>1, <1>2 DEF RunCheck
<1>4. ASSUME NEW c \in claims
      PROVE  /\ CheckClaim(c, V) = "supported" =>
                  /\ c.cites \subseteq Cited(c, V) /\ Live(c, V) # {}
                  /\ \A part \in c.parts : /\ "contradicted" \notin Findings(part, Live(c, V), V)
                                           /\ "unsupported" \notin Findings(part, Live(c, V), V)
             /\ CheckClaim(c, V) = "contradicted" =>
                  \E part \in c.parts : "contradicted" \in Findings(part, Live(c, V), V)
  <2>1. PICK said : said = PartFindings(c, V)
    OBVIOUS
  <2>2. PICK missing : missing = CiteFindings(c, V)
    OBVIOUS
  <2>3. CheckClaim(c, V) = IF "contradicted" \in said \cup missing THEN "contradicted"
                           ELSE IF "unsupported" \in said \cup missing \/ ~Grounded(c, Live(c, V)) THEN "unsupported"
                           ELSE "supported"
    BY <2>1, <2>2 DEF CheckClaim
  <2>4. \A part \in c.parts : Findings(part, Live(c, V), V) \subseteq said
    BY <2>1 DEF PartFindings
  <2>5. \A v \in said : \E part \in c.parts : v \in Findings(part, Live(c, V), V)
    BY <2>1 DEF PartFindings
  <2>6. CheckClaim(c, V) = "supported" =>
          /\ "contradicted" \notin said \cup missing /\ "unsupported" \notin said \cup missing
          /\ Grounded(c, Live(c, V))
    BY <2>3
  <2>7. CheckClaim(c, V) = "contradicted" => "contradicted" \in said
    BY <2>2, <2>3 DEF CiteFindings
  <2>8. CheckClaim(c, V) = "supported" => c.cites \subseteq Cited(c, V) /\ Live(c, V) # {}
    BY <2>2, <2>6 DEF CiteFindings, Grounded
  <2>9. QED
    BY <2>4, <2>5, <2>6, <2>7, <2>8
<1>5. CASE RunCheck(summary, V) = "pass"
  <2>1. claims # {} /\ \A c \in claims : CheckClaim(c, V) = "supported"
    BY <1>2, <1>3, <1>5
  <2>2. RunCheck(summary, V) # "drift"
    BY <1>5
  <2>3. QED
    BY <1>1, <1>4, <2>1, <2>2
<1>6. CASE RunCheck(summary, V) = "drift"
  <2>1. PICK c \in claims : CheckClaim(c, V) = "contradicted"
    BY <1>2, <1>3, <1>6
  <2>2. RunCheck(summary, V) # "pass"
    BY <1>6
  <2>3. QED
    BY <1>1, <1>4, <2>1, <2>2
<1>7. QED
  BY <1>5, <1>6

-----------------------------------------------------------------------------
(* The check beside the writers *)

\* What was held stays so when the ledger goes on.
LEMMA HeldGrows ==
  ASSUME NEW views, NEW listed, NEW seen, NEW more, seen \subseteq more, ViewsHeld(views, listed, seen)
  PROVE  ViewsHeld(views, listed, more)
BY DEF ViewsHeld, HeldIn

LEMMA ChangeKeeps ==
  ASSUME DInv, NEW new, NEW ids, Changes(new, ids),
         DOMAIN new \subseteq everUsed \cup ids, \A i \in DOMAIN new : IsRecord(new[i]),
         \A m \in moments \cup {recorded} : \A i \in DOMAIN m \cap DOMAIN new : m[i].agent = new[i].agent
  PROVE  DInv'
<1>1. PICK seen : seen = moments
  OBVIOUS
<1>2. /\ recorded' = new /\ moments' = seen \cup {new} /\ everUsed' = everUsed \cup ids /\ check' = check
      /\ check.pc \in {"list", "read"}
  BY <1>1 DEF Changes
<1>3. OneAuthor(seen \cup {recorded}, everUsed) /\ CheckFits(check, seen)
  BY <1>1 DEF DInv
<1>4. \A m \in seen \cup {new} : DOMAIN m \subseteq everUsed \cup ids /\ \A i \in DOMAIN m : IsRecord(m[i])
  BY <1>3 DEF OneAuthor
<1>5. \A m, n \in seen \cup {new} : \A i \in DOMAIN m \cap DOMAIN n : m[i].agent = n[i].agent
  BY <1>1, <1>3 DEF OneAuthor
<1>6. OneAuthor((seen \cup {new}) \cup {new}, everUsed \cup ids)
  <2>1. (seen \cup {new}) \cup {new} = seen \cup {new}
    OBVIOUS
  <2>2. QED
    BY <1>4, <1>5, <2>1 DEF OneAuthor
<1>7. CheckFits(check, seen \cup {new})
  <2>1. ViewsHeld(check.views, check.listed, seen) => ViewsHeld(check.views, check.listed, seen \cup {new})
    BY HeldGrows
  <2>2. QED
    BY <1>2, <1>3, <2>1 DEF CheckFits
<1>8. QED
  BY <1>2, <1>6, <1>7 DEF DInv

LEMMA WriterKeeps ==
  ASSUME DInv, NEW i \in Records, Write(i) \/ Update(i) \/ Delete(i)
  PROVE  DInv'
<1>1. PICK store : store = recorded
  OBVIOUS
<1>2. /\ DOMAIN store \subseteq everUsed /\ \A j \in DOMAIN store : IsRecord(store[j])
      /\ \A m \in moments \cup {store} : DOMAIN m \subseteq everUsed /\ \A j \in DOMAIN m \cap DOMAIN store : m[j].agent = store[j].agent
  BY <1>1 DEF DInv, OneAuthor
<1>3. CASE Write(i)
  <2>1. PICK r, new : /\ new = [j \in DOMAIN store \cup {i} |-> IF j # i THEN store[j] ELSE r]
                      /\ IsRecord(r) /\ Changes(new, {i})
    <3>1. PICK agent \in {"codex", "claude"}, text \in Wordings, s \in DOMAIN recorded \cup {"none"} :
            i \notin everUsed /\ Changes([j \in DOMAIN recorded \cup {i} |->
                IF j # i THEN recorded[j] ELSE [agent |-> agent, status |-> "draft", supersedes |-> s, text |-> text]], {i})
      BY <1>3 DEF Write
    <3>2. PICK r : r = [agent |-> agent, status |-> "draft", supersedes |-> s, text |-> text]
      OBVIOUS
    <3>3. IsRecord(r)
      BY <3>2 DEF IsRecord
    <3>4. PICK new : new = [j \in DOMAIN store \cup {i} |-> IF j # i THEN store[j] ELSE r]
      OBVIOUS
    <3>5. Changes(new, {i})
      BY <1>1, <3>1, <3>2, <3>4
    <3>6. QED
      BY <3>3, <3>4, <3>5
  <2>2. i \notin everUsed
    BY <1>3 DEF Write
  <2>3. DOMAIN new \subseteq everUsed \cup {i} /\ \A j \in DOMAIN new : IsRecord(new[j])
    BY <1>2, <2>1
  <2>4. \A m \in moments \cup {store} : \A j \in DOMAIN m \cap DOMAIN new : m[j].agent = new[j].agent
    BY <1>2, <2>1, <2>2
  <2>5. QED
    BY <1>1, <2>1, <2>3, <2>4, ChangeKeeps
<1>4. CASE Update(i)
  <2>1. PICK st, text : i \in DOMAIN store /\ Changes([store EXCEPT ![i].status = st, ![i].text = text], {})
    BY <1>1, <1>4 DEF Update
  <2>2. PICK old : old = store[i] /\ IsRecord(old)
    BY <1>2, <2>1
  <2>3. PICK r : r = [old EXCEPT !.status = st, !.text = text]
    OBVIOUS
  <2>4. IsRecord(r) /\ r.agent = old.agent
    BY <2>2, <2>3 DEF IsRecord
  <2>5. PICK new : new = [store EXCEPT ![i].status = st, ![i].text = text]
    OBVIOUS
  <2>6. DOMAIN new = DOMAIN store /\ \A j \in DOMAIN store : new[j] = IF j = i THEN r ELSE store[j]
    BY <2>1, <2>2, <2>3, <2>5
  <2>7. DOMAIN new \subseteq everUsed \cup {} /\ \A j \in DOMAIN new : IsRecord(new[j])
    BY <1>2, <2>4, <2>6
  <2>8. \A m \in moments \cup {store} : \A j \in DOMAIN m \cap DOMAIN new : m[j].agent = new[j].agent
    BY <1>2, <2>2, <2>4, <2>6
  <2>9. Changes(new, {})
    BY <2>1, <2>5
  <2>10. QED
    BY <1>1, <2>7, <2>8, <2>9, ChangeKeeps
<1>5. CASE Delete(i)
  <2>1. PICK new : /\ new = [j \in DOMAIN store \ {i} |-> [store[j] EXCEPT !.supersedes = IF @ = i THEN "none" ELSE @]]
                   /\ Changes(new, {})
    BY <1>1, <1>5 DEF Delete
  <2>2. ASSUME NEW j \in DOMAIN new
        PROVE  j \in DOMAIN store /\ IsRecord(new[j]) /\ new[j].agent = store[j].agent
    <3>1. j \in DOMAIN store
      BY <2>1
    <3>2. PICK old : old = store[j] /\ IsRecord(old)
      BY <1>2, <3>1
    <3>3. PICK s : s = IF old.supersedes = i THEN "none" ELSE old.supersedes
      OBVIOUS
    <3>4. new[j] = [old EXCEPT !.supersedes = s]
      BY <2>1, <3>2, <3>3
    <3>5. QED
      BY <3>1, <3>2, <3>4 DEF IsRecord
  <2>3. DOMAIN new \subseteq everUsed \cup {}
    BY <1>2, <2>2
  <2>4. \A m \in moments \cup {store} : \A j \in DOMAIN m \cap DOMAIN new : m[j].agent = new[j].agent
    BY <1>2, <2>2
  <2>5. QED
    BY <1>1, <2>1, <2>2, <2>3, <2>4, ChangeKeeps
<1>6. QED
  BY <1>3, <1>4, <1>5

LEMMA BeginCheckKeeps ==
  ASSUME DInv, BeginCheck
  PROVE  DInv'
<1>1. PICK shown : shown = recorded
  OBVIOUS
<1>2. PICK c : c = [pc |-> "list", views |-> <<>>, superseded |-> {}, listed |-> FALSE, served |-> shown, said |-> "nothing"]
  OBVIOUS
<1>3. check' = c /\ UNCHANGED <<recorded, everUsed, moments>>
  BY <1>1, <1>2 DEF BeginCheck
<1>4. /\ c = [pc |-> c.pc, views |-> c.views, superseded |-> c.superseded, listed |-> c.listed,
              served |-> c.served, said |-> c.said]
      /\ c.pc = "list" /\ DOMAIN c.views = {} /\ c.superseded = {} /\ ~c.listed
  BY <1>2
<1>5. CheckFits(c, moments)
  BY <1>4 DEF CheckFits, ViewsHeld
<1>6. QED
  BY <1>3, <1>4, <1>5 DEF DInv

LEMMA ListRecordsKeeps ==
  ASSUME DInv, ListRecords
  PROVE  DInv'
<1>1. PICK store : store = recorded
  OBVIOUS
<1>2. PICK k : /\ k = check /\ k.pc = "list" /\ DOMAIN k.views = {} /\ k.superseded = {} /\ ~k.listed
               /\ k = [pc |-> k.pc, views |-> k.views, superseded |-> k.superseded, listed |-> k.listed,
                       served |-> k.served, said |-> k.said]
  BY DEF DInv, CheckFits, ListRecords
<1>3. PICK c : c = check'
  OBVIOUS
<1>4. \/ c = [k EXCEPT !.pc = "read", !.listed = TRUE, !.superseded = Replaced(store)]
      \/ c = [k EXCEPT !.pc = "read"]
  BY <1>1, <1>2, <1>3 DEF ListRecords, Replaced
<1>5. /\ c = [pc |-> c.pc, views |-> c.views, superseded |-> c.superseded, listed |-> c.listed,
              served |-> c.served, said |-> c.said]
      /\ c.pc = "read" /\ c.views = k.views
      /\ c.superseded = IF c.listed THEN Replaced(store) ELSE {}
  BY <1>2, <1>4
<1>6. moments' = {store} /\ recorded' = store /\ everUsed' = everUsed
  BY <1>1 DEF ListRecords
<1>7. CheckFits(c, {store})
  BY <1>2, <1>5 DEF CheckFits, ViewsHeld
<1>8. OneAuthor({store} \cup {store}, everUsed)
  BY <1>1 DEF DInv, OneAuthor
<1>9. QED
  BY <1>3, <1>6, <1>7, <1>8 DEF DInv

LEMMA LoadRecordKeeps ==
  ASSUME DInv, LoadRecord
  PROVE  DInv'
<1>1. PICK store : store = recorded /\ store \in moments
  BY DEF DInv, LoadRecord
<1>2. PICK k : /\ k = check /\ k.pc = "read"
               /\ k = [pc |-> k.pc, views |-> k.views, superseded |-> k.superseded, listed |-> k.listed,
                       served |-> k.served, said |-> k.said]
               /\ ViewsHeld(k.views, k.listed, moments)
               /\ \E l \in moments : k.superseded = IF k.listed THEN Replaced(l) ELSE {}
  BY DEF DInv, CheckFits, LoadRecord
<1>3. PICK i \in Records : check' = [check EXCEPT !.views = [j \in DOMAIN @ \cup {i} |->
         IF j # i THEN @[j] ELSE IF i \in DOMAIN recorded THEN RecordView(i) ELSE NotFound]]
  BY DEF LoadRecord, Unread
<1>4. PICK old : old = k.views
  OBVIOUS
<1>5. PICK v : v = IF i \in DOMAIN store THEN View(store[i], i \in k.superseded) ELSE NotFound
  OBVIOUS
<1>6. PICK views : views = [j \in DOMAIN old \cup {i} |-> IF j # i THEN old[j] ELSE v]
  OBVIOUS
<1>7. PICK c : c = [k EXCEPT !.views = views]
  OBVIOUS
<1>8. check' = c
  BY <1>1, <1>2, <1>3, <1>4, <1>5, <1>6, <1>7 DEF RecordView
<1>9. /\ c = [pc |-> c.pc, views |-> c.views, superseded |-> c.superseded, listed |-> c.listed,
              served |-> c.served, said |-> c.said]
      /\ c.pc = "read" /\ c.views = views /\ c.superseded = k.superseded /\ c.listed = k.listed
  BY <1>2, <1>7
<1>10. v # NotFound => v \in HeldIn(i, k.listed, moments)
  <2> SUFFICES ASSUME i \in DOMAIN store PROVE v \in HeldIn(i, k.listed, moments)
    BY <1>5
  <2>1. PICK l \in moments : k.superseded = IF k.listed THEN Replaced(l) ELSE {}
    BY <1>2
  <2>2. View(store[i], i \in k.superseded) = View(store[i], k.listed /\ i \in Replaced(l))
    BY <2>1 DEF View
  <2>3. View(store[i], k.listed /\ i \in Replaced(l)) \in HeldIn(i, k.listed, moments)
    BY <1>1 DEF HeldIn
  <2>4. QED
    BY <1>5, <2>2, <2>3
<1>11. ViewsHeld(views, k.listed, moments)
  BY <1>2, <1>4, <1>6, <1>10 DEF ViewsHeld
<1>12. CheckFits(c, moments)
  BY <1>2, <1>9, <1>11 DEF CheckFits
<1>13. UNCHANGED <<recorded, everUsed, moments>>
  BY DEF LoadRecord
<1>14. QED
  BY <1>1, <1>8, <1>12, <1>13 DEF DInv

LEMMA JudgeKeeps ==
  ASSUME DInv, Judge
  PROVE  DInv'
<1>1. PICK k : /\ k = check /\ k.pc = "read"
               /\ k = [pc |-> k.pc, views |-> k.views, superseded |-> k.superseded, listed |-> k.listed,
                       served |-> k.served, said |-> k.said]
               /\ ViewsHeld(k.views, k.listed, moments)
  BY DEF DInv, CheckFits, Judge
<1>2. PICK summary \in Summaries : \E changed : check' = [k EXCEPT !.pc = "log",
        !.said = [summary |-> summary, verdict |-> RunCheck(summary, k.views), changed |-> changed]]
  BY <1>1 DEF Judge
<1>3. PICK said : /\ \E changed : said = [summary |-> summary, verdict |-> RunCheck(summary, k.views), changed |-> changed]
                  /\ check' = [k EXCEPT !.pc = "log", !.said = said]
  BY <1>2
<1>4. said.summary = summary /\ said.verdict = RunCheck(summary, k.views)
  BY <1>3
<1>5. PICK c : c = [k EXCEPT !.pc = "log", !.said = said]
  OBVIOUS
<1>6. check' = c /\ UNCHANGED <<recorded, everUsed, moments>>
  BY <1>3, <1>5 DEF Judge
<1>7. /\ c = [pc |-> c.pc, views |-> c.views, superseded |-> c.superseded, listed |-> c.listed,
              served |-> c.served, said |-> c.said]
      /\ c.pc = "log" /\ c.views = k.views /\ c.listed = k.listed /\ c.said = said
  BY <1>1, <1>5
<1>8. DOMAIN k.views = Records
  BY <1>1 DEF Judge, Unread, ViewsHeld
<1>9. CheckFits(c, moments)
  BY <1>1, <1>4, <1>7, <1>8 DEF CheckFits
<1>10. QED
  BY <1>6, <1>7, <1>9 DEF DInv

LEMMA LogEntryKeeps ==
  ASSUME DInv, LogEntry
  PROVE  DInv'
<1>1. PICK c : check' = c /\ c.pc \in {"ok", "refused", "degraded"}
  BY DEF LogEntry
<1>2. CheckFits(c, moments)
  BY <1>1 DEF CheckFits
<1>3. QED
  BY <1>1, <1>2 DEF LogEntry, DInv

LEMMA DriftStart == DfInit => DInv
<1> SUFFICES ASSUME DfInit PROVE DInv
  OBVIOUS
<1>1. recorded \in Drafts /\ everUsed = DOMAIN recorded /\ moments = {} /\ check.pc = "none"
  BY DEF DfInit
<1>2. \A i \in DOMAIN recorded : IsRecord(recorded[i])
  BY <1>1, DraftsOK
<1>3. QED
  BY <1>1, <1>2 DEF DInv, OneAuthor, CheckFits

LEMMA DriftStep == DInv /\ [DfNext]_dfVars => DInv'
<1> SUFFICES ASSUME DInv, [DfNext]_dfVars PROVE DInv'
  OBVIOUS
<1>1. CASE UNCHANGED dfVars
  BY <1>1 DEF DInv, dfVars
<1>2. CASE BeginCheck \/ ListRecords \/ LoadRecord
  BY <1>2, BeginCheckKeeps, ListRecordsKeeps, LoadRecordKeeps
<1>3. CASE Judge \/ LogEntry
  BY <1>3, JudgeKeeps, LogEntryKeeps
<1>4. ASSUME NEW i \in Records, Write(i) \/ Update(i) \/ Delete(i)
      PROVE  DInv'
  BY <1>4, WriterKeeps
<1>5. QED
  BY <1>1, <1>2, <1>3, <1>4 DEF DfNext

\* run_check and load_records (app/drift.py) beside writers: a summary passes only if the
\* records, as they were while it was checked, said every part of every claim, and every
\* record it names was there; it is called drift only if some record disagreed with it.
THEOREM VerdictsAreBacked == DfSpec => []VerdictIsBacked
<1>1. DInv => VerdictIsBacked
  <2> SUFFICES ASSUME DInv, check.pc = "log" PROVE VerdictIsBacked
    BY DEF VerdictIsBacked
  <2>1. PICK V : V = check.views
    OBVIOUS
  <2>2. PICK summary \in Summaries : summary = check.said.summary /\ check.said.verdict = RunCheck(summary, V)
    BY <2>1 DEF DInv, CheckFits
  <2>3. PICK claims : claims = {c \in summary : ~c.skipped}
    OBVIOUS
  <2>4. \A c \in claims : \A part \in c.parts : ClaimPart(part)
    BY <2>2, <2>3, ClaimsOK DEF ClaimPart
  <2>5. ASSUME check.said.verdict = "pass"
        PROVE  claims # {} /\ \A c \in claims : /\ \A i \in c.cites : i \in Records /\ HeldThen(i) # {}
                                                /\ \A part \in c.parts : Backed(part, About(part, c))
    <3>1. /\ claims # {}
          /\ \A c \in claims : /\ c.cites \subseteq Cited(c, V) /\ Live(c, V) # {}
                               /\ \A part \in c.parts : /\ "contradicted" \notin Findings(part, Live(c, V), V)
                                                        /\ "unsupported" \notin Findings(part, Live(c, V), V)
      <4>1. RunCheck(summary, V) = "pass"
        BY <2>2, <2>5
      <4>2. QED
        BY <2>3, <4>1, VerdictSays
    <3>2. ASSUME NEW c \in claims, NEW i \in c.cites PROVE i \in Records /\ HeldThen(i) # {}
      <4>1. i \in Found(V)
        BY <3>1 DEF Cited, Found
      <4>2. QED
        BY <2>1, <4>1, FoundIsHeld
    <3>3. ASSUME NEW c \in claims, NEW part \in c.parts PROVE Backed(part, About(part, c))
      BY <2>1, <2>4, <3>1, PartIsBacked
    <3>4. QED
      BY <3>1, <3>2, <3>3
  <2>6. ASSUME check.said.verdict = "drift"
        PROVE  \E c \in claims : \E part \in c.parts : Disputed(part, About(part, c))
    <3>1. PICK c \in claims : \E part \in c.parts : "contradicted" \in Findings(part, Live(c, V), V)
      <4>1. RunCheck(summary, V) = "drift"
        BY <2>2, <2>6
      <4>2. QED
        BY <2>3, <4>1, VerdictSays
    <3>2. PICK part \in c.parts : "contradicted" \in Findings(part, Live(c, V), V)
      BY <3>1
    <3>3. Disputed(part, About(part, c))
      BY <2>1, <2>4, <3>2, PartIsDisputed
    <3>4. QED
      BY <3>3
  <2>7. QED
    BY <2>3, <2>2, <2>5, <2>6 DEF VerdictIsBacked
<1>2. QED
  BY <1>1, DriftStart, DriftStep, PTL DEF DfSpec
=============================================================================
