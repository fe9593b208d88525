------------------------------ MODULE KeyLimiter ------------------------------
(***************************************************************************)
(* The throttle on failed key guesses: McpRateLimiter.reserve, release and *)
(* _evict (app/public_security.py), and the attempts that use it           *)
(* (app/key_auth.py reserve_attempt, app/auth.py identity_middleware).     *)
(*                                                                         *)
(* A subject is a client address with a key id.  A bucket holds the        *)
(* reservations counted against it; a reservation is the time it was made, *)
(* [at, id], ids telling apart those of one instant.  reserve and release  *)
(* hold the limiter's lock: one step each.                                 *)
(***************************************************************************)
EXTENDS Integers, Sequences, FiniteSets

CONSTANTS Attempts, Subjects, Limit, Window, MaxBuckets, MaxTime

ASSUME KlConstantsOK == Limit \in Nat \ {0} /\ Window \in Nat \ {0} /\ MaxBuckets \in Nat /\ MaxTime \in Nat

VARIABLES now,
          bucket,     \* subject -> reservations; {} when it has no entry in the table
          attempt,    \* per attempt: the subjects it has yet to reserve, its reservations, its phase
          failed      \* failed guesses charged to a bucket that was not dropped below its limit (history)

klVars == <<now, bucket, attempt, failed>>

Stage(phase, todo) == [todo |-> todo, taken |-> {}, phase |-> phase]
KlInit ==
  /\ now = 0
  /\ bucket = [s \in Subjects |-> {}]
  /\ attempt = [a \in Attempts |-> Stage("free", <<>>)]
  /\ failed = {}

Ongoing(a) == attempt[a].phase \notin {"free", "over"}
Recent(r) == now - r.at < Window
Unaged(reservations) == {r \in reservations : Recent(r)}
InTable(b) == {s \in Subjects : b[s] # {}}
Dropping(b, ss) == [s \in Subjects |-> IF s \in ss THEN {} ELSE b[s]]

\* _evict: idle buckets first; if the table is still full, the half of it that was touched
\* longest ago, but no bucket at its limit.
Idlers(b) == {s \in InTable(b) : Unaged(b[s]) = {}}
Droppable(b) == {s \in InTable(b) : Cardinality(b[s]) < Limit}
TouchedBy(b, x, y) == \A r \in b[x] : \E q \in b[y] : r.at <= q.at
Oldest(b, ss, n) ==
  IF n > Cardinality(ss) THEN {ss}
  ELSE {d \in SUBSET ss : Cardinality(d) = n /\ \A x \in d, y \in ss \ d : TouchedBy(b, x, y)}
Evictions(b) ==
  LET fresh == Dropping(b, Idlers(b))
  IN IF Cardinality(InTable(fresh)) < MaxBuckets THEN {Idlers(b)}
     ELSE {Idlers(b) \cup d : d \in Oldest(fresh, Droppable(fresh), MaxBuckets \div 2)}

\* The tables reserve(s) may leave, each with the subjects it dropped and what it took:
\* nothing when it refuses.
Outcome(b, dropped, taken) == [bucket |-> b, dropped |-> dropped, taken |-> taken]
Counted(b, s, r, dropped) ==
  LET kept == [b EXCEPT ![s] = Unaged(@)]
  IN IF Cardinality(InTable(b)) >= MaxBuckets /\ s \notin InTable(b) THEN Outcome(b, dropped, {})
     ELSE IF Cardinality(kept[s]) >= Limit THEN Outcome(kept, dropped, {})
     ELSE Outcome([kept EXCEPT ![s] = @ \cup {r}], dropped, {<<s, r>>})
Reserve(b, s, r) ==
  IF Cardinality(InTable(b)) >= MaxBuckets /\ s \notin InTable(b)
  THEN {Counted(Dropping(b, d), s, r, d) : d \in Evictions(b)}
  ELSE {Counted(b, s, r, {})}

\* mutant: it pops the newest
NewestGone(b, s, r) ==
  IF b[s] = {} THEN b ELSE [b EXCEPT ![s] = @ \ {CHOOSE x \in @ : \A y \in @ : y.at <= x.at}]
Release(b, s, r) == [b EXCEPT ![s] = @ \ {r}]

-----------------------------------------------------------------------------

\* reserve_attempt: every subject the request names, or none.  One lock hold per subject.
Begin(a) == \E first, second \in Subjects : \E named \in {<<first>>, <<first, second>>} :
  /\ attempt[a].phase = "free"
  /\ attempt' = [attempt EXCEPT ![a] = Stage("reserving", named)]
  /\ UNCHANGED <<now, bucket, failed>>

Reserving(c, taken) ==
  IF taken = {} THEN [c EXCEPT !.phase = "refused", !.todo = <<>>]
  ELSE [c EXCEPT !.todo = Tail(c.todo), !.taken = @ \cup taken,
                 !.phase = IF Len(c.todo) = 1 THEN "checking" ELSE @]
ReserveNext(a) ==
  /\ attempt[a].phase = "reserving" /\ attempt[a].todo # <<>>
  /\ LET s == Head(attempt[a].todo)
         r == [at |-> now, id |-> <<a, Len(attempt[a].todo)>>]
     IN \E out \in Reserve(bucket, s, r) :
          /\ bucket' = out.bucket
          /\ failed' = {f \in failed : f[1] \notin out.dropped \/ Cardinality(bucket[f[1]]) >= Limit}
          /\ attempt' = [attempt EXCEPT ![a] = Reserving(@, out.taken)]
  /\ UNCHANGED now

\* The key is looked up; a wrong guess stays counted.
Fail(a) ==
  /\ attempt[a].phase = "checking"
  /\ failed' = failed \cup {f \in attempt[a].taken : Recent(f[2]) /\ f[2] \in bucket[f[1]]}
  /\ attempt' = [attempt EXCEPT ![a] = Stage("over", <<>>)]
  /\ UNCHANGED <<now, bucket>>

\* Success, an outage or a cancelled request, and a reservation that was refused half-way:
\* its own reservations are taken back, one lock hold each.
Settle(a) ==
  /\ attempt[a].phase \in {"checking", "refused"}
  /\ IF attempt[a].taken = {}
     THEN attempt' = [attempt EXCEPT ![a] = Stage("over", <<>>)] /\ UNCHANGED bucket
     ELSE \E t \in attempt[a].taken :
            /\ bucket' = Release(bucket, t[1], t[2])
            /\ attempt' = [attempt EXCEPT ![a].taken = @ \ {t}, ![a].phase = "refused"]
  /\ UNCHANGED <<now, failed>>

Tick ==
  /\ now < MaxTime /\ now' = now + 1
  /\ failed' = {f \in failed : now' - f[2].at < Window}
  /\ UNCHANGED <<bucket, attempt>>

KlNext ==
  \/ \E a \in Attempts : Begin(a) \/ ReserveNext(a) \/ Fail(a) \/ Settle(a)
  \/ Tick

KlSpec == KlInit /\ [][KlNext]_klVars

-----------------------------------------------------------------------------

\* However attempts overlap, a failed guess of the last window stays counted against its
\* subject (only an eviction of a bucket below its limit forgets it), at most Limit of them
\* are, and an attempt that is over holds no reservation but the ones of its failures.
FailuresStayCounted ==
  /\ \A f \in failed : f[2] \in bucket[f[1]]
  /\ \A s \in Subjects : Cardinality(bucket[s]) <= Limit
  /\ \A s \in Subjects : \A r \in bucket[s] :
       <<s, r>> \in failed \/ ~Recent(r) \/ \E a \in Attempts : Ongoing(a) /\ <<s, r>> \in attempt[a].taken
=============================================================================
