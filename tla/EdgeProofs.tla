----------------------------- MODULE EdgeProofs -----------------------------
(*****************************************************************************)
(* Proofs about what stands between the row store and its callers: the calls *)
(* of the connector client, the guards of the start, of every connection and *)
(* of readiness, the gates in front of the routes, and the jobs that work    *)
(* through a list of tenants by way of containers.                           *)
(*****************************************************************************)
EXTENDS FrontDoor, Pipes, SequenceTheorems, FiniteSetTheorems, WellFoundedInduction, TLAPS

-----------------------------------------------------------------------------
(* Sets of naturals *)

LEMMA LeastOf ==
  ASSUME NEW S, S \subseteq Nat, S # {}
  PROVE  \E x \in S : \A y \in S : x <= y
<1>1. PICK x \in S : \A y \in S : <<y, x>> \notin OpToRel(<, Nat)
  BY NatLessThanWellFounded, WFMin
<1>2. \A y \in S : ~(y < x)
  <2> SUFFICES ASSUME NEW y \in S PROVE ~(y < x)
    OBVIOUS
  <2>1. <<y, x>> \in Nat \X Nat
    OBVIOUS
  <2>2. <<y, x>>[1] = y /\ <<y, x>>[2] = x
    OBVIOUS
  <2>3. QED
    BY <1>1, <2>1, <2>2 DEF OpToRel
<1>3. QED
  BY <1>2, SMT

\* A set of naturals that holds zero and the successor of each of its numbers holds them all.
LEMMA AllNaturals ==
  ASSUME NEW S \in SUBSET Nat, 0 \in S, \A n \in S : n + 1 \in S
  PROVE  \A n \in Nat : n \in S
<1>1. SUFFICES ASSUME Nat \ S # {} PROVE FALSE
  OBVIOUS
<1>2. PICK m \in Nat \ S : \A y \in Nat \ S : m <= y
  BY <1>1, LeastOf
<1>3. m \in Nat /\ m # 0
  BY <1>2
<1>4. m - 1 \in Nat /\ ~(m <= m - 1) /\ (m - 1) + 1 = m
  BY <1>3
<1>5. m - 1 \in S
  BY <1>2, <1>4
<1>6. QED
  BY <1>2, <1>4, <1>5

-----------------------------------------------------------------------------
(* The connector's client *)

Abouts == Questions \cup {Nothing}
AskedLines == [id : Nat, about : Abouts]
ReadLines == [id : Int, about : Abouts, ok : BOOLEAN]
Holding == {"hello", "send", "wait"}

IsCall(k) ==
  /\ k = [pc |-> k.pc, id |-> k.id, question |-> k.question, answer |-> k.answer, promotes |-> k.promotes]
  /\ k.pc \in {"idle", "enter", "cli", "release", "done"} \cup Holding
  /\ k.question \in Abouts /\ k.answer \in {Nothing, Failed, k.question}
  /\ k.pc \in {"release", "done"} => k.answer \in {Failed, k.question}
IsClient(cl) ==
  /\ cl = [lock |-> cl.lock, child |-> cl.child, lastId |-> cl.lastId, asked |-> cl.asked, lines |-> cl.lines]
  /\ cl.lastId \in Nat /\ cl.asked \in Seq(AskedLines) /\ cl.lines \in Seq(ReadLines)
NxTyped ==
  /\ IsClient(client)
  /\ DOMAIN call = Callers /\ \A c \in Callers : IsCall(call[c])

\* Ids are used once, so that what the pipe holds under the id of a call that waits is about
\* the question of that call.
UpTo(s, n) == \A i \in DOMAIN s : s[i].id <= n
About(s, k) == \A i \in DOMAIN s : s[i].id = k.id => s[i].about = k.question
PipeFits(cl, k) == k.pc = "wait" => k.id \in 1..cl.lastId /\ About(cl.asked, k) /\ About(cl.lines, k)
PipeSound(cl, calls) ==
  /\ UpTo(cl.asked, cl.lastId) /\ UpTo(cl.lines, cl.lastId)
  /\ \A c \in Callers : PipeFits(cl, calls[c])

LockHeld(cl, calls) == \A c \in Callers : calls[c].pc \in Holding => cl.lock = c
Attended(calls) == \E c \in Callers : calls[c].pc \in {"cli", "release"} \cup Holding
ChildHeld(ids, cl, calls) == ids \subseteq {cl.child} /\ (~keeps => ids = {} \/ Attended(calls))

NxInv ==
  /\ NxTyped /\ PipeSound(client, call) /\ LockHeld(client, call) /\ ChildHeld(running, client, call)
  /\ \A p \in promoted : p[1] = p[2]

LEMMA ClientIs ==
  ASSUME NEW cl, NEW who, NEW id, NEW n \in Nat, NEW a \in Seq(AskedLines), NEW r \in Seq(ReadLines),
         cl = [lock |-> who, child |-> id, lastId |-> n, asked |-> a, lines |-> r]
  PROVE  IsClient(cl)
BY DEF IsClient

LEMMA NxStart == ASSUME NxInit PROVE NxInv
<1>1. IsClient(NoChild) /\ NoChild.asked = <<>> /\ NoChild.lines = <<>>
  BY EmptySeq DEF IsClient, NoChild
<1>2. IsCall(Quiet) /\ Quiet.pc = "idle"
  BY DEF IsCall, Quiet, Abouts, Holding
<1>3. \A c \in Callers : call[c] = Quiet
  BY DEF NxInit
<1>4. NxTyped
  BY <1>1, <1>2, <1>3 DEF NxInit, NxTyped
<1>5. PipeSound(client, call)
  BY <1>1, <1>2, <1>3 DEF NxInit, PipeSound, PipeFits, UpTo
<1>6. LockHeld(client, call) /\ ChildHeld(running, client, call)
  BY <1>2, <1>3 DEF NxInit, LockHeld, Holding, ChildHeld
<1>7. QED
  BY <1>4, <1>5, <1>6 DEF NxInv, NxInit

\* The call of one caller changes, and it does not hold the lock then.
CallBecomes(c, k) ==
  /\ DOMAIN call' = Callers /\ call'[c] = k /\ \A o \in Callers \ {c} : call'[o] = call[o]
LEMMA CallTyped ==
  ASSUME NxTyped, NEW c \in Callers, NEW k, IsCall(k), call' = [call EXCEPT ![c] = k]
  PROVE  CallBecomes(c, k) /\ \A o \in Callers : IsCall(call'[o])
BY DEF NxTyped, CallBecomes

\* A call that waits for nothing on the pipe is no matter of the pipe.
LEMMA PipeKept ==
  ASSUME NxInv, NEW c \in Callers, NEW k, CallBecomes(c, k), k.pc # "wait",
         NEW cl, cl.lastId = client.lastId, cl.asked = client.asked, cl.lines = client.lines
  PROVE  PipeSound(cl, call')
BY DEF NxInv, PipeSound, PipeFits, CallBecomes

\* Nobody else holds the lock of the caller that has it.
LEMMA OneHolds ==
  ASSUME NxInv, NEW c \in Callers, client.lock \in {Nothing, c}, NEW o \in Callers \ {c}
  PROVE  call[o].pc \notin Holding
BY NxConstantsOK DEF NxInv, LockHeld, Nothing

\* A pipe that is dropped holds nothing.
LEMMA PipeDropped ==
  ASSUME NxInv, NEW c \in Callers, NEW k, CallBecomes(c, k), k.pc # "wait", client.lock \in {Nothing, c},
         NEW cl, cl.asked = <<>>, cl.lines = <<>>
  PROVE  PipeSound(cl, call')
<1>1. \A o \in Callers : call'[o].pc # "wait"
  BY OneHolds DEF CallBecomes, Holding
<1>2. QED
  BY <1>1 DEF PipeSound, PipeFits, UpTo

LEMMA StopDrops ==
  ASSUME NxInv, NEW c \in Callers, NEW k, IsCall(k), k.pc \notin Holding, call' = [call EXCEPT ![c] = k],
         client.lock \in {Nothing, c}, StopMcp(Nothing), UNCHANGED <<keeps, promoted>>
  PROVE  NxInv'
<1>1. client' = [lock |-> Nothing, child |-> 0, lastId |-> client.lastId, asked |-> <<>>, lines |-> <<>>]
  BY DEF StopMcp, Stopped, NxInv, NxTyped, IsClient
<1>2. IsClient(client')
  BY <1>1, EmptySeq DEF NxInv, NxTyped, IsClient
<1>3. CallBecomes(c, k) /\ \A o \in Callers : IsCall(call'[o])
  BY CallTyped DEF NxInv
<1>4. PipeSound(client', call')
  BY <1>1, <1>3, PipeDropped DEF Holding
<1>5. \A o \in Callers : call'[o].pc \notin Holding
  BY <1>3, OneHolds DEF CallBecomes
<1>6. running' = {}
  BY DEF StopMcp, Terminated, NxInv, ChildHeld
<1>7. LockHeld(client, call)' /\ ChildHeld(running, client, call)'
  BY <1>5, <1>6 DEF LockHeld, ChildHeld
<1>8. QED
  BY <1>2, <1>3, <1>4, <1>5, <1>6, <1>7 DEF NxInv, NxTyped, CallBecomes, LockHeld, ChildHeld

\* A step of a call beside the pipe.
LEMMA CallMoves ==
  ASSUME NxInv, NEW c \in Callers, NEW k, IsCall(k), k.pc \notin Holding, call' = [call EXCEPT ![c] = k],
         k.pc \in {"cli", "release"} \/ call[c].pc \notin {"cli", "release"} \cup Holding \/ running = {},
         UNCHANGED <<keeps, client, running>>, \A p \in promoted' : p[1] = p[2]
  PROVE  NxInv'
<1>1. CallBecomes(c, k) /\ \A o \in Callers : IsCall(call'[o])
  BY CallTyped DEF NxInv
<1>2. PipeSound(client', call')
  BY <1>1, PipeKept DEF Holding
<1>3. LockHeld(client, call)'
  BY <1>1 DEF NxInv, LockHeld, CallBecomes
<1>4. ChildHeld(running, client, call)'
  BY <1>1 DEF NxInv, ChildHeld, Attended, CallBecomes
<1>5. QED
  BY <1>1, <1>2, <1>3, <1>4 DEF NxInv, NxTyped, CallBecomes

LEMMA CallsAside ==
  ASSUME NxInv, NEW c \in Callers, NEW q \in Questions, NEW p \in BOOLEAN,
         BeginCall(c, q, p) \/ Command(c, q)
  PROVE  NxInv'
<1>1. IsCall(call[c]) /\ DOMAIN call = Callers
  BY DEF NxInv, NxTyped
<1>2. CASE BeginCall(c, q, p)
  <2>1. PICK k : k = [Quiet EXCEPT !.pc = "enter", !.question = q, !.promotes = p]
    OBVIOUS
  <2>2. k = [pc |-> "enter", id |-> 0, question |-> q, answer |-> Nothing, promotes |-> p]
    BY <2>1 DEF Quiet
  <2>3. IsCall(k) /\ k.pc = "enter"
    BY <2>2 DEF IsCall, Abouts
  <2>4. QED
    BY <1>2, <2>1, <2>3, CallMoves DEF BeginCall, At, Holding, NxInv
<1>3. CASE Command(c, q)
  <2>1. PICK a \in CliAnswers(q) : call' = [call EXCEPT ![c] = [Quiet EXCEPT !.pc = "done", !.question = q, !.answer = a]]
    BY <1>3 DEF Command
  <2>2. PICK k : k = [Quiet EXCEPT !.pc = "done", !.question = q, !.answer = a]
    OBVIOUS
  <2>3. k = [pc |-> "done", id |-> 0, question |-> q, answer |-> a, promotes |-> FALSE]
    BY <2>2 DEF Quiet
  <2>4. IsCall(k) /\ k.pc = "done"
    BY <2>3 DEF IsCall, Abouts, CliAnswers
  <2>5. QED
    BY <1>3, <2>1, <2>2, <2>4, CallMoves DEF Command, At, Holding, NxInv
<1>4. QED
  BY <1>2, <1>3

LEMMA CallsEnd ==
  ASSUME NxInv, NEW c \in Callers, AskCli(c) \/ Return(c)
  PROVE  NxInv'
<1>1. IsCall(call[c]) /\ DOMAIN call = Callers
  BY DEF NxInv, NxTyped
<1>4. CASE AskCli(c)
  <2>1. PICK a \in CliAnswers(call[c].question) : call' = [call EXCEPT ![c].pc = "release", ![c].answer = a]
    BY <1>4 DEF AskCli
  <2>2. PICK k : k = [call[c] EXCEPT !.pc = "release", !.answer = a]
    OBVIOUS
  <2>3. k = [pc |-> "release", id |-> call[c].id, question |-> call[c].question, answer |-> a,
             promotes |-> call[c].promotes]
    BY <1>1, <2>2 DEF IsCall
  <2>4. IsCall(k) /\ k.pc = "release"
    BY <1>1, <2>3 DEF IsCall, CliAnswers
  <2>5. call' = [call EXCEPT ![c] = k]
    BY <1>1, <2>1, <2>3, <2>2
  <2>6. QED
    BY <1>4, <2>4, <2>5, CallMoves DEF AskCli, Holding, NxInv
<1>5. CASE Return(c)
  <2>1. IsCall(Quiet) /\ Quiet.pc = "idle"
    BY DEF IsCall, Quiet, Abouts, Holding
  <2>2. \A x \in promoted' : x[1] = x[2]
    <3>1. call[c].answer \in {Failed, call[c].question}
      BY <1>1, <1>5 DEF IsCall, Return, At
    <3>2. QED
      BY <1>5, <3>1 DEF Return, NxInv
  <2>3. QED
    BY <1>5, <2>1, <2>2, CallMoves DEF Return, At, Holding
<1>6. QED
  BY <1>4, <1>5

\* A call over MCP that breaks, and one that ends.
LEMMA BreaksKeeps ==
  ASSUME NxInv, NEW c \in Callers, client.lock \in {Nothing, c}, Breaks(c), UNCHANGED <<keeps, promoted>>
  PROVE  NxInv'
<1>1. IsCall(call[c]) /\ DOMAIN call = Callers
  BY DEF NxInv, NxTyped
<1>2. PICK k : k = [call[c] EXCEPT !.pc = "cli"]
  OBVIOUS
<1>3. k = [pc |-> "cli", id |-> call[c].id, question |-> call[c].question, answer |-> call[c].answer,
           promotes |-> call[c].promotes]
  BY <1>1, <1>2 DEF IsCall
<1>4. IsCall(k) /\ k.pc = "cli"
  BY <1>1, <1>3 DEF IsCall
<1>5. call' = [call EXCEPT ![c] = k]
  BY <1>1, <1>2 DEF Breaks, StepsTo
<1>6. QED
  BY <1>4, <1>5, StopDrops DEF Breaks, Holding

LEMMA ReleaseKeeps ==
  ASSUME NxInv, NEW c \in Callers, ReleaseClient(c)
  PROVE  NxInv'
<1>1. IsCall(call[c]) /\ DOMAIN call = Callers /\ call[c].pc = "release"
  BY DEF NxInv, NxTyped, ReleaseClient, At
<1>2. PICK k : k = [call[c] EXCEPT !.pc = "done"]
  OBVIOUS
<1>3. k = [pc |-> "done", id |-> call[c].id, question |-> call[c].question, answer |-> call[c].answer,
           promotes |-> call[c].promotes]
  BY <1>1, <1>2 DEF IsCall
<1>4. IsCall(k) /\ k.pc = "done"
  BY <1>1, <1>3 DEF IsCall
<1>5. call' = [call EXCEPT ![c] = k]
  BY <1>1, <1>2 DEF ReleaseClient, StepsTo
<1>6. CASE ~keeps
  BY <1>4, <1>5, <1>6, StopDrops DEF ReleaseClient, Holding
<1>7. CASE keeps
  <2>1. UNCHANGED <<keeps, client, running, promoted>>
    BY <1>7 DEF ReleaseClient
  <2>2. CallBecomes(c, k) /\ \A o \in Callers : IsCall(call'[o])
    BY <1>4, <1>5, CallTyped DEF NxInv
  <2>3. PipeSound(client', call')
    BY <1>4, <2>1, <2>2, PipeKept
  <2>4. LockHeld(client, call)' /\ ChildHeld(running, client, call)'
    BY <1>4, <1>7, <2>1, <2>2 DEF NxInv, LockHeld, CallBecomes, Holding, ChildHeld
  <2>5. QED
    BY <2>1, <2>2, <2>3, <2>4 DEF NxInv, NxTyped, CallBecomes
<1>8. QED
  BY <1>1, <1>6, <1>7 DEF NxInv, ReleaseClient

\* Appending and taking from a pipe.
LEMMA PipeAppends ==
  ASSUME NEW S, NEW s \in Seq(S), NEW e \in S
  PROVE  /\ Append(s, e) \in Seq(S)
         /\ \A P : (\A i \in DOMAIN s : s[i] \in P) /\ e \in P => \A i \in DOMAIN Append(s, e) : Append(s, e)[i] \in P
<1>1. /\ Append(s, e) \in Seq(S) /\ Len(Append(s, e)) = Len(s) + 1 /\ DOMAIN s = 1..Len(s)
      /\ \A i \in 1..Len(s) : Append(s, e)[i] = s[i]
      /\ Append(s, e)[Len(s) + 1] = e
  BY AppendProperties
<1>2. DOMAIN Append(s, e) = 1..(Len(s) + 1) /\ Len(s) \in Nat
  BY <1>1
<1>3. \A i \in DOMAIN Append(s, e) : i \in DOMAIN s \/ i = Len(s) + 1
  BY <1>1, <1>2
<1>4. QED
  BY <1>1, <1>3

LEMMA PipeTail ==
  ASSUME NEW S, NEW s \in Seq(S), s # <<>>
  PROVE  /\ Head(s) \in S /\ 1 \in DOMAIN s /\ Head(s) = s[1] /\ Tail(s) \in Seq(S)
         /\ \A P : (\A i \in DOMAIN s : s[i] \in P) => \A i \in DOMAIN Tail(s) : Tail(s)[i] \in P
<1>1. /\ Head(s) \in S /\ Tail(s) \in Seq(S) /\ Len(Tail(s)) = Len(s) - 1 /\ Len(s) \in Nat \ {0}
      /\ Head(s) = s[1] /\ \A i \in 1..Len(Tail(s)) : Tail(s)[i] = s[i + 1]
  BY HeadTailProperties
<1>2. DOMAIN s = 1..Len(s) /\ DOMAIN Tail(s) = 1..(Len(s) - 1)
  BY <1>1
<1>3. \A i \in DOMAIN Tail(s) : i + 1 \in DOMAIN s /\ Tail(s)[i] = s[i + 1]
  BY <1>1, <1>2
<1>4. QED
  BY <1>1, <1>2, <1>3

\* What may lie in the pipe: ids given out, and to the waiting calls answers to their questions.
Fitting(n, calls) == {l \in [id : Int, about : Abouts] :
                        l.id <= n /\ \A c \in Callers : calls[c].pc = "wait" /\ calls[c].id = l.id => l.about = calls[c].question}
Said(l) == [id |-> l.id, about |-> l.about]
PipeIn(s, F) == \A i \in DOMAIN s : Said(s[i]) \in F
WaitsKnown(n, calls) == \A c \in Callers : calls[c].pc = "wait" => calls[c].id \in 1..n

LEMMA FittingIs ==
  ASSUME NEW n, NEW calls, NEW l, l.id \in Int, l.about \in Abouts
  PROVE  Said(l) \in Fitting(n, calls)
           <=> /\ l.id <= n
               /\ \A c \in Callers : calls[c].pc = "wait" /\ calls[c].id = l.id => l.about = calls[c].question
BY DEF Said, Fitting

LEMMA PipeIsFitting ==
  ASSUME NEW cl, IsClient(cl), NEW calls
  PROVE  PipeSound(cl, calls) <=> /\ PipeIn(cl.asked, Fitting(cl.lastId, calls))
                                  /\ PipeIn(cl.lines, Fitting(cl.lastId, calls))
                                  /\ WaitsKnown(cl.lastId, calls)
<1>1. PICK a \in Seq(AskedLines), r \in Seq(ReadLines), n \in Nat : a = cl.asked /\ r = cl.lines /\ n = cl.lastId
  BY DEF IsClient
<1>2. \A i \in DOMAIN a : a[i].id \in Int /\ a[i].about \in Abouts
  <2>1. \A i \in DOMAIN a : a[i] \in AskedLines
    OBVIOUS
  <2>2. QED
    BY <2>1 DEF AskedLines
<1>3. \A i \in DOMAIN r : r[i].id \in Int /\ r[i].about \in Abouts
  <2>1. \A i \in DOMAIN r : r[i] \in ReadLines
    OBVIOUS
  <2>2. QED
    BY <2>1 DEF ReadLines
<1>4. PipeIn(a, Fitting(n, calls)) <=>
        /\ UpTo(a, n)
        /\ \A c \in Callers : calls[c].pc = "wait" => About(a, calls[c])
  <2>1. \A i \in DOMAIN a : Said(a[i]) \in Fitting(n, calls) <=>
          /\ a[i].id <= n
          /\ \A c \in Callers : calls[c].pc = "wait" /\ calls[c].id = a[i].id => a[i].about = calls[c].question
    BY <1>2, FittingIs
  <2>2. QED
    BY <2>1, Zenon DEF PipeIn, UpTo, About
<1>5. PipeIn(r, Fitting(n, calls)) <=>
        /\ UpTo(r, n)
        /\ \A c \in Callers : calls[c].pc = "wait" => About(r, calls[c])
  <2>1. \A i \in DOMAIN r : Said(r[i]) \in Fitting(n, calls) <=>
          /\ r[i].id <= n
          /\ \A c \in Callers : calls[c].pc = "wait" /\ calls[c].id = r[i].id => r[i].about = calls[c].question
    BY <1>3, FittingIs
  <2>2. QED
    BY <2>1, Zenon DEF PipeIn, UpTo, About
<1>6. QED
  BY <1>1, <1>4, <1>5 DEF PipeSound, PipeFits, WaitsKnown

LEMMA PipeInAppends ==
  ASSUME NEW S, NEW s \in Seq(S), NEW e \in S, NEW F, PipeIn(s, F), Said(e) \in F
  PROVE  Append(s, e) \in Seq(S) /\ PipeIn(Append(s, e), F)
<1>1. PICK P : P = {x \in S : Said(x) \in F}
  OBVIOUS
<1>2. (\A i \in DOMAIN s : s[i] \in P) /\ e \in P
  BY <1>1 DEF PipeIn
<1>3. Append(s, e) \in Seq(S) /\ \A i \in DOMAIN Append(s, e) : Append(s, e)[i] \in P
  BY <1>2, PipeAppends
<1>4. QED
  BY <1>1, <1>3 DEF PipeIn

LEMMA PipeInTail ==
  ASSUME NEW S, NEW s \in Seq(S), s # <<>>, NEW F, PipeIn(s, F)
  PROVE  Head(s) \in S /\ Said(Head(s)) \in F /\ Tail(s) \in Seq(S) /\ PipeIn(Tail(s), F)
<1>1. PICK P : P = {x \in S : Said(x) \in F}
  OBVIOUS
<1>2. \A i \in DOMAIN s : s[i] \in P
  BY <1>1 DEF PipeIn
<1>3. /\ Head(s) \in S /\ Head(s) \in P /\ Tail(s) \in Seq(S)
      /\ \A i \in DOMAIN Tail(s) : Tail(s)[i] \in P
  BY <1>2, PipeTail
<1>4. QED
  BY <1>1, <1>3 DEF PipeIn

LEMMA PipeInMore ==
  ASSUME NEW s, NEW F, NEW G, F \subseteq G, PipeIn(s, F)
  PROVE  PipeIn(s, G)
BY DEF PipeIn

\* A call that begins to wait under a new id.
LEMMA FittingGrows ==
  ASSUME NEW n \in Nat, NEW m \in Nat, n <= m, NEW c \in Callers, NEW k, k.pc = "wait" => k.id > n,
         CallBecomes(c, k)
  PROVE  Fitting(n, call) \subseteq Fitting(m, call')
<1> SUFFICES ASSUME NEW l \in Fitting(n, call) PROVE l \in Fitting(m, call')
  OBVIOUS
<1>1. /\ l \in [id : Int, about : Abouts] /\ l.id <= n
      /\ \A o \in Callers : call[o].pc = "wait" /\ call[o].id = l.id => l.about = call[o].question
  BY DEF Fitting
<1>2. l.id <= m
  BY <1>1
<1>3. ASSUME NEW o \in Callers, call'[o].pc = "wait", call'[o].id = l.id
      PROVE  l.about = call'[o].question
  <2>1. CASE o = c
    <3>1. k.id > n /\ k.id = l.id /\ l.id <= n /\ l.id \in Int
      BY <1>1, <1>3, <2>1 DEF CallBecomes
    <3>2. QED
      BY <3>1
  <2>2. CASE o # c
    BY <1>1, <1>3, <2>2 DEF CallBecomes
  <2>3. QED
    BY <2>1, <2>2
<1>4. QED
  BY <1>1, <1>2, <1>3 DEF Fitting

\* _ensure_mcp, with a child that runs or with a new one.
LEMMA EnterKeeps ==
  ASSUME NxInv, NEW c \in Callers, Enter(c)
  PROVE  NxInv'
<1>1. /\ IsCall(call[c]) /\ DOMAIN call = Callers /\ call[c].pc = "enter" /\ client.lock = Nothing
      /\ IsClient(client) /\ UNCHANGED <<keeps, promoted>>
  BY DEF NxInv, NxTyped, Enter, At
<1>2. \A o \in Callers : call[o].pc \notin Holding
  BY <1>1, NxConstantsOK DEF NxInv, LockHeld, Nothing
<1>3. CASE client.child \in running
  <2>1. PICK k : k = [call[c] EXCEPT !.pc = "send"]
    OBVIOUS
  <2>2. k = [pc |-> "send", id |-> call[c].id, question |-> call[c].question, answer |-> call[c].answer,
             promotes |-> call[c].promotes]
    BY <1>1, <2>1 DEF IsCall
  <2>3. IsCall(k) /\ k.pc = "send"
    BY <1>1, <2>2 DEF IsCall, Holding
  <2>4. call' = [call EXCEPT ![c] = k] /\ running' = running /\ client' = [client EXCEPT !.lock = c]
    BY <1>1, <1>3, <2>1 DEF Enter, StepsTo
  <2>5. CallBecomes(c, k) /\ \A o \in Callers : IsCall(call'[o])
    BY <2>3, <2>4, CallTyped DEF NxInv
  <2>6. client' = [lock |-> c, child |-> client.child, lastId |-> client.lastId, asked |-> client.asked,
                   lines |-> client.lines]
    BY <1>1, <2>4 DEF IsClient
  <2>7. IsClient(client')
    BY <1>1, <2>6 DEF IsClient
  <2>8. PipeSound(client', call')
    BY <2>3, <2>5, <2>6, PipeKept
  <2>9. LockHeld(client, call)' /\ ChildHeld(running, client, call)'
    BY <1>2, <2>3, <2>4, <2>5, <2>6 DEF LockHeld, NxInv, ChildHeld, CallBecomes, Attended, Holding
  <2>10. QED
    BY <1>1, <2>5, <2>7, <2>8, <2>9 DEF NxInv, NxTyped, CallBecomes
<1>4. CASE client.child \notin running
  <2>1. PICK n \in Nat : n = client.lastId + 1
    BY <1>1 DEF IsClient
  <2>2. PICK k : k = [call[c] EXCEPT !.pc = "hello", !.id = n]
    OBVIOUS
  <2>3. k = [pc |-> "hello", id |-> n, question |-> call[c].question, answer |-> call[c].answer,
             promotes |-> call[c].promotes]
    BY <1>1, <2>2 DEF IsCall
  <2>4. IsCall(k) /\ k.pc = "hello"
    BY <1>1, <2>3 DEF IsCall, Holding
  <2>5. /\ call' = [call EXCEPT ![c].pc = "hello", ![c].id = n]
        /\ running' = Terminated(c) \cup {n}
        /\ client' = [Stopped(c) EXCEPT !.child = n, !.lastId = n, !.asked = <<[id |-> n, about |-> Nothing]>>]
    BY <1>4, <2>1 DEF Enter
  <2>6. call' = [call EXCEPT ![c] = k]
    BY <1>1, <2>2, <2>3, <2>5
  <2>7. CallBecomes(c, k) /\ \A o \in Callers : IsCall(call'[o])
    BY <2>4, <2>6, CallTyped DEF NxInv
  <2>8. client' = [lock |-> c, child |-> n, lastId |-> n, asked |-> <<[id |-> n, about |-> Nothing]>>, lines |-> <<>>]
    BY <1>1, <2>5 DEF IsClient, Stopped
  <2>9. [id |-> n, about |-> Nothing] \in AskedLines
    BY DEF AskedLines, Abouts
  <2>10. IsClient(client')
    <3>1. PICK e \in AskedLines : e = [id |-> n, about |-> Nothing]
      BY <2>9
    <3>2. PICK one \in Seq(AskedLines) : one = <<e>>
      <4>1. Append(<<>>, e) \in Seq(AskedLines) /\ Append(<<>>, e) = <<e>>
        BY EmptySeq, AppendProperties
      <4>2. QED
        BY <4>1
    <3>3. PICK none \in Seq(ReadLines) : none = <<>>
      BY EmptySeq
    <3>4. client' = [lock |-> c, child |-> n, lastId |-> n, asked |-> one, lines |-> none]
      BY <2>8, <3>1, <3>2, <3>3
    <3>5. QED
      BY <2>1, <3>4 DEF IsClient
  <2>11. \A o \in Callers : call'[o].pc # "wait"
    BY <1>2, <2>4, <2>7 DEF CallBecomes, Holding
  <2>12. PipeSound(client', call')
    <3>1. UpTo(<<[id |-> n, about |-> Nothing]>>, n) /\ UpTo(<<>>, n)
      BY DEF UpTo
    <3>2. QED
      BY <2>8, <2>11, <3>1 DEF PipeSound, PipeFits
  <2>13. running' = {n}
    BY <2>5 DEF Terminated, NxInv, ChildHeld
  <2>14. LockHeld(client, call)' /\ ChildHeld(running, client, call)'
    BY <1>2, <2>4, <2>7, <2>8, <2>13 DEF LockHeld, ChildHeld, CallBecomes, Attended, Holding
  <2>15. QED
    BY <1>1, <2>7, <2>10, <2>12, <2>14 DEF NxInv, NxTyped, CallBecomes
<1>5. QED
  BY <1>3, <1>4

LEMMA CannotStartKeeps ==
  ASSUME NxInv, NEW c \in Callers, CannotStart(c)
  PROVE  NxInv'
BY BreaksKeeps DEF CannotStart, Breaks

LEMMA HolderLocks ==
  ASSUME NxInv, NEW c \in Callers, call[c].pc \in Holding
  PROVE  client.lock = c /\ \A o \in Callers \ {c} : call[o].pc \notin Holding
BY OneHolds DEF NxInv, LockHeld

LEMMA McpTimesOutKeeps ==
  ASSUME NxInv, NEW c \in Callers, McpTimesOut(c)
  PROVE  NxInv'
BY HolderLocks, BreaksKeeps DEF McpTimesOut, Holding

LEMMA SendKeeps ==
  ASSUME NxInv, NEW c \in Callers, SendRequest(c)
  PROVE  NxInv'
<1>1. /\ IsCall(call[c]) /\ DOMAIN call = Callers /\ call[c].pc = "send" /\ client.lock = c
      /\ IsClient(client) /\ UNCHANGED <<keeps, promoted>>
  BY HolderLocks DEF NxInv, NxTyped, SendRequest, At, Holding
<1>2. CASE client.child \notin running
  BY <1>1, <1>2, BreaksKeeps DEF SendRequest
<1>3. CASE client.child \in running
  <2>0. PICK m \in Nat, a \in Seq(AskedLines), r \in Seq(ReadLines) : m = client.lastId /\ a = client.asked /\ r = client.lines
    BY <1>1 DEF IsClient
  <2>1. PICK n \in Nat : n = m + 1
    OBVIOUS
  <2>2. PICK k : k = [call[c] EXCEPT !.pc = "wait", !.id = n]
    OBVIOUS
  <2>3. k = [pc |-> "wait", id |-> n, question |-> call[c].question, answer |-> call[c].answer,
             promotes |-> call[c].promotes]
    BY <1>1, <2>2 DEF IsCall
  <2>4. IsCall(k) /\ k.pc = "wait" /\ k.id = n /\ k.question \in Abouts
    BY <1>1, <2>3 DEF IsCall, Holding
  <2>5. PICK e : e = [id |-> n, about |-> k.question]
    OBVIOUS
  <2>6. /\ call' = [call EXCEPT ![c].pc = "wait", ![c].id = n] /\ running' = running
        /\ client' = [client EXCEPT !.lastId = n, !.asked = Append(@, e)]
    BY <1>3, <2>0, <2>1, <2>3, <2>5 DEF SendRequest
  <2>7. call' = [call EXCEPT ![c] = k]
    BY <1>1, <2>2, <2>3, <2>6
  <2>8. CallBecomes(c, k) /\ \A o \in Callers : IsCall(call'[o])
    BY <2>4, <2>7, CallTyped DEF NxInv
  <2>9. client' = [lock |-> client.lock, child |-> client.child, lastId |-> n, asked |-> Append(a, e), lines |-> r]
    BY <1>1, <2>0, <2>6 DEF IsClient
  <2>10. \A o \in Callers \ {c} : call'[o].pc \notin Holding
    BY <1>1, <2>8, HolderLocks DEF Holding, CallBecomes
  <2>11. PipeIn(a, Fitting(m, call)) /\ PipeIn(r, Fitting(m, call))
    BY <1>1, <2>0, PipeIsFitting DEF NxInv
  <2>12. Fitting(m, call) \subseteq Fitting(n, call')
    BY <2>1, <2>4, <2>8, FittingGrows
  <2>13. PipeIn(a, Fitting(n, call')) /\ PipeIn(r, Fitting(n, call'))
    BY <2>11, <2>12, PipeInMore
  <2>14. e \in AskedLines /\ Said(e) = e
    BY <2>4, <2>5 DEF AskedLines, Said
  <2>15. Said(e) \in Fitting(n, call')
    <3>1. e.id = n /\ e.about = k.question /\ e.id \in Int /\ e.about \in Abouts
      BY <2>4, <2>5
    <3>2. \A o \in Callers : call'[o].pc = "wait" => o = c
      BY <2>10 DEF Holding
    <3>3. call'[c] = k
      BY <2>8 DEF CallBecomes
    <3>4. QED
      BY <3>1, <3>2, <3>3, FittingIs
  <2>16. Append(a, e) \in Seq(AskedLines) /\ PipeIn(Append(a, e), Fitting(n, call'))
    BY <2>13, <2>14, <2>15, PipeInAppends
  <2>17. IsClient(client')
    BY <2>9, <2>16 DEF IsClient
  <2>18. WaitsKnown(n, call')
    <3>1. n \in 1..n
      BY <2>1
    <3>2. QED
      BY <2>4, <2>8, <2>10, <3>1 DEF WaitsKnown, CallBecomes, Holding
  <2>19. PipeSound(client', call')
    BY <2>9, <2>13, <2>16, <2>17, <2>18, PipeIsFitting
  <2>20. LockHeld(client, call)' /\ ChildHeld(running, client, call)'
    BY <1>1, <2>4, <2>6, <2>8, <2>9, <2>10 DEF LockHeld, NxInv, ChildHeld, CallBecomes, Attended, Holding
  <2>21. QED
    BY <1>1, <2>8, <2>17, <2>19, <2>20 DEF NxInv, NxTyped, CallBecomes
<1>4. QED
  BY <1>2, <1>3

\* A line leaves the queue, and the call goes on or not.
LEMMA LineTaken ==
  ASSUME NxInv, NEW c \in Callers, call[c].pc \in Holding, NEW k, IsCall(k), CallBecomes(c, k),
         k.pc = "wait" => k = call[c], k.pc \in {"cli", "release"} \cup Holding,
         client.lines # <<>>, NEW who, client' = [client EXCEPT !.lines = Tail(@), !.lock = who],
         k.pc \in Holding => who = c, UNCHANGED <<keeps, running, promoted>>
  PROVE  NxInv'
<1>1. IsClient(client) /\ \A o \in Callers : IsCall(call[o])
  BY DEF NxInv, NxTyped
<1>2. PICK n \in Nat, a \in Seq(AskedLines), r \in Seq(ReadLines) : n = client.lastId /\ a = client.asked /\ r = client.lines
  BY <1>1 DEF IsClient
<1>3. client' = [lock |-> who, child |-> client.child, lastId |-> n, asked |-> a, lines |-> Tail(r)]
  BY <1>1, <1>2 DEF IsClient
<1>4. PipeIn(a, Fitting(n, call)) /\ PipeIn(r, Fitting(n, call)) /\ WaitsKnown(n, call)
  BY <1>1, <1>2, PipeIsFitting DEF NxInv
<1>5. Fitting(n, call) \subseteq Fitting(n, call') /\ WaitsKnown(n, call')
  <2>1. \A o \in Callers : call'[o].pc = "wait" => call'[o] = call[o]
    BY DEF CallBecomes
  <2>2. QED
    BY <1>4, <2>1 DEF Fitting, WaitsKnown
<1>6. PipeIn(a, Fitting(n, call')) /\ PipeIn(r, Fitting(n, call'))
  BY <1>4, <1>5, PipeInMore
<1>7. Tail(r) \in Seq(ReadLines) /\ PipeIn(Tail(r), Fitting(n, call'))
  BY <1>2, <1>6, PipeInTail
<1>8. IsClient(client')
  <2>1. PICK t \in Seq(ReadLines) : t = Tail(r)
    BY <1>7
  <2>2. client' = [lock |-> who, child |-> client.child, lastId |-> n, asked |-> a, lines |-> t]
    BY <1>3, <2>1
  <2>3. QED
    BY <2>2, ClientIs
<1>9. PipeSound(client', call')
  BY <1>3, <1>5, <1>6, <1>7, <1>8, PipeIsFitting
<1>10. \A o \in Callers \ {c} : call'[o].pc \notin Holding
  BY HolderLocks DEF CallBecomes
<1>11. LockHeld(client, call)' /\ ChildHeld(running, client, call)'
  BY <1>3, <1>10 DEF LockHeld, NxInv, ChildHeld, CallBecomes, Attended
<1>12. \A o \in Callers : IsCall(call'[o])
  BY <1>1 DEF CallBecomes
<1>13. QED
  BY <1>8, <1>9, <1>11, <1>12 DEF NxInv, NxTyped, CallBecomes

LEMMA ReadKeeps ==
  ASSUME NxInv, NEW c \in Callers, Read(c)
  PROVE  NxInv'
<1>1. /\ IsCall(call[c]) /\ DOMAIN call = Callers /\ call[c].pc \in {"hello", "wait"} /\ client.lock = c
      /\ IsClient(client) /\ client.lines # <<>> /\ UNCHANGED <<keeps, promoted>>
  BY HolderLocks DEF NxInv, NxTyped, Read, Holding
<1>2. PICK l : l = Head(client.lines)
  OBVIOUS
<1>3. CASE Breaks(c)
  BY <1>1, <1>3, BreaksKeeps
<1>4. CASE client' = [client EXCEPT !.lines = Tail(@)] /\ UNCHANGED <<running, call>>
  <2>1. client' = [client EXCEPT !.lines = Tail(@), !.lock = c]
    BY <1>1, <1>4 DEF IsClient
  <2>2. CallBecomes(c, call[c])
    BY <1>1, <1>4 DEF CallBecomes
  <2>3. QED
    BY <1>1, <1>4, <2>1, <2>2, LineTaken DEF Holding
<1>5. CASE At(c, "hello") /\ Handshake(c)
  <2>1. client' = [client EXCEPT !.lines = Tail(@), !.lock = c]
    BY <1>1, <1>5 DEF IsClient, Handshake
  <2>2. PICK k : k = [call[c] EXCEPT !.pc = "send"]
    OBVIOUS
  <2>3. k = [pc |-> "send", id |-> call[c].id, question |-> call[c].question, answer |-> call[c].answer,
             promotes |-> call[c].promotes]
    BY <1>1, <2>2 DEF IsCall
  <2>4. IsCall(k) /\ k.pc = "send"
    BY <1>1, <2>3 DEF IsCall, Holding
  <2>5. call' = [call EXCEPT ![c] = k]
    BY <1>1, <1>5, <2>2 DEF Handshake, StepsTo
  <2>6. CallBecomes(c, k)
    BY <2>4, <2>5, CallTyped DEF NxInv
  <2>7. QED
    BY <1>1, <1>5, <2>1, <2>4, <2>6, LineTaken DEF Holding, Handshake
<1>6. CASE At(c, "wait") /\ IsAnswer(c, l) /\ TakesAnswer(c, l)
  <2>1. l.about = call[c].question
    <3>1. PICK n \in Nat, r \in Seq(ReadLines) : n = client.lastId /\ r = client.lines
      BY <1>1 DEF IsClient
    <3>2. PipeIn(r, Fitting(n, call))
      BY <1>1, <3>1, PipeIsFitting DEF NxInv
    <3>3. l \in ReadLines /\ Said(l) \in Fitting(n, call)
      BY <1>1, <1>2, <3>1, <3>2, PipeInTail
    <3>4. l.id \in Int /\ l.about \in Abouts
      BY <3>3 DEF ReadLines
    <3>5. QED
      BY <1>6, <3>3, <3>4, FittingIs DEF At, IsAnswer
  <2>2. PICK pc \in {"release", "cli"}, a \in {call[c].question, Nothing} :
          /\ pc = "release" => a = call[c].question
          /\ call' = [call EXCEPT ![c].pc = pc, ![c].answer = a]
    BY <1>6, <2>1 DEF TakesAnswer
  <2>3. PICK k : k = [call[c] EXCEPT !.pc = pc, !.answer = a]
    OBVIOUS
  <2>4. k = [pc |-> pc, id |-> call[c].id, question |-> call[c].question, answer |-> a,
             promotes |-> call[c].promotes]
    BY <1>1, <2>3 DEF IsCall
  <2>5. IsCall(k) /\ k.pc \in {"cli", "release"}
    BY <1>1, <2>2, <2>4 DEF IsCall
  <2>6. call' = [call EXCEPT ![c] = k]
    BY <1>1, <2>2, <2>3, <2>4
  <2>7. CallBecomes(c, k)
    BY <2>5, <2>6, CallTyped DEF NxInv
  <2>8. client' = [client EXCEPT !.lines = Tail(@), !.lock = Nothing] /\ UNCHANGED running
    BY <1>6 DEF TakesAnswer
  <2>9. QED
    BY <1>1, <2>5, <2>7, <2>8, LineTaken DEF Holding
<1>7. QED
  <2>1. call[c].pc = "hello" \/ call[c].pc = "wait"
    BY <1>1
  <2>2. CASE l = Exit
    BY <1>2, <1>3, <2>2 DEF Read
  <2>3. CASE l # Exit /\ ~IsAnswer(c, l)
    BY <1>2, <1>4, <2>3 DEF Read
  <2>4. CASE l # Exit /\ IsAnswer(c, l) /\ At(c, "hello")
    BY <1>2, <1>3, <1>5, <2>4 DEF Read
  <2>5. CASE l # Exit /\ IsAnswer(c, l) /\ ~At(c, "hello")
    <3>1. TakesAnswer(c, l)
      BY <1>2, <2>5 DEF Read
    <3>2. QED
      BY <1>6, <2>1, <2>5, <3>1 DEF At
  <2>6. QED
    BY <2>2, <2>3, <2>4, <2>5

\* The child says a line that was due, or any that answers nothing, and may be gone after it.
LEMMA LineSaid ==
  ASSUME NxInv, NEW rest \in Seq(AskedLines), PipeIn(rest, Fitting(client.lastId, call)),
         NEW l \in ReadLines, Said(l) \in Fitting(client.lastId, call),
         client' = [client EXCEPT !.asked = rest, !.lines = Append(@, l)], running' \subseteq running,
         UNCHANGED <<keeps, call, promoted>>
  PROVE  NxInv'
<1>1. PICK n \in Nat, r \in Seq(ReadLines) : n = client.lastId /\ r = client.lines
  BY DEF NxInv, NxTyped, IsClient
<1>2. client' = [lock |-> client.lock, child |-> client.child, lastId |-> n, asked |-> rest, lines |-> Append(r, l)]
  BY <1>1 DEF NxInv, NxTyped, IsClient
<1>3. PipeIn(r, Fitting(n, call)) /\ WaitsKnown(n, call)
  BY <1>1, PipeIsFitting DEF NxInv, NxTyped
<1>4. Append(r, l) \in Seq(ReadLines) /\ PipeIn(Append(r, l), Fitting(n, call))
  BY <1>1, <1>3, PipeInAppends
<1>5. IsClient(client')
  <2>1. PICK more \in Seq(ReadLines) : more = Append(r, l)
    BY <1>4
  <2>2. client' = [lock |-> client.lock, child |-> client.child, lastId |-> n, asked |-> rest, lines |-> more]
    BY <1>2, <2>1
  <2>3. QED
    BY <2>2, ClientIs
<1>6. PipeSound(client', call)
  BY <1>1, <1>2, <1>3, <1>4, <1>5, PipeIsFitting
<1>7. LockHeld(client, call)' /\ ChildHeld(running, client, call)'
  BY <1>2 DEF NxInv, LockHeld, ChildHeld, Attended
<1>8. QED
  BY <1>5, <1>6, <1>7 DEF NxInv, NxTyped

LEMMA ChildKeeps ==
  ASSUME NxInv, ChildAnswers \/ ChildNotices \/ McpChildExits
  PROVE  NxInv'
<1>1. PICK n \in Nat, a \in Seq(AskedLines) : n = client.lastId /\ a = client.asked
  BY DEF NxInv, NxTyped, IsClient
<1>2. PipeIn(a, Fitting(n, call)) /\ WaitsKnown(n, call)
  BY <1>1, PipeIsFitting DEF NxInv, NxTyped
<1>3. Says(Exit) \/ Says(Notice) => \E l \in {Exit, Notice} : client' = [client EXCEPT !.asked = a, !.lines = Append(@, l)]
  BY <1>1 DEF NxInv, NxTyped, IsClient, Says
<1>4. \A l \in {Exit, Notice} : l \in ReadLines /\ Said(l) \in Fitting(n, call)
  <2>1. /\ Exit \in ReadLines /\ Exit.id = -1 /\ Exit.about = Nothing
        /\ Notice \in ReadLines /\ Notice.id = 0 /\ Notice.about = Nothing
    BY DEF ReadLines, Abouts, Exit, Notice
  <2>2. \A i \in {-1, 0} : i <= n /\ \A c \in Callers : call[c].pc = "wait" => call[c].id # i
    BY <1>2 DEF WaitsKnown
  <2>3. Nothing \in Abouts
    BY DEF Abouts
  <2>4. Said(Exit) \in Fitting(n, call)
    BY <2>1, <2>2, <2>3, FittingIs
  <2>5. Said(Notice) \in Fitting(n, call)
    BY <2>1, <2>2, <2>3, FittingIs
  <2>6. QED
    BY <2>1, <2>4, <2>5
<1>5. CASE ChildAnswers
  <2>1. a # <<>> /\ UNCHANGED <<keeps, running, call, promoted>>
    BY <1>1, <1>5 DEF ChildAnswers
  <2>2. PICK ok \in BOOLEAN : client' = [client EXCEPT !.asked = Tail(@),
              !.lines = Append(@, [id |-> Head(a).id, about |-> Head(a).about, ok |-> ok])]
    BY <1>1, <1>5 DEF ChildAnswers
  <2>3. Head(a) \in AskedLines /\ Said(Head(a)) \in Fitting(n, call) /\ Tail(a) \in Seq(AskedLines)
        /\ PipeIn(Tail(a), Fitting(n, call))
    BY <1>2, <2>1, PipeInTail
  <2>4. PICK l : l = [id |-> Head(a).id, about |-> Head(a).about, ok |-> ok]
    OBVIOUS
  <2>5. l \in ReadLines /\ Said(l) = Said(Head(a))
    BY <2>3, <2>4 DEF ReadLines, AskedLines, Said
  <2>6. client' = [client EXCEPT !.asked = Tail(a), !.lines = Append(@, l)]
    BY <1>1, <2>2, <2>4
  <2>7. QED
    BY <1>1, <2>1, <2>3, <2>5, <2>6, LineSaid
<1>6. CASE ChildNotices
  BY <1>1, <1>2, <1>3, <1>4, <1>6, LineSaid DEF ChildNotices
<1>7. CASE McpChildExits
  BY <1>1, <1>2, <1>3, <1>4, <1>7, LineSaid DEF McpChildExits
<1>8. QED
  BY <1>5, <1>6, <1>7

LEMMA NxStep == NxInv /\ [NxNext]_nxVars => NxInv'
<1> SUFFICES ASSUME NxInv, [NxNext]_nxVars PROVE NxInv'
  OBVIOUS
<1>1. CASE UNCHANGED nxVars
  BY <1>1 DEF nxVars, NxInv, NxTyped, PipeSound, LockHeld, ChildHeld, PipeFits, Attended
<1>2. ASSUME NEW c \in Callers, NEW q \in Questions, NEW p \in BOOLEAN, BeginCall(c, q, p) \/ Command(c, q)
      PROVE  NxInv'
  BY <1>2, CallsAside
<1>3. QED
  BY <1>1, <1>2, CallsEnd, EnterKeeps, CannotStartKeeps, SendKeeps, ReadKeeps, McpTimesOutKeeps, ReleaseKeeps,
     ChildKeeps DEF NxNext

\* _mcp_roundtrip, _mcp_call_tool, _release (app/nx_search_client.py): every answer is to the
\* caller's own question, and a client that does not persist leaves no child.
LEMMA OwnAnswers == NxSpec => []OwnAnswersOnly
<1>1. NxInv => OwnAnswersOnly
  BY DEF NxInv, NxTyped, IsCall, ChildHeld, Attended, OwnAnswersOnly, Holding
<1>2. QED
  BY <1>1, NxStart, NxStep, PTL DEF NxSpec
-----------------------------------------------------------------------------
(* The guards of the start, the checks of a connection, readiness *)

\* What an observer need not see again: it holds, or it held when the observer looked.
Stood(d, b, o, facts) == \A f \in facts : Good(d, f) \/ f \in b[o]
Listed(todo) == {todo[i] : i \in DOMAIN todo}
Facts == {"version", "role", "tables", "isolated", "history", "control"} \cup Ledgers

StartFacts(sv) == (IF sv.keyed THEN {"control"} ELSE {}) \cup (IF sv.strict THEN {"version", "role", "tables", "isolated"} ELSE {})
ReadyFacts(sv) == {"version", "role", "tables", "history"} \cup (IF sv.ignore THEN {} ELSE {Box})
Guarded(sv, d, b) ==
  sv.pc \in {"starting", "up"} => Stood(d, b, "start", StartFacts(sv) \ (IF sv.pc = "up" THEN {} ELSE Listed(sv.todo)))
RememberedFits(sv, rem, d, b) ==
  /\ rem.ready => Stood(d, b, "memory", {"version", "role"})
  /\ sv.ignore \/ Stood(d, b, "memory", rem.legacy)
HandlerFits(sv, rem, k, d, b, h) ==
  /\ k.pc = "check" => rem.ready \/ Stood(d, b, h, {"version", "role"} \ Listed(k.todo))
  /\ k.pc \in {"legacy", "served"} => rem.ready
  /\ k.pc = "served" => k.tenant \in rem.legacy
ProbeFits(sv, p, d, b) ==
  p.pc \in {"checks", "answers"} /\ p.ok =>
    Stood(d, b, "ready", ReadyFacts(sv) \ (IF p.pc = "answers" THEN {} ELSE Listed(p.todo)))

ControlFirst(todo) == \A i \in DOMAIN todo : i > 1 => todo[i] # "control"
IsServer(sv) ==
  /\ sv = [pc |-> sv.pc, strict |-> sv.strict, keyed |-> sv.keyed, ignore |-> sv.ignore, todo |-> sv.todo, tries |-> sv.tries]
  /\ sv.pc \in {"down", "starting", "up"} /\ sv.todo \in Seq(Facts) /\ ControlFirst(sv.todo)
IsRemembered(rem) == rem = [ready |-> rem.ready, legacy |-> rem.legacy] /\ rem.legacy \subseteq Ledgers
IsHandler(k) ==
  /\ k = [pc |-> k.pc, tenant |-> k.tenant, todo |-> k.todo]
  /\ k.pc \in {"idle", "waits", "check", "legacy", "served"} /\ k.tenant \in Ledgers /\ k.todo \in Seq(Facts)
IsProbe(p) ==
  /\ p = [pc |-> p.pc, todo |-> p.todo, ok |-> p.ok]
  /\ p.pc \in {"idle", "checks", "answers"} /\ p.todo \in Seq(Facts)

SvInv ==
  /\ IsServer(server) /\ IsRemembered(remembered) /\ IsProbe(probe)
  /\ DOMAIN handler = Handlers /\ \A h \in Handlers : IsHandler(handler[h])
  /\ DOMAIN broken = Observers
  /\ server.pc # "up" => /\ probe.pc = "idle" /\ remembered = NothingRemembered
                         /\ \A h \in Handlers : handler[h].pc = "idle"
  /\ Guarded(server, database, broken)
  /\ RememberedFits(server, remembered, database, broken)
  /\ \A h \in Handlers : HandlerFits(server, remembered, handler[h], database, broken, h)
  /\ ProbeFits(server, probe, database, broken)

LEMMA HandlersAside == \A h \in Handlers : h \notin {"start", "memory", "ready"}
BY SvConstantsOK

\* A list of facts without its first.
LEMMA ListedTail ==
  ASSUME NEW s \in Seq(Facts), s # <<>>
  PROVE  /\ Head(s) \in Facts /\ Tail(s) \in Seq(Facts) /\ Listed(s) \subseteq Listed(Tail(s)) \cup {Head(s)}
         /\ ControlFirst(s) => ControlFirst(Tail(s)) /\ (Head(s) # "control" => "control" \notin Listed(s))
<1>1. /\ Head(s) \in Facts /\ Tail(s) \in Seq(Facts) /\ Len(Tail(s)) = Len(s) - 1 /\ Len(s) \in Nat \ {0}
      /\ Head(s) = s[1] /\ \A i \in 1..Len(Tail(s)) : Tail(s)[i] = s[i + 1]
  BY HeadTailProperties
<1>2. DOMAIN s = 1..Len(s) /\ DOMAIN Tail(s) = 1..(Len(s) - 1)
  BY <1>1
<1>3. \A i \in DOMAIN s : i = 1 \/ (i - 1 \in DOMAIN Tail(s) /\ Tail(s)[i - 1] = s[i])
  BY <1>1, <1>2
<1>4. ASSUME NEW i \in DOMAIN s PROVE s[i] \in Listed(Tail(s)) \cup {Head(s)}
  BY <1>1, <1>3 DEF Listed
<1>5. ASSUME ControlFirst(s) PROVE ControlFirst(Tail(s))
  <2>1. \A i \in DOMAIN Tail(s) : i + 1 \in DOMAIN s /\ i + 1 > 1 /\ Tail(s)[i] = s[i + 1]
    BY <1>1, <1>2
  <2>2. QED
    BY <1>5, <2>1 DEF ControlFirst
<1>6. ASSUME ControlFirst(s), Head(s) # "control" PROVE "control" \notin Listed(s)
  <2>1. \A i \in DOMAIN s : i = 1 \/ i > 1
    BY <1>2
  <2>2. QED
    BY <1>1, <1>6, <2>1 DEF ControlFirst, Listed
<1>7. QED
  BY <1>1, <1>4, <1>5, <1>6 DEF Listed

LEMMA NothingListed == Listed(<<>>) = {} /\ <<>> \in Seq(Facts) /\ ControlFirst(<<>>)
BY EmptySeq DEF Listed, ControlFirst

\* What stood for an observer that goes on watching stands in the database as it becomes.
LEMMA StillStands ==
  ASSUME NEW d, Becomes(d), NEW o \in Observers, Watching(o), NEW facts, facts \subseteq Watches(o),
         Stood(database, broken, o, facts)
  PROVE  Stood(database', broken', o, facts)
<1>1. database' = d
  BY DEF Becomes
<1>2. broken'[o] = broken[o] \cup {f \in Watches(o) : Good(database, f) /\ ~Good(d, f)}
  BY DEF Becomes
<1>3. QED
  BY <1>1, <1>2, Zenon DEF Stood

LEMMA WatchedFacts ==
  /\ StartFacts(server) \subseteq Watches("start")
  /\ remembered.legacy \subseteq Ledgers => remembered.legacy \cup {"version", "role"} \subseteq Watches("memory")
  /\ ReadyFacts(server) \subseteq Watches("ready")
  /\ \A h \in Handlers : {"version", "role"} \subseteq Watches(h)
  /\ {"start", "memory", "ready"} \cup Handlers = Observers
<1>1. Watches("start") = {"version", "role", "tables", "isolated", "control"}
  BY DEF Watches
<1>2. Watches("memory") = {"version", "role"} \cup Ledgers
  BY DEF Watches
<1>3. Watches("ready") = {"version", "role", "tables", "history", Box}
  BY DEF Watches
<1>4. \A h \in Handlers : Watches(h) = {"version", "role"}
  BY HandlersAside DEF Watches
<1>5. QED
  BY <1>1, <1>2, <1>3, <1>4 DEF StartFacts, ReadyFacts, Observers

LEMMA SvStart == ASSUME SvInit PROVE SvInv
<1>1. PICK d \in Deployments : server = [pc |-> "down", strict |-> d.strict, keyed |-> d.keyed, ignore |-> d.ignore,
                                         todo |-> <<>>, tries |-> 0]
  BY DEF SvInit
<1>2. IsServer(server) /\ server.pc = "down"
  BY <1>1, NothingListed DEF IsServer
<1>3. IsRemembered(remembered) /\ remembered.legacy = {} /\ remembered.ready = FALSE
  BY DEF SvInit, NothingRemembered, IsRemembered
<1>4. IsProbe(probe) /\ probe.pc = "idle"
  BY NothingListed DEF SvInit, NoProbe, IsProbe
<1>5. IsHandler(NoHandling) /\ NoHandling.pc = "idle"
  BY NothingListed, SvConstantsOK DEF NoHandling, IsHandler
<1>6. DOMAIN handler = Handlers /\ (\A h \in Handlers : handler[h] = NoHandling) /\ DOMAIN broken = Observers
  BY DEF SvInit
<1>7. Guarded(server, database, broken) /\ RememberedFits(server, remembered, database, broken)
  BY <1>2, <1>3 DEF Guarded, RememberedFits, Stood
<1>8. ProbeFits(server, probe, database, broken)
  BY <1>4 DEF ProbeFits
<1>9. \A h \in Handlers : HandlerFits(server, remembered, handler[h], database, broken, h)
  BY <1>5, <1>6 DEF HandlerFits
<1>10. QED
  BY <1>2, <1>3, <1>4, <1>5, <1>6, <1>7, <1>8, <1>9 DEF SvInv, SvInit

\* Steps that leave database, handlers and probe alone, while the server is not up.
LEMMA StartsUpKeeps == ASSUME SvInv, StartsUp PROVE SvInv'
<1>1. IsServer(server) /\ server.pc = "down" /\ UNCHANGED <<database, handler, probe>>
  BY DEF SvInv, StartsUp
<1>2. PICK todo : todo = (IF server.keyed THEN KeyGuard ELSE <<>>) \o (IF server.strict THEN IsolationGuard ELSE <<>>)
  OBVIOUS
<1>3. todo \in Seq(Facts) /\ StartFacts(server) \subseteq Listed(todo) /\ ControlFirst(todo)
  <2>1. KeyGuard \in Seq(Facts) /\ IsolationGuard \in Seq(Facts) /\ <<>> \in Seq(Facts)
    BY NothingListed DEF KeyGuard, IsolationGuard, Facts
  <2>2. PICK a \in Seq(Facts), b \in Seq(Facts) : /\ a = (IF server.keyed THEN KeyGuard ELSE <<>>)
                                                 /\ b = (IF server.strict THEN IsolationGuard ELSE <<>>)
    BY <2>1
  <2>3. /\ a \o b \in Seq(Facts) /\ Len(a \o b) = Len(a) + Len(b)
        /\ \A i \in 1..Len(a \o b) : (a \o b)[i] = IF i <= Len(a) THEN a[i] ELSE b[i - Len(a)]
    BY ConcatProperties
  <2>4. Listed(a) \cup Listed(b) \subseteq Listed(a \o b)
    <3>1. \A i \in 1..Len(a) : i \in 1..Len(a \o b) /\ (a \o b)[i] = a[i]
      BY <2>3
    <3>2. \A i \in 1..Len(b) : i + Len(a) \in 1..Len(a \o b) /\ (a \o b)[i + Len(a)] = b[i]
      BY <2>3
    <3>3. DOMAIN a = 1..Len(a) /\ DOMAIN b = 1..Len(b) /\ DOMAIN (a \o b) = 1..Len(a \o b)
      BY <2>3
    <3>4. QED
      BY <3>1, <3>2, <3>3 DEF Listed
  <2>5. server.keyed => "control" \in Listed(a)
    BY <2>2 DEF KeyGuard, Listed
  <2>6. server.strict => {"version", "role", "tables", "isolated"} \subseteq Listed(b)
    <3>1. ASSUME server.strict PROVE b[1] = "version" /\ b[2] = "role" /\ b[3] = "tables" /\ b[4] = "isolated" /\ DOMAIN b = 1..4
      BY <2>2, <3>1 DEF IsolationGuard
    <3>2. QED
      BY <3>1 DEF Listed
  <2>7. ControlFirst(a \o b)
    <3>1. Len(a) <= 1 /\ \A i \in DOMAIN b : b[i] # "control"
      BY <2>2 DEF KeyGuard, IsolationGuard
    <3>2. \A i \in 1..Len(a \o b) : i > 1 => i - Len(a) \in 1..Len(b) /\ (a \o b)[i] = b[i - Len(a)]
      BY <2>3, <3>1
    <3>3. DOMAIN b = 1..Len(b) /\ DOMAIN (a \o b) = 1..Len(a \o b)
      BY <2>3
    <3>4. QED
      BY <3>1, <3>2, <3>3 DEF ControlFirst
  <2>8. QED
    BY <1>2, <2>2, <2>3, <2>4, <2>5, <2>6, <2>7 DEF StartFacts
<1>4. server' = [pc |-> "starting", strict |-> server.strict, keyed |-> server.keyed, ignore |-> server.ignore,
                 todo |-> todo, tries |-> 0]
  BY <1>1, <1>2 DEF StartsUp, IsServer
<1>5. IsServer(server') /\ server'.pc = "starting" /\ StartFacts(server') = StartFacts(server)
  BY <1>3, <1>4 DEF IsServer, StartFacts
<1>6. Guarded(server, database, broken)'
  BY <1>3, <1>4, <1>5 DEF Guarded, Stood
<1>7. remembered' = NothingRemembered /\ DOMAIN broken' = DOMAIN broken
  BY DEF StartsUp
<1>8. IsRemembered(remembered') /\ RememberedFits(server, remembered, database, broken)'
  BY <1>7 DEF NothingRemembered, IsRemembered, RememberedFits, Stood
<1>9. /\ probe'.pc = "idle" /\ \A h \in Handlers : handler'[h].pc = "idle"
  BY <1>1 DEF SvInv
<1>10. ProbeFits(server, probe, database, broken)' /\ \A h \in Handlers : HandlerFits(server, remembered, handler[h], database, broken, h)'
  BY <1>9 DEF ProbeFits, HandlerFits
<1>11. QED
  BY <1>1, <1>5, <1>6, <1>7, <1>8, <1>9, <1>10 DEF SvInv

\* The server goes on checking, or down.
LEMMA ServerMoves ==
  ASSUME SvInv, server.pc = "starting", UNCHANGED <<database, remembered, handler, probe>>,
         IsServer(server'), server'.ignore = server.ignore, Guarded(server, database, broken)', DOMAIN broken' = Observers
  PROVE  SvInv'
<1>1. /\ remembered = NothingRemembered /\ probe.pc = "idle" /\ \A h \in Handlers : handler[h].pc = "idle"
  BY DEF SvInv
<1>2. RememberedFits(server, remembered, database, broken)'
  BY <1>1 DEF NothingRemembered, RememberedFits, Stood
<1>3. ProbeFits(server, probe, database, broken)' /\ \A h \in Handlers : HandlerFits(server, remembered, handler[h], database, broken, h)'
  BY <1>1 DEF ProbeFits, HandlerFits
<1>4. QED
  BY <1>1, <1>2, <1>3 DEF SvInv

LEMMA GuardPassesKeeps == ASSUME SvInv, GuardPasses PROVE SvInv'
<1>1. IsServer(server) /\ server.pc = "starting" /\ server.todo # <<>> /\ UNCHANGED <<database, remembered, handler, probe>>
  BY DEF SvInv, GuardPasses, Guarding
<1>2. PICK s \in Seq(Facts) : s = server.todo
  BY <1>1 DEF IsServer
<1>3. Head(s) \in Facts /\ Tail(s) \in Seq(Facts) /\ Listed(s) \subseteq Listed(Tail(s)) \cup {Head(s)}
      /\ ControlFirst(Tail(s))
  <2>1. ControlFirst(s) /\ s # <<>>
    BY <1>1, <1>2 DEF IsServer
  <2>2. QED
    BY <2>1, ListedTail
<1>4. PICK n : server' = [pc |-> "starting", strict |-> server.strict, keyed |-> server.keyed, ignore |-> server.ignore,
                          todo |-> Tail(s), tries |-> n]
  BY <1>1, <1>2 DEF GuardPasses, IsServer
<1>5. IsServer(server') /\ StartFacts(server') = StartFacts(server)
  BY <1>3, <1>4 DEF IsServer, StartFacts
<1>6. /\ Good(database, Head(s)) /\ broken' = [broken EXCEPT !["start"] = @ \ {Head(s)}] /\ "start" \in DOMAIN broken
  BY <1>2 DEF GuardPasses, HoldsNow, SvInv, Observers
<1>7. Stood(database, broken, "start", StartFacts(server) \ Listed(s))
  BY <1>1, <1>2 DEF SvInv, Guarded
<1>8. Stood(database, broken', "start", StartFacts(server) \ Listed(Tail(s)))
  BY <1>3, <1>6, <1>7 DEF Stood
<1>9. Guarded(server, database, broken)'
  BY <1>1, <1>4, <1>5, <1>8 DEF Guarded
<1>10. QED
  BY <1>1, <1>4, <1>5, <1>6, <1>9, ServerMoves DEF SvInv

LEMMA GuardFailsKeeps == ASSUME SvInv, GuardRefuses \/ Unreachable PROVE SvInv'
<1>1. /\ IsServer(server) /\ server.pc = "starting" /\ server.todo # <<>>
      /\ UNCHANGED <<database, remembered, handler, probe, broken>>
  BY DEF SvInv, GuardRefuses, Unreachable, Guarding
<1>2. CASE server' = [server EXCEPT !.pc = "down", !.todo = <<>>]
  <2>1. server' = [pc |-> "down", strict |-> server.strict, keyed |-> server.keyed, ignore |-> server.ignore,
                   todo |-> <<>>, tries |-> server.tries]
    BY <1>1, <1>2 DEF IsServer
  <2>2. IsServer(server') /\ server'.pc = "down"
    BY <2>1, NothingListed DEF IsServer
  <2>3. Guarded(server, database, broken)'
    BY <2>2 DEF Guarded
  <2>4. QED
    BY <1>1, <2>1, <2>2, <2>3, ServerMoves DEF SvInv
<1>3. CASE server' = [server EXCEPT !.tries = @ + 1, !.todo = Again]
  <2>1. PICK n : server' = [pc |-> "starting", strict |-> server.strict, keyed |-> server.keyed, ignore |-> server.ignore,
                            todo |-> Again, tries |-> n]
    BY <1>1, <1>3 DEF IsServer
  <2>2. Again \in Seq(Facts) /\ ControlFirst(Again)
    <3>1. IsolationGuard \in Seq(Facts) /\ ControlFirst(IsolationGuard)
      BY DEF IsolationGuard, Facts, ControlFirst
    <3>2. QED
      BY <1>1, <3>1 DEF Again, IsServer
  <2>3. IsServer(server') /\ StartFacts(server') = StartFacts(server) /\ server'.todo = Again /\ server'.pc = "starting"
    BY <2>1, <2>2 DEF IsServer, StartFacts
  <2>4. Stood(database, broken, "start", StartFacts(server) \ Listed(server.todo))
    BY <1>1 DEF SvInv, Guarded
  <2>5. CASE Head(server.todo) = "control"
    BY <1>1, <2>1, <2>3, <2>4, <2>5, ServerMoves DEF Again, Guarded, SvInv
  <2>6. CASE Head(server.todo) # "control"
    <3>1. Stood(database, broken, "start", StartFacts(server) \ {"version", "role", "tables", "isolated"})
      <4>1. "control" \notin Listed(server.todo)
        <5>1. PICK s \in Seq(Facts) : s = server.todo /\ ControlFirst(s) /\ s # <<>>
          BY <1>1 DEF IsServer
        <5>2. Head(s) # "control"
          BY <2>6, <5>1
        <5>3. "control" \notin Listed(s)
          BY <5>1, <5>2, ListedTail
        <5>4. QED
          BY <5>1, <5>3
      <4>2. StartFacts(server) \subseteq {"control", "version", "role", "tables", "isolated"}
        BY DEF StartFacts
      <4>3. QED
        BY <2>4, <4>1, <4>2 DEF Stood
    <3>2. Listed(Again) = {"version", "role", "tables", "isolated"}
      <4>1. PICK g : g = Again /\ g = IsolationGuard
        BY <2>6 DEF Again
      <4>2. g[1] = "version" /\ g[2] = "role" /\ g[3] = "tables" /\ g[4] = "isolated" /\ DOMAIN g = 1..4
        BY <4>1 DEF IsolationGuard
      <4>3. QED
        BY <4>1, <4>2 DEF Listed
    <3>3. Guarded(server, database, broken)'
      BY <1>1, <2>3, <3>1, <3>2 DEF Guarded
    <3>4. QED
      BY <1>1, <2>1, <2>3, <3>3, ServerMoves DEF SvInv
  <2>7. QED
    BY <2>5, <2>6
<1>4. QED
  BY <1>1, <1>2, <1>3 DEF GuardRefuses, Unreachable

LEMMA IsUpKeeps == ASSUME SvInv, IsUp PROVE SvInv'
<1>1. /\ IsServer(server) /\ server.pc = "starting" /\ server.todo = <<>>
      /\ UNCHANGED <<database, remembered, handler, probe, broken>>
  BY DEF SvInv, IsUp
<1>2. server' = [pc |-> "up", strict |-> server.strict, keyed |-> server.keyed, ignore |-> server.ignore,
                 todo |-> <<>>, tries |-> server.tries]
  BY <1>1 DEF IsServer, IsUp
<1>3. IsServer(server') /\ StartFacts(server') = StartFacts(server) /\ server'.pc = "up"
  BY <1>2, NothingListed DEF IsServer, StartFacts
<1>4. Stood(database, broken, "start", StartFacts(server))
  BY <1>1, NothingListed DEF SvInv, Guarded, Stood
<1>5. Guarded(server, database, broken)'
  BY <1>1, <1>3, <1>4 DEF Guarded, Stood
<1>6. QED
  BY <1>1, <1>2, <1>3, <1>5, ServerMoves DEF SvInv

LEMMA EndsKeeps == ASSUME SvInv, Ends PROVE SvInv'
<1>1. /\ IsServer(server) /\ server' = [server EXCEPT !.pc = "down", !.todo = <<>>]
      /\ remembered' = NothingRemembered /\ probe' = NoProbe /\ handler' = [h \in Handlers |-> NoHandling]
      /\ DOMAIN broken' = Observers
  BY DEF SvInv, Ends
<1>2. server' = [pc |-> "down", strict |-> server.strict, keyed |-> server.keyed, ignore |-> server.ignore,
                 todo |-> <<>>, tries |-> server.tries]
  BY <1>1 DEF IsServer
<1>3. IsServer(server') /\ server'.pc = "down"
  BY <1>2, NothingListed DEF IsServer
<1>4. IsProbe(NoProbe) /\ NoProbe.pc = "idle" /\ IsHandler(NoHandling) /\ NoHandling.pc = "idle"
  BY NothingListed, SvConstantsOK DEF NoProbe, IsProbe, NoHandling, IsHandler
<1>5. IsRemembered(NothingRemembered) /\ NothingRemembered.legacy = {} /\ NothingRemembered.ready = FALSE
  BY DEF NothingRemembered, IsRemembered
<1>6. Guarded(server, database, broken)' /\ RememberedFits(server, remembered, database, broken)'
  BY <1>1, <1>3, <1>5 DEF Guarded, RememberedFits, Stood
<1>7. ProbeFits(server, probe, database, broken)'
  BY <1>1, <1>4 DEF ProbeFits
<1>8. \A h \in Handlers : HandlerFits(server, remembered, handler[h], database, broken, h)'
  BY <1>1, <1>4 DEF HandlerFits
<1>9. QED
  BY <1>1, <1>3, <1>4, <1>5, <1>6, <1>7, <1>8 DEF SvInv

\* The database changes; nothing else does.
LEMMA DatabaseChanges ==
  ASSUME SvInv, NEW d, Becomes(d)
  PROVE  /\ DOMAIN broken' = Observers
         /\ Guarded(server, database', broken')
         /\ RememberedFits(server, remembered, database', broken')
         /\ \A h \in Handlers : HandlerFits(server, remembered, handler[h], database', broken', h)
         /\ ProbeFits(server, probe, database', broken')
<1>1. DOMAIN broken' = Observers
  BY DEF Becomes
<1>2. Guarded(server, database', broken')
  <2>1. SUFFICES ASSUME server.pc \in {"starting", "up"},
                        NEW F, F = StartFacts(server) \ (IF server.pc = "up" THEN {} ELSE Listed(server.todo))
                 PROVE  Stood(database', broken', "start", F)
    BY DEF Guarded
  <2>2. Stood(database, broken, "start", F) /\ F \subseteq Watches("start") /\ "start" \in Observers
    BY <2>1, WatchedFacts DEF SvInv, Guarded
  <2>3. Watching("start")
    BY <2>1 DEF Watching
  <2>4. QED
    BY <2>2, <2>3, StillStands
<1>3. RememberedFits(server, remembered, database', broken')
  <2>1. CASE server.pc # "up"
    BY <2>1 DEF SvInv, RememberedFits, NothingRemembered, Stood
  <2>2. CASE server.pc = "up"
    <3>1. Watching("memory") /\ "memory" \in Observers
      BY <2>2, WatchedFacts DEF Watching
    <3>2. {"version", "role"} \subseteq Watches("memory") /\ remembered.legacy \subseteq Watches("memory")
      BY WatchedFacts DEF SvInv, IsRemembered
    <3>3. remembered.ready => Stood(database', broken', "memory", {"version", "role"})
      BY <3>1, <3>2, StillStands DEF SvInv, RememberedFits
    <3>4. server.ignore \/ Stood(database', broken', "memory", remembered.legacy)
      BY <3>1, <3>2, StillStands DEF SvInv, RememberedFits
    <3>5. QED
      BY <3>3, <3>4 DEF RememberedFits
  <2>3. QED
    BY <2>1, <2>2
<1>4. ASSUME NEW h \in Handlers PROVE HandlerFits(server, remembered, handler[h], database', broken', h)
  <2>1. HandlerFits(server, remembered, handler[h], database, broken, h)
    BY DEF SvInv
  <2>2. ASSUME handler[h].pc = "check", ~remembered.ready
        PROVE  Stood(database', broken', h, {"version", "role"} \ Listed(handler[h].todo))
    <3>1. Watching(h) /\ h \in Observers
      BY <2>2, HandlersAside, WatchedFacts DEF Watching
    <3>2. {"version", "role"} \ Listed(handler[h].todo) \subseteq Watches(h)
      BY WatchedFacts
    <3>3. QED
      BY <2>1, <2>2, <3>1, <3>2, StillStands DEF HandlerFits
  <2>3. QED
    BY <2>1, <2>2 DEF HandlerFits
<1>5. ProbeFits(server, probe, database', broken')
  <2>1. SUFFICES ASSUME probe.pc \in {"checks", "answers"}, probe.ok,
                        NEW F, F = ReadyFacts(server) \ (IF probe.pc = "answers" THEN {} ELSE Listed(probe.todo))
                 PROVE  Stood(database', broken', "ready", F)
    BY DEF ProbeFits
  <2>2. Stood(database, broken, "ready", F) /\ F \subseteq Watches("ready") /\ "ready" \in Observers
    BY <2>1, WatchedFacts DEF SvInv, ProbeFits
  <2>3. Watching("ready")
    BY <2>1 DEF Watching
  <2>4. QED
    BY <2>2, <2>3, StillStands
<1>6. QED
  BY <1>1, <1>2, <1>3, <1>4, <1>5

LEMMA UpkeepKeeps == ASSUME SvInv, Upkeep PROVE SvInv'
<1>1. PICK d : Becomes(d)
  BY DEF Upkeep
<1>2. UNCHANGED <<server, remembered, handler, probe>>
  BY DEF Upkeep
<1>3. QED
  BY <1>1, <1>2, DatabaseChanges DEF SvInv

-----------------------------------------------------------------------------
(* Requests and readiness *)

\* A handler changes, and with it at most what it has broken.
HandlerBecomes(h, k) ==
  /\ DOMAIN handler' = Handlers /\ handler'[h] = k /\ \A o \in Handlers \ {h} : handler'[o] = handler[o]
LEMMA HandlerSet ==
  ASSUME SvInv, NEW h \in Handlers, NEW k, HandlerMoves(h, k)
  PROVE  HandlerBecomes(h, k)
BY DEF SvInv, HandlerMoves, HandlerBecomes

Untouched(o) == broken'[o] = broken[o]
LEMMA HandlerKeeps ==
  ASSUME SvInv, server.pc = "up", NEW h \in Handlers, NEW k, HandlerBecomes(h, k), IsHandler(k),
         DOMAIN broken' = Observers, \A o \in Observers \ {h, "memory"} : Untouched(o),
         UNCHANGED <<database, server, probe>>, IsRemembered(remembered'),
         remembered.legacy \subseteq remembered'.legacy, remembered.ready => remembered'.ready,
         RememberedFits(server, remembered, database, broken)',
         HandlerFits(server, remembered', k, database, broken', h)
  PROVE  SvInv'
<1>1. "start" \in Observers \ {h, "memory"} /\ "ready" \in Observers \ {h, "memory"}
      /\ \A o \in Handlers \ {h} : o \in Observers \ {h, "memory"}
  BY HandlersAside, WatchedFacts
<1>2. Guarded(server, database, broken)' /\ ProbeFits(server, probe, database, broken)'
  BY <1>1 DEF SvInv, Guarded, ProbeFits, Stood, Untouched
<1>3. ASSUME NEW o \in Handlers PROVE HandlerFits(server, remembered, handler[o], database, broken, o)'
  <2>1. CASE o = h
    BY <2>1 DEF HandlerBecomes
  <2>2. CASE o # h
    <3>1. broken'[o] = broken[o] /\ handler'[o] = handler[o]
      BY <1>1, <2>2 DEF Untouched, HandlerBecomes
    <3>2. HandlerFits(server, remembered, handler[o], database, broken, o)
      BY DEF SvInv
    <3>3. QED
      BY <3>1, <3>2 DEF HandlerFits, Stood
  <2>3. QED
    BY <2>1, <2>2
<1>4. \A o \in Handlers : IsHandler(handler'[o])
  BY DEF SvInv, HandlerBecomes
<1>5. QED
  BY <1>2, <1>3, <1>4 DEF SvInv, HandlerBecomes

\* A handler that does not watch yet, or no longer.
LEMMA HandlerAside ==
  ASSUME SvInv, server.pc = "up", NEW h \in Handlers, NEW k, HandlerMoves(h, k), IsHandler(k),
         DOMAIN broken' = Observers, \A o \in Observers \ {h} : Untouched(o),
         UNCHANGED <<database, server, probe, remembered>>, HandlerFits(server, remembered, k, database, broken', h)
  PROVE  SvInv'
<1>1. HandlerBecomes(h, k)
  BY HandlerSet
<1>2. Untouched("memory")
  BY HandlersAside, WatchedFacts
<1>3. RememberedFits(server, remembered, database, broken)'
  BY <1>2 DEF SvInv, RememberedFits, Stood, Untouched
<1>4. QED
  BY <1>1, <1>3, HandlerKeeps DEF SvInv

LEMMA UpWhenBusy ==
  ASSUME SvInv, NEW h \in Handlers, handler[h].pc # "idle"
  PROVE  server.pc = "up"
BY DEF SvInv

LEMMA HandlerIs ==
  ASSUME SvInv, NEW h \in Handlers
  PROVE  /\ handler[h] = [pc |-> handler[h].pc, tenant |-> handler[h].tenant, todo |-> handler[h].todo]
         /\ handler[h].tenant \in Ledgers /\ handler[h].todo \in Seq(Facts)
BY DEF SvInv, IsHandler

LEMMA PcMoves ==
  ASSUME NEW a, NEW b, NEW c, NEW r, r = [pc |-> a, tenant |-> b, todo |-> c], NEW p, NEW q, q = [r EXCEPT !.pc = p]
  PROVE  q = [pc |-> p, tenant |-> b, todo |-> c]
OBVIOUS
LEMMA TodoMoves ==
  ASSUME NEW a, NEW b, NEW c, NEW r, r = [pc |-> a, tenant |-> b, todo |-> c], NEW s, NEW q, q = [r EXCEPT !.todo = s]
  PROVE  q = [pc |-> a, tenant |-> b, todo |-> s]
OBVIOUS
LEMMA BothMove ==
  ASSUME NEW a, NEW b, NEW c, NEW r, r = [pc |-> a, tenant |-> b, todo |-> c], NEW p, NEW s, NEW q,
         q = [r EXCEPT !.pc = p, !.todo = s]
  PROVE  q = [pc |-> p, tenant |-> b, todo |-> s]
OBVIOUS
LEMMA HandlerMoved ==
  ASSUME SvInv, NEW h \in Handlers, NEW p, NEW s, NEW q
  PROVE  /\ q = [handler[h] EXCEPT !.pc = p] => q = [pc |-> p, tenant |-> handler[h].tenant, todo |-> handler[h].todo]
         /\ q = [handler[h] EXCEPT !.todo = s] => q = [pc |-> handler[h].pc, tenant |-> handler[h].tenant, todo |-> s]
         /\ q = [handler[h] EXCEPT !.pc = p, !.todo = s] => q = [pc |-> p, tenant |-> handler[h].tenant, todo |-> s]
<1>1. PICK r, a, b, c : r = handler[h] /\ a = handler[h].pc /\ b = handler[h].tenant /\ c = handler[h].todo
  OBVIOUS
<1>2. r = [pc |-> a, tenant |-> b, todo |-> c]
  BY <1>1, HandlerIs
<1>3. q = [r EXCEPT !.pc = p] => q = [pc |-> p, tenant |-> b, todo |-> c]
  BY <1>2, PcMoves
<1>4. q = [r EXCEPT !.todo = s] => q = [pc |-> a, tenant |-> b, todo |-> s]
  BY <1>2, TodoMoves
<1>5. q = [r EXCEPT !.pc = p, !.todo = s] => q = [pc |-> p, tenant |-> b, todo |-> s]
  BY <1>2, BothMove
<1>6. QED
  BY <1>1, <1>3, <1>4, <1>5

LEMMA QueueKeeps == ASSUME SvInv, NEW h \in Handlers, Queue(h) PROVE SvInv'
<1>1. PICK t \in Ledgers : HandlerMoves(h, [pc |-> "waits", tenant |-> t, todo |-> <<>>])
  BY DEF Queue
<1>2. PICK k : k = [pc |-> "waits", tenant |-> t, todo |-> <<>>]
  OBVIOUS
<1>3. IsHandler(k) /\ k.pc = "waits"
  BY <1>2, NothingListed DEF IsHandler
<1>4. HandlerFits(server, remembered, k, database, broken', h)
  BY <1>3 DEF HandlerFits
<1>5. server.pc = "up" /\ UNCHANGED <<database, server, remembered, probe, broken>>
  BY DEF Queue
<1>6. HandlerMoves(h, k) /\ DOMAIN broken' = Observers /\ \A o \in Observers \ {h} : Untouched(o)
  BY <1>1, <1>2, <1>5 DEF SvInv, Untouched
<1>7. QED
  BY <1>3, <1>4, <1>5, <1>6, HandlerAside

LEMMA ConnectKeeps == ASSUME SvInv, NEW h \in Handlers, Connect(h) PROVE SvInv'
<1>1. /\ handler[h].pc = "waits" /\ HandlerMoves(h, [handler[h] EXCEPT !.pc = "check", !.todo = Unchecked])
      /\ broken' = [broken EXCEPT ![h] = {}] /\ UNCHANGED <<database, server, remembered, probe>>
  BY DEF Connect
<1>2. server.pc = "up"
  BY <1>1, UpWhenBusy
<1>3. Unchecked \in Seq(Facts) /\ (~remembered.ready => {"version", "role"} \subseteq Listed(Unchecked))
  <2>1. CASE remembered.ready
    BY <2>1, NothingListed DEF Unchecked
  <2>2. CASE ~remembered.ready
    <3>1. PICK u : u = Unchecked /\ u = <<"version", "role">>
      BY <2>2 DEF Unchecked
    <3>2. u \in Seq(Facts) /\ DOMAIN u = 1..2 /\ u[1] = "version" /\ u[2] = "role"
      BY <3>1 DEF Facts
    <3>3. QED
      BY <3>1, <3>2 DEF Listed
  <2>3. QED
    BY <2>1, <2>2
<1>4a. PICK u, k : u = Unchecked /\ k = [handler[h] EXCEPT !.pc = "check", !.todo = u]
  OBVIOUS
<1>4b. k = [pc |-> "check", tenant |-> handler[h].tenant, todo |-> u]
  <2>1. PICK r, a, b, c : r = handler[h] /\ a = handler[h].pc /\ b = handler[h].tenant /\ c = handler[h].todo
    OBVIOUS
  <2>2. r = [pc |-> a, tenant |-> b, todo |-> c]
    BY <2>1, HandlerIs
  <2>3. k = [r EXCEPT !.pc = "check", !.todo = u]
    BY <1>4a, <2>1, Zenon
  <2>4. k = [pc |-> "check", tenant |-> b, todo |-> u]
    BY <2>2, <2>3, BothMove
  <2>5. QED
    BY <2>1, <2>4
<1>4. k = [pc |-> "check", tenant |-> handler[h].tenant, todo |-> Unchecked]
  BY <1>4a, <1>4b
<1>5. [handler[h] EXCEPT !.pc = "check", !.todo = Unchecked] = k
  BY <1>4a
<1>6. IsHandler(k)
  BY <1>3, <1>4, HandlerIs DEF IsHandler
<1>7. HandlerFits(server, remembered, k, database, broken', h)
  BY <1>3, <1>4 DEF HandlerFits, Stood
<1>8. HandlerMoves(h, k) /\ DOMAIN broken' = Observers /\ \A o \in Observers \ {h} : Untouched(o)
  BY <1>1, <1>5 DEF SvInv, Untouched
<1>9. QED
  BY <1>1, <1>2, <1>6, <1>7, <1>8, HandlerAside

LEMMA UnavailableKeeps == ASSUME SvInv, NEW h \in Handlers, Unavailable(h) PROVE SvInv'
<1>1. /\ handler[h].pc # "idle" /\ HandlerMoves(h, NoHandling)
      /\ broken' = [broken EXCEPT ![h] = {}] /\ UNCHANGED <<database, server, remembered, probe>>
  BY DEF Unavailable
<1>2. IsHandler(NoHandling) /\ NoHandling.pc = "idle"
  BY NothingListed, SvConstantsOK DEF NoHandling, IsHandler
<1>3. HandlerFits(server, remembered, NoHandling, database, broken', h)
  BY <1>2 DEF HandlerFits
<1>4. DOMAIN broken' = Observers /\ \A o \in Observers \ {h} : Untouched(o)
  BY <1>1 DEF SvInv, Untouched
<1>5. QED
  BY <1>1, <1>2, <1>3, <1>4, HandlerAside, UpWhenBusy

LEMMA CheckKeeps == ASSUME SvInv, NEW h \in Handlers, Check(h) PROVE SvInv'
<1>1. /\ handler[h].pc = "check" /\ handler[h].todo # <<>> /\ HoldsNow(Head(handler[h].todo))
      /\ HandlerMoves(h, [handler[h] EXCEPT !.todo = Tail(handler[h].todo)])
      /\ broken' = [broken EXCEPT ![h] = @ \ {Head(handler[h].todo)}]
      /\ UNCHANGED <<database, server, remembered, probe>>
  BY DEF Check
<1>2. server.pc = "up" /\ h \in Observers
  BY <1>1, UpWhenBusy, WatchedFacts
<1>3. PICK s \in Seq(Facts) : s = handler[h].todo
  BY HandlerIs
<1>4. s # <<>> /\ Tail(s) \in Seq(Facts) /\ Listed(s) \subseteq Listed(Tail(s)) \cup {Head(s)}
  BY <1>1, <1>3, ListedTail
<1>5a. PICK k : k = [handler[h] EXCEPT !.todo = Tail(handler[h].todo)]
  OBVIOUS
<1>5. k = [pc |-> "check", tenant |-> handler[h].tenant, todo |-> Tail(s)]
  BY <1>1, <1>3, <1>5a, HandlerMoved
<1>6. [handler[h] EXCEPT !.todo = Tail(handler[h].todo)] = k
  BY <1>5a
<1>7. IsHandler(k)
  BY <1>4, <1>5, HandlerIs DEF IsHandler
<1>8. HandlerFits(server, remembered, k, database, broken', h)
  <2>1. CASE remembered.ready
    BY <1>5, <2>1 DEF HandlerFits
  <2>2. CASE ~remembered.ready
    <3>1. Stood(database, broken, h, {"version", "role"} \ Listed(s))
      BY <1>1, <1>3, <2>2 DEF SvInv, HandlerFits
    <3>2. Good(database, Head(s)) /\ broken'[h] = broken[h] \ {Head(s)}
      BY <1>1, <1>2, <1>3 DEF HoldsNow, SvInv
    <3>3. Stood(database, broken', h, {"version", "role"} \ Listed(Tail(s)))
      BY <1>4, <3>1, <3>2 DEF Stood
    <3>4. QED
      BY <1>5, <3>3 DEF HandlerFits
  <2>3. QED
    BY <2>1, <2>2
<1>9. HandlerMoves(h, k) /\ DOMAIN broken' = Observers /\ \A o \in Observers \ {h} : Untouched(o)
  BY <1>1, <1>6 DEF SvInv, Untouched
<1>10. QED
  BY <1>1, <1>2, <1>7, <1>8, <1>9, HandlerAside

\* _tx: both checks have passed, now or before.
LEMMA CheckedKeeps == ASSUME SvInv, NEW h \in Handlers, Checked(h) PROVE SvInv'
<1>1. /\ handler[h].pc = "check" /\ handler[h].todo = <<>>
      /\ remembered' = [remembered EXCEPT !.ready = TRUE]
      /\ UNCHANGED <<database, server, probe>>
  BY DEF Checked
<1>2. server.pc = "up" /\ h \in Observers /\ "memory" \in Observers /\ h # "memory"
  BY <1>1, UpWhenBusy, WatchedFacts, HandlersAside
<1>3. PICK pc \in {"served", "legacy"} : /\ HandlerMoves(h, [handler[h] EXCEPT !.pc = pc])
                                         /\ pc = "served" => handler[h].tenant \in remembered.legacy
  BY DEF Checked
<1>4a. PICK k : k = [handler[h] EXCEPT !.pc = pc]
  OBVIOUS
<1>4. k = [pc |-> pc, tenant |-> handler[h].tenant, todo |-> <<>>]
  <2>1. k = [pc |-> pc, tenant |-> handler[h].tenant, todo |-> handler[h].todo]
    BY <1>4a, HandlerMoved
  <2>2. QED
    BY <1>1, <2>1
<1>5. [handler[h] EXCEPT !.pc = pc] = k
  BY <1>4a
<1>6. IsHandler(k)
  BY <1>4, HandlerIs, NothingListed DEF IsHandler
<1>7. remembered' = [ready |-> TRUE, legacy |-> remembered.legacy] /\ IsRemembered(remembered')
  BY <1>1 DEF SvInv, IsRemembered
<1>8. HandlerFits(server, remembered', k, database, broken', h)
  BY <1>3, <1>4, <1>7 DEF HandlerFits
<1>9. DOMAIN broken' = Observers /\ \A o \in Observers \ {h, "memory"} : Untouched(o)
  BY DEF Checked, SvInv, Untouched
<1>10. RememberedFits(server, remembered, database, broken)'
  <2>1. CASE remembered.ready
    <3>1. broken'["memory"] = broken["memory"]
      BY <1>2, <2>1 DEF Checked, SvInv
    <3>2. QED
      BY <1>1, <1>7, <2>1, <3>1 DEF SvInv, RememberedFits, Stood
  <2>2. CASE ~remembered.ready
    <3>1. broken'["memory"] = (broken["memory"] \cap Ledgers) \cup broken[h]
      BY <1>2, <2>2 DEF Checked, SvInv
    <3>2. Stood(database, broken, h, {"version", "role"})
      BY <1>1, <2>2, NothingListed DEF SvInv, HandlerFits, Stood
    <3>3. Stood(database, broken', "memory", {"version", "role"})
      BY <3>1, <3>2 DEF Stood
    <3>4. server.ignore \/ Stood(database, broken', "memory", remembered.legacy)
      BY <3>1 DEF SvInv, RememberedFits, IsRemembered, Stood
    <3>5. QED
      BY <1>1, <1>7, <3>3, <3>4 DEF RememberedFits
  <2>3. QED
    BY <2>1, <2>2
<1>11. QED
  BY <1>1, <1>2, <1>3, <1>5, <1>6, <1>7, <1>8, <1>9, <1>10, HandlerSet, HandlerKeeps

LEMMA CheckLegacyKeeps == ASSUME SvInv, NEW h \in Handlers, CheckLegacy(h) PROVE SvInv'
<1>1. /\ handler[h].pc = "legacy" /\ LegacyFine(h)
      /\ remembered' = [remembered EXCEPT !.legacy = @ \cup {handler[h].tenant}]
      /\ broken' = [broken EXCEPT !["memory"] = @ \ {handler[h].tenant}]
      /\ HandlerMoves(h, [handler[h] EXCEPT !.pc = "served"])
      /\ UNCHANGED <<database, server, probe>>
  BY DEF CheckLegacy
<1>2. server.pc = "up" /\ h \in Observers /\ "memory" \in Observers /\ h # "memory" /\ remembered.ready
  BY <1>1, UpWhenBusy, WatchedFacts, HandlersAside DEF SvInv, HandlerFits
<1>3. PICK t \in Ledgers : t = handler[h].tenant
  BY HandlerIs
<1>4a. PICK k : k = [handler[h] EXCEPT !.pc = "served"]
  OBVIOUS
<1>4. k = [pc |-> "served", tenant |-> t, todo |-> handler[h].todo]
  BY <1>1, <1>3, <1>4a, HandlerMoved
<1>5. [handler[h] EXCEPT !.pc = "served"] = k
  BY <1>4a
<1>6. IsHandler(k)
  BY <1>4, HandlerIs DEF IsHandler
<1>7. remembered' = [ready |-> TRUE, legacy |-> remembered.legacy \cup {t}] /\ IsRemembered(remembered')
  BY <1>1, <1>2, <1>3 DEF SvInv, IsRemembered
<1>8. HandlerFits(server, remembered', k, database, broken', h)
  BY <1>4, <1>7 DEF HandlerFits
<1>9. DOMAIN broken' = Observers /\ \A o \in Observers \ {h, "memory"} : Untouched(o)
  BY <1>1 DEF SvInv, Untouched
<1>10. broken'["memory"] = broken["memory"] \ {t}
  BY <1>1, <1>2, <1>3 DEF SvInv
<1>11. RememberedFits(server, remembered, database, broken)'
  <2>1. t \notin {"version", "role"}
    BY SvConstantsOK
  <2>2. Stood(database, broken', "memory", {"version", "role"})
    BY <1>2, <1>10, <2>1 DEF SvInv, RememberedFits, Stood
  <2>3. server.ignore \/ Stood(database, broken', "memory", remembered.legacy \cup {t})
    BY <1>1, <1>3, <1>10 DEF SvInv, RememberedFits, Stood, LegacyFine, HoldsNow
  <2>4. QED
    BY <1>1, <1>7, <2>2, <2>3 DEF RememberedFits
<1>12. QED
  BY <1>1, <1>2, <1>5, <1>6, <1>7, <1>8, <1>9, <1>11, HandlerSet, HandlerKeeps

\* Serve: the transaction runs in the database as it is, or leaves history.
LEMMA ServeKeeps == ASSUME SvInv, NEW h \in Handlers, Serve(h) PROVE SvInv'
<1>1. PICK d : Becomes(d)
  BY DEF Serve
<1>2. UNCHANGED <<server, remembered, probe>> /\ HandlerBecomes(h, NoHandling)
  BY HandlerSet DEF Serve
<1>3. IsHandler(NoHandling) /\ NoHandling.pc = "idle"
  BY NothingListed, SvConstantsOK DEF NoHandling, IsHandler
<1>4. ASSUME NEW o \in Handlers
      PROVE  IsHandler(handler'[o]) /\ HandlerFits(server, remembered, handler[o], database, broken, o)'
  <2>1. CASE o = h
    BY <1>2, <1>3, <2>1 DEF HandlerBecomes, HandlerFits
  <2>2. CASE o # h
    <3>1. handler'[o] = handler[o]
      BY <1>2, <2>2 DEF HandlerBecomes
    <3>2. HandlerFits(server, remembered, handler[o], database', broken', o)
      BY <1>1, DatabaseChanges
    <3>3. QED
      BY <1>2, <3>1, <3>2 DEF SvInv, HandlerFits
  <2>3. QED
    BY <2>1, <2>2
<1>5. /\ DOMAIN broken' = Observers /\ Guarded(server, database, broken)'
      /\ RememberedFits(server, remembered, database, broken)' /\ ProbeFits(server, probe, database, broken)'
  BY <1>1, <1>2, DatabaseChanges
<1>6. server'.pc # "up" => \A o \in Handlers : handler'[o].pc = "idle"
  BY <1>2, <1>3 DEF SvInv, HandlerBecomes
<1>7. QED
  BY <1>2, <1>4, <1>5, <1>6 DEF SvInv, HandlerBecomes

\* A call of /ready changes what it watches and nothing else.
LEMMA ProbeKeeps ==
  ASSUME SvInv, server.pc = "up", UNCHANGED <<database, server, remembered, handler>>, IsProbe(probe'),
         DOMAIN broken' = Observers, \A o \in Observers \ {"ready"} : Untouched(o),
         ProbeFits(server, probe', database, broken')
  PROVE  SvInv'
<1>1. "start" \in Observers \ {"ready"} /\ "memory" \in Observers \ {"ready"} /\ \A o \in Handlers : o \in Observers \ {"ready"}
  BY HandlersAside, WatchedFacts
<1>2. Guarded(server, database, broken)' /\ RememberedFits(server, remembered, database, broken)'
  BY <1>1 DEF SvInv, Guarded, RememberedFits, Stood, Untouched
<1>3. ASSUME NEW o \in Handlers PROVE HandlerFits(server, remembered, handler[o], database, broken, o)'
  <2>1. broken'[o] = broken[o] /\ HandlerFits(server, remembered, handler[o], database, broken, o)
    BY <1>1 DEF Untouched, SvInv
  <2>2. QED
    BY <2>1 DEF HandlerFits, Stood
<1>4. QED
  BY <1>2, <1>3 DEF SvInv

LEMMA LiveFactsListed ==
  /\ LiveFacts \in Seq(Facts)
  /\ ReadyFacts(server) \subseteq Listed(LiveFacts)
<1>1. PICK l : l = LiveFacts /\ l = <<"version", "role", "tables", "history", Box>>
  BY DEF LiveFacts
<1>2. /\ l \in Seq(Facts) /\ DOMAIN l = 1..5 /\ l[1] = "version" /\ l[2] = "role" /\ l[3] = "tables"
      /\ l[4] = "history" /\ l[5] = Box
  BY <1>1, SvConstantsOK DEF Facts
<1>3. QED
  BY <1>1, <1>2 DEF Listed, ReadyFacts

LEMMA AskReadyKeeps == ASSUME SvInv, AskReady PROVE SvInv'
<1>1. PICK l : l = LiveFacts
  OBVIOUS
<1>2. /\ server.pc = "up" /\ UNCHANGED <<database, server, remembered, handler>>
      /\ probe' = [pc |-> "checks", todo |-> l, ok |-> database.up] /\ broken' = [broken EXCEPT !["ready"] = {}]
  BY <1>1 DEF AskReady
<1>3. l \in Seq(Facts) /\ ReadyFacts(server) \subseteq Listed(l)
  BY <1>1, LiveFactsListed
<1>4. IsProbe(probe')
  BY <1>2, <1>3 DEF IsProbe
<1>5. ProbeFits(server, probe', database, broken')
  BY <1>2, <1>3 DEF ProbeFits, Stood
<1>6. DOMAIN broken' = Observers /\ \A o \in Observers \ {"ready"} : Untouched(o)
  BY <1>2 DEF SvInv, Untouched
<1>7. QED
  BY <1>2, <1>4, <1>5, <1>6, ProbeKeeps

LEMMA LiveCheckKeeps == ASSUME SvInv, LiveCheck PROVE SvInv'
<1>1. PICK s \in Seq(Facts) : s = probe.todo
  BY DEF SvInv, IsProbe
<1>2. PICK ok : ok = (probe.ok /\ Passes(Head(s)))
  OBVIOUS
<1>3. /\ probe.pc = "checks" /\ s # <<>> /\ probe' = [pc |-> "checks", todo |-> Tail(s), ok |-> ok]
      /\ broken' = [broken EXCEPT !["ready"] = @ \ {Head(s)}] /\ UNCHANGED <<database, server, remembered, handler>>
  BY <1>1, <1>2 DEF LiveCheck, SvInv, IsProbe
<1>4. Tail(s) \in Seq(Facts) /\ Listed(s) \subseteq Listed(Tail(s)) \cup {Head(s)}
  BY <1>3, ListedTail
<1>5. server.pc = "up" /\ IsProbe(probe')
  BY <1>3, <1>4 DEF SvInv, IsProbe
<1>6. DOMAIN broken' = Observers /\ (\A o \in Observers \ {"ready"} : Untouched(o)) /\ broken'["ready"] = broken["ready"] \ {Head(s)}
  BY <1>3 DEF SvInv, Untouched, Observers
<1>7. ASSUME ok PROVE Stood(database, broken', "ready", ReadyFacts(server) \ Listed(Tail(s)))
  <2>1. Stood(database, broken, "ready", ReadyFacts(server) \ Listed(s))
    BY <1>1, <1>2, <1>3, <1>7 DEF SvInv, ProbeFits
  <2>2. Good(database, Head(s)) \/ (Head(s) = Box /\ server.ignore)
    BY <1>2, <1>7 DEF Passes, HoldsNow
  <2>3. Head(s) \in ReadyFacts(server) => Good(database, Head(s))
    BY <2>2, SvConstantsOK DEF ReadyFacts
  <2>4. QED
    BY <1>4, <1>6, <2>1, <2>3 DEF Stood
<1>8. ProbeFits(server, probe', database, broken')
  BY <1>3, <1>7 DEF ProbeFits
<1>9. QED
  BY <1>3, <1>5, <1>6, <1>8, ProbeKeeps

LEMMA ReportedKeeps == ASSUME SvInv, Reported PROVE SvInv'
<1>1. /\ probe.pc = "checks" /\ probe.todo = <<>> /\ probe' = [pc |-> "answers", todo |-> <<>>, ok |-> probe.ok]
      /\ UNCHANGED <<database, server, remembered, handler, broken>>
  BY DEF Reported, SvInv, IsProbe
<1>2. server.pc = "up" /\ IsProbe(probe')
  BY <1>1, NothingListed DEF SvInv, IsProbe
<1>3. ASSUME probe.ok PROVE Stood(database, broken, "ready", ReadyFacts(server))
  <2>1. Stood(database, broken, "ready", ReadyFacts(server) \ Listed(<<>>))
    BY <1>1, <1>3 DEF SvInv, ProbeFits
  <2>2. QED
    BY <2>1, NothingListed DEF Stood
<1>4. ProbeFits(server, probe', database, broken')
  BY <1>1, <1>3 DEF ProbeFits, Stood
<1>5. DOMAIN broken' = Observers /\ \A o \in Observers \ {"ready"} : Untouched(o)
  BY <1>1 DEF SvInv, Untouched
<1>6. QED
  BY <1>1, <1>2, <1>4, <1>5, ProbeKeeps

LEMMA ProbeAnsweredKeeps == ASSUME SvInv, ProbeAnswered PROVE SvInv'
<1>1. /\ probe.pc = "answers" /\ probe' = NoProbe /\ broken' = [broken EXCEPT !["ready"] = {}]
      /\ UNCHANGED <<database, server, remembered, handler>>
  BY DEF ProbeAnswered
<1>2. IsProbe(NoProbe) /\ NoProbe.pc = "idle"
  BY NothingListed DEF NoProbe, IsProbe
<1>3. server.pc = "up" /\ ProbeFits(server, probe', database, broken')
  BY <1>1, <1>2 DEF SvInv, ProbeFits
<1>4. DOMAIN broken' = Observers /\ \A o \in Observers \ {"ready"} : Untouched(o)
  BY <1>1 DEF SvInv, Untouched
<1>5. QED
  BY <1>1, <1>2, <1>3, <1>4, ProbeKeeps

LEMMA SvStep == ASSUME SvInv, [SvNext]_svVars PROVE SvInv'
<1>1. CASE StartsUp \/ GuardPasses \/ GuardRefuses \/ Unreachable \/ IsUp \/ Upkeep \/ Ends
  BY <1>1, StartsUpKeeps, GuardPassesKeeps, GuardFailsKeeps, IsUpKeeps, UpkeepKeeps, EndsKeeps
<1>2. ASSUME NEW h \in Handlers,
             Queue(h) \/ Connect(h) \/ Unavailable(h) \/ Check(h) \/ Checked(h) \/ CheckLegacy(h) \/ Serve(h)
      PROVE  SvInv'
  BY <1>2, QueueKeeps, ConnectKeeps, UnavailableKeeps, CheckKeeps, CheckedKeeps, CheckLegacyKeeps, ServeKeeps
<1>3. CASE AskReady \/ LiveCheck \/ Reported \/ ProbeAnswered
  BY <1>3, AskReadyKeeps, LiveCheckKeeps, ReportedKeeps, ProbeAnsweredKeeps
<1>4. CASE UNCHANGED svVars
  BY <1>4 DEF svVars, SvInv, Guarded, RememberedFits, HandlerFits, ProbeFits, Stood
<1>5. QED
  BY <1>1, <1>2, <1>3, <1>4 DEF SvNext

LEMMA VerifiedHere == ASSUME SvInv PROVE ServedAsVerified
<1>1. ASSUME server.pc = "up" PROVE Stood(database, broken, "start", StartFacts(server))
  BY <1>1 DEF SvInv, Guarded, Stood
<1>2. server.pc = "up" /\ server.strict => StoodFor("start", {"version", "role", "tables", "isolated"})
  BY <1>1 DEF StartFacts, Stood, StoodFor
<1>3. server.pc = "up" /\ server.keyed => StoodFor("start", {"control"})
  BY <1>1 DEF StartFacts, Stood, StoodFor
<1>4. ASSUME NEW h \in Handlers, handler[h].pc = "served"
      PROVE  /\ StoodFor("memory", {"version", "role"})
             /\ server.ignore \/ StoodFor("memory", {handler[h].tenant})
  <2>1. remembered.ready /\ handler[h].tenant \in remembered.legacy
    BY <1>4 DEF SvInv, HandlerFits
  <2>2. QED
    BY <2>1 DEF SvInv, RememberedFits, Stood, StoodFor
<1>5. probe.pc = "answers" /\ probe.ok =>
        StoodFor("ready", {"version", "role", "tables", "history"} \cup (IF server.ignore THEN {} ELSE {Box}))
  BY DEF SvInv, ProbeFits, ReadyFacts, Stood, StoodFor
<1>6. QED
  BY <1>2, <1>3, <1>4, <1>5 DEF ServedAsVerified

\* The guards' property: nothing is served that was not verified.
LEMMA Verified == SvSpec => []ServedAsVerified
<1>1. SvInit => SvInv
  BY SvStart
<1>2. SvInv /\ [SvNext]_svVars => SvInv'
  BY SvStep
<1>3. SvInv => ServedAsVerified
  BY VerifiedHere
<1>4. QED
  BY <1>1, <1>2, <1>3, PTL DEF SvSpec
-----------------------------------------------------------------------------
(* Who is served: the gates agree *)

Statuses == {0, 401, 403, 503}

\* FirstOf lets a request through only if every gate does.
LEMMA FirstOfIs ==
  ASSUME NEW s \in Seq(Statuses)
  PROVE  FirstOf(s) \in Statuses /\ (FirstOf(s) = 0 => \A i \in 1..Len(s) : s[i] = 0)
<1> DEFINE refuses == {i \in DOMAIN s : s[i] # 0}
<1>1. DOMAIN s = 1..Len(s) /\ \A i \in 1..Len(s) : s[i] \in Statuses
  OBVIOUS
<1>2. CASE refuses = {}
  BY <1>1, <1>2 DEF FirstOf, Statuses
<1>3. CASE refuses # {}
  <2>1. refuses \subseteq Nat
    BY <1>1
  <2>2. \E i \in refuses : \A j \in refuses : i <= j
    BY <1>3, <2>1, LeastOf
  <2>3. PICK i \in refuses : FirstOf(s) = s[i]
    BY <1>3, <2>2 DEF FirstOf
  <2>4. QED
    BY <1>1, <2>3
<1>4. QED
  BY <1>2, <1>3

LEMMA TwoGates ==
  ASSUME NEW a \in Statuses, NEW b \in Statuses
  PROVE  <<a>> \in Seq(Statuses) /\ <<a, b>> \in Seq(Statuses) /\ FirstOf(<<a>>) \in Statuses /\ FirstOf(<<a, b>>) \in Statuses
         /\ (FirstOf(<<a>>) = 0 => a = 0) /\ (FirstOf(<<a, b>>) = 0 => a = 0 /\ b = 0)
<1>1. PICK s, t : s = <<a>> /\ t = <<a, b>>
  OBVIOUS
<1>2. s \in Seq(Statuses) /\ Len(s) = 1 /\ s[1] = a /\ t \in Seq(Statuses) /\ Len(t) = 2 /\ t[1] = a /\ t[2] = b
  BY <1>1
<1>3. FirstOf(s) \in Statuses /\ (FirstOf(s) = 0 => a = 0)
  <2>1. 1 \in 1..Len(s)
    BY <1>2
  <2>2. QED
    BY <1>2, <2>1, FirstOfIs
<1>4. FirstOf(t) \in Statuses /\ (FirstOf(t) = 0 => a = 0 /\ b = 0)
  <2>1. 1 \in 1..Len(t) /\ 2 \in 1..Len(t)
    BY <1>2
  <2>2. QED
    BY <1>2, <2>1, FirstOfIs
<1>5. QED
  BY <1>1, <1>2, <1>3, <1>4

LEMMA ThreeGates ==
  ASSUME NEW a \in Statuses, NEW b \in Statuses, NEW c \in Statuses
  PROVE  /\ FirstOf(<<a, b, c>>) \in Statuses
         /\ FirstOf(<<a, b, c>>) = 0 => a = 0 /\ b = 0 /\ c = 0
<1>1. PICK s : s = <<a, b, c>>
  OBVIOUS
<1>2. s \in Seq(Statuses) /\ Len(s) = 3 /\ s[1] = a /\ s[2] = b /\ s[3] = c
  BY <1>1
<1>3. FirstOf(s) \in Statuses /\ (FirstOf(s) = 0 => a = 0 /\ b = 0 /\ c = 0)
  <2>1. 1 \in 1..Len(s) /\ 2 \in 1..Len(s) /\ 3 \in 1..Len(s)
    BY <1>2
  <2>2. QED
    BY <1>2, <2>1, FirstOfIs
<1>4. QED
  BY <1>1, <1>3

LEMMA FourGates ==
  ASSUME NEW a \in Statuses, NEW b \in Statuses, NEW c \in Statuses, NEW d \in Statuses
  PROVE  /\ FirstOf(<<a, b, c, d>>) \in Statuses
         /\ FirstOf(<<a, b, c, d>>) = 0 => a = 0 /\ b = 0 /\ c = 0 /\ d = 0
<1>1. PICK s : s = <<a, b, c, d>>
  OBVIOUS
<1>2. s \in Seq(Statuses) /\ Len(s) = 4 /\ s[1] = a /\ s[2] = b /\ s[3] = c /\ s[4] = d
  BY <1>1
<1>3. FirstOf(s) \in Statuses /\ (FirstOf(s) = 0 => a = 0 /\ b = 0 /\ c = 0 /\ d = 0)
  <2>1. 1 \in 1..Len(s) /\ 2 \in 1..Len(s) /\ 3 \in 1..Len(s) /\ 4 \in 1..Len(s)
    BY <1>2
  <2>2. QED
    BY <1>2, <2>1, FirstOfIs
<1>4. QED
  BY <1>1, <1>3

\* A list that begins with the operator's gate.
LEMMA OperatorFirst ==
  ASSUME NEW a \in Statuses, NEW t \in Seq(Statuses)
  PROVE  /\ FirstOf(<<a>> \o t) \in Statuses
         /\ FirstOf(<<a>> \o t) = 0 => a = 0
<1>0. PICK s : s = <<a>>
  OBVIOUS
<1>1. s \in Seq(Statuses) /\ s = <<a>> /\ Len(s) = 1 /\ s[1] = a
  BY <1>0
<1>2. s \o t \in Seq(Statuses) /\ 1 \in 1..Len(s \o t) /\ (s \o t)[1] = a
  BY <1>1, ConcatProperties
<1>3. FirstOf(s \o t) \in Statuses /\ (FirstOf(s \o t) = 0 => a = 0)
  BY <1>2, FirstOfIs
<1>4. QED
  BY <1>1, <1>3

LEMMA GatesAnswer ==
  ASSUME NEW d, NEW h, NEW who, NEW route, NEW kinds
  PROVE  /\ ReadProtection(d, h, who, route) \in Statuses /\ ApiKeyGate(d, h, who, route) \in Statuses
         /\ ToolGate(d, h, who, kinds) \in Statuses /\ WriteScope(d, who) \in Statuses
         /\ OperatorGate(d, who) \in Statuses /\ NeedsStore(d, who) \in Statuses
         /\ Unless(d.writes, 403) \in Statuses /\ Unless(TenantInForce(d, who) \/ CredentialKind(d, h) \in kinds, 403) \in Statuses
BY DEF ReadProtection, ApiKeyGate, ToolGate, WriteScope, OperatorGate, NeedsStore, Unless, Statuses

LEMMA WriteGateIs ==
  ASSUME NEW d, NEW who
  PROVE  WriteGate(d, who) \in Statuses
<1>1. PICK a, b : a = WriteScope(d, who) /\ b = Unless(d.writes, 403)
  OBVIOUS
<1>2. a \in Statuses /\ b \in Statuses
  BY <1>1, GatesAnswer
<1>3. WriteGate(d, who) = FirstOf(<<a, b>>)
  BY <1>1 DEF WriteGate
<1>4. QED
  BY <1>2, <1>3, TwoGates

LEMMA McpGateIs ==
  ASSUME NEW d, NEW h, NEW who, NEW kinds
  PROVE  /\ McpGate(d, h, who, kinds) \in Statuses
         /\ McpGate(d, h, who, kinds) = 0 =>
              /\ ToolGate(d, h, who, {"operator", "writer", "recall"}) = 0
              /\ TenantInForce(d, who) \/ CredentialKind(d, h) \in kinds
<1>1. PICK a, b : /\ a = ToolGate(d, h, who, {"operator", "writer", "recall"})
                  /\ b = Unless(TenantInForce(d, who) \/ CredentialKind(d, h) \in kinds, 403)
  OBVIOUS
<1>2. a \in Statuses /\ b \in Statuses
  BY <1>1, GatesAnswer
<1>3. b = 0 => TenantInForce(d, who) \/ CredentialKind(d, h) \in kinds
  BY <1>1 DEF Unless
<1>4. McpGate(d, h, who, kinds) = FirstOf(<<a, b>>)
  BY <1>1 DEF McpGate
<1>5. FirstOf(<<a, b>>) \in Statuses /\ (FirstOf(<<a, b>>) = 0 => a = 0 /\ b = 0)
  BY <1>2, TwoGates
<1>6. QED
  BY <1>1, <1>3, <1>4, <1>5

LEMMA ToolGateIs ==
  ASSUME NEW d, NEW h, NEW who, NEW kinds, ToolGate(d, h, who, kinds) = 0
  PROVE  TenantInForce(d, who) \/ CredentialKind(d, h) \in kinds
BY DEF ToolGate

LEMMA OperatorGateIs ==
  ASSUME NEW d, NEW who, OperatorGate(d, who) = 0
  PROVE  who.kind # "tenant"
BY DEF OperatorGate, Unless, CallerIsOperator

OperatorsOnly == {"nx-read", "nx-get", "nx-write", "nx-promote"} \cup OperatorRoutes \cup {"tool-operator", "mcp-operator"}
KindsFor(route) ==
  IF route \in ReadToolRoutes THEN {"operator", "writer", "recall"}
  ELSE IF route \in WriteToolRoutes THEN {"operator", "writer"} ELSE {"operator"}
Opens(gates, d, h, who, route) ==
  /\ FirstOf(gates) \in Statuses
  /\ FirstOf(gates) = 0 =>
       /\ route \in OperatorsOnly => who.kind # "tenant"
       /\ route \in ToolRoutes => TenantInForce(d, who) \/ CredentialKind(d, h) \in KindsFor(route)

LEMMA MemoryRouteIs ==
  ASSUME NEW d, NEW h, NEW who, NEW route, route \in {"memory-get", "memory-query", "memory-write"}
  PROVE  Opens(MemoryRoute(d, who, route), d, h, who, route)
<1>1. PICK a, b : a = WriteGate(d, who) /\ b = NeedsStore(d, who)
  OBVIOUS
<1>2. a \in Statuses /\ b \in Statuses
  BY <1>1, WriteGateIs, GatesAnswer
<1>3. FirstOf(<<a, b>>) \in Statuses /\ FirstOf(<<b>>) \in Statuses
  BY <1>2, TwoGates
<1>4. MemoryRoute(d, who, route) = <<a, b>> \/ MemoryRoute(d, who, route) = <<b>>
  BY <1>1 DEF MemoryRoute
<1>5. route \notin OperatorsOnly \cup ToolRoutes
  BY DEF OperatorsOnly, OperatorRoutes, ToolRoutes, ReadToolRoutes, WriteToolRoutes
<1>6. QED
  BY <1>3, <1>4, <1>5 DEF Opens

\* The routes that begin with the operator's gate.
LEMMA GuardedRouteIs ==
  ASSUME NEW d, NEW h, NEW who, NEW route, route \notin ToolRoutes, NEW t \in Seq(Statuses)
  PROVE  Opens(<<OperatorGate(d, who)>> \o t, d, h, who, route)
<1>1. PICK a : a = OperatorGate(d, who)
  OBVIOUS
<1>2. a \in Statuses /\ (a = 0 => who.kind # "tenant")
  BY <1>1, GatesAnswer, OperatorGateIs
<1>3. FirstOf(<<a>> \o t) \in Statuses /\ (FirstOf(<<a>> \o t) = 0 => who.kind # "tenant")
  BY <1>2, OperatorFirst
<1>4. QED
  BY <1>1, <1>3 DEF Opens

LEMMA NxRouteIs ==
  ASSUME NEW d, NEW h, NEW who, NEW route, route \in {"nx-read", "nx-get", "nx-write", "nx-promote"}
  PROVE  Opens(NxRoute(d, h, who, route), d, h, who, route)
<1>1. PICK a, b, c, e : /\ a = WriteScope(d, who) /\ b = WriteGate(d, who) /\ c = NeedsStore(d, who)
                        /\ e = ToolGate(d, h, who, {"operator"})
  OBVIOUS
<1>2. a \in Statuses /\ b \in Statuses /\ c \in Statuses /\ e \in Statuses
  BY <1>1, WriteGateIs, GatesAnswer
<1>3. <<a, b>> \in Seq(Statuses) /\ <<b, c>> \in Seq(Statuses) /\ <<e, c>> \in Seq(Statuses)
  BY <1>2, TwoGates
<1>4. PICK t : t \in {<<a, b>>, <<b, c>>, <<e, c>>} /\ NxRoute(d, h, who, route) = <<OperatorGate(d, who)>> \o t
  BY <1>1 DEF NxRoute
<1>5. route \notin ToolRoutes /\ t \in Seq(Statuses)
  BY <1>3, <1>4 DEF ToolRoutes, ReadToolRoutes, WriteToolRoutes
<1>6. QED
  BY <1>4, <1>5, GuardedRouteIs

LEMMA OperatorRouteIs ==
  ASSUME NEW d, NEW h, NEW who, NEW route, route \in OperatorRoutes
  PROVE  Opens(OperatorRoute(d, who, route), d, h, who, route)
<1>1. PICK a, b : a = WriteGate(d, who) /\ b = NeedsStore(d, who)
  OBVIOUS
<1>2. a \in Statuses /\ b \in Statuses
  BY <1>1, WriteGateIs, GatesAnswer
<1>3. <<a, b>> \in Seq(Statuses) /\ <<b>> \in Seq(Statuses) /\ <<>> \in Seq(Statuses)
  BY <1>2, TwoGates, EmptySeq
<1>4. PICK t : t \in {<<a, b>>, <<b>>, <<>>} /\ OperatorRoute(d, who, route) = <<OperatorGate(d, who)>> \o t
  BY <1>1 DEF OperatorRoute, OperatorRoutes
<1>5. route \notin ToolRoutes /\ t \in Seq(Statuses)
  BY <1>3, <1>4 DEF ToolRoutes, ReadToolRoutes, WriteToolRoutes, OperatorRoutes
<1>6. QED
  BY <1>4, <1>5, GuardedRouteIs

LEMMA ToolRouteIs ==
  ASSUME NEW d, NEW h, NEW who, NEW route, route \in {"tool-read", "tool-write", "tool-operator"}
  PROVE  Opens(ToolRoute(d, h, who, route), d, h, who, route)
<1>1. PICK kinds : kinds = KindsFor(route)
  OBVIOUS
<1>2. PICK a, b, c, e, f : /\ a = ToolGate(d, h, who, kinds) /\ b = NeedsStore(d, who) /\ c = WriteScope(d, who)
                           /\ e = Unless(d.writes, 403) /\ f = OperatorGate(d, who)
  OBVIOUS
<1>3. a \in Statuses /\ b \in Statuses /\ c \in Statuses /\ e \in Statuses /\ f \in Statuses
  BY <1>2, GatesAnswer
<1>4. (a = 0 => TenantInForce(d, who) \/ CredentialKind(d, h) \in kinds) /\ (f = 0 => who.kind # "tenant")
  BY <1>2, ToolGateIs, OperatorGateIs
<1>5. CASE route = "tool-read"
  <2>1. ToolRoute(d, h, who, route) = <<a, b>> /\ route \notin OperatorsOnly
    BY <1>1, <1>2, <1>5 DEF ToolRoute, KindsFor, ReadToolRoutes, OperatorsOnly, OperatorRoutes
  <2>2. FirstOf(<<a, b>>) \in Statuses /\ (FirstOf(<<a, b>>) = 0 => a = 0)
    BY <1>3, TwoGates
  <2>3. QED
    BY <1>1, <1>4, <2>1, <2>2 DEF Opens
<1>6. CASE route = "tool-write"
  <2>1. ToolRoute(d, h, who, route) = <<a, c, b, e>> /\ route \notin OperatorsOnly
    BY <1>1, <1>2, <1>6 DEF ToolRoute, KindsFor, ReadToolRoutes, WriteToolRoutes, OperatorsOnly, OperatorRoutes
  <2>2. FirstOf(<<a, c, b, e>>) \in Statuses /\ (FirstOf(<<a, c, b, e>>) = 0 => a = 0)
    BY <1>3, FourGates
  <2>3. QED
    BY <1>1, <1>4, <2>1, <2>2 DEF Opens
<1>7. CASE route = "tool-operator"
  <2>1. ToolRoute(d, h, who, route) = <<a, f>>
    BY <1>1, <1>2, <1>7 DEF ToolRoute, KindsFor, ReadToolRoutes, WriteToolRoutes
  <2>2. FirstOf(<<a, f>>) \in Statuses /\ (FirstOf(<<a, f>>) = 0 => a = 0 /\ f = 0)
    BY <1>3, TwoGates
  <2>3. QED
    BY <1>1, <1>4, <2>1, <2>2 DEF Opens
<1>8. QED
  BY <1>5, <1>6, <1>7

LEMMA McpRouteIs ==
  ASSUME NEW d, NEW h, NEW who, NEW route, route \in {"mcp-read", "mcp-write", "mcp-operator"}
  PROVE  Opens(McpRoute(d, h, who, route), d, h, who, route)
<1>1. PICK kinds : kinds = KindsFor(route)
  OBVIOUS
<1>2. PICK a, b, c, e, f : /\ a = McpGate(d, h, who, kinds) /\ b = NeedsStore(d, who) /\ c = WriteScope(d, who)
                           /\ e = Unless(d.writes, 403) /\ f = OperatorGate(d, who)
  OBVIOUS
<1>3. a \in Statuses /\ b \in Statuses /\ c \in Statuses /\ e \in Statuses /\ f \in Statuses
  BY <1>2, GatesAnswer, McpGateIs
<1>4. (a = 0 => TenantInForce(d, who) \/ CredentialKind(d, h) \in kinds) /\ (f = 0 => who.kind # "tenant")
  BY <1>2, McpGateIs, OperatorGateIs
<1>5. CASE route = "mcp-read"
  <2>1. McpRoute(d, h, who, route) = <<a, b>> /\ route \notin OperatorsOnly
    BY <1>1, <1>2, <1>5 DEF McpRoute, KindsFor, ReadToolRoutes, OperatorsOnly, OperatorRoutes
  <2>2. FirstOf(<<a, b>>) \in Statuses /\ (FirstOf(<<a, b>>) = 0 => a = 0)
    BY <1>3, TwoGates
  <2>3. QED
    BY <1>1, <1>4, <2>1, <2>2 DEF Opens
<1>6. CASE route = "mcp-write"
  <2>1. McpRoute(d, h, who, route) = <<a, b, c, e>> /\ route \notin OperatorsOnly
    BY <1>1, <1>2, <1>6 DEF McpRoute, KindsFor, ReadToolRoutes, WriteToolRoutes, OperatorsOnly, OperatorRoutes
  <2>2. FirstOf(<<a, b, c, e>>) \in Statuses /\ (FirstOf(<<a, b, c, e>>) = 0 => a = 0)
    BY <1>3, FourGates
  <2>3. QED
    BY <1>1, <1>4, <2>1, <2>2 DEF Opens
<1>7. CASE route = "mcp-operator"
  <2>1. McpRoute(d, h, who, route) = <<a, b, f>>
    BY <1>1, <1>2, <1>7 DEF McpRoute, KindsFor, ReadToolRoutes, WriteToolRoutes
  <2>2. FirstOf(<<a, b, f>>) \in Statuses /\ (FirstOf(<<a, b, f>>) = 0 => a = 0 /\ f = 0)
    BY <1>3, ThreeGates
  <2>3. QED
    BY <1>1, <1>4, <2>1, <2>2 DEF Opens
<1>8. QED
  BY <1>5, <1>6, <1>7


LEMMA RouteGateIs ==
  ASSUME NEW d, NEW h, NEW who, NEW route \in Routes
  PROVE  /\ RouteGate(d, h, who, route) \in Statuses
         /\ RouteGate(d, h, who, route) = 0 /\ route \notin Ungated =>
              /\ route \in OperatorsOnly => who.kind # "tenant"
              /\ route \in ToolRoutes => TenantInForce(d, who) \/ CredentialKind(d, h) \in KindsFor(route)
<1>1. CASE route \in {"memory-get", "memory-query", "memory-write"}
  <2>1. RouteGate(d, h, who, route) = FirstOf(MemoryRoute(d, who, route))
    BY <1>1 DEF RouteGate, OperatorRoutes
  <2>2. QED
    BY <1>1, <2>1, MemoryRouteIs DEF Opens
<1>2. CASE route \in {"nx-read", "nx-get", "nx-write", "nx-promote"}
  <2>1. RouteGate(d, h, who, route) = FirstOf(NxRoute(d, h, who, route))
    BY <1>2 DEF RouteGate, OperatorRoutes
  <2>2. QED
    BY <1>2, <2>1, NxRouteIs DEF Opens
<1>3. CASE route \in OperatorRoutes
  <2>1. RouteGate(d, h, who, route) = FirstOf(OperatorRoute(d, who, route))
    BY <1>3 DEF RouteGate, OperatorRoutes
  <2>2. QED
    BY <1>3, <2>1, OperatorRouteIs DEF Opens
<1>4. CASE route \in {"tool-read", "tool-write", "tool-operator"}
  <2>1. RouteGate(d, h, who, route) = FirstOf(ToolRoute(d, h, who, route))
    BY <1>4 DEF RouteGate, OperatorRoutes
  <2>2. QED
    BY <1>4, <2>1, ToolRouteIs DEF Opens
<1>5. CASE route \in {"mcp-read", "mcp-write", "mcp-operator"}
  <2>1. RouteGate(d, h, who, route) = FirstOf(McpRoute(d, h, who, route))
    BY <1>5 DEF RouteGate, OperatorRoutes
  <2>2. QED
    BY <1>5, <2>1, McpRouteIs DEF Opens
<1>6. CASE route \in {"rag", "catalog", "health"}
  <2>1. RouteGate(d, h, who, route) = FirstOf(<<>>)
    BY <1>6 DEF RouteGate, OperatorRoutes
  <2>2. <<>> \in Seq(Statuses)
    BY EmptySeq
  <2>3. FirstOf(<<>>) \in Statuses
    BY <2>2, FirstOfIs
  <2>4. QED
    BY <1>6, <2>1, <2>3 DEF Ungated
<1>7. QED
  BY <1>1, <1>2, <1>3, <1>4, <1>5, <1>6 DEF Routes, MemoryRoutes, ToolRoutes, ReadToolRoutes, WriteToolRoutes

\* identity_middleware: with OAuth whoever is let in is a tenant.
LEMMA IdentityIs ==
  ASSUME NEW d, NEW h, NEW route, NEW who, who = Identity(d, h, route)
  PROVE  /\ who.refused \in Statuses
         /\ route # "health" /\ who.refused = 0 /\ who.kind # "tenant" => ~TenantInForce(d, who)
<1>1. CASE who = NoCaller
  <2>1. who.refused = 0 /\ who.kind = "nobody"
    BY <1>1 DEF NoCaller
  <2>2. route # "health" => d.identity # "oauth"
    BY <1>1 DEF Identity, NoCaller, Operator, TenantCaller, RefusedWith
  <2>3. QED
    BY <2>1, <2>2 DEF Statuses, TenantInForce
<1>2. CASE who = Operator
  <2>1. who.refused = 0 /\ who.kind = "operator"
    BY <1>2 DEF Operator
  <2>2. d.identity # "oauth"
    BY <1>2 DEF Identity, NoCaller, Operator, TenantCaller, RefusedWith, CredentialIsOperator
  <2>3. QED
    BY <2>1, <2>2 DEF Statuses, TenantInForce
<1>3. ASSUME NEW w, who = TenantCaller(w) PROVE who.refused = 0 /\ who.kind = "tenant"
  BY <1>3 DEF TenantCaller
<1>4. ASSUME NEW status \in {401, 403, 503}, who = RefusedWith(status) PROVE who.refused \in Statuses \ {0}
  BY <1>4 DEF RefusedWith, Statuses
<1>5. \/ who = NoCaller \/ who = Operator \/ (\E w : who = TenantCaller(w))
      \/ \E status \in {401, 403, 503} : who = RefusedWith(status)
  BY DEF Identity
<1>6. QED
  BY <1>1, <1>2, <1>3, <1>4, <1>5 DEF Statuses

\* A credential that counts is a configured secret that was shown.
LEMMA CredentialShown ==
  ASSUME NEW d, NEW h, ~OpenedOnPurpose(d), NEW shown, shown = {h.bearer, h.apiKey, h.emr}
  PROVE  /\ CredentialKind(d, h) # "none" => \E s \in shown \cap Secrets : s \in d.keys
         /\ LedgerKeyOpens(d, h) => "ledger" \in shown /\ "ledger" \in d.keys
         /\ ~d.public /\ CredentialKind(d, h) = "operator" => "ledger" \in shown
         /\ ~d.public /\ CredentialKind(d, h) = "writer" => "writer" \in shown /\ "writer" \in d.keys
<1>1. \A s : Carries(d, h, s) => s \in shown /\ s \in d.keys
  BY DEF Carries
<1>2. CarriesLedger(d, h) => "ledger" \in shown /\ "ledger" \in d.keys
  BY DEF CarriesLedger
<1>3. d.keys = {} => ~d.unauthenticated
  BY DEF OpenedOnPurpose
<1>4. CASE d.public
  BY <1>1, <1>2, <1>4 DEF CredentialKind, LedgerKeyOpens, OpenedOnPurpose, Secrets
<1>5. CASE ~d.public
  <2>1. CASE d.keys = {}
    BY <1>3, <1>5, <2>1 DEF CredentialKind, LedgerKeyOpens
  <2>2. CASE d.keys # {}
    <3>1. CredentialKind(d, h) = IF CarriesLedger(d, h) THEN "operator"
                                 ELSE IF Carries(d, h, "writer") THEN "writer"
                                 ELSE IF Carries(d, h, "recall") THEN "recall" ELSE "none"
      BY <1>5, <2>2 DEF CredentialKind
    <3>2. LedgerKeyOpens(d, h) => CarriesLedger(d, h)
      BY DEF LedgerKeyOpens, OpenedOnPurpose
    <3>3. QED
      BY <1>1, <1>2, <3>1, <3>2 DEF Secrets
  <2>3. QED
    BY <2>1, <2>2
<1>6. QED
  BY <1>4, <1>5

\* One request: what each layer decided fits together.
LEMMA RequestIsProven ==
  ASSUME NEW route \in Routes, NEW h, HandleRequest(route, h)
  PROVE  CallersAreProven'
<1>1. PICK d, who : d = deployment /\ who = Identity(d, h, route)
  OBVIOUS
<1>2. PICK a, b, c, e : /\ a = who.refused /\ b = ReadProtection(d, h, who, route)
                        /\ c = ApiKeyGate(d, h, who, route) /\ e = RouteGate(d, h, who, route)
  OBVIOUS
<1>3. a \in Statuses /\ b \in Statuses /\ c \in Statuses /\ e \in Statuses
  BY <1>1, <1>2, IdentityIs, GatesAnswer, RouteGateIs
<1>4. FirstOf(<<a, b, c, e>>) \in Statuses /\ (FirstOf(<<a, b, c, e>>) = 0 => a = 0 /\ c = 0 /\ e = 0)
  BY <1>3, FourGates
<1>5. PICK refusal : refusal = FirstOf(<<a, b, c, e>>)
  OBVIOUS
<1>6. /\ asked' = [route |-> route, headers |-> h] /\ deployment' = d
      /\ answer' = [status |-> IF refusal = 0 THEN 200 ELSE refusal, who |-> who.kind]
  BY <1>1, <1>2, <1>5 DEF HandleRequest
<1>7. PICK shown : shown = {h.bearer, h.apiKey, h.emr}
  OBVIOUS
<1>8. /\ asked'.route = route /\ answer'.who = who.kind /\ Shown' = shown
      /\ Served' => refusal = 0
  BY <1>4, <1>5, <1>6, <1>7 DEF Shown, Served, Statuses
<1>9. SUFFICES ASSUME refusal = 0, route \notin Ungated PROVE CallersAreProven'
  BY <1>8 DEF CallersAreProven, OperatorIsProven, ScopedKeysStayScoped
<1>10. a = 0 /\ c = 0 /\ e = 0
  BY <1>4, <1>5, <1>9
<1>11. /\ route \in OperatorsOnly => who.kind # "tenant"
       /\ route \in ToolRoutes => TenantInForce(d, who) \/ CredentialKind(d, h) \in KindsFor(route)
  BY <1>2, <1>9, <1>10, RouteGateIs
<1>12. who.kind # "tenant" => ~TenantInForce(d, who)
  BY <1>1, <1>2, <1>9, <1>10, IdentityIs DEF Ungated
<1>13. who.kind # "tenant" /\ route \notin ToolRoutes => LedgerKeyOpens(d, h)
  BY <1>2, <1>9, <1>10, <1>12 DEF ApiKeyGate, Unless, Ungated
<1>14. route \in OperatorsOnly \/ route \in {"memory-get", "memory-query", "memory-write"} \cup ReadToolRoutes \cup WriteToolRoutes
  BY <1>9 DEF OperatorsOnly, OperatorRoutes, Routes, MemoryRoutes, ToolRoutes, ReadToolRoutes, WriteToolRoutes, Ungated
<1>15. ASSUME who.kind # "tenant", ~OpenedOnPurpose(d) PROVE \E s \in shown \cap Secrets : s \in d.keys
  <2>1. CASE route \in ToolRoutes
    <3>1. CredentialKind(d, h) # "none"
      BY <1>11, <1>12, <1>15, <2>1 DEF KindsFor
    <3>2. QED
      BY <1>7, <1>15, <3>1, CredentialShown
  <2>2. CASE route \notin ToolRoutes
    BY <1>7, <1>13, <1>15, <2>2, CredentialShown DEF Secrets
  <2>3. QED
    BY <2>1, <2>2
<1>16. ASSUME who.kind # "tenant", ~d.public, ~OpenedOnPurpose(d), "ledger" \notin shown
       PROVE  route \in ReadToolRoutes \/ (route \in WriteToolRoutes /\ "writer" \in d.keys /\ "writer" \in shown)
  <2>1. route \in ToolRoutes
    BY <1>7, <1>13, <1>16, CredentialShown
  <2>2. CredentialKind(d, h) \in KindsFor(route) \ {"operator"}
    BY <1>7, <1>11, <1>12, <1>16, <2>1, CredentialShown
  <2>3. CASE route \in WriteToolRoutes
    <3>1. CredentialKind(d, h) = "writer"
      BY <2>2, <2>3 DEF KindsFor, ReadToolRoutes, WriteToolRoutes
    <3>2. QED
      BY <1>7, <1>16, <2>3, <3>1, CredentialShown
  <2>4. CASE route \notin ReadToolRoutes \cup WriteToolRoutes
    BY <2>2, <2>4 DEF KindsFor
  <2>5. QED
    BY <2>3, <2>4
<1>17. OperatorIsProven'
  BY <1>6, <1>8, <1>11, <1>14, <1>15 DEF OperatorIsProven, ValidSecret
<1>18. ScopedKeysStayScoped'
  BY <1>6, <1>8, <1>16 DEF ScopedKeysStayScoped, ValidSecret
<1>19. QED
  BY <1>17, <1>18 DEF CallersAreProven

\* The gates' property: every request is served as what it has proven to be.
LEMMA Proven == AcSpec => []CallersAreProven
<1>1. AcInit => CallersAreProven
  BY DEF AcInit, Unanswered, CallersAreProven, OperatorIsProven, ScopedKeysStayScoped, Served
<1>2. CallersAreProven /\ [AcNext]_acVars => CallersAreProven'
  <2>1. SUFFICES ASSUME CallersAreProven, [AcNext]_acVars PROVE CallersAreProven'
    OBVIOUS
  <2>2. CASE AcNext
    BY <2>2, RequestIsProven DEF AcNext
  <2>3. CASE UNCHANGED acVars
    BY <2>1, <2>3 DEF acVars, CallersAreProven, OperatorIsProven, ScopedKeysStayScoped, Served, Shown, ValidSecret
  <2>4. QED
    BY <2>1, <2>2, <2>3
<1>3. QED
  BY <1>1, <1>2, PTL DEF AcSpec
-----------------------------------------------------------------------------
(* Jobs over tenants *)

\* The values the recursion of FirstSeen takes, up to entry n.
IsSeenOf(g, list, n) ==
  g = [m \in 0..n |-> IF m = 0 THEN <<>>
                      ELSE IF list[m] = "" \/ Contains(g[m - 1], list[m]) THEN g[m - 1] ELSE Append(g[m - 1], list[m])]

\* FirstSeen is well defined and gives a list of what it was given.
LEMMA SeenExists ==
  ASSUME NEW list, NEW N \in Nat, \A m \in 1..N : list[m] \in STRING
  PROVE  \A n \in Nat : n <= N => \E g : IsSeenOf(g, list, n) /\ g[n] \in Seq(STRING)
<1> DEFINE S == {n \in Nat : n <= N => \E g : IsSeenOf(g, list, n) /\ g[n] \in Seq(STRING)}
<1>1. 0 \in S
  <2>1. IsSeenOf([m \in 0..0 |-> <<>>], list, 0)
    BY DEF IsSeenOf
  <2>2. QED
    BY <2>1, EmptySeq
<1>2. ASSUME NEW n \in S PROVE n + 1 \in S
  <2>1. SUFFICES ASSUME n + 1 <= N PROVE \E g : IsSeenOf(g, list, n + 1) /\ g[n + 1] \in Seq(STRING)
    BY <1>2
  <2>2. PICK g : IsSeenOf(g, list, n) /\ g[n] \in Seq(STRING)
    BY <1>2, <2>1
  <2>3. PICK more \in Seq(STRING) :
          more = IF list[n + 1] = "" \/ Contains(g[n], list[n + 1]) THEN g[n] ELSE Append(g[n], list[n + 1])
    <3>1. list[n + 1] \in STRING
      BY <1>2, <2>1
    <3>2. Append(g[n], list[n + 1]) \in Seq(STRING)
      BY <2>2, <3>1, AppendProperties
    <3>3. QED
      BY <2>2, <3>2
  <2>4. PICK h : h = [m \in 0..(n + 1) |-> IF m = n + 1 THEN more ELSE g[m]]
    OBVIOUS
  <2>5. \A m \in 0..(n + 1) :
          h[m] = IF m = 0 THEN <<>>
                 ELSE IF list[m] = "" \/ Contains(h[m - 1], list[m]) THEN h[m - 1] ELSE Append(h[m - 1], list[m])
    <3> TAKE m \in 0..(n + 1)
    <3>1. CASE m = n + 1
      <4>1. h[m - 1] = g[n] /\ m # 0 /\ h[m] = more
        BY <1>2, <2>4, <3>1
      <4>2. QED
        BY <2>3, <3>1, <4>1
    <3>2. CASE m # n + 1
      <4>1. m \in 0..n /\ h[m] = g[m]
        BY <1>2, <2>4, <3>2
      <4>2. g[m] = IF m = 0 THEN <<>>
                   ELSE IF list[m] = "" \/ Contains(g[m - 1], list[m]) THEN g[m - 1] ELSE Append(g[m - 1], list[m])
        BY <2>2, <4>1 DEF IsSeenOf
      <4>3. m # 0 => h[m - 1] = g[m - 1]
        BY <1>2, <2>4, <4>1
      <4>4. QED
        BY <4>1, <4>2, <4>3
    <3>3. QED
      BY <3>1, <3>2
  <2>6. IsSeenOf(h, list, n + 1)
    BY <2>4, <2>5 DEF IsSeenOf
  <2>7. h[n + 1] = more
    BY <1>2, <2>4
  <2>8. QED
    BY <2>3, <2>6, <2>7
<1>3. \A n \in Nat : n \in S
  BY <1>1, <1>2, AllNaturals
<1>4. QED
  BY <1>3

LEMMA FirstSeenIs ==
  ASSUME NEW list \in Seq(STRING)
  PROVE  FirstSeen(list) \in Seq(STRING)
<1>1. PICK n \in Nat : n = Len(list)
  OBVIOUS
<1>2. \A m \in 1..n : list[m] \in STRING
  BY <1>1
<1>3. \E g : IsSeenOf(g, list, n) /\ g[n] \in Seq(STRING)
  <2>1. \A m \in Nat : m <= n => \E g : IsSeenOf(g, list, m) /\ g[m] \in Seq(STRING)
    BY <1>2, SeenExists
  <2>2. n <= n
    OBVIOUS
  <2>3. QED
    BY <2>1, <2>2
<1>4. FirstSeen(list) = (CHOOSE g : IsSeenOf(g, list, n))[n]
  BY <1>1 DEF FirstSeen, IsSeenOf
<1>5. PICK g : g = CHOOSE h : IsSeenOf(h, list, n)
  OBVIOUS
<1>6. IsSeenOf(g, list, n)
  BY <1>3, <1>5
<1>7. \A h : IsSeenOf(h, list, n) => h = g
  <2>1. SUFFICES ASSUME NEW h, IsSeenOf(h, list, n) PROVE h = g
    OBVIOUS
  <2> DEFINE S == {m \in Nat : m <= n => h[m] = g[m]}
  <2>2. 0 \in S
    <3>1. 0 \in 0..n
      OBVIOUS
    <3>2. h[0] = <<>> /\ g[0] = <<>>
      BY <1>6, <2>1, <3>1 DEF IsSeenOf
    <3>3. QED
      BY <3>2
  <2>3. ASSUME NEW m \in S PROVE m + 1 \in S
    <3>1. SUFFICES ASSUME m + 1 <= n PROVE h[m + 1] = g[m + 1]
      BY <2>3
    <3>2. PICK k \in 1..n : k = m + 1 /\ k - 1 = m /\ k \in 0..n /\ k # 0
      BY <2>3, <3>1
    <3>3. h[m] = g[m]
      BY <2>3, <3>1
    <3>4. h[k] = IF list[k] = "" \/ Contains(h[m], list[k]) THEN h[m] ELSE Append(h[m], list[k])
      BY <2>1, <3>2 DEF IsSeenOf
    <3>5. g[k] = IF list[k] = "" \/ Contains(g[m], list[k]) THEN g[m] ELSE Append(g[m], list[k])
      BY <1>6, <3>2 DEF IsSeenOf
    <3>6. QED
      BY <3>2, <3>3, <3>4, <3>5
  <2>4. \A m \in Nat : m \in S
    BY <2>2, <2>3, AllNaturals
  <2>5. \A m \in 0..n : h[m] = g[m]
    BY <2>4
  <2>6. QED
    BY <1>6, <2>1, <2>5 DEF IsSeenOf
<1>8. g[n] \in Seq(STRING)
  BY <1>3, <1>7
<1>9. QED
  BY <1>4, <1>5, <1>8

LEMMA OneIsSeq == ASSUME NEW S, NEW a \in S PROVE <<a>> \in Seq(S)
OBVIOUS

LEMMA ParsedIs ==
  ASSUME NEW list \in Lists
  PROVE  ParseTenants(list) \in Seq(STRING)
<1>1. list \in Seq(STRING) /\ BoxTenant \in STRING
  BY TrConstantsOK
<1>2. PICK one : one = <<BoxTenant>>
  OBVIOUS
<1>3. one \in Seq(STRING)
  BY <1>1, <1>2, OneIsSeq
<1>4. one \o list \in Seq(STRING)
  BY <1>1, <1>3, ConcatProperties
<1>5. FirstSeen(list) \in Seq(STRING) /\ FirstSeen(one \o list) \in Seq(STRING)
  BY <1>1, <1>4, FirstSeenIs
<1>6. ParseTenants(list) = FirstSeen(list) \/ ParseTenants(list) = FirstSeen(one \o list)
  BY <1>2 DEF ParseTenants
<1>7. QED
  BY <1>5, <1>6

\* What is relied on at every step.  Between two tenants nothing is left of a container; while
\* one is talked to, at most one line is on its way, and never a line of an earlier question.
Codes == {0, 1, 3, 4, 5}
Names == STRING \cup {""}
IsResult(r) == r \in [ok : BOOLEAN, code : Codes] /\ (r.code = 0 => r.ok)
IsJob(j) ==
  /\ j = [kind |-> j.kind, given |-> j.given, todo |-> j.todo, pc |-> j.pc,
          asked |-> j.asked, answered |-> j.answered, unsent |-> j.unsent, result |-> j.result]
  /\ j.given \in Lists /\ j.todo \in Seq(STRING) /\ j.asked \in Nat /\ j.answered \in Nat
  /\ IsResult(j.result)
IsLine(l) ==
  /\ l = [on |-> l.on, eof |-> l.eof, inbox |-> l.inbox, lines |-> l.lines]
  /\ l.on \in BOOLEAN /\ l.inbox \in Seq(Nat) /\ l.lines \in Seq([by : Names, n : Nat])
IsContainer(c) ==
  /\ c = [tenant |-> c.tenant, state |-> c.state, did |-> c.did, why |-> c.why]
  /\ c.tenant \in Names /\ c.state \in {"none", "serves", "stuck"} /\ c.did \in Nat

Alone(j, l, c, act) ==
  /\ l = Hung /\ c = NoContainer
  /\ IF j.pc = "works" THEN j.kind = "seal" /\ j.todo # <<>> /\ act = Head(j.todo) ELSE act = ""
Silent(l) == (l.on => l.lines = <<>>) /\ \A i \in DOMAIN l.lines : l.lines[i] = EndOfLines
OneOnTheWay(l, c, n) == l.inbox = <<n>> /\ c.did = n - 1
LinesCount(j, l, c) ==
  /\ j.pc = "open" => j.asked = j.answered /\ c.did = j.asked /\ l.inbox = <<>> /\ Silent(l)
  /\ j.pc = "waits" =>
       /\ j.asked = j.answered + 1
       /\ \/ OneOnTheWay(l, c, j.asked) /\ Silent(l)
          \/ /\ l.inbox = <<>> /\ c.did = j.asked /\ (l.on => Len(l.lines) <= 1)
             /\ \A i \in DOMAIN l.lines : l.lines[i] = EndOfLines \/ (i = 1 /\ l.lines[i].n = j.asked)
  /\ j.pc \in {"close", "closing"} =>
       OneOnTheWay(l, c, j.answered + 1) \/ (l.inbox = <<>> /\ c.did \in {j.answered, j.answered + 1})
LinesOfTenant(l, tenant) == \A i \in DOMAIN l.lines : l.lines[i].by \in {"", tenant}
Talks(j, l, c, act) ==
  /\ j.kind # "seal" /\ j.todo # <<>> /\ c.tenant = Head(j.todo)
  /\ act \in {"", c.tenant} /\ (act # "" => l.inbox # <<>>)
  /\ LinesOfTenant(l, c.tenant)
  /\ l.on \/ c.state = "none" \/ c.why # ""
  /\ LinesCount(j, l, c)
Together(j, l, c, act) ==
  /\ j.pc \in {"next", "works", "open", "waits", "close", "closing"}
  /\ IF j.pc \in {"next", "works"} THEN Alone(j, l, c, act) ELSE Talks(j, l, c, act)

\* The tenants reported and those still to come are those of the list, in its order.
Accounted(j, outs) ==
  /\ outs \in Seq([tenant : Names, ok : BOOLEAN, code : Codes])
  /\ Len(ParseTenants(j.given)) = Len(outs) + Len(j.todo)
  /\ \A i \in 1..Len(outs) : outs[i].tenant = ParseTenants(j.given)[i]
  /\ \A i \in 1..Len(j.todo) : j.todo[i] = ParseTenants(j.given)[Len(outs) + i]
  /\ \A i \in 1..Len(outs) : outs[i].code = 0 => outs[i].ok
  /\ j.kind = "seal" => \A i \in 1..Len(outs) : outs[i].ok => outs[i].code = 0
AllWell(outs) == \A o \in Range(outs) : o.ok /\ o.code = 0
Ended(j, outs, code) ==
  /\ code # 2 => Len(outs) + Len(j.todo) > 0
  /\ code # -1 => j.pc = "next"
  /\ code \notin {-1, 2} => j.todo = <<>> /\ (code = 0 <=> AllWell(outs))

TrInv ==
  /\ IsJob(job) /\ IsLine(line) /\ IsContainer(container) /\ acting \in Names
  /\ Together(job, line, container, acting)
  /\ Accounted(job, outcomes) /\ Ended(job, outcomes, exit)
  /\ NoneLeftBehind

LEMMA NoLines == IsLine(Hung) /\ Hung.lines = <<>> /\ Hung.inbox = <<>> /\ Hung.on = FALSE
BY EmptySeq DEF IsLine, Hung
LEMMA NoContainerIs == IsContainer(NoContainer) /\ NoContainer.tenant = "" /\ NoContainer.state = "none" /\ NoContainer.did = 0
<1>1. PICK c : c = NoContainer
  OBVIOUS
<1>2. c = [tenant |-> "", state |-> "none", did |-> 0, why |-> ""]
  BY <1>1 DEF NoContainer
<1>3. c.tenant = "" /\ c.state = "none" /\ c.did = 0 /\ c.why = "" /\ c.did \in Nat /\ c.tenant \in Names
  BY <1>2 DEF Names
<1>4. IsContainer(c)
  BY <1>2, <1>3 DEF IsContainer
<1>5. QED
  BY <1>1, <1>3, <1>4
LEMMA Results == IsResult(Unrun) /\ IsResult(ApiFailed)
BY DEF Unrun, ApiFailed, IsResult, Codes

LEMMA TrStart == ASSUME TrInit PROVE TrInv
<1>1. PICK kind \in {"seal", "sign", "status"}, list \in Lists :
        job = [kind |-> kind, given |-> list, todo |-> ParseTenants(list), pc |-> "next",
               asked |-> 0, answered |-> 0, unsent |-> FALSE, result |-> Unrun]
  BY DEF TrInit
<1>2. PICK p \in Seq(STRING) : p = ParseTenants(list)
  BY ParsedIs
<1>3. job = [kind |-> kind, given |-> list, todo |-> p, pc |-> "next",
             asked |-> 0, answered |-> 0, unsent |-> FALSE, result |-> Unrun]
  BY <1>1, <1>2
<1>4. /\ job.given = list /\ job.todo = p /\ job.pc = "next" /\ IsJob(job)
  BY <1>3, Results DEF IsJob
<1>5. line = Hung /\ container = NoContainer /\ acting = "" /\ outcomes = <<>> /\ left = {}
      /\ exit = IF job.todo = <<>> THEN 2 ELSE -1
  BY DEF TrInit
<1>6. IsLine(line) /\ IsContainer(container) /\ acting \in Names /\ Together(job, line, container, acting)
  <2>1. "" \in Names
    BY DEF Names
  <2>2. QED
    BY <1>4, <1>5, <2>1, NoLines, NoContainerIs DEF Together, Alone
<1>7. Accounted(job, outcomes)
  <2>1. Len(p) \in Nat /\ \A i \in 1..Len(p) : p[i] = p[0 + i]
    OBVIOUS
  <2>2. outcomes \in Seq([tenant : Names, ok : BOOLEAN, code : Codes]) /\ Len(outcomes) = 0
    BY <1>5, EmptySeq
  <2>3. QED
    BY <1>2, <1>4, <2>1, <2>2 DEF Accounted
<1>8. Ended(job, outcomes, exit)
  <2>1. p # <<>> => Len(p) > 0
    BY EmptySeq
  <2>0. Len(p) \in Nat
    OBVIOUS
  <2>2. Len(outcomes) = 0
    BY <1>5
  <2>3. exit # 2 => exit = -1 /\ Len(p) > 0
    BY <1>4, <1>5, <2>1
  <2>4. exit \in {-1, 2}
    BY <1>5
  <2>5. QED
    BY <1>4, <2>0, <2>2, <2>3, <2>4 DEF Ended
<1>9. NoneLeftBehind
  BY <1>5 DEF NoneLeftBehind
<1>10. QED
  BY <1>4, <1>6, <1>7, <1>8, <1>9 DEF TrInv

\* A step within one tenant: the report stands still.
LEMMA TalkKeeps ==
  ASSUME TrInv, job.pc \notin {"next", "works"}, UNCHANGED <<outcomes, left, exit>>,
         IsJob(job'), job'.kind = job.kind, job'.given = job.given, job'.todo = job.todo,
         job'.pc \in {"open", "waits", "close", "closing"},
         IsLine(line'), IsContainer(container'), acting' \in Names, Talks(job', line', container', acting')
  PROVE  TrInv'
<1>1. exit = -1
  BY DEF TrInv, Ended
<1>2. Together(job, line, container, acting)'
  BY DEF Together
<1>3. Accounted(job, outcomes)'
  BY DEF TrInv, Accounted
<1>4. Ended(job, outcomes, exit)'
  BY <1>1 DEF TrInv, Ended
<1>5. NoneLeftBehind'
  BY DEF TrInv, NoneLeftBehind
<1>6. QED
  BY <1>2, <1>3, <1>4, <1>5 DEF TrInv

LEMMA TalksNow ==
  ASSUME TrInv, job.pc \in {"open", "waits", "close", "closing"}
  PROVE  Talks(job, line, container, acting) /\ job.pc \notin {"next", "works"}
BY DEF TrInv, Together
LEMMA AloneNow ==
  ASSUME TrInv, job.pc \in {"next", "works"}
  PROVE  Alone(job, line, container, acting)
BY DEF TrInv, Together

\* The fields of a job, of a line and of a container.
LEMMA JobIs ==
  ASSUME TrInv
  PROVE  /\ job = [kind |-> job.kind, given |-> job.given, todo |-> job.todo, pc |-> job.pc, asked |-> job.asked,
                   answered |-> job.answered, unsent |-> job.unsent, result |-> job.result]
         /\ job.given \in Lists /\ job.todo \in Seq(STRING) /\ job.asked \in Nat /\ job.answered \in Nat
         /\ IsResult(job.result)
BY DEF TrInv, IsJob
LEMMA LineIs ==
  ASSUME TrInv
  PROVE  /\ line = [on |-> line.on, eof |-> line.eof, inbox |-> line.inbox, lines |-> line.lines]
         /\ line.on \in BOOLEAN /\ line.inbox \in Seq(Nat) /\ line.lines \in Seq([by : Names, n : Nat])
BY DEF TrInv, IsLine
LEMMA ContainerIs ==
  ASSUME TrInv
  PROVE  /\ container = [tenant |-> container.tenant, state |-> container.state, did |-> container.did, why |-> container.why]
         /\ container.tenant \in Names /\ container.state \in {"none", "serves", "stuck"} /\ container.did \in Nat
BY DEF TrInv, IsContainer

-----------------------------------------------------------------------------
(* Within one tenant *)

\* Job and line as they become, told by their fields.
JobBecomes(pc, put, answered, unsent, result) ==
  job' = [kind |-> job.kind, given |-> job.given, todo |-> job.todo, pc |-> pc, asked |-> put,
          answered |-> answered, unsent |-> unsent, result |-> result]
LineBecomes(on, eof, inbox, lines) == line' = [on |-> on, eof |-> eof, inbox |-> inbox, lines |-> lines]
ContainerBecomes(state, did, why) ==
  container' = [tenant |-> container.tenant, state |-> state, did |-> did, why |-> why]
SameJob(pc) == job'.kind = job.kind /\ job'.given = job.given /\ job'.todo = job.todo /\ job'.pc = pc

LEMMA JobBecomesIs ==
  ASSUME TrInv, NEW pc, NEW put \in Nat, NEW answered \in Nat, NEW unsent, NEW result,
         IsResult(result),
         JobBecomes(pc, put, answered, unsent, result)
  PROVE  IsJob(job') /\ SameJob(pc) /\ job'.asked = put /\ job'.answered = answered /\ job'.result = result
<1>1. job.given \in Lists /\ job.todo \in Seq(STRING)
  BY DEF TrInv, IsJob
<1>2. QED
  BY <1>1 DEF IsJob, JobBecomes, SameJob
LEMMA LineBecomesIs ==
  ASSUME NEW on \in BOOLEAN, NEW eof, NEW inbox \in Seq(Nat), NEW lines \in Seq([by : Names, n : Nat]),
         LineBecomes(on, eof, inbox, lines)
  PROVE  IsLine(line') /\ line'.on = on /\ line'.inbox = inbox /\ line'.lines = lines
BY DEF IsLine, LineBecomes
LEMMA ContainerBecomesIs ==
  ASSUME TrInv, NEW state \in {"none", "serves", "stuck"}, NEW did \in Nat, NEW why, ContainerBecomes(state, did, why)
  PROVE  /\ IsContainer(container') /\ container'.tenant = container.tenant /\ container'.state = state
         /\ container'.did = did /\ container'.why = why
BY DEF TrInv, IsContainer, ContainerBecomes

LEMMA AskKeeps == ASSUME TrInv, AskContainer PROVE TrInv'
<1>1. /\ job.pc = "open" /\ UNCHANGED <<container, acting, outcomes, left, exit>>
  BY DEF AskContainer, JobAt
<1>2. Talks(job, line, container, acting) /\ job.pc \notin {"next", "works"}
  BY <1>1, TalksNow
<1>3. IsContainer(container') /\ acting' \in Names
  BY <1>1 DEF TrInv
<1>4. PICK n \in Nat : n = job.asked /\ n = job.answered /\ n = container.did
  BY <1>1, <1>2, JobIs DEF Talks, LinesCount
<1>5. line.inbox = <<>> /\ Silent(line)
  BY <1>1, <1>2 DEF Talks, LinesCount
<1>6. CASE line.on
  <2>1. JobBecomes("waits", n + 1, n, job.unsent, job.result)
    BY <1>4, <1>6, JobIs DEF AskContainer, JobBecomes
  <2>2. PICK box : box = Append(line.inbox, n + 1)
    OBVIOUS
  <2>3. box = <<n + 1>> /\ box \in Seq(Nat)
    BY <1>4, <1>5, <2>2
  <2>4. LineBecomes(TRUE, line.eof, box, line.lines)
    BY <1>4, <1>6, <2>2, LineIs DEF AskContainer, LineBecomes
  <2>5. IsJob(job') /\ SameJob("waits") /\ job'.asked = n + 1 /\ job'.answered = n
    <3>1. PICK k, r : k \in Nat /\ k = n + 1 /\ r = job.result
      OBVIOUS
    <3>2. IsResult(r)
      BY <3>1, JobIs
    <3>3. JobBecomes("waits", k, n, job.unsent, r)
      BY <2>1, <3>1
    <3>4. QED
      BY <3>1, <3>2, <3>3, JobBecomesIs
  <2>6. IsLine(line') /\ line'.on = TRUE /\ line'.inbox = box /\ line'.lines = line.lines
    BY <2>3, <2>4, LineBecomesIs, LineIs
  <2>7. Silent(line')
    BY <1>5, <1>6, <2>6 DEF Silent
  <2>8. OneOnTheWay(line', container', n + 1)
    BY <1>1, <1>4, <2>3, <2>6 DEF OneOnTheWay
  <2>9. LinesCount(job', line', container')
    BY <2>5, <2>7, <2>8 DEF LinesCount, SameJob
  <2>10. <<n + 1>> # <<>>
    OBVIOUS
  <2>11. Talks(job', line', container', acting')
    BY <1>1, <1>2, <2>3, <2>5, <2>6, <2>9, <2>10 DEF Talks, LinesOfTenant, SameJob
  <2>12. QED
    BY <1>1, <1>2, <1>3, <2>5, <2>6, <2>11, TalkKeeps DEF SameJob
<1>7. CASE ~line.on
  <2>1. JobBecomes("close", n, n, TRUE, ApiFailed) /\ line' = line
    BY <1>4, <1>7, JobIs DEF AskContainer, JobBecomes
  <2>2. IsJob(job') /\ SameJob("close") /\ job'.asked = n /\ job'.answered = n
    <3>1. IsResult(ApiFailed)
      BY Results
    <3>2. QED
      BY <2>1, <3>1, JobBecomesIs
  <2>3. LinesCount(job', line', container')
    BY <1>1, <1>4, <1>5, <2>1, <2>2 DEF LinesCount, SameJob
  <2>4. Talks(job', line', container', acting')
    BY <1>1, <1>2, <2>1, <2>2, <2>3 DEF Talks, SameJob
  <2>5. QED
    BY <1>1, <1>2, <1>3, <2>1, <2>2, <2>4, TalkKeeps DEF SameJob, TrInv
<1>8. QED
  BY <1>6, <1>7

\* What may be at the head of the queue, and what is behind it.
LEMMA LinesTail ==
  ASSUME NEW s \in Seq([by : Names, n : Nat]), s # <<>>
  PROVE  /\ Tail(s) \in Seq([by : Names, n : Nat]) /\ Head(s) = s[1] /\ 1 \in DOMAIN s
         /\ \A i \in DOMAIN Tail(s) : i + 1 \in DOMAIN s /\ i + 1 # 1 /\ Tail(s)[i] = s[i + 1]
<1>1. /\ Tail(s) \in Seq([by : Names, n : Nat]) /\ Len(Tail(s)) = Len(s) - 1 /\ Len(s) \in Nat \ {0}
      /\ Head(s) = s[1] /\ \A i \in 1..Len(Tail(s)) : Tail(s)[i] = s[i + 1]
  BY HeadTailProperties
<1>2. DOMAIN s = 1..Len(s) /\ DOMAIN Tail(s) = 1..(Len(s) - 1)
  BY <1>1
<1>3. QED
  BY <1>1, <1>2

LEMMA ReceiveKeeps == ASSUME TrInv, ReceiveLine PROVE TrInv'
<1>1. /\ job.pc = "waits" /\ line.lines # <<>> /\ UNCHANGED <<container, acting, outcomes, left, exit>>
  BY DEF ReceiveLine, JobAt
<1>2. Talks(job, line, container, acting) /\ job.pc \notin {"next", "works"}
  BY <1>1, TalksNow
<1>3. IsContainer(container') /\ acting' \in Names
  BY <1>1 DEF TrInv
<1>4. PICK s \in Seq([by : Names, n : Nat]) : s = line.lines
  BY LineIs
<1>5. /\ s # <<>> /\ Tail(s) \in Seq([by : Names, n : Nat]) /\ Head(s) = s[1] /\ 1 \in DOMAIN s
      /\ \A i \in DOMAIN Tail(s) : i + 1 \in DOMAIN s /\ i + 1 # 1 /\ Tail(s)[i] = s[i + 1]
  BY <1>1, <1>4, LinesTail
<1>6. LineBecomes(line.on, line.eof, line.inbox, Tail(s))
  BY <1>4, LineIs DEF ReceiveLine, LineBecomes
<1>7. IsLine(line') /\ line'.on = line.on /\ line'.inbox = line.inbox /\ line'.lines = Tail(s)
  BY <1>5, <1>6, LineBecomesIs, LineIs
<1>8. LinesOfTenant(line', container.tenant)
  <2>1. \A i \in DOMAIN s : s[i].by \in {"", container.tenant}
    BY <1>2, <1>4 DEF Talks, LinesOfTenant
  <2>2. \A i \in DOMAIN Tail(s) : Tail(s)[i].by \in {"", container.tenant}
    BY <1>5, <2>1
  <2>3. QED
    BY <1>7, <2>2 DEF LinesOfTenant
<1>9. PICK m \in Nat : m = job.answered /\ job.asked = m + 1
  BY <1>1, <1>2, JobIs DEF Talks, LinesCount
<1>10. CASE Head(s) = EndOfLines
  <2>1. JobBecomes("close", m + 1, m, job.unsent, ApiFailed)
    BY <1>4, <1>9, <1>10, JobIs DEF ReceiveLine, JobBecomes
  <2>2. IsJob(job') /\ SameJob("close") /\ job'.answered = m
    <3>1. IsResult(ApiFailed)
      BY Results
    <3>2. PICK k \in Nat : k = m + 1
      OBVIOUS
    <3>3. JobBecomes("close", k, m, job.unsent, ApiFailed)
      BY <2>1, <3>2
    <3>4. QED
      BY <3>1, <3>3, JobBecomesIs
  <2>3. OneOnTheWay(line, container, m + 1) \/ (line.inbox = <<>> /\ container.did = m + 1)
    BY <1>1, <1>2, <1>9 DEF Talks, LinesCount
  <2>4. LinesCount(job', line', container')
    BY <1>1, <1>7, <2>2, <2>3 DEF LinesCount, SameJob, OneOnTheWay
  <2>5. Talks(job', line', container', acting')
    BY <1>1, <1>2, <1>7, <1>8, <2>2, <2>4 DEF Talks, SameJob
  <2>6. QED
    BY <1>1, <1>2, <1>3, <1>7, <2>2, <2>5, TalkKeeps DEF SameJob
<1>11. CASE Head(s) # EndOfLines
  <2>1. /\ line.inbox = <<>> /\ container.did = m + 1
        /\ \A i \in DOMAIN s : s[i] = EndOfLines \/ (i = 1 /\ s[i].n = m + 1)
    BY <1>1, <1>2, <1>4, <1>5, <1>9, <1>11 DEF Talks, LinesCount, Silent
  <2>2. Head(s).n = m + 1
    BY <1>5, <1>11, <2>1
  <2>3. JobBecomes("open", m + 1, m + 1, job.unsent, job.result)
    BY <1>4, <1>9, <1>11, <2>2, JobIs DEF ReceiveLine, JobBecomes
  <2>4. IsJob(job') /\ SameJob("open") /\ job'.asked = m + 1 /\ job'.answered = m + 1
    <3>1. PICK k, r : k \in Nat /\ k = m + 1 /\ r = job.result
      OBVIOUS
    <3>2. IsResult(r)
      BY <3>1, JobIs
    <3>3. JobBecomes("open", k, k, job.unsent, r)
      BY <2>3, <3>1
    <3>4. QED
      BY <3>1, <3>2, <3>3, JobBecomesIs
  <2>5. \A i \in DOMAIN Tail(s) : Tail(s)[i] = EndOfLines
    BY <1>5, <2>1
  <2>6. line.on => Tail(s) = <<>>
    <3>1. line.on => Len(s) <= 1
      BY <1>1, <1>2, <1>4, <1>5, <1>9, <1>11 DEF Talks, LinesCount, Silent
    <3>2. Len(s) <= 1 => Len(Tail(s)) <= 0
      BY <1>5
    <3>3. Len(Tail(s)) \in Nat /\ (Len(Tail(s)) = 0 => Tail(s) = <<>>)
      BY <1>5, EmptySeq
    <3>4. QED
      BY <3>1, <3>2, <3>3
  <2>7. Silent(line')
    BY <1>7, <2>5, <2>6 DEF Silent
  <2>8. LinesCount(job', line', container')
    BY <1>1, <1>7, <2>1, <2>4, <2>7 DEF LinesCount, SameJob
  <2>9. Talks(job', line', container', acting')
    BY <1>1, <1>2, <1>7, <1>8, <2>4, <2>8 DEF Talks, SameJob
  <2>10. QED
    BY <1>1, <1>2, <1>3, <1>7, <2>4, <2>9, TalkKeeps DEF SameJob
<1>12. QED
  BY <1>10, <1>11

\* _kill: the client ends; the container does too, or docker would not remove it.
LEMMA KillIs ==
  ASSUME TrInv, NEW removed \in BOOLEAN, Kill(removed)
  PROVE  /\ IsLine(line') /\ line'.on = FALSE /\ line'.inbox = line.inbox /\ line'.lines = line.lines
         /\ IsContainer(container') /\ container'.tenant = container.tenant /\ container'.did = container.did
         /\ container'.state = "none" \/ container'.why # ""
<1>1. LineBecomes(FALSE, TRUE, line.inbox, line.lines)
  BY LineIs DEF Kill, LineBecomes
<1>2. IsLine(line') /\ line'.on = FALSE /\ line'.inbox = line.inbox /\ line'.lines = line.lines
  BY <1>1, LineBecomesIs, LineIs
<1>3. CASE removed
  <2>1. ContainerBecomes("none", container.did, container.why)
    BY <1>3, ContainerIs DEF Kill, ContainerBecomes
  <2>2. QED
    BY <1>2, <2>1, ContainerBecomesIs, ContainerIs
<1>4. CASE ~removed
  <2>1. ContainerBecomes(container.state, container.did, "not removed")
    BY <1>4, ContainerIs DEF Kill, ContainerBecomes
  <2>2. PICK state, did, why : state = container.state /\ did = container.did /\ why = "not removed"
    OBVIOUS
  <2>3. state \in {"none", "serves", "stuck"} /\ did \in Nat /\ ContainerBecomes(state, did, why)
    BY <2>1, <2>2, ContainerIs
  <2>4. IsContainer(container') /\ container'.tenant = container.tenant /\ container'.did = did /\ container'.why = why
    BY <2>3, ContainerBecomesIs
  <2>5. why # ""
    BY <2>2
  <2>6. QED
    BY <1>2, <2>2, <2>4, <2>5
<1>5. QED
  BY <1>3, <1>4

\* What a pass leaves for its end: the line on its way, if there is one, is the one unanswered.
Leaves(l, c, n) == OneOnTheWay(l, c, n + 1) \/ (l.inbox = <<>> /\ c.did \in {n, n + 1})
LEMMA LeavesNow ==
  ASSUME TrInv, Talks(job, line, container, acting), job.pc \in {"open", "waits", "close", "closing"}
  PROVE  Leaves(line, container, job.answered)
<1>1. job.answered \in Nat /\ job.asked \in Nat
  BY JobIs
<1>2. CASE job.pc = "open"
  BY <1>2 DEF Talks, LinesCount, Leaves
<1>3. CASE job.pc = "waits"
  BY <1>1, <1>3 DEF Talks, LinesCount, Leaves
<1>4. CASE job.pc \in {"close", "closing"}
  BY <1>4 DEF Talks, LinesCount, Leaves
<1>5. QED
  BY <1>2, <1>3, <1>4

\* The end of a pass: whatever ends it, the transport is closed next.
LEMMA PassKeeps ==
  ASSUME TrInv, job.pc \in {"open", "waits", "close"}, NEW pc \in {"close", "closing"},
         NEW put \in Nat, NEW unsent, NEW result, IsResult(result),
         JobBecomes(pc, put, job.answered, unsent, result),
         IsLine(line'), IsContainer(container'), UNCHANGED <<acting, outcomes, left, exit>>,
         line'.inbox = line.inbox, line'.lines = line.lines, container'.tenant = container.tenant, container'.did = container.did,
         line'.on \/ container'.state = "none" \/ container'.why # ""
  PROVE  TrInv'
<1>1. Talks(job, line, container, acting) /\ job.pc \notin {"next", "works"}
  BY TalksNow
<1>2. PICK n \in Nat : n = job.answered
  BY JobIs
<1>3. Leaves(line, container, n)
  BY <1>1, <1>2, LeavesNow
<1>4. IsJob(job') /\ SameJob(pc) /\ job'.answered = n
  BY <1>2, JobBecomesIs
<1>5. LinesCount(job', line', container')
  BY <1>3, <1>4 DEF LinesCount, SameJob, Leaves, OneOnTheWay
<1>6. Talks(job', line', container', acting')
  BY <1>1, <1>4, <1>5 DEF Talks, SameJob, LinesOfTenant
<1>7. acting' \in Names
  BY DEF TrInv
<1>8. QED
  BY <1>1, <1>4, <1>6, <1>7, TalkKeeps DEF SameJob

LEMMA Unkilled ==
  ASSUME TrInv, Talks(job, line, container, acting)
  PROVE  IsLine(line) /\ IsContainer(container) /\ (line.on \/ container.state = "none" \/ container.why # "")
BY DEF TrInv, Talks

LEMMA TimesOutKeeps == ASSUME TrInv, RequestTimesOut PROVE TrInv'
<1>1. /\ job.pc = "waits" /\ UNCHANGED <<acting, outcomes, left, exit>>
  BY DEF RequestTimesOut, JobAt
<1>2. PICK removed \in BOOLEAN : Kill(removed)
  BY DEF RequestTimesOut
<1>3. PICK n, r : n \in Nat /\ n = job.asked /\ r = ApiFailed
  BY JobIs
<1>4. JobBecomes("close", n, job.answered, job.unsent, r)
  BY <1>3, JobIs DEF RequestTimesOut, JobBecomes
<1>5. IsResult(r)
  BY <1>3, Results
<1>6. /\ IsLine(line') /\ line'.on = FALSE /\ line'.inbox = line.inbox /\ line'.lines = line.lines
      /\ IsContainer(container') /\ container'.tenant = container.tenant /\ container'.did = container.did
      /\ container'.state = "none" \/ container'.why # ""
  BY <1>2, KillIs
<1>7. QED
  BY <1>1, <1>3, <1>4, <1>5, <1>6, PassKeeps

LEMMA PassEndsKeeps == ASSUME TrInv, TenantPassEnds PROVE TrInv'
<1>1. /\ job.pc = "open" /\ UNCHANGED <<line, container, acting, outcomes, left, exit>>
  BY DEF TenantPassEnds, JobAt
<1>2. PICK code \in {0, 3, 4, 5}, ok \in BOOLEAN :
        /\ code = 0 => ok
        /\ job' = [job EXCEPT !.pc = "close", !.result = [ok |-> ok, code |-> code]]
  BY DEF TenantPassEnds
<1>3. PICK n, r : n \in Nat /\ n = job.asked /\ r = [ok |-> ok, code |-> code]
  BY JobIs
<1>4. JobBecomes("close", n, job.answered, job.unsent, r)
  BY <1>2, <1>3, JobIs DEF JobBecomes
<1>5. IsResult(r)
  BY <1>2, <1>3 DEF IsResult, Codes
<1>6. Talks(job, line, container, acting)
  BY <1>1, TalksNow
<1>7. IsLine(line') /\ IsContainer(container') /\ (line'.on \/ container'.state = "none" \/ container'.why # "")
  BY <1>1, <1>6, Unkilled
<1>8. QED
  BY <1>1, <1>3, <1>4, <1>5, <1>7, PassKeeps

LEMMA CloseInputKeeps == ASSUME TrInv, CloseInput PROVE TrInv'
<1>1. /\ job.pc = "close" /\ UNCHANGED <<acting, outcomes, left, exit>>
  BY DEF CloseInput, JobAt
<1>2. PICK n, r : n \in Nat /\ n = job.asked /\ r = job.result
  BY JobIs
<1>3. JobBecomes("closing", n, job.answered, job.unsent, r)
  BY <1>2, JobIs DEF CloseInput, JobBecomes
<1>4. IsResult(r)
  BY <1>2, JobIs
<1>5. Talks(job, line, container, acting)
  BY <1>1, TalksNow
<1>6. /\ IsLine(line') /\ line'.inbox = line.inbox /\ line'.lines = line.lines
      /\ IsContainer(container') /\ container'.tenant = container.tenant /\ container'.did = container.did
      /\ line'.on \/ container'.state = "none" \/ container'.why # ""
  <2>1. CASE job.unsent
    <3>1. PICK removed \in BOOLEAN : Kill(removed)
      BY <2>1 DEF CloseInput
    <3>2. QED
      BY <3>1, KillIs
  <2>2. CASE ~job.unsent
    <3>1. LineBecomes(line.on, TRUE, line.inbox, line.lines) /\ container' = container
      BY <2>2, LineIs DEF CloseInput, LineBecomes
    <3>2. IsLine(line') /\ line'.on = line.on /\ line'.inbox = line.inbox /\ line'.lines = line.lines
      BY <3>1, LineBecomesIs, LineIs
    <3>3. QED
      BY <1>5, <3>1, <3>2, Unkilled
  <2>3. QED
    BY <2>1, <2>2
<1>7. QED
  BY <1>1, <1>2, <1>3, <1>4, <1>6, PassKeeps

-----------------------------------------------------------------------------
(* The container's side *)

\* A step of the container or of the client: the job stands still.
LEMMA PipeKeeps ==
  ASSUME TrInv, Talks(job, line, container, acting), job.pc \in {"open", "waits", "close", "closing"},
         UNCHANGED <<job, outcomes, left, exit>>, IsLine(line'), IsContainer(container'),
         container'.tenant = container.tenant, acting' \in {"", container.tenant}, acting' # "" => line'.inbox # <<>>,
         LinesOfTenant(line', container.tenant), line'.on \/ container'.state = "none" \/ container'.why # "",
         LinesCount(job, line', container')
  PROVE  TrInv'
<1>1. acting' \in Names
  BY DEF TrInv, IsContainer, Names
<1>2. Talks(job', line', container', acting')
  BY DEF Talks
<1>3. IsJob(job')
  BY DEF TrInv
<1>4. QED
  BY <1>1, <1>2, <1>3, TalkKeeps

\* Nothing moves but while a tenant is talked to.
LEMMA TalksIfOn ==
  ASSUME TrInv, line.on \/ container.state # "none"
  PROVE  Talks(job, line, container, acting) /\ job.pc \in {"open", "waits", "close", "closing"}
<1>1. job.pc \notin {"next", "works"}
  BY NoLines, NoContainerIs DEF TrInv, Together, Alone
<1>2. QED
  BY <1>1 DEF TrInv, Together

LEMMA CloseTimesOutKeeps == ASSUME TrInv, CloseTimesOut PROVE TrInv'
<1>1. /\ job.pc = "closing" /\ UNCHANGED <<job, acting, outcomes, left, exit>>
  BY DEF CloseTimesOut, JobAt
<1>2. PICK removed \in BOOLEAN : Kill(removed)
  BY DEF CloseTimesOut
<1>3. /\ IsLine(line') /\ line'.on = FALSE /\ line'.inbox = line.inbox /\ line'.lines = line.lines
      /\ IsContainer(container') /\ container'.tenant = container.tenant /\ container'.did = container.did
      /\ container'.state = "none" \/ container'.why # ""
  BY <1>2, KillIs
<1>4. Talks(job, line, container, acting)
  BY <1>1, TalksNow
<1>5. LinesCount(job, line', container')
  BY <1>1, <1>3, <1>4 DEF Talks, LinesCount, OneOnTheWay
<1>6. QED
  BY <1>1, <1>3, <1>4, <1>5, PipeKeeps DEF Talks, LinesOfTenant

LEMMA TakeLineKeeps == ASSUME TrInv, TakeLine PROVE TrInv'
<1>1. /\ container.state = "serves" /\ line.inbox # <<>> /\ acting' = container.tenant
      /\ UNCHANGED <<job, line, container, outcomes, left, exit>>
  BY DEF TakeLine, Serves
<1>2. Talks(job, line, container, acting) /\ job.pc \in {"open", "waits", "close", "closing"}
  BY <1>1, TalksIfOn
<1>3. IsLine(line') /\ IsContainer(container')
  BY <1>1 DEF TrInv
<1>4. QED
  BY <1>1, <1>2, <1>3, PipeKeeps DEF Talks

LEMMA HangsKeeps == ASSUME TrInv, Hangs PROVE TrInv'
<1>1. /\ container.state # "none" /\ UNCHANGED <<job, line, acting, outcomes, left, exit>>
  BY DEF Hangs
<1>2. PICK state \in {"serves", "stuck"} : ContainerBecomes(state, container.did, container.why)
  BY ContainerIs DEF Hangs, ContainerBecomes
<1>3. Talks(job, line, container, acting) /\ job.pc \in {"open", "waits", "close", "closing"}
  BY <1>1, TalksIfOn
<1>4. /\ IsContainer(container') /\ container'.tenant = container.tenant
      /\ container'.did = container.did /\ container'.why = container.why
  BY <1>2, ContainerBecomesIs, ContainerIs
<1>5. LinesCount(job, line', container')
  BY <1>1, <1>3, <1>4 DEF Talks, LinesCount, OneOnTheWay
<1>6. IsLine(line') /\ (line'.on \/ container'.why # "")
  BY <1>1, <1>3, <1>4 DEF TrInv, Talks
<1>7. QED
  BY <1>1, <1>3, <1>4, <1>5, <1>6, PipeKeeps DEF Talks

LEMMA LinesAppend ==
  ASSUME NEW s \in Seq([by : Names, n : Nat]), NEW a \in [by : Names, n : Nat], NEW t, t = Append(s, a)
  PROVE  /\ t \in Seq([by : Names, n : Nat]) /\ Len(t) = Len(s) + 1 /\ Len(s) \in Nat
         /\ \A i \in DOMAIN t : (i \in DOMAIN s /\ t[i] = s[i]) \/ (i = Len(s) + 1 /\ t[i] = a)
<1>1. /\ t \in Seq([by : Names, n : Nat]) /\ Len(t) = Len(s) + 1 /\ Len(s) \in Nat
      /\ (\A i \in 1..Len(s) : t[i] = s[i]) /\ t[Len(s) + 1] = a
  BY AppendProperties
<1>2. DOMAIN s = 1..Len(s) /\ DOMAIN t = 1..(Len(s) + 1)
  BY <1>1
<1>3. \A i \in DOMAIN t : i \in DOMAIN s \/ i = Len(s) + 1
  BY <1>1, <1>2
<1>4. QED
  BY <1>1, <1>2, <1>3

LEMMA AnswerKeeps == ASSUME TrInv, Answer PROVE TrInv'
<1>1. /\ container.state = "serves" /\ acting # "" /\ acting' = "" /\ UNCHANGED <<job, outcomes, left, exit>>
  BY DEF Answer
<1>2. Talks(job, line, container, acting) /\ job.pc \in {"open", "waits", "close", "closing"}
  BY <1>1, TalksIfOn
<1>3. job.answered \in Nat /\ job.asked \in Nat
  BY JobIs
<1>3a. PICK n \in Nat : n = job.answered + 1
  BY <1>3
<1>4. OneOnTheWay(line, container, n) /\ (job.pc = "waits" => job.asked = n /\ Silent(line)) /\ job.pc # "open"
  <2>1. line.inbox # <<>> /\ LinesCount(job, line, container)
    BY <1>1, <1>2 DEF Talks
  <2>2. QED
    BY <1>2, <1>3a, <2>1 DEF LinesCount
<1>5. PICK box : box = line.inbox
  OBVIOUS
<1>6. box = <<n>> /\ Head(box) = n /\ Tail(box) = <<>> /\ <<>> \in Seq(Nat)
  BY <1>4, <1>5 DEF OneOnTheWay
<1>7. PICK s, a : s \in Seq([by : Names, n : Nat]) /\ s = line.lines /\ a = [by |-> acting, n |-> n]
  BY LineIs
<1>8. a \in [by : Names, n : Nat] /\ a.by = acting /\ a.n = n
  BY <1>7 DEF TrInv
<1>9. PICK t : t = IF line.on THEN Append(s, a) ELSE s
  OBVIOUS
<1>10. LineBecomes(line.on, line.eof, <<>>, t)
  BY <1>5, <1>6, <1>7, <1>9, LineIs DEF Answer, LineBecomes
<1>11. ContainerBecomes(container.state, n, container.why)
  BY <1>5, <1>6, ContainerIs DEF Answer, ContainerBecomes
<1>12. /\ IsContainer(container') /\ container'.tenant = container.tenant /\ container'.did = n
       /\ container'.state = container.state /\ container'.why = container.why
  BY <1>11, ContainerBecomesIs, ContainerIs
<1>13. t \in Seq([by : Names, n : Nat]) /\ \A i \in DOMAIN t : (i \in DOMAIN s /\ t[i] = s[i]) \/ (line.on /\ i = Len(s) + 1 /\ t[i] = a)
  <2>1. CASE line.on
    BY <1>7, <1>8, <1>9, <2>1, LinesAppend
  <2>2. CASE ~line.on
    BY <1>7, <1>9, <2>2
  <2>3. QED
    BY <2>1, <2>2
<1>14. IsLine(line') /\ line'.on = line.on /\ line'.inbox = <<>> /\ line'.lines = t
  BY <1>6, <1>10, <1>13, LineBecomesIs, LineIs
<1>15. LinesOfTenant(line', container.tenant)
  <2>1. \A i \in DOMAIN s : s[i].by \in {"", container.tenant}
    BY <1>2, <1>7 DEF Talks, LinesOfTenant
  <2>2. a.by \in {"", container.tenant}
    BY <1>2, <1>8 DEF Talks
  <2>3. QED
    BY <1>13, <1>14, <2>1, <2>2 DEF LinesOfTenant
<1>16. LinesCount(job, line', container')
  <2>1. CASE job.pc = "waits"
    <3>1. job.asked = n /\ (line.on => s = <<>>) /\ \A i \in DOMAIN s : s[i] = EndOfLines
      BY <1>4, <1>7, <2>1 DEF Silent
    <3>2. line.on => Len(s) = 0 /\ Len(t) = 1 /\ Len(t) <= 1
      <4>1. ASSUME line.on PROVE Len(t) = Len(s) + 1 /\ Len(s) = 0
        <5>1. Len(t) = Len(s) + 1
          BY <1>8, <1>9, <4>1, LinesAppend
        <5>2. Len(s) = 0
          BY <3>1, <4>1
        <5>3. QED
          BY <5>1, <5>2
      <4>2. QED
        BY <4>1
    <3>3. \A i \in DOMAIN t : t[i] = EndOfLines \/ (i = 1 /\ t[i].n = n)
      BY <1>8, <1>13, <3>1, <3>2
    <3>4. (line'.on => Len(t) <= 1) /\ \A i \in DOMAIN t : t[i] = EndOfLines \/ (i = 1 /\ t[i].n = job.asked)
      BY <1>14, <3>1, <3>2, <3>3
    <3>5. line'.inbox = <<>> /\ container'.did = job.asked /\ job.asked = job.answered + 1 /\ line'.lines = t
      BY <1>3a, <1>12, <1>14, <3>1
    <3>6. job.pc # "open" /\ job.pc \notin {"close", "closing"}
      BY <2>1
    <3>7. /\ line'.on => Len(line'.lines) <= 1
          /\ \A i \in DOMAIN line'.lines : line'.lines[i] = EndOfLines \/ (i = 1 /\ line'.lines[i].n = job.asked)
      BY <3>4, <3>5
    <3>8. QED
      BY <3>5, <3>6, <3>7, Zenon DEF LinesCount
  <2>2. CASE job.pc \in {"close", "closing"}
    BY <1>3a, <1>4, <1>12, <1>14, <2>2 DEF LinesCount
  <2>3. QED
    BY <1>2, <1>4, <2>1, <2>2
<1>17. line'.on \/ container'.state = "none" \/ container'.why # ""
  BY <1>2, <1>12, <1>14 DEF Talks
<1>18. QED
  BY <1>1, <1>2, <1>12, <1>14, <1>15, <1>16, <1>17, PipeKeeps

LEMMA EndOfLinesIs == EndOfLines \in [by : Names, n : Nat] /\ EndOfLines.by = ""
BY DEF EndOfLines, Names

\* The end of the output is one more line, if anyone reads it.
LEMMA EndedLines ==
  ASSUME TrInv, Talks(job, line, container, acting), job.pc \in {"open", "waits", "close", "closing"},
         NEW t \in Seq([by : Names, n : Nat]), IsLine(line'), line'.on = FALSE, line'.inbox = line.inbox, line'.lines = t,
         \A i \in DOMAIN t : (i \in DOMAIN line.lines /\ t[i] = line.lines[i]) \/ t[i] = EndOfLines,
         container'.did = container.did
  PROVE  LinesOfTenant(line', container.tenant) /\ LinesCount(job, line', container')
<1>1. LinesOfTenant(line', container.tenant)
  BY EndOfLinesIs DEF Talks, LinesOfTenant
<1>2. Silent(line) => Silent(line')
  BY DEF Silent
<1>3. (\A i \in DOMAIN line.lines : line.lines[i] = EndOfLines \/ (i = 1 /\ line.lines[i].n = job.asked))
        => (\A i \in DOMAIN t : t[i] = EndOfLines \/ (i = 1 /\ t[i].n = job.asked))
  OBVIOUS
<1>4. LinesCount(job, line', container')
  BY <1>2, <1>3 DEF Talks, LinesCount, OneOnTheWay
<1>5. QED
  BY <1>1, <1>4

LEMMA ContainerEndsKeeps == ASSUME TrInv, ContainerEnds PROVE TrInv'
<1>1. /\ container.state = "serves" /\ acting' = "" /\ UNCHANGED <<job, outcomes, left, exit>>
  BY DEF ContainerEnds
<1>2. Talks(job, line, container, acting) /\ job.pc \in {"open", "waits", "close", "closing"}
  BY <1>1, TalksIfOn
<1>3. PICK s, e : s \in Seq([by : Names, n : Nat]) /\ s = line.lines /\ e = EndOfLines
  BY LineIs
<1>4. PICK t : t = IF line.on THEN Append(s, e) ELSE s
  OBVIOUS
<1>5. t \in Seq([by : Names, n : Nat]) /\ \A i \in DOMAIN t : (i \in DOMAIN s /\ t[i] = s[i]) \/ t[i] = e
  <2>1. CASE line.on
    <3>1. e \in [by : Names, n : Nat] /\ t = Append(s, e)
      BY <1>3, <1>4, <2>1, EndOfLinesIs
    <3>2. QED
      BY <1>3, <3>1, LinesAppend
  <2>2. CASE ~line.on
    BY <1>3, <1>4, <2>2
  <2>3. QED
    BY <2>1, <2>2
<1>6. LineBecomes(FALSE, line.eof, line.inbox, t)
  BY <1>3, <1>4, LineIs DEF ContainerEnds, LineBecomes
<1>7. IsLine(line') /\ line'.on = FALSE /\ line'.inbox = line.inbox /\ line'.lines = t
  BY <1>5, <1>6, LineBecomesIs, LineIs
<1>8. ContainerBecomes("none", container.did, container.why)
  BY ContainerIs DEF ContainerEnds, ContainerBecomes
<1>9. IsContainer(container') /\ container'.tenant = container.tenant /\ container'.did = container.did /\ container'.state = "none"
  BY <1>8, ContainerBecomesIs, ContainerIs
<1>10. LinesOfTenant(line', container.tenant) /\ LinesCount(job, line', container')
  BY <1>2, <1>3, <1>5, <1>7, <1>9, EndedLines
<1>11. QED
  BY <1>1, <1>2, <1>7, <1>9, <1>10, PipeKeeps

LEMMA ClientDiesKeeps == ASSUME TrInv, ClientDies PROVE TrInv'
<1>1. line.on /\ UNCHANGED <<job, acting, outcomes, left, exit>>
  BY DEF ClientDies
<1>2. Talks(job, line, container, acting) /\ job.pc \in {"open", "waits", "close", "closing"}
  BY <1>1, TalksIfOn
<1>3. PICK s, e : s \in Seq([by : Names, n : Nat]) /\ s = line.lines /\ e = EndOfLines
  BY LineIs
<1>4. PICK t : t = Append(s, e)
  OBVIOUS
<1>5. t \in Seq([by : Names, n : Nat]) /\ \A i \in DOMAIN t : (i \in DOMAIN s /\ t[i] = s[i]) \/ t[i] = e
  <2>1. e \in [by : Names, n : Nat]
    BY <1>3, EndOfLinesIs
  <2>2. QED
    BY <1>3, <1>4, <2>1, LinesAppend
<1>6. LineBecomes(FALSE, TRUE, line.inbox, t)
  BY <1>3, <1>4, LineIs DEF ClientDies, LineBecomes
<1>7. IsLine(line') /\ line'.on = FALSE /\ line'.inbox = line.inbox /\ line'.lines = t
  BY <1>5, <1>6, LineBecomesIs, LineIs
<1>8. PICK state, did, why : state = container.state /\ did = container.did /\ why = "client died"
  OBVIOUS
<1>9. state \in {"none", "serves", "stuck"} /\ did \in Nat /\ why # "" /\ ContainerBecomes(state, did, why)
  BY <1>8, ContainerIs DEF ClientDies, ContainerBecomes
<1>10. IsContainer(container') /\ container'.tenant = container.tenant /\ container'.did = container.did /\ container'.why # ""
  BY <1>8, <1>9, ContainerBecomesIs
<1>11. LinesOfTenant(line', container.tenant) /\ LinesCount(job, line', container')
  BY <1>2, <1>3, <1>5, <1>7, <1>10, EndedLines
<1>12. acting' \in {"", container.tenant} /\ (acting' # "" => line'.inbox # <<>>)
  BY <1>1, <1>2, <1>7 DEF Talks
<1>13. QED
  BY <1>1, <1>2, <1>7, <1>10, <1>11, <1>12, PipeKeeps

-----------------------------------------------------------------------------
(* From tenant to tenant *)

LEMMA ReportStands ==
  ASSUME TrInv, exit = -1, UNCHANGED <<outcomes, left, exit>>,
         job'.kind = job.kind, job'.given = job.given, job'.todo = job.todo
  PROVE  Accounted(job, outcomes)' /\ Ended(job, outcomes, exit)' /\ NoneLeftBehind'
BY DEF TrInv, Accounted, Ended, NoneLeftBehind

LEMMA FreshIs ==
  ASSUME TrInv
  PROVE  Fresh(job) = [kind |-> job.kind, given |-> job.given, todo |-> job.todo, pc |-> "open", asked |-> 0,
                       answered |-> 0, unsent |-> FALSE, result |-> Unrun]
<1>1. PICK j : j = Fresh(job)
  OBVIOUS
<1>2. j = [job EXCEPT !.pc = "open", !.asked = 0, !.answered = 0, !.unsent = FALSE, !.result = Unrun]
  BY <1>1 DEF Fresh
<1>3. j = [kind |-> job.kind, given |-> job.given, todo |-> job.todo, pc |-> "open", asked |-> 0,
           answered |-> 0, unsent |-> FALSE, result |-> Unrun]
  BY <1>2, JobIs
<1>4. QED
  BY <1>1, <1>3

LEMMA OpenKeeps == ASSUME TrInv, OpenContainer PROVE TrInv'
<1>1. /\ exit = -1 /\ job.pc = "next" /\ job.kind # "seal" /\ job.todo # <<>>
      /\ UNCHANGED <<acting, outcomes, left, exit>>
  BY DEF OpenContainer, JobAt
<1>2. Alone(job, line, container, acting) /\ acting = ""
  BY <1>1, AloneNow DEF Alone
<1>3. JobBecomes("open", 0, 0, FALSE, Unrun)
  BY FreshIs DEF OpenContainer, JobBecomes
<1>4. IsJob(job') /\ SameJob("open") /\ job'.asked = 0 /\ job'.answered = 0
  <2>1. PICK zero, no, r : zero \in Nat /\ zero = 0 /\ no = FALSE /\ r = Unrun
    OBVIOUS
  <2>2. IsResult(r) /\ JobBecomes("open", zero, zero, no, r)
    BY <1>3, <2>1, Results
  <2>3. QED
    BY <2>1, <2>2, JobBecomesIs
<1>5. line' = [on |-> TRUE, eof |-> FALSE, inbox |-> <<>>, lines |-> <<>>]
  BY DEF OpenContainer, Hung
<1>6. IsLine(line') /\ line'.on = TRUE /\ line'.inbox = <<>> /\ line'.lines = <<>>
  BY <1>5, EmptySeq DEF IsLine
<1>7. PICK s \in Seq(STRING) : s = job.todo
  BY JobIs
<1>8. PICK t \in Names : t = Head(s)
  BY <1>1, <1>7, HeadTailProperties DEF Names
<1>9. container' = [tenant |-> t, state |-> "serves", did |-> 0, why |-> ""]
  BY <1>7, <1>8 DEF OpenContainer, NoContainer, CurrentTenant
<1>10. IsContainer(container') /\ container'.tenant = t /\ container'.did = 0
  BY <1>9 DEF IsContainer
<1>11. Silent(line')
  BY <1>6 DEF Silent
<1>12. LinesCount(job', line', container')
  BY <1>4, <1>6, <1>10, <1>11 DEF LinesCount, SameJob
<1>13. Talks(job', line', container', acting')
  <2>1. job'.kind # "seal" /\ job'.todo # <<>> /\ container'.tenant = Head(job'.todo)
    BY <1>1, <1>4, <1>7, <1>8, <1>10 DEF SameJob
  <2>2. acting' = ""
    BY <1>1, <1>2
  <2>3. LinesOfTenant(line', container'.tenant)
    <3>1. DOMAIN line'.lines = {}
      BY <1>6
    <3>2. QED
      BY <3>1 DEF LinesOfTenant
  <2>4. QED
    BY <1>6, <1>12, <2>1, <2>2, <2>3 DEF Talks
<1>14. Together(job, line, container, acting)'
  BY <1>4, <1>13 DEF Together, SameJob
<1>15. Accounted(job, outcomes)' /\ Ended(job, outcomes, exit)' /\ NoneLeftBehind'
  BY <1>1, <1>4, ReportStands DEF SameJob
<1>16. acting' \in Names
  BY <1>1 DEF TrInv
<1>17. QED
  BY <1>4, <1>6, <1>10, <1>14, <1>15, <1>16 DEF TrInv

LEMMA BindKeeps == ASSUME TrInv, Bind PROVE TrInv'
<1>1. /\ exit = -1 /\ job.pc = "next" /\ job.kind = "seal" /\ job.todo # <<>> /\ acting' = Head(job.todo)
      /\ UNCHANGED <<line, container, outcomes, left, exit>>
  BY DEF Bind, JobAt, CurrentTenant
<1>2. Alone(job, line, container, acting)
  BY <1>1, AloneNow
<1>3. PICK j : j = [kind |-> job.kind, given |-> job.given, todo |-> job.todo, pc |-> "open", asked |-> 0,
                    answered |-> 0, unsent |-> FALSE, result |-> Unrun]
  OBVIOUS
<1>4. job' = [j EXCEPT !.pc = "works"]
  BY <1>3, FreshIs DEF Bind
<1>5. JobBecomes("works", 0, 0, FALSE, Unrun)
  BY <1>3, <1>4 DEF JobBecomes
<1>6. IsJob(job') /\ SameJob("works")
  BY <1>5, JobBecomesIs, Results
<1>7. Together(job, line, container, acting)'
  BY <1>1, <1>2, <1>6 DEF Together, Alone, SameJob
<1>8. Accounted(job, outcomes)' /\ Ended(job, outcomes, exit)' /\ NoneLeftBehind'
  BY <1>1, <1>6, ReportStands DEF SameJob
<1>9. IsLine(line') /\ IsContainer(container') /\ acting' \in Names
  <2>1. PICK s \in Seq(STRING) : s = job.todo
    BY JobIs
  <2>2. Head(s) \in Names
    BY <1>1, <2>1, HeadTailProperties DEF Names
  <2>3. QED
    BY <1>1, <2>1, <2>2 DEF TrInv
<1>10. QED
  BY <1>6, <1>7, <1>8, <1>9 DEF TrInv

\* A tenant is reported, and the next one is due.
LEMMA TenantDone ==
  ASSUME TrInv, exit = -1, exit' = -1, job.todo # <<>>, NEW r, IsResult(r), job.kind = "seal" /\ r.ok => r.code = 0,
         outcomes' = Append(outcomes, [tenant |-> Head(job.todo), ok |-> r.ok, code |-> r.code]),
         job'.kind = job.kind, job'.given = job.given, job'.todo = Tail(job.todo)
  PROVE  Accounted(job', outcomes') /\ Ended(job', outcomes', exit')
<1>1. PICK s \in Seq(STRING), p \in Seq(STRING) : s = job.todo /\ p = ParseTenants(job.given)
  BY JobIs, ParsedIs
<1>2. PICK o \in Seq([tenant : Names, ok : BOOLEAN, code : Codes]) : o = outcomes
  BY DEF TrInv, Accounted
<1>3. /\ Len(p) = Len(o) + Len(s)
      /\ \A i \in 1..Len(o) : o[i].tenant = p[i] /\ (o[i].code = 0 => o[i].ok)
      /\ \A i \in 1..Len(s) : s[i] = p[Len(o) + i]
      /\ job.kind = "seal" => \A i \in 1..Len(o) : o[i].ok => o[i].code = 0
  BY <1>1, <1>2 DEF TrInv, Accounted
<1>4. /\ Tail(s) \in Seq(STRING) /\ Head(s) \in Names /\ Head(s) = s[1] /\ Len(s) \in Nat \ {0} /\ Len(Tail(s)) = Len(s) - 1
      /\ \A i \in 1..Len(Tail(s)) : Tail(s)[i] = s[i + 1]
  <2>1. s # <<>>
    BY <1>1
  <2>2. Head(s) \in STRING /\ Len(s) \in Nat \ {0}
    BY <2>1, HeadTailProperties
  <2>3. Head(s) \in Names
    BY <2>2 DEF Names
  <2>4. /\ Tail(s) \in Seq(STRING) /\ Head(s) = s[1] /\ Len(Tail(s)) = Len(s) - 1
        /\ \A i \in 1..Len(Tail(s)) : Tail(s)[i] = s[i + 1]
    BY <2>1, HeadTailProperties
  <2>5. QED
    BY <2>2, <2>3, <2>4
<1>5. PICK e : e = [tenant |-> Head(s), ok |-> r.ok, code |-> r.code]
  OBVIOUS
<1>6. e \in [tenant : Names, ok : BOOLEAN, code : Codes] /\ e.tenant = Head(s) /\ e.ok = r.ok /\ e.code = r.code
  BY <1>4, <1>5 DEF IsResult
<1>7. PICK q : q = Append(o, e)
  OBVIOUS
<1>8. /\ q \in Seq([tenant : Names, ok : BOOLEAN, code : Codes]) /\ Len(q) = Len(o) + 1 /\ Len(o) \in Nat
      /\ (\A i \in 1..Len(o) : q[i] = o[i]) /\ q[Len(o) + 1] = e
  BY <1>6, <1>7, AppendProperties
<1>9. outcomes' = q /\ job'.todo = Tail(s) /\ ParseTenants(job'.given) = p
  BY <1>1, <1>2, <1>5, <1>7
<1>10. Len(p) = Len(q) + Len(Tail(s))
  BY <1>3, <1>4, <1>8
<1>11. \A i \in 1..Len(q) : i \in 1..Len(o) \/ i = Len(o) + 1
  BY <1>8
<1>12. e.tenant = p[Len(o) + 1]
  <2>1. 1 \in 1..Len(s)
    BY <1>4
  <2>2. QED
    BY <1>3, <1>4, <1>6, <2>1
<1>13. \A i \in 1..Len(q) : q[i].tenant = p[i] /\ (q[i].code = 0 => q[i].ok)
  <2>1. e.code = 0 => e.ok
    BY <1>6 DEF IsResult
  <2>2. QED
    BY <1>3, <1>8, <1>11, <1>12, <2>1
<1>14. job.kind = "seal" => \A i \in 1..Len(q) : q[i].ok => q[i].code = 0
  BY <1>3, <1>6, <1>8, <1>11
<1>15. \A i \in 1..Len(Tail(s)) : Tail(s)[i] = p[Len(q) + i]
  <2>1. ASSUME NEW i \in 1..Len(Tail(s)) PROVE Tail(s)[i] = p[Len(q) + i]
    <3>1. PICK k \in 1..Len(s) : k = i + 1 /\ Len(o) + k = Len(q) + i
      BY <1>4, <1>8
    <3>2. Tail(s)[i] = s[k] /\ s[k] = p[Len(o) + k]
      BY <1>3, <1>4, <3>1
    <3>3. QED
      BY <3>1, <3>2
  <2>2. QED
    BY <2>1
<1>16. Accounted(job', outcomes')
  BY <1>8, <1>9, <1>10, <1>13, <1>14, <1>15 DEF Accounted
<1>17. Len(q) + Len(Tail(s)) > 0
  BY <1>4, <1>8
<1>18. Ended(job', outcomes', exit')
  BY <1>9, <1>17 DEF Ended
<1>19. QED
  BY <1>16, <1>18

\* The job between two tenants.
LEMMA NextKeeps ==
  ASSUME TrInv, Accounted(job', outcomes'), Ended(job', outcomes', exit'), NoneLeftBehind', IsJob(job'), job'.pc = "next",
         line' = Hung, container' = NoContainer, acting' = ""
  PROVE  TrInv'
<1>1. Together(job, line, container, acting)'
  BY DEF Together, Alone
<1>2. acting' \in Names
  BY DEF Names
<1>3. QED
  BY <1>1, <1>2, NoLines, NoContainerIs DEF TrInv

JobGoesOn(result) ==
  job' = [kind |-> job.kind, given |-> job.given, todo |-> Tail(job.todo), pc |-> "next", asked |-> job.asked,
          answered |-> job.answered, unsent |-> job.unsent, result |-> result]
LEMMA JobGoesOnIs ==
  ASSUME TrInv, job.todo # <<>>, NEW r, IsResult(r), JobGoesOn(r)
  PROVE  IsJob(job') /\ job'.pc = "next" /\ job'.kind = job.kind /\ job'.given = job.given /\ job'.todo = Tail(job.todo)
<1>1. PICK s \in Seq(STRING) : s = job.todo
  BY JobIs
<1>2. Tail(s) \in Seq(STRING)
  BY <1>1, HeadTailProperties
<1>3. PICK n \in Nat, m \in Nat, g \in Lists : n = job.asked /\ m = job.answered /\ g = job.given
  BY JobIs
<1>4. job' = [kind |-> job.kind, given |-> g, todo |-> Tail(s), pc |-> "next", asked |-> n,
              answered |-> m, unsent |-> job.unsent, result |-> r]
  BY <1>1, <1>3 DEF JobGoesOn
<1>5. QED
  BY <1>1, <1>2, <1>3, <1>4 DEF IsJob

LEMMA CannotOpenKeeps == ASSUME TrInv, CannotOpen PROVE TrInv'
<1>1. /\ exit = -1 /\ job.pc = "next" /\ job.kind # "seal" /\ job.todo # <<>>
      /\ UNCHANGED <<line, container, acting, left, exit>>
  BY DEF CannotOpen, JobAt
<1>2. Alone(job, line, container, acting) /\ acting = ""
  BY <1>1, AloneNow DEF Alone
<1>3. PICK r, k : r = job.result /\ k = ApiFailed
  OBVIOUS
<1>4. JobGoesOn(r)
  BY <1>1, <1>3, JobIs DEF CannotOpen, JobGoesOn, Remaining
<1>5. IsResult(r) /\ IsResult(k)
  BY <1>3, JobIs, Results
<1>6. IsJob(job') /\ job'.pc = "next" /\ job'.kind = job.kind /\ job'.given = job.given /\ job'.todo = Tail(job.todo)
  BY <1>1, <1>4, <1>5, JobGoesOnIs
<1>7. outcomes' = Append(outcomes, [tenant |-> Head(job.todo), ok |-> k.ok, code |-> k.code])
  BY <1>3 DEF CannotOpen, Recorded, CurrentTenant
<1>8. Accounted(job', outcomes') /\ Ended(job', outcomes', exit')
  BY <1>1, <1>5, <1>6, <1>7, TenantDone
<1>9. NoneLeftBehind'
  BY <1>1 DEF TrInv, NoneLeftBehind
<1>10. QED
  BY <1>1, <1>2, <1>6, <1>8, <1>9, NextKeeps DEF Alone

LEMMA SealKeeps == ASSUME TrInv, NEW ok \in BOOLEAN, SealTenant(ok) PROVE TrInv'
<1>1. /\ exit = -1 /\ job.pc = "works" /\ acting' = "" /\ UNCHANGED <<line, container, left, exit>>
  BY DEF SealTenant, JobAt
<1>2. Alone(job, line, container, acting) /\ job.kind = "seal" /\ job.todo # <<>> /\ acting = Head(job.todo)
  BY <1>1, AloneNow DEF Alone
<1>3. PICK r, k : r = job.result /\ k = [ok |-> ok, code |-> IF ok THEN 0 ELSE 1]
  OBVIOUS
<1>4. JobGoesOn(r)
  BY <1>1, <1>3, JobIs DEF SealTenant, JobGoesOn, Remaining
<1>5. IsResult(r) /\ IsResult(k) /\ (k.ok => k.code = 0)
  BY <1>3, JobIs DEF IsResult, Codes
<1>6. IsJob(job') /\ job'.pc = "next" /\ job'.kind = job.kind /\ job'.given = job.given /\ job'.todo = Tail(job.todo)
  BY <1>2, <1>4, <1>5, JobGoesOnIs
<1>7. outcomes' = Append(outcomes, [tenant |-> Head(job.todo), ok |-> k.ok, code |-> k.code])
  BY <1>2, <1>3 DEF SealTenant
<1>8. Accounted(job', outcomes') /\ Ended(job', outcomes', exit')
  BY <1>1, <1>2, <1>5, <1>6, <1>7, TenantDone
<1>9. NoneLeftBehind'
  BY <1>1 DEF TrInv, NoneLeftBehind
<1>10. QED
  BY <1>1, <1>2, <1>6, <1>8, <1>9, NextKeeps DEF Alone

LEMMA ClosedKeeps == ASSUME TrInv, TransportClosed PROVE TrInv'
<1>1. /\ exit = -1 /\ job.pc = "closing" /\ ~line.on /\ exit' = exit
      /\ line' = Hung /\ container' = NoContainer /\ acting' = ""
      /\ left' = IF container.state = "stuck" THEN left \cup {container} ELSE left
  BY DEF TransportClosed, JobAt
<1>2. Talks(job, line, container, acting)
  BY <1>1, TalksNow
<1>3. job.kind # "seal" /\ job.todo # <<>>
  BY <1>2 DEF Talks
<1>4. PICK r : r = job.result
  OBVIOUS
<1>5. JobGoesOn(r)
  BY <1>1, <1>4, JobIs DEF TransportClosed, JobGoesOn, Remaining
<1>6. IsResult(r)
  BY <1>4, JobIs
<1>7. IsJob(job') /\ job'.pc = "next" /\ job'.kind = job.kind /\ job'.given = job.given /\ job'.todo = Tail(job.todo)
  BY <1>3, <1>5, <1>6, JobGoesOnIs
<1>8. outcomes' = Append(outcomes, [tenant |-> Head(job.todo), ok |-> r.ok, code |-> r.code])
  BY <1>4 DEF TransportClosed, Recorded, CurrentTenant
<1>9. Accounted(job', outcomes') /\ Ended(job', outcomes', exit')
  BY <1>1, <1>3, <1>6, <1>7, <1>8, TenantDone
<1>10. NoneLeftBehind'
  BY <1>1, <1>2 DEF TrInv, NoneLeftBehind, Talks
<1>11. QED
  BY <1>1, <1>7, <1>9, <1>10, NextKeeps

\* The highest of some codes.
LEMMA HighestIs ==
  ASSUME NEW S \in SUBSET Codes, S # {}
  PROVE  Max(S) \in S /\ \A x \in S : Max(S) >= x
<1>1. \E x \in S : \A y \in S : x >= y
  <2>1. CASE 5 \in S
    BY <2>1 DEF Codes
  <2>2. CASE 5 \notin S /\ 4 \in S
    BY <2>2 DEF Codes
  <2>3. CASE 5 \notin S /\ 4 \notin S /\ 3 \in S
    BY <2>3 DEF Codes
  <2>4. CASE 5 \notin S /\ 4 \notin S /\ 3 \notin S /\ 1 \in S
    BY <2>4 DEF Codes
  <2>5. CASE S = {0}
    BY <2>5
  <2>6. QED
    BY <2>1, <2>2, <2>3, <2>4, <2>5 DEF Codes
<1>2. QED
  BY <1>1 DEF Max

LEMMA ExitTells ==
  ASSUME TrInv, job.todo = <<>>, exit = -1
  PROVE  ExitCode = 0 <=> AllWell(outcomes)
<1>1. PICK o \in Seq([tenant : Names, ok : BOOLEAN, code : Codes]) : o = outcomes
  BY DEF TrInv, Accounted
<1>2. /\ \A i \in 1..Len(o) : o[i].code = 0 => o[i].ok
      /\ job.kind = "seal" => \A i \in 1..Len(o) : o[i].ok => o[i].code = 0
  BY <1>1 DEF TrInv, Accounted
<1>3. Len(o) \in Nat /\ DOMAIN o = 1..Len(o) /\ \A i \in 1..Len(o) : o[i].code \in Codes
  <2>0. PICK T : T = [tenant : Names, ok : BOOLEAN, code : Codes]
    OBVIOUS
  <2>1. PICK q \in Seq(T) : q = o
    BY <1>1, <2>0
  <2>2. Len(q) \in Nat /\ DOMAIN q = 1..Len(q) /\ \A i \in 1..Len(q) : q[i] \in T
    OBVIOUS
  <2>3. \A x \in T : x.code \in Codes
    BY <2>0
  <2>4. QED
    BY <2>1, <2>2, <2>3
<1>4. Len(o) > 0
  <2>1. Len(job.todo) = 0
    BY EmptySeq
  <2>2. QED
    BY <1>1, <1>3, <2>1 DEF TrInv, Ended
<1>5. PICK S : S = {x.code : x \in Range(o)}
  OBVIOUS
<1>6. S = {o[i].code : i \in 1..Len(o)} /\ Range(o) = {o[i] : i \in 1..Len(o)}
  BY <1>3, <1>5 DEF Range
<1>7. AllWell(outcomes) <=> \A i \in 1..Len(o) : o[i].ok /\ o[i].code = 0
  BY <1>1, <1>6 DEF AllWell
<1>8. CASE job.kind = "seal"
  <2>1. ExitCode = IF \E i \in 1..Len(o) : ~o[i].ok THEN 1 ELSE 0
    BY <1>1, <1>6, <1>8 DEF ExitCode
  <2>2. QED
    BY <1>2, <1>7, <1>8, <2>1
<1>9. CASE job.kind # "seal"
  <2>1. ExitCode = Max(S)
    BY <1>1, <1>5, <1>9 DEF ExitCode
  <2>2. S \in SUBSET Codes
    BY <1>3, <1>6
  <2>3. 1 \in 1..Len(o)
    BY <1>3, <1>4
  <2>4. S # {}
    BY <1>6, <2>3
  <2>5. Max(S) \in S /\ \A x \in S : Max(S) >= x
    BY <2>2, <2>4, HighestIs
  <2>6. Max(S) = 0 => \A i \in 1..Len(o) : o[i].code = 0
    <3>1. \A x \in S : Max(S) >= x
      BY <2>5
    <3>2. \A x \in Codes : 0 >= x => x = 0
      BY DEF Codes
    <3>3. Max(S) = 0 => \A x \in S : x = 0
      BY <2>2, <3>1, <3>2
    <3>4. \A i \in 1..Len(o) : o[i].code \in S
      BY <1>6
    <3>5. QED
      BY <3>3, <3>4
  <2>7. (\A i \in 1..Len(o) : o[i].code = 0) => Max(S) = 0
    BY <1>6, <2>5
  <2>8. QED
    BY <1>2, <1>7, <2>1, <2>6, <2>7
<1>10. QED
  BY <1>8, <1>9

LEMMA FinishKeeps == ASSUME TrInv, FinishRuns PROVE TrInv'
<1>1. /\ exit = -1 /\ job.pc = "next" /\ job.todo = <<>> /\ exit' = ExitCode
      /\ UNCHANGED <<job, line, container, acting, outcomes, left>>
  BY DEF FinishRuns, JobAt
<1>2. exit' = 0 <=> AllWell(outcomes)
  BY <1>1, ExitTells
<1>3. Len(outcomes) + Len(job.todo) > 0
  BY <1>1 DEF TrInv, Ended
<1>4. Ended(job, outcomes, exit)'
  BY <1>1, <1>2, <1>3 DEF Ended, AllWell
<1>5. QED
  BY <1>1, <1>4 DEF TrInv, Accounted, NoneLeftBehind, Together, Alone, Talks, LinesCount, LinesOfTenant, Silent, OneOnTheWay

LEMMA TrStep == ASSUME TrInv, [TrNext]_trVars PROVE TrInv'
<1>1. CASE Bind \/ (\E ok \in BOOLEAN : SealTenant(ok)) \/ OpenContainer \/ CannotOpen \/ TransportClosed \/ FinishRuns
  BY <1>1, BindKeeps, SealKeeps, OpenKeeps, CannotOpenKeeps, ClosedKeeps, FinishKeeps
<1>2. CASE AskContainer \/ ReceiveLine \/ RequestTimesOut \/ TenantPassEnds \/ CloseInput \/ CloseTimesOut
  BY <1>2, AskKeeps, ReceiveKeeps, TimesOutKeeps, PassEndsKeeps, CloseInputKeeps, CloseTimesOutKeeps
<1>3. CASE TakeLine \/ Answer \/ ContainerEnds \/ Hangs \/ ClientDies
  BY <1>3, TakeLineKeeps, AnswerKeeps, ContainerEndsKeeps, HangsKeeps, ClientDiesKeeps
<1>4. CASE UNCHANGED trVars
  BY <1>4 DEF trVars, TrInv, Accounted, Ended, NoneLeftBehind, Together, Alone, Talks, LinesCount, LinesOfTenant, Silent, OneOnTheWay
<1>5. QED
  BY <1>1, <1>2, <1>3, <1>4 DEF TrNext

LEMMA WholeHere == ASSUME TrInv PROVE TenantRunIsWhole
<1>1. ReportIsComplete
  <2>1. SUFFICES ASSUME exit \notin {-1, 2}
                 PROVE  /\ [i \in DOMAIN outcomes |-> outcomes[i].tenant] = ParseTenants(job.given)
                        /\ (exit = 0) <=> AllWell(outcomes)
    BY DEF ReportIsComplete, AllWell
  <2>2. job.todo = <<>> /\ ((exit = 0) <=> AllWell(outcomes))
    BY <2>1 DEF TrInv, Ended
  <2>3. PICK p \in Seq(STRING) : p = ParseTenants(job.given)
    BY JobIs, ParsedIs
  <2>4. PICK o \in Seq([tenant : Names, ok : BOOLEAN, code : Codes]) : o = outcomes
    BY DEF TrInv, Accounted
  <2>5. Len(job.todo) = 0 /\ Len(o) \in Nat /\ DOMAIN o = 1..Len(o)
    BY <2>2, EmptySeq
  <2>6. Len(p) = Len(o) /\ \A i \in 1..Len(o) : o[i].tenant = p[i]
    BY <2>3, <2>4, <2>5 DEF TrInv, Accounted
  <2>7. p = [i \in 1..Len(o) |-> p[i]]
    BY <2>6
  <2>8. [i \in DOMAIN o |-> o[i].tenant] = p
    BY <2>5, <2>6, <2>7
  <2>9. QED
    BY <2>2, <2>3, <2>4, <2>8
<1>2. AnswersMatch
  <2>1. SUFFICES ASSUME job.pc \in {"open", "waits", "close"}
                 PROVE  /\ container.tenant = CurrentTenant
                        /\ job.pc = "open" => job.answered = job.asked
                        /\ job.answered <= container.did /\ container.did <= job.answered + 1
                        /\ \A a \in Range(line.lines) : a.by \in {"", CurrentTenant}
    BY DEF AnswersMatch
  <2>2. Talks(job, line, container, acting)
    BY <2>1, TalksNow
  <2>3. job.answered \in Nat /\ Leaves(line, container, job.answered)
    BY <2>1, <2>2, JobIs, LeavesNow
  <2>4. container.did \in {job.answered, job.answered + 1}
    BY <2>3 DEF Leaves, OneOnTheWay
  <2>5. job.answered <= container.did /\ container.did <= job.answered + 1
    BY <2>3, <2>4
  <2>6. container.tenant = CurrentTenant /\ \A a \in Range(line.lines) : a.by \in {"", CurrentTenant}
    BY <2>2 DEF Talks, LinesOfTenant, CurrentTenant, Range
  <2>7. job.pc = "open" => job.answered = job.asked
    BY <2>2 DEF Talks, LinesCount
  <2>8. QED
    BY <2>5, <2>6, <2>7
<1>3. QED
  BY <1>1, <1>2 DEF TrInv, TenantRunIsWhole

\* The jobs' property: a run over the tenants reports each of them truly.
LEMMA Whole == TrSpec => []TenantRunIsWhole
<1>1. TrInit => TrInv
  BY TrStart
<1>2. TrInv /\ [TrNext]_trVars => TrInv'
  BY TrStep
<1>3. TrInv => TenantRunIsWhole
  BY WholeHere
<1>4. QED
  BY <1>1, <1>2, <1>3, PTL DEF TrSpec

-----------------------------------------------------------------------------
(* Results *)

\* Whoever asks over a pipe takes the answer to its own question: a call of the connector client
\* that several threads share (NxClient) and a pass over the tenants, whose report is complete
\* and true (TenantRuns), whatever hangs, dies or comes too late.
THEOREM AnswersHold == NxSpec /\ TrSpec => []AnswersAreMine
<1>1. OwnAnswersOnly /\ TenantRunIsWhole => AnswersAreMine
  BY DEF AnswersAreMine
<1>2. QED
  BY <1>1, OwnAnswers, Whole, PTL

\* Nobody is served but as what it has proven to be (Access), and nothing is served that was not
\* verified (Serving), however the database changes between a check and its use.
THEOREM ServedHolds == AcSpec /\ SvSpec => []ServedAsProven
<1>1. CallersAreProven /\ ServedAsVerified => ServedAsProven
  BY DEF ServedAsProven
<1>2. QED
  BY <1>1, Proven, Verified, PTL
=============================================================================
