---------------------------- MODULE CallLogProofs ----------------------------
(***************************************************************************)
(* CallLog, for every set of requests and processes and every bound: no    *)
(* call vanishes or is pending twice, a gap is reported before anything    *)
(* else, and the chain of entries survives what the disk and the processes *)
(* do to it.  An auditor that reads it meanwhile is told the truth: pages   *)
(* join, alarms have a cause, a view called complete is complete.          *)
(***************************************************************************)
EXTENDS CallLogReads, FiniteSetTheorems, WellFoundedInduction, TLAPS

Counts == [on : BOOLEAN, owed : SUBSET Calls]
Lines == [seq : Nat, what : Appends \cup {"torn"}, calls : SUBSET Calls]
StepNames == Appends \cup {"clear", "window"}
CallStages == {"idle", "preflight", "serving", "recording", "refusing", "unlogged"} \cup Over
ProcStages ==
  {"idle", "flushing", "paging", "exiting", "flushfailed", "exitflush", "exitfailed", "abandon"}
Sections ==
  [taken : {TRUE}, by : Tasks, proc : Procs, plan : Seq(StepNames), head : Nat,
   day : Days, kept : BOOLEAN, known : Counts]

FilesOK(f) == DOMAIN f \subseteq Days /\ f \in [DOMAIN f -> Seq(Lines)]
JobOK(j) ==
  /\ j \in [Tasks -> [at : CallStages \cup ProcStages, kind : CallKinds, proc : Procs]]
  /\ \A c \in Calls : j[c].at \in CallStages
  /\ \A p \in Procs : j[p].at \in ProcStages /\ j[p].proc = p

TypeOK ==
  /\ today \in Days
  /\ FilesOK(files)
  /\ anchor \in Nat
  /\ marker \in Counts /\ outage \in [Procs -> Counts]
  /\ held \in [Procs -> [Kinds -> SUBSET Calls]]
  /\ seen \in [Procs -> [Kinds -> Nat]]
  /\ JobOK(job)
  /\ lock \in {Free} \cup Sections
  /\ lost \subseteq Calls /\ retired \subseteq Calls
  /\ cut \in Nat /\ faults \in Nat /\ stops \in Nat

(* Sections: who is in one, and the order of what it still has to do. *)

\* A gap comes first and its clearing right after it, an entry comes last, and the cap is
\* looked at before it.
Ordered(plan) ==
  \A i \in 1..Len(plan) :
    /\ plan[i] = "gap" => i = 1 /\ 2 \in 1..Len(plan) /\ plan[2] = "clear"
    /\ plan[i] = "clear" => i = 1 \/ (i = 2 /\ plan[1] = "gap")
    /\ plan[i] = "entry" => i = Len(plan)
    /\ plan[i] = "window" => i # Len(plan)

\* What is left to do fits the task.
Fitting(stage, plan) ==
  /\ stage = "preflight" => \A i \in 1..Len(plan) : plan[i] \in {"gap", "clear"}
  /\ stage = "recording" => plan = <<>> \/ plan[Len(plan)] = "entry"
  /\ stage \in {"flushing", "paging", "exiting"} => \A i \in 1..Len(plan) : plan[i] \in Kinds

SectionOK ==
  lock.taken =>
    /\ lock.proc = Proc(lock.by)
    /\ job[lock.by].at \in {"preflight", "recording", "flushing", "paging", "exiting"}
    /\ Ordered(lock.plan) /\ Fitting(job[lock.by].at, lock.plan)

(* Accounting. *)
Reported == Logged \cup retired \cup lost
Pending(c) == c \in marker.owed \/ \E p \in Procs : c \in InMemory(p)
Done(c) == lock.taken /\ lock.by = c /\ job[c].at = "recording" /\ lock.plan = <<>>

\* Until a call is over it is counted nowhere, but for the one whose section is done.
NotYetCounted ==
  \A c \in Calls :
    IF Done(c) THEN c \in Reported \cup Held(lock.proc)
    ELSE job[c].at \notin Over => ~Pending(c)

\* No count without the mark that says there is one.
CountsMarked == (~marker.on => marker.owed = {}) /\ \A p \in Procs : ~outage[p].on => outage[p].owed = {}

ToReport == lock.plan # <<>> /\ Head(lock.plan) = "gap"
ToClear == lock.plan # <<>> /\ Head(lock.plan) \in {"gap", "clear"}

\* A call's section reports what it knew, then drops it, and only then goes on.
GapInOrder ==
  lock.taken /\ lock.by \in Calls =>
    /\ ~ToReport => lock.known.owed \subseteq Reported
    /\ outage[lock.proc].owed \subseteq (IF ToClear THEN lock.known.owed ELSE {})
    /\ faults = 0 => marker.owed \subseteq lock.known.owed

AInv == TypeOK /\ SectionOK /\ NothingVanishes /\ NotYetCounted /\ CountsMarked /\ GapInOrder

(* The chain. *)
EntryAt == {x \in Positions : Valid(At(x))}
NewestEntry(x) == \A y \in EntryAt : ~Precedes(x, y)
OldestIn(x, S) == \A y \in S : ~Precedes(y, x)
EntriesIn(D) == {x \in EntryAt : x[1] \in D}

\* Writing goes on in the newest file.
DaysInOrder ==
  /\ DOMAIN files \subseteq 1..today
  /\ lock.taken => lock.day <= today /\ DOMAIN files \subseteq 1..lock.day

\* Entries are numbered upwards, without a hole unless a line was cut.
Increasing ==
  \A x, y \in EntryAt : Precedes(x, y) =>
    /\ At(x).seq < At(y).seq
    /\ (~\E z \in Positions : Precedes(x, z) /\ Precedes(z, y)) => At(y).seq = At(x).seq + 1
    /\ (~\E z \in EntryAt : Precedes(x, z) /\ Precedes(z, y)) => At(y).seq <= At(x).seq + 1 + cut

AnchorFits ==
  /\ \A x \in EntryAt :
       /\ OldestIn(x, EntryAt) => At(x).seq <= anchor + 1 + cut
       /\ x[1] >= today - RetainDays => anchor < At(x).seq
       /\ NewestEntry(x) => anchor <= At(x).seq

\* The head that a section works with is the newest entry's, plus the lines cut since.
HeadIs(head) ==
  /\ anchor <= head
  /\ EntryAt = {} => head <= anchor + cut
  /\ \A x \in EntryAt :
       /\ At(x).seq <= head
       /\ NewestEntry(x) => head <= At(x).seq + cut
       /\ (\A y \in Positions : ~Precedes(x, y)) => At(x).seq = head
HeadFits == lock.taken => HeadIs(lock.head)

\* Once it is saved, the anchor is at the end of what is about to be deleted.
AnchorSaved ==
  lock.taken /\ lock.kept =>
    /\ \A x \in EntriesIn(Old(lock.day)) : At(x).seq <= anchor
    /\ \A x \in EntryAt \ EntriesIn(Old(lock.day)) :
         OldestIn(x, EntryAt \ EntriesIn(Old(lock.day))) => At(x).seq <= anchor + 1 + cut

\* The anchor saved for an append is forgotten after it.
KeptInAppend == lock.taken /\ lock.kept => lock.plan # <<>> /\ Head(lock.plan) \in Appends

Chained == KeptInAppend /\ DaysInOrder /\ Increasing /\ AnchorFits /\ HeadFits /\ AnchorSaved
CInv == TypeOK /\ SectionOK /\ Chained
-----------------------------------------------------------------------------
(* Numbers *)

\* Every nonempty set of naturals has a least element.
LEMMA LeastNatural ==
  ASSUME NEW S, S \subseteq Nat, S # {}
  PROVE  \E x \in S : \A y \in S : x <= y
<1>1. PICK x \in S : \A y \in S : <<y, x>> \notin OpToRel(<, Nat)
  BY NatLessThanWellFounded, WFMin
<1>2. \A y \in S : ~(y < x)
  <2> SUFFICES ASSUME NEW y \in S PROVE ~(y < x)
    OBVIOUS
  <2>1. <<y, x>> \in Nat \X Nat
    OBVIOUS
  <2>2. <<y, x>>[1] = y /\ <<y, x>>[2] = x
    OBVIOUS
  <2>3. QED
    BY <1>1, <2>1, <2>2 DEF OpToRel
<1>3. QED
  BY <1>2, SMT

\* Max of a nonempty bounded set of naturals is its largest member.
LEMMA MaxIsLargest ==
  ASSUME NEW n \in Nat, NEW S, S \subseteq 0..n, S # {}
  PROVE  Max(S) \in S /\ \A y \in S : y <= Max(S)
<1> DEFINE T == {z \in 0..n : n - z \in S}
<1>1. T # {}
  <2>1. PICK x \in S : TRUE
    OBVIOUS
  <2>2. n - x \in 0..n /\ n - (n - x) = x
    BY <2>1
  <2>3. QED
    BY <2>1, <2>2
<1>2. PICK z \in T : \A y \in T : z <= y
  <2>1. T \subseteq Nat
    OBVIOUS
  <2> HIDE DEF T
  <2>2. QED
    BY <1>1, <2>1, LeastNatural
<1>3. n - z \in S
  OBVIOUS
<1>4. ASSUME NEW y \in S PROVE n - z >= y
  <2>1. n - y \in 0..n /\ n - (n - y) = y
    OBVIOUS
  <2>2. z <= n - y
    BY <1>2, <2>1
  <2>3. QED
    BY <2>1, <2>2
<1>5. \E x \in S : \A y \in S : x >= y
  BY <1>3, <1>4
<1>6. Max(S) \in S /\ \A y \in S : Max(S) >= y
  BY <1>5 DEF Max
<1>7. QED
  BY <1>6

\* Min of a nonempty set of naturals is its least member.
LEMMA MinIsLeast ==
  ASSUME NEW S, S \subseteq Nat, S # {}
  PROVE  Min(S) \in S /\ \A y \in S : Min(S) <= y
BY LeastNatural DEF Min

-----------------------------------------------------------------------------
(* The files *)

\* A file is a sequence of lines.
LEMMA FileType ==
  ASSUME TypeOK, NEW d \in DOMAIN files
  PROVE  /\ files[d] \in Seq(Lines) /\ Len(files[d]) \in Nat /\ d \in Days /\ d \in Nat
         /\ DOMAIN files[d] = 1..Len(files[d])
         /\ \A i \in 1..Len(files[d]) : files[d][i] \in Lines
BY DEF TypeOK, FilesOK, Days

\* The head read from files that can be read is the seq of a line of the newest one with text.
LEMMA LastLine ==
  ASSUME TypeOK, NEW S, S \subseteq DOMAIN files, NonEmpty(S) # {}, ~Unreadable(S)
  PROVE  \E d \in S : \E i \in 1..Len(files[d]) :
           /\ i \in DOMAIN files[d] /\ Valid(files[d][i]) /\ LastSeq(S) = files[d][i].seq
           /\ \A e \in S : files[e] # <<>> => e <= d
           /\ \A k \in 1..Len(files[d]) : Valid(files[d][k]) => k <= i
<1> DEFINE d == Max(NonEmpty(S))
           i == Max(ValidLines(d))
<1>1. NonEmpty(S) \subseteq 0..LastDay /\ LastDay \in Nat
  BY CallLogConstantsOK DEF TypeOK, FilesOK, Days, NonEmpty
<1>2. d \in NonEmpty(S) /\ \A e \in NonEmpty(S) : e <= d
  BY <1>1, MaxIsLargest
<1>3. d \in S /\ d \in DOMAIN files
  BY <1>2 DEF NonEmpty
<1>4. DOMAIN files[d] = 1..Len(files[d]) /\ Len(files[d]) \in Nat
  BY <1>3, FileType
<1>5. ValidLines(d) \subseteq 0..Len(files[d]) /\ ValidLines(d) # {}
  BY <1>4 DEF ValidLines, Unreadable
<1>6. i \in ValidLines(d) /\ \A k \in ValidLines(d) : k <= i
  BY <1>4, <1>5, MaxIsLargest
<1>7. LastSeq(S) = files[d][i].seq
  BY DEF LastSeq
<1>8. QED
  BY <1>2, <1>3, <1>4, <1>6, <1>7 DEF ValidLines, NonEmpty

\* The head read from files that can be read is a number.
LEMMA LastSeqType ==
  ASSUME TypeOK, NEW S, S \subseteq DOMAIN files, NonEmpty(S) # {}, ~Unreadable(S)
  PROVE  LastSeq(S) \in Nat
<1>1. PICK d \in S : \E i \in 1..Len(files[d]) : LastSeq(S) = files[d][i].seq
  BY LastLine
<1>2. \A i \in 1..Len(files[d]) : files[d][i] \in Lines
  BY FileType
<1>3. QED
  BY <1>1, <1>2 DEF Lines

\* So is the head of the log.
LEMMA HeadSeqType ==
  ASSUME TypeOK, ~Unreadable(DOMAIN files)
  PROVE  HeadSeq \in Nat
BY LastSeqType DEF HeadSeq, TypeOK

\* What Put does to the files: the day has one, and its lines come after those it had.
LEMMA PutFiles ==
  ASSUME TypeOK, NEW day \in Days, NEW lines \in Seq(Lines)
  PROVE  /\ DOMAIN Put(day, lines) = DOMAIN files \cup {day}
         /\ FilesOK(Put(day, lines))
         /\ \A d \in DOMAIN files \ {day} : Put(day, lines)[d] = files[d]
         /\ day \in DOMAIN files => Put(day, lines)[day] = files[day] \o lines
         /\ day \notin DOMAIN files => Put(day, lines)[day] = lines
<1> DEFINE P == Put(day, lines)
           old(d) == IF d \in DOMAIN files THEN files[d] ELSE <<>>
           new(d) == IF d = day THEN lines ELSE <<>>
<1>1. P = [d \in DOMAIN files \cup {day} |-> old(d) \o new(d)]
  BY DEF Put
<1>2. \A d : old(d) \in Seq(Lines) /\ new(d) \in Seq(Lines)
  BY FileType
<1> HIDE DEF P
<1>3. DOMAIN P = DOMAIN files \cup {day}
  BY <1>1
<1>4. \A d \in DOMAIN P : P[d] = old(d) \o new(d)
  BY <1>1, <1>3
<1>5. \A d : old(d) \o new(d) \in Seq(Lines)
  BY <1>2
<1>6. P \in [DOMAIN P -> Seq(Lines)]
  BY <1>1, <1>3, <1>5
<1>7. ASSUME NEW d \in DOMAIN files \ {day} PROVE P[d] = files[d]
  <2>1. P[d] = files[d] \o <<>>
    BY <1>3, <1>4
  <2>2. QED
    BY <2>1, FileType
<1>8. day \in DOMAIN files => P[day] = files[day] \o lines
  BY <1>3, <1>4
<1>9. day \notin DOMAIN files => P[day] = lines
  <2>1. <<>> \o lines = lines
    OBVIOUS
  <2>2. QED
    BY <1>3, <1>4, <2>1
<1>10. FilesOK(P)
  BY <1>3, <1>6 DEF FilesOK, TypeOK
<1>11. QED
  BY <1>3, <1>7, <1>8, <1>9, <1>10 DEF P

-----------------------------------------------------------------------------
(* Types *)

\* The counts of a process, and what it holds, are requests.
LEMMA CountTypes ==
  ASSUME TypeOK, NEW p \in Procs
  PROVE  /\ marker.owed \subseteq Calls /\ marker.on \in BOOLEAN
         /\ outage[p] \in Counts /\ outage[p].owed \subseteq Calls /\ outage[p].on \in BOOLEAN
         /\ held[p]["denied"] \subseteq Calls /\ held[p]["reads"] \subseteq Calls
         /\ Held(p) \subseteq Calls
<1>1. outage[p] \in Counts /\ marker \in Counts
  BY DEF TypeOK
<1>2. held[p] \in [Kinds -> SUBSET Calls]
  BY DEF TypeOK
<1>3. held[p]["denied"] \in SUBSET Calls /\ held[p]["reads"] \in SUBSET Calls
  BY <1>2 DEF Kinds
<1>4. QED
  BY <1>1, <1>3 DEF Counts, Held

\* A count combined with a count is one.
LEMMA CombineType ==
  ASSUME NEW a \in Counts, NEW b \in Counts
  PROVE  /\ Combine(a, b) \in Counts /\ Combine(a, b).owed = a.owed \cup b.owed
         /\ Combine(a, b).on = (a.on \/ b.on) /\ NoOutage \in Counts
         /\ NoOutage.owed = {} /\ NoOutage.on = FALSE
BY DEF Combine, Counts, NoOutage

\* A task is a process's, and its own when it is one.
LEMMA TaskTypes ==
  ASSUME TypeOK, NEW t \in Tasks
  PROVE  /\ Proc(t) \in Procs /\ job[t].kind \in CallKinds
         /\ job[t].at \in CallStages \cup ProcStages
         /\ t \in Calls => t \notin Procs /\ job[t].at \in CallStages
         /\ t \in Procs => t \notin Calls /\ job[t].at \in ProcStages /\ Proc(t) = t
         /\ t \in Calls \/ t \in Procs
BY CallLogConstantsOK DEF TypeOK, JobOK, Tasks, Proc

\* A section's fields are what they are for.
LEMMA SectionTypes ==
  ASSUME TypeOK, lock.taken
  PROVE  /\ lock \in Sections /\ lock.by \in Tasks /\ lock.proc \in Procs /\ lock.head \in Nat
         /\ lock.plan \in Seq(StepNames) /\ lock.day \in Days /\ lock.kept \in BOOLEAN
         /\ lock.known \in Counts /\ lock.known.owed \subseteq Calls /\ lock.known.on \in BOOLEAN
<1>1. lock \in Sections
  BY DEF TypeOK, Free
<1>2. QED
  BY <1>1 DEF Sections, Counts

\* Going to a stage of its own keeps the types of what a task does.
LEMMA GoesType ==
  ASSUME TypeOK, NEW t \in Tasks, NEW stage, Goes(t, stage),
         t \in Calls => stage \in CallStages, t \in Procs => stage \in ProcStages
  PROVE  /\ JobOK(job')
         /\ job' = [job EXCEPT ![t].at = stage,
                               ![t].kind = IF stage \in Over THEN "other" ELSE job[t].kind]
         /\ \A u \in Tasks \ {t} : job'[u] = job[u]
         /\ job'[t].at = stage /\ job'[t].proc = job[t].proc
<1>1. job \in [Tasks -> [at : CallStages \cup ProcStages, kind : CallKinds, proc : Procs]]
  BY DEF TypeOK, JobOK
<1>2. t \in Calls \/ t \in Procs
  BY DEF Tasks
<1>3. job' = [job EXCEPT ![t].at = stage,
                         ![t].kind = IF stage \in Over THEN "other" ELSE job[t].kind]
  BY DEF Goes
<1>4. \A u \in Tasks \ {t} : job'[u] = job[u]
  BY <1>1, <1>3
<1>5. job'[t] = [at |-> stage, kind |-> IF stage \in Over THEN "other" ELSE job[t].kind,
                 proc |-> job[t].proc]
  BY <1>1, <1>3
<1>6. job'[t] \in [at : CallStages \cup ProcStages, kind : CallKinds, proc : Procs]
  BY <1>1, <1>2, <1>5 DEF CallKinds
<1>7. job' \in [Tasks -> [at : CallStages \cup ProcStages, kind : CallKinds, proc : Procs]]
  BY <1>1, <1>3, <1>6
<1>8. ASSUME NEW c \in Calls PROVE job'[c].at \in CallStages
  <2>1. c \in Tasks /\ job[c].at \in CallStages
    BY DEF Tasks, TypeOK, JobOK
  <2>2. CASE c = t
    BY <1>5, <2>2
  <2>3. CASE c # t
    BY <1>4, <2>1, <2>3
  <2>4. QED
    BY <2>2, <2>3
<1>9. ASSUME NEW p \in Procs PROVE job'[p].at \in ProcStages /\ job'[p].proc = p
  <2>1. p \in Tasks /\ job[p].at \in ProcStages /\ job[p].proc = p
    BY DEF Tasks, TypeOK, JobOK
  <2>2. CASE p = t
    BY <1>5, <2>1, <2>2
  <2>3. CASE p # t
    BY <1>4, <2>1, <2>3
  <2>4. QED
    BY <2>2, <2>3
<1>10. JobOK(job')
  BY <1>7, <1>8, <1>9 DEF JobOK
<1>11. job'[t].at = stage /\ job'[t].proc = job[t].proc
  BY <1>5
<1>12. QED
  BY <1>3, <1>4, <1>10, <1>11

-----------------------------------------------------------------------------
(* Plans *)

\* What is left to do after a gap is cleared.
AfterGap == {"denied", "reads", "window", "entry"}
Rest(r) ==
  /\ r \in Seq(AfterGap)
  /\ \A i \in 1..Len(r) : (r[i] = "entry" => i = Len(r)) /\ (r[i] = "window" => i # Len(r))

\* Summaries are such steps, and may come before others.
LEMMA SummaryType ==
  ASSUME NEW p \in Procs, NEW k \in Kinds
  PROVE  Summary(p, k) \in Seq(Kinds)
BY DEF Summary

\* Both summaries together are a list of summaries.
LEMMA FlushesType ==
  ASSUME NEW p \in Procs
  PROVE  Flushes(p) \in Seq(Kinds)
BY SummaryType DEF Flushes, Kinds

\* Summaries before a rest leave it a rest, with the same last step.
LEMMA KindsThen ==
  ASSUME NEW s \in Seq(Kinds), NEW r, Rest(r)
  PROVE  /\ Rest(s \o r)
         /\ r # <<>> => s \o r # <<>> /\ (s \o r)[Len(s \o r)] = r[Len(r)]
<1> DEFINE u == s \o r
<1>1. r \in Seq(AfterGap) /\ s \in Seq(AfterGap)
  BY DEF Rest, Kinds, AfterGap
<1>2. /\ u \in Seq(AfterGap) /\ Len(u) = Len(s) + Len(r) /\ Len(s) \in Nat /\ Len(r) \in Nat
      /\ \A i \in 1..Len(s) : u[i] = s[i] /\ s[i] \in Kinds
      /\ \A i \in (Len(s) + 1)..Len(u) : u[i] = r[i - Len(s)] /\ i - Len(s) \in 1..Len(r)
  BY <1>1
<1> HIDE DEF u
<1>3. ASSUME NEW i \in 1..Len(u)
      PROVE  (u[i] = "entry" => i = Len(u)) /\ (u[i] = "window" => i # Len(u))
  <2>1. CASE i \in 1..Len(s)
    BY <1>2, <2>1 DEF Kinds
  <2>2. CASE i \in (Len(s) + 1)..Len(u)
    <3>1. PICK k \in 1..Len(r) : k = i - Len(s) /\ u[i] = r[k]
      BY <1>2, <2>2
    <3>2. (r[k] = "entry" => k = Len(r)) /\ (r[k] = "window" => k # Len(r))
      BY DEF Rest
    <3>3. i = Len(s) + k /\ Len(u) = Len(s) + Len(r)
      BY <1>2, <3>1
    <3>4. (i = Len(u)) <=> (k = Len(r))
      BY <1>2, <3>3
    <3>5. QED
      BY <3>1, <3>2, <3>4
  <2>3. QED
    BY <1>2, <2>1, <2>2
<1>4. Rest(u)
  BY <1>2, <1>3 DEF Rest
<1>5. ASSUME r # <<>> PROVE u # <<>> /\ u[Len(u)] = r[Len(r)]
  <2>1. Len(r) > 0
    BY <1>1, <1>5
  <2>2. Len(u) \in (Len(s) + 1)..Len(u)
    BY <1>2, <2>1
  <2>3. u[Len(u)] = r[Len(r)]
    BY <1>2, <2>2
  <2>4. u # <<>>
    BY <1>2, <2>1
  <2>5. QED
    BY <2>3, <2>4
<1>6. QED
  BY <1>4, <1>5 DEF u

\* What a process writes for itself, and what it writes for a call, are such steps.
LEMMA FlushesRest ==
  ASSUME NEW p \in Procs
  PROVE  Rest(Flushes(p)) /\ \A i \in 1..Len(Flushes(p)) : Flushes(p)[i] \in Kinds
BY FlushesType DEF Rest, AfterGap, Kinds

\* What append writes for a call is a rest that ends with its entry.
LEMMA EntriesRest ==
  ASSUME TypeOK, NEW t \in Tasks, NEW p \in Procs
  PROVE  /\ Rest(Entries(t, p)) /\ Entries(t, p) # <<>>
         /\ Entries(t, p)[Len(Entries(t, p))] = "entry"
<1> DEFINE e == <<"entry">>
           w == <<"window", "entry">>
<1>1. Rest(e) /\ e # <<>> /\ e[Len(e)] = "entry"
  BY DEF Rest, AfterGap
<1>2. Rest(w) /\ w # <<>> /\ w[Len(w)] = "entry"
  BY DEF Rest, AfterGap
<1> HIDE DEF e, w
<1>3. Summary(p, "denied") \in Seq(Kinds) /\ Flushes(p) \in Seq(Kinds)
  BY SummaryType, FlushesType DEF Kinds
<1>4. Entries(t, p) \in {w, Summary(p, "denied") \o w, Flushes(p) \o e, Summary(p, "denied") \o e}
  BY TaskTypes DEF Entries, CallKinds, e, w
<1>5. QED
  BY <1>1, <1>2, <1>3, <1>4, KindsThen

\* A plan that begins with a report is in order and ends as the rest does.
LEMMA ReportThen ==
  ASSUME NEW r, Rest(r), NEW known
  PROVE  /\ Report(known) \o r \in Seq(StepNames) /\ Ordered(Report(known) \o r)
         /\ known.on => Report(known) \o r # <<>> /\ Head(Report(known) \o r) = "gap"
         /\ ~known.on => Report(known) \o r = <<>> \/ Head(Report(known) \o r) \in AfterGap
         /\ r # <<>> => Report(known) \o r # <<>>
                         /\ (Report(known) \o r)[Len(Report(known) \o r)] = r[Len(r)]
         /\ r = <<>> => \A i \in 1..Len(Report(known) \o r) : (Report(known) \o r)[i] \in {"gap", "clear"}
<1> DEFINE plan == Report(known) \o r
<1>1. r \in Seq(AfterGap) /\ Len(r) \in Nat /\ \A i \in 1..Len(r) : r[i] \in AfterGap
  BY DEF Rest
<1>2. CASE known.on
  <2>1. Report(known) = <<"gap", "clear">>
    BY <1>2 DEF Report
  <2>2. r \in Seq(StepNames) /\ <<"gap", "clear">> \in Seq(StepNames)
    BY <1>1 DEF AfterGap, StepNames, Appends
  <2>3. /\ plan \in Seq(StepNames) /\ Len(plan) = Len(r) + 2
        /\ plan[1] = "gap" /\ plan[2] = "clear"
        /\ \A i \in 3..Len(plan) : plan[i] = r[i - 2] /\ i - 2 \in 1..Len(r)
    BY <1>1, <2>1, <2>2
  <2> HIDE DEF plan
  <2>4. Head(plan) = "gap" /\ plan # <<>>
    BY <2>3
  <2>5. Ordered(plan)
    <3> SUFFICES ASSUME NEW i \in 1..Len(plan)
                 PROVE  /\ plan[i] = "gap" => i = 1 /\ 2 \in 1..Len(plan) /\ plan[2] = "clear"
                        /\ plan[i] = "clear" => i = 1 \/ (i = 2 /\ plan[1] = "gap")
                        /\ plan[i] = "entry" => i = Len(plan)
                        /\ plan[i] = "window" => i # Len(plan)
      BY DEF Ordered
    <3>1. CASE i \in {1, 2}
      BY <1>1, <2>3, <3>1
    <3>2. CASE i \in 3..Len(plan)
      BY <1>1, <2>3, <3>2 DEF Rest, AfterGap
    <3>3. QED
      BY <1>1, <2>3, <3>1, <3>2
  <2>6. r # <<>> => plan[Len(plan)] = r[Len(r)]
    BY <1>1, <2>3
  <2>7. r = <<>> => \A i \in 1..Len(plan) : plan[i] \in {"gap", "clear"}
    BY <1>1, <2>3
  <2>8. QED
    BY <1>2, <2>3, <2>4, <2>5, <2>6, <2>7 DEF plan
<1>3. CASE ~known.on
  <2>1. Report(known) = <<>> /\ plan = r
    BY <1>1, <1>3 DEF Report
  <2>2. plan \in Seq(StepNames)
    BY <1>1, <2>1 DEF AfterGap, StepNames, Appends
  <2>3. Ordered(plan)
    BY <1>1, <2>1 DEF Ordered, Rest, AfterGap
  <2>4. plan = <<>> \/ Head(plan) \in AfterGap
    BY <1>1, <2>1
  <2>5. QED
    BY <1>3, <2>1, <2>2, <2>3, <2>4
<1>4. QED
  BY <1>2, <1>3

\* The plan of every section is in order and fits its task, and a call's begins with the
\* report of an outage if one is known.
LEMMA PlanFits ==
  ASSUME TypeOK, NEW t \in Tasks, NEW known,
         job[t].at \in {"preflight", "recording", "flushing", "paging", "exiting"}
  PROVE  /\ Plan(t, known) \in Seq(StepNames) /\ Ordered(Plan(t, known))
         /\ Fitting(job[t].at, Plan(t, known))
         /\ job[t].at = "recording" => Plan(t, known) # <<>>
         /\ t \in Calls => IF known.on THEN Plan(t, known) # <<>> /\ Head(Plan(t, known)) = "gap"
                           ELSE Plan(t, known) = <<>> \/ Head(Plan(t, known)) \in AfterGap
<1>1. Proc(t) \in Procs
  BY TaskTypes
<1>2. CASE job[t].at = "preflight"
  <2>1. Rest(<<>>) /\ Report(known) \in {<<>>, <<"gap", "clear">>}
    BY DEF Rest, Report
  <2>2. Plan(t, known) = Report(known) \o <<>>
    BY <1>2, <2>1 DEF Plan
  <2> DEFINE r == <<>>
  <2> HIDE DEF r
  <2>3. /\ Plan(t, known) \in Seq(StepNames) /\ Ordered(Plan(t, known))
        /\ \A i \in 1..Len(Plan(t, known)) : Plan(t, known)[i] \in {"gap", "clear"}
        /\ known.on => Plan(t, known) # <<>> /\ Head(Plan(t, known)) = "gap"
        /\ ~known.on => Plan(t, known) = <<>> \/ Head(Plan(t, known)) \in AfterGap
    <3>1. r = <<>> /\ Rest(r) /\ Plan(t, known) = Report(known) \o r
      BY <2>1, <2>2 DEF r
    <3> DEFINE u == Report(known) \o r
    <3>2. /\ u \in Seq(StepNames) /\ Ordered(u)
          /\ \A i \in 1..Len(u) : u[i] \in {"gap", "clear"}
          /\ known.on => u # <<>> /\ Head(u) = "gap"
          /\ ~known.on => u = <<>> \/ Head(u) \in AfterGap
      BY <3>1, ReportThen
    <3> HIDE DEF u
    <3>3. Plan(t, known) = u
      BY <3>1 DEF u
    <3>4. QED
      BY <3>2, <3>3
  <2>4. Fitting(job[t].at, Plan(t, known))
    BY <1>2, <2>3 DEF Fitting
  <2>5. QED
    BY <1>2, <2>3, <2>4
<1>3. CASE job[t].at = "recording"
  <2>1. Plan(t, known) = Report(known) \o Entries(t, Proc(t))
    BY <1>3 DEF Plan
  <2>2. Rest(Entries(t, Proc(t))) /\ Entries(t, Proc(t)) # <<>>
        /\ Entries(t, Proc(t))[Len(Entries(t, Proc(t)))] = "entry"
    BY <1>1, EntriesRest
  <2>3. QED
    BY <1>3, <2>1, <2>2, ReportThen DEF Fitting
<1>4. CASE job[t].at \in {"flushing", "paging", "exiting"}
  <2>1. Plan(t, known) = Flushes(Proc(t))
    BY <1>4 DEF Plan
  <2>2. Rest(Flushes(Proc(t))) /\ \A i \in 1..Len(Flushes(Proc(t))) : Flushes(Proc(t))[i] \in Kinds
    BY <1>1, FlushesRest
  <2>3. Plan(t, known) \in Seq(StepNames) /\ Ordered(Plan(t, known))
    BY <2>1, <2>2 DEF Rest, Ordered, AfterGap, StepNames, Appends, Kinds
  <2>4. t \notin Calls
    BY <1>4, TaskTypes DEF CallStages, Over
  <2>5. QED
    BY <1>4, <2>1, <2>2, <2>3, <2>4 DEF Fitting
<1>5. QED
  BY <1>2, <1>3, <1>4

-----------------------------------------------------------------------------
(* The steps of a section *)

\* Sections are those of requests that record or preflight, or of processes.
LEMMA SectionTask ==
  ASSUME TypeOK, SectionOK, lock.taken
  PROVE  /\ job[lock.by].at \in {"preflight", "recording"} <=> lock.by \in Calls
         /\ job[lock.by].at \in {"flushing", "paging", "exiting"} <=> lock.by \in Procs
         /\ lock.by \in Procs => lock.by = lock.proc
         /\ lock.proc = job[lock.by].proc
         /\ ~Failed(lock.by) /\ job[lock.by].at \notin Over \cup {"idle", "serving", "abandon"}
<1>1. lock.by \in Tasks
  BY SectionTypes
<1>2. /\ lock.proc = Proc(lock.by)
      /\ job[lock.by].at \in {"preflight", "recording", "flushing", "paging", "exiting"}
  BY DEF SectionOK
<1>3. QED
  BY <1>1, <1>2, TaskTypes DEF CallStages, ProcStages, Over, Failed, Proc

\* A plan that is not done: its first step, and what is left after it.
LEMMA PlanParts ==
  ASSUME NEW plan \in Seq(StepNames), plan # <<>>
  PROVE  /\ Len(plan) \in Nat /\ 1 \in 1..Len(plan) /\ Head(plan) = plan[1] /\ Head(plan) \in StepNames
         /\ Tail(plan) \in Seq(StepNames) /\ Len(Tail(plan)) = Len(plan) - 1
         /\ \A i \in 1..Len(Tail(plan)) : Tail(plan)[i] = plan[i + 1] /\ i + 1 \in 1..Len(plan)
         /\ Tail(plan) # <<>> <=> 2 \in 1..Len(plan)
         /\ Tail(plan) # <<>> => Head(Tail(plan)) = plan[2]
OBVIOUS

\* What is left after the first step is in order and fits the task; an entry is the last
\* step, a gap is followed by its clearing, and no other step is followed by either.
LEMMA TailOrdered ==
  ASSUME NEW plan \in Seq(StepNames), plan # <<>>, Ordered(plan)
  PROVE  /\ Head(plan) = "gap" => Tail(plan) # <<>> /\ Head(Tail(plan)) = "clear"
         /\ Head(plan) # "gap" => Tail(plan) = <<>> \/ Head(Tail(plan)) \notin {"gap", "clear"}
         /\ Head(plan) = "entry" => Tail(plan) = <<>>
         /\ Head(plan) = "window" => Tail(plan) # <<>>
         /\ Ordered(Tail(plan))
<1>1. /\ Len(plan) \in Nat /\ 1 \in 1..Len(plan) /\ Head(plan) = plan[1]
      /\ Tail(plan) # <<>> <=> 2 \in 1..Len(plan)
      /\ Tail(plan) # <<>> => Head(Tail(plan)) = plan[2]
      /\ Len(Tail(plan)) = Len(plan) - 1
      /\ \A i \in 1..Len(Tail(plan)) : Tail(plan)[i] = plan[i + 1] /\ i + 1 \in 1..Len(plan)
  BY PlanParts
<1>2. \A i \in 1..Len(plan) :
        /\ plan[i] = "gap" => i = 1 /\ 2 \in 1..Len(plan) /\ plan[2] = "clear"
        /\ plan[i] = "clear" => i = 1 \/ (i = 2 /\ plan[1] = "gap")
        /\ plan[i] = "entry" => i = Len(plan)
        /\ plan[i] = "window" => i # Len(plan)
  BY DEF Ordered
<1>3. Head(plan) = "gap" => Tail(plan) # <<>> /\ Head(Tail(plan)) = "clear"
  BY <1>1, <1>2
<1>4. Head(plan) # "gap" => Tail(plan) = <<>> \/ Head(Tail(plan)) \notin {"gap", "clear"}
  <2> SUFFICES ASSUME Head(plan) # "gap", Tail(plan) # <<>> PROVE plan[2] \notin {"gap", "clear"}
    BY <1>1
  <2>1. 2 \in 1..Len(plan)
    BY <1>1
  <2>2. (plan[2] = "gap" => 2 = 1) /\ (plan[2] = "clear" => 2 = 1 \/ plan[1] = "gap")
    BY <1>2, <2>1
  <2>3. QED
    BY <1>1, <2>2
<1>5. (plan[1] = "entry" => 1 = Len(plan)) /\ (plan[1] = "window" => 1 # Len(plan))
  BY <1>1, <1>2
<1>6. /\ Head(plan) = "entry" => Tail(plan) = <<>>
      /\ Head(plan) = "window" => Tail(plan) # <<>>
  <2>1. 2 \in 1..Len(plan) <=> 1 # Len(plan)
    BY <1>1
  <2>2. QED
    BY <1>1, <1>5, <2>1
<1>7. ASSUME NEW i \in 1..Len(Tail(plan))
      PROVE  /\ Tail(plan)[i] # "gap"
             /\ Tail(plan)[i] = "clear" => i = 1
             /\ Tail(plan)[i] = "entry" => i = Len(Tail(plan))
             /\ Tail(plan)[i] = "window" => i # Len(Tail(plan))
  <2>1. Tail(plan)[i] = plan[i + 1] /\ i + 1 \in 1..Len(plan) /\ i + 1 # 1
    BY <1>1
  <2> DEFINE k == i + 1
  <2>2. k \in 1..Len(plan) /\ Tail(plan)[i] = plan[k] /\ k # 1 /\ (k = 2 <=> i = 1)
        /\ (k = Len(plan) <=> i = Len(Tail(plan)))
    BY <1>1, <2>1
  <2> HIDE DEF k
  <2>3. /\ plan[k] = "gap" => k = 1
        /\ plan[k] = "clear" => k = 1 \/ k = 2
        /\ plan[k] = "entry" => k = Len(plan)
        /\ plan[k] = "window" => k # Len(plan)
    BY <1>2, <2>2
  <2>4. QED
    BY <2>2, <2>3
<1>8. Ordered(Tail(plan))
  BY <1>7 DEF Ordered
<1>9. QED
  BY <1>3, <1>4, <1>6, <1>8

\* What is left after the first step still fits the task.
LEMMA TailFitting ==
  ASSUME NEW plan \in Seq(StepNames), plan # <<>>, NEW stage, Fitting(stage, plan)
  PROVE  /\ Fitting(stage, Tail(plan))
         /\ stage = "preflight" => Head(plan) \in {"gap", "clear"}
         /\ stage \in {"flushing", "paging", "exiting"} => Head(plan) \in Kinds
<1>1. /\ Len(plan) \in Nat /\ 1 \in 1..Len(plan) /\ Head(plan) = plan[1]
      /\ Len(Tail(plan)) = Len(plan) - 1 /\ Tail(plan) \in Seq(StepNames)
      /\ \A i \in 1..Len(Tail(plan)) : Tail(plan)[i] = plan[i + 1] /\ i + 1 \in 1..Len(plan)
      /\ Tail(plan) # <<>> => 2 \in 1..Len(plan)
  BY PlanParts
<1>2. stage = "recording" => Tail(plan) = <<>> \/ Tail(plan)[Len(Tail(plan))] = "entry"
  <2> SUFFICES ASSUME stage = "recording", Tail(plan) # <<>>
               PROVE  Tail(plan)[Len(Tail(plan))] = "entry"
    OBVIOUS
  <2>1. Len(Tail(plan)) \in 1..Len(Tail(plan)) /\ Len(Tail(plan)) + 1 = Len(plan)
    BY <1>1
  <2>2. plan[Len(plan)] = "entry"
    BY DEF Fitting
  <2>3. QED
    BY <1>1, <2>1, <2>2
<1>3. QED
  BY <1>1, <1>2 DEF Fitting

\* What a section is about to do is something its task does.
LEMMA HeadOfPlan ==
  ASSUME TypeOK, SectionOK, lock.taken, lock.plan # <<>>
  PROVE  /\ Head(lock.plan) \in StepNames
         /\ Head(lock.plan) \notin Kinds => lock.by \in Calls
         /\ Head(lock.plan) \in {"entry", "window"} => job[lock.by].at = "recording"
         /\ Head(lock.plan) = "entry" => Tail(lock.plan) = <<>>
         /\ Head(lock.plan) = "window" => Tail(lock.plan) # <<>>
         /\ Head(lock.plan) = "gap" => Tail(lock.plan) # <<>> /\ Head(Tail(lock.plan)) = "clear"
         /\ Head(lock.plan) # "gap" =>
              Tail(lock.plan) = <<>> \/ Head(Tail(lock.plan)) \notin {"gap", "clear"}
         /\ Tail(lock.plan) \in Seq(StepNames) /\ Ordered(Tail(lock.plan))
         /\ Fitting(job[lock.by].at, Tail(lock.plan))
<1>1. lock.plan \in Seq(StepNames) /\ lock.by \in Tasks
  BY SectionTypes
<1>2. /\ Ordered(lock.plan) /\ Fitting(job[lock.by].at, lock.plan)
      /\ job[lock.by].at \in {"preflight", "recording", "flushing", "paging", "exiting"}
  BY DEF SectionOK
<1>3. /\ job[lock.by].at = "preflight" => Head(lock.plan) \in {"gap", "clear"}
      /\ job[lock.by].at \in {"flushing", "paging", "exiting"} => Head(lock.plan) \in Kinds
      /\ Fitting(job[lock.by].at, Tail(lock.plan))
  BY <1>1, <1>2, TailFitting
<1>4. job[lock.by].at \in {"preflight", "recording"} => lock.by \in Calls
  BY SectionTask
<1>5. Head(lock.plan) \in StepNames /\ Tail(lock.plan) \in Seq(StepNames)
  BY <1>1, PlanParts
<1>6. QED
  BY <1>1, <1>2, <1>3, <1>4, <1>5, TailOrdered DEF Kinds

\* The line that a section is about to write.
LEMMA NewLineType ==
  ASSUME TypeOK, SectionOK, NEW t \in Tasks, Appending(t)
  PROVE  /\ NewLine \in Lines /\ NewLine.seq = lock.head + 1 /\ NewLine.what = Head(lock.plan)
         /\ NewLine.calls = CallsOf(Head(lock.plan)) /\ NewLine.calls \subseteq Calls
         /\ Valid(NewLine) /\ Torn \in Lines /\ Torn.calls = {} /\ ~Valid(Torn)
<1>1. lock.taken /\ lock.by = t /\ Head(lock.plan) \in Appends /\ lock.plan # <<>>
  BY DEF Appending, Working
<1>2. lock.head \in Nat /\ lock.known.owed \subseteq Calls /\ lock.proc \in Procs
  BY <1>1, SectionTypes
<1>3. held[lock.proc]["denied"] \subseteq Calls /\ held[lock.proc]["reads"] \subseteq Calls
  BY <1>2, CountTypes
<1>4. Head(lock.plan) = "entry" => lock.by \in Calls
  BY <1>1, HeadOfPlan DEF Kinds
<1>5. CallsOf(Head(lock.plan)) \subseteq Calls
  BY <1>1, <1>2, <1>3, <1>4 DEF CallsOf, Kinds, Appends
<1>6. NewLine = [seq |-> lock.head + 1, what |-> Head(lock.plan), calls |-> CallsOf(Head(lock.plan))]
  BY DEF NewLine
<1>7. Torn = [seq |-> 0, what |-> "torn", calls |-> {}]
  BY DEF Torn
<1>8. QED
  BY <1>1, <1>2, <1>5, <1>6, <1>7 DEF Lines, Valid, Appends

-----------------------------------------------------------------------------
(* Every step keeps the types, and every section fits its task *)

\* After a section or a failure a request goes on as a request, a process as a process.
LEMMA NextStage ==
  ASSUME TypeOK, NEW t \in Tasks
  PROVE  /\ job[t].at \in {"preflight", "recording", "flushing", "paging", "exiting"} =>
              /\ t \in Calls => AfterFailure(t) \in CallStages \ Over /\ AfterSection(t) \in CallStages
              /\ t \in Procs => AfterFailure(t) \in ProcStages /\ AfterSection(t) \in ProcStages
         /\ Failed(t) => /\ t \in Calls => AfterMark(t) \in CallStages
                         /\ t \in Procs => AfterMark(t) \in ProcStages
                         /\ Owes(t) \subseteq Calls
                         /\ job[t].at \in {"refusing", "unlogged"} <=> t \in Calls
                         /\ t \in Calls => Owes(t) = {t}
<1>1. /\ t \in Calls => t \notin Procs /\ job[t].at \in CallStages
      /\ t \in Procs => t \notin Calls /\ job[t].at \in ProcStages
      /\ t \in Calls \/ t \in Procs
  BY TaskTypes
<1>2. t \in Procs => Held(t) \subseteq Calls
  BY CountTypes
<1>3. ASSUME job[t].at \in {"preflight", "recording", "flushing", "paging", "exiting"}
      PROVE  /\ t \in Calls => AfterFailure(t) \in CallStages \ Over /\ AfterSection(t) \in CallStages
             /\ t \in Procs => AfterFailure(t) \in ProcStages /\ AfterSection(t) \in ProcStages
  <2>1. CASE t \in Calls
    <3>1. job[t].at \in {"preflight", "recording"}
      BY <1>1, <1>3, <2>1 DEF CallStages, Over
    <3>2. QED
      BY <1>1, <2>1, <3>1 DEF AfterFailure, AfterSection, CallStages, Over
  <2>2. CASE t \in Procs
    <3>1. job[t].at \in {"flushing", "paging", "exiting"}
      BY <1>1, <1>3, <2>2 DEF ProcStages
    <3>2. QED
      BY <1>1, <2>2, <3>1 DEF AfterFailure, AfterSection, ProcStages
  <2>3. QED
    BY <1>1, <2>1, <2>2
<1>4. ASSUME Failed(t)
      PROVE  /\ t \in Calls => AfterMark(t) \in CallStages
             /\ t \in Procs => AfterMark(t) \in ProcStages
             /\ Owes(t) \subseteq Calls
             /\ job[t].at \in {"refusing", "unlogged"} <=> t \in Calls
             /\ t \in Calls => Owes(t) = {t}
  <2>1. CASE t \in Calls
    <3>1. job[t].at \in {"refusing", "unlogged"}
      BY <1>1, <1>4, <2>1 DEF Failed, CallStages, Over
    <3>2. QED
      BY <1>1, <2>1, <3>1 DEF AfterMark, Owes, CallStages, Over
  <2>2. CASE t \in Procs
    <3>1. job[t].at \in {"flushfailed", "exitflush", "exitfailed"}
      BY <1>1, <1>4, <2>2 DEF Failed, ProcStages
    <3>2. QED
      BY <1>1, <1>2, <2>2, <3>1 DEF AfterMark, Owes, ProcStages
  <2>3. QED
    BY <1>1, <2>1, <2>2
<1>5. QED
  BY <1>3, <1>4

\* A section goes on as it was when another task does something.
LEMMA SectionStays ==
  ASSUME TypeOK, SectionOK, lock' = lock, NEW t, lock.taken => lock.by # t,
         \A u \in Tasks \ {t} : job'[u] = job[u]
  PROVE  SectionOK'
<1> SUFFICES ASSUME lock.taken
             PROVE  SectionOK'
  BY DEF SectionOK
<1>1. lock.by \in Tasks \ {t}
  BY SectionTypes
<1>2. job'[lock.by] = job[lock.by]
  BY <1>1
<1>3. QED
  BY <1>2 DEF SectionOK, Proc

\* A section goes on with what is left of its plan.
LEMMA SectionMoves ==
  ASSUME TypeOK, SectionOK, lock.taken, lock.plan # <<>>, job' = job,
         lock' \in Sections, lock'.by = lock.by, lock'.proc = lock.proc,
         lock'.plan \in {lock.plan, Tail(lock.plan)}
  PROVE  SectionOK'
BY HeadOfPlan DEF SectionOK, Proc, Sections

\* The types, with the tasks, the lock, the files and the counts on their own.
LEMMA SameTypes ==
  ASSUME TypeOK
  PROVE  /\ today \in Days /\ FilesOK(files) /\ anchor \in Nat /\ marker \in Counts
         /\ outage \in [Procs -> Counts] /\ held \in [Procs -> [Kinds -> SUBSET Calls]]
         /\ seen \in [Procs -> [Kinds -> Nat]] /\ JobOK(job) /\ lock \in {Free} \cup Sections
         /\ lost \subseteq Calls /\ retired \subseteq Calls
         /\ cut \in Nat /\ faults \in Nat /\ stops \in Nat
         /\ Free \in {Free} \cup Sections
BY DEF TypeOK

\* A failing operation is counted.
LEMMA FaultType ==
  ASSUME TypeOK, Fault \/ NoFault
  PROVE  faults' \in Nat /\ faults <= faults' /\ (faults' = 0 => faults = 0)
BY DEF TypeOK, Fault, NoFault

\* Entering a section.
LEMMA BeginTypes ==
  ASSUME TypeOK, SectionOK, NEW t \in Tasks, Begin(t)
  PROVE  TypeOK' /\ SectionOK'
<1> DEFINE p == Proc(t)
<1>1. p \in Procs /\ p = job[t].proc
  BY TaskTypes DEF Proc
<1>2. PICK known \in Counts :
        lock' = [taken |-> TRUE, by |-> t, proc |-> p, plan |-> Plan(t, known), head |-> HeadSeq,
                 day |-> today, kept |-> FALSE, known |-> known]
  <2>1. outage[p] \in Counts /\ marker \in Counts /\ NoOutage \in Counts
    BY <1>1, SameTypes, CountTypes, CombineType
  <2>2. \A a \in Counts : Combine(a, outage[p]) \in Counts
    BY <2>1, CombineType
  <2>3. PICK readable \in BOOLEAN :
          lock' = [taken |-> TRUE, by |-> t, proc |-> p,
                   plan |-> Plan(t, Combine(IF readable THEN marker ELSE NoOutage, outage[p])),
                   head |-> HeadSeq, day |-> today, kept |-> FALSE,
                   known |-> Combine(IF readable THEN marker ELSE NoOutage, outage[p])]
    BY DEF Begin
  <2>4. (IF readable THEN marker ELSE NoOutage) \in Counts
    BY <2>1
  <2>5. QED
    BY <2>2, <2>3, <2>4
<1>3. job[t].at \in {"preflight", "recording", "flushing", "paging", "exiting"} /\ ~Unreadable(DOMAIN files)
  BY DEF Begin, Wants
<1>4. /\ Plan(t, known) \in Seq(StepNames) /\ Ordered(Plan(t, known))
      /\ Fitting(job[t].at, Plan(t, known))
  BY <1>3, PlanFits
<1>5. HeadSeq \in Nat /\ today \in Days
  BY <1>3, HeadSeqType, SameTypes
<1>6. lock' \in Sections
  BY <1>1, <1>2, <1>4, <1>5 DEF Sections
<1>7. faults' \in Nat
  BY FaultType DEF Begin
<1>8. TypeOK'
  BY <1>6, <1>7, SameTypes DEF TypeOK, Begin
<1>9. SectionOK'
  BY <1>1, <1>2, <1>3, <1>4 DEF SectionOK, Begin, Proc
<1>10. QED
  BY <1>8, <1>9

\* Failing to enter one.
LEMMA BeginFailsTypes ==
  ASSUME TypeOK, SectionOK, NEW t \in Tasks, BeginFails(t)
  PROVE  TypeOK' /\ SectionOK'
<1>1. ~lock.taken /\ job[t].at \in {"preflight", "recording", "flushing", "paging", "exiting"}
      /\ Goes(t, AfterFailure(t))
  BY DEF BeginFails, Wants
<1>2. /\ t \in Calls => AfterFailure(t) \in CallStages
      /\ t \in Procs => AfterFailure(t) \in ProcStages
  BY <1>1, NextStage
<1>3. JobOK(job')
  BY <1>1, <1>2, GoesType
<1>4. faults' \in Nat
  BY FaultType DEF BeginFails
<1>5. TypeOK'
  BY <1>3, <1>4, SameTypes DEF TypeOK, BeginFails
<1>6. SectionOK'
  BY <1>1 DEF SectionOK, BeginFails
<1>7. QED
  BY <1>5, <1>6

\* Leaving one.
LEMMA FinishTypes ==
  ASSUME TypeOK, SectionOK, NEW t \in Tasks, Finish(t)
  PROVE  TypeOK' /\ SectionOK'
<1>1. lock.taken /\ lock.by = t /\ lock' = Free /\ Goes(t, AfterSection(t))
  BY DEF Finish, Working, Drop
<1>2. job[t].at \in {"preflight", "recording", "flushing", "paging", "exiting"}
  BY <1>1 DEF SectionOK
<1>3. /\ t \in Calls => AfterSection(t) \in CallStages
      /\ t \in Procs => AfterSection(t) \in ProcStages
  BY <1>2, NextStage
<1>4. JobOK(job')
  BY <1>1, <1>3, GoesType
<1>5. TypeOK'
  BY <1>1, <1>4, SameTypes DEF TypeOK, Finish
<1>6. SectionOK'
  BY <1>1 DEF SectionOK, Free
<1>7. QED
  BY <1>5, <1>6

\* What retention deletes are files.
LEMMA OldFiles ==
  ASSUME TypeOK, NEW day
  PROVE  /\ Old(day) \subseteq DOMAIN files
         /\ Old(day) # DOMAIN files \/ Old(day) = {}
         /\ Old(day) \subseteq Nat
         /\ \A d \in Old(day) : d < day - RetainDays
         /\ Old(day) # {} => \A d \in DOMAIN files : d < day - RetainDays => d \in Old(day)
<1>1. DOMAIN files \subseteq Nat
  BY DEF TypeOK, FilesOK, Days
<1>2. QED
  BY <1>1 DEF Old

\* Saving the anchor.
LEMMA SaveAnchorTypes ==
  ASSUME TypeOK, SectionOK, NEW t \in Tasks, SaveAnchor(t)
  PROVE  TypeOK' /\ SectionOK'
<1>1. lock.taken /\ lock.plan # <<>> /\ lock \in Sections
  BY SectionTypes DEF SaveAnchor, Appending, Working
<1>2. Old(lock.day) \subseteq DOMAIN files /\ ~Unreadable(Old(lock.day))
  BY OldFiles DEF SaveAnchor
<1>3. anchor' \in Nat
  BY <1>2, LastSeqType, SameTypes DEF SaveAnchor
<1>4. lock' = [lock EXCEPT !.kept = TRUE]
  BY DEF SaveAnchor
<1>5. lock' \in Sections /\ lock'.by = lock.by /\ lock'.proc = lock.proc /\ lock'.plan = lock.plan
  BY <1>1, <1>4 DEF Sections
<1>6. TypeOK'
  BY <1>3, <1>5, SameTypes DEF TypeOK, SaveAnchor
<1>7. SectionOK'
  BY <1>1, <1>5, SectionMoves DEF SaveAnchor
<1>8. QED
  BY <1>6, <1>7

\* A file that is deleted leaves the others as they were.
LEMMA UnlinkFiles ==
  ASSUME TypeOK, NEW t, Unlink(t)
  PROVE  LET d == Min(Old(lock.day)) IN
         /\ d \in Old(lock.day) /\ d \in DOMAIN files /\ d \in Nat
         /\ \A e \in DOMAIN files : e # d => d < e
         /\ DOMAIN files' = DOMAIN files \ {d} /\ \A e \in DOMAIN files' : files'[e] = files[e]
         /\ FilesOK(files') /\ retired' = retired \cup CallsIn(d)
<1> DEFINE d == Min(Old(lock.day))
<1>1. Old(lock.day) # {} /\ files' = [e \in DOMAIN files \ {d} |-> files[e]]
      /\ retired' = retired \cup CallsIn(d)
  BY DEF Unlink
<1>2. Old(lock.day) \subseteq Nat /\ Old(lock.day) \subseteq DOMAIN files /\ DOMAIN files \subseteq Nat
  BY OldFiles DEF TypeOK, FilesOK, Days
<1>3. d \in Old(lock.day) /\ \A e \in Old(lock.day) : d <= e
  BY <1>1, <1>2, MinIsLeast
<1>4. ASSUME NEW e \in DOMAIN files, e # d PROVE d < e
  <2>1. CASE e \in Old(lock.day)
    BY <1>2, <1>3, <1>4, <2>1
  <2>2. CASE e \notin Old(lock.day)
    <3>1. d < lock.day - RetainDays /\ ~(e < lock.day - RetainDays)
      BY <1>1, <1>3, <2>2, OldFiles
    <3>2. lock.day \in Nat
      BY SectionTypes DEF Unlink, Appending, Working, Days
    <3>3. QED
      BY <1>2, <1>3, <3>1, <3>2, CallLogConstantsOK
  <2>3. QED
    BY <2>1, <2>2
<1> HIDE DEF d
<1>5. DOMAIN files' = DOMAIN files \ {d} /\ \A e \in DOMAIN files' : files'[e] = files[e]
  BY <1>1
<1>6. FilesOK(files')
  BY <1>1, <1>5 DEF FilesOK, TypeOK
<1>7. QED
  BY <1>1, <1>2, <1>3, <1>4, <1>5, <1>6 DEF d

\* The calls in a file are requests.
LEMMA CallsInType ==
  ASSUME TypeOK, NEW d \in DOMAIN files
  PROVE  CallsIn(d) \subseteq Calls
<1>1. \A i \in DOMAIN files[d] : files[d][i].calls \subseteq Calls
  BY FileType DEF Lines
<1>2. QED
  BY <1>1 DEF CallsIn

\* Deleting a file.
LEMMA UnlinkTypes ==
  ASSUME TypeOK, SectionOK, NEW t \in Tasks, Unlink(t)
  PROVE  TypeOK' /\ SectionOK'
<1>1. FilesOK(files') /\ retired' \subseteq Calls
  BY UnlinkFiles, CallsInType, SameTypes
<1>2. TypeOK'
  BY <1>1, SameTypes DEF TypeOK, Unlink
<1>3. SectionOK'
  BY DEF SectionOK, Unlink, Proc
<1>4. QED
  BY <1>2, <1>3

\* Writing a line, or part of one.
LEMMA WriteTypes ==
  ASSUME TypeOK, SectionOK, NEW t \in Tasks, Write(t)
  PROVE  TypeOK' /\ SectionOK'
<1> DEFINE s == Head(lock.plan)
<1>1. Appending(t) /\ lock.taken /\ lock.plan # <<>>
  BY DEF Write, Ready, Appending, Working
<1>2. lock \in Sections /\ lock.proc \in Procs /\ lock.head \in Nat /\ lock.day \in Days
  BY <1>1, SectionTypes
<1>3. NewLine \in Lines /\ NewLine.calls \subseteq Calls /\ Torn \in Lines
  BY <1>1, NewLineType
<1>4. <<NewLine>> \in Seq(Lines) /\ <<Torn>> \in Seq(Lines)
  BY <1>3
<1>5. FilesOK(files') /\ lost' \subseteq Calls /\ cut' \in Nat /\ faults' \in Nat
  <2>1. PICK whole \in BOOLEAN :
          /\ files' = Put(lock.day, <<IF whole THEN NewLine ELSE Torn>>)
          /\ IF whole THEN NoFault /\ UNCHANGED <<lost, cut>>
             ELSE Fault /\ lost' = lost \cup NewLine.calls /\ cut' = cut + 1
    BY DEF Write
  <2>2. FilesOK(files')
    BY <1>2, <1>4, <2>1, PutFiles
  <2>3. lost' \subseteq Calls /\ cut' \in Nat /\ faults' \in Nat
    BY <1>3, <2>1, FaultType, SameTypes
  <2>4. QED
    BY <2>2, <2>3
<1>6. held' \in [Procs -> [Kinds -> SUBSET Calls]]
  <2>1. held \in [Procs -> [Kinds -> SUBSET Calls]]
    BY SameTypes
  <2>2. CASE s \in Kinds
    BY <1>2, <2>1, <2>2 DEF Write
  <2>3. CASE s \notin Kinds
    BY <2>1, <2>3 DEF Write
  <2>4. QED
    BY <2>2, <2>3
<1>7. Tail(lock.plan) \in Seq(StepNames) /\ today \in Days /\ lock.head + 1 \in Nat
  BY <1>1, <1>2, HeadOfPlan, SameTypes
<1>8. lock' = [lock EXCEPT !.plan = Tail(lock.plan), !.head = lock.head + 1, !.day = today, !.kept = FALSE]
  BY DEF Write
<1>9. lock' \in Sections /\ lock'.by = lock.by /\ lock'.proc = lock.proc /\ lock'.plan = Tail(lock.plan)
  <2> HIDE DEF s
  <2>1. FALSE \in BOOLEAN
    OBVIOUS
  <2>2. lock' \in Sections
    BY <1>2, <1>7, <1>8, <2>1 DEF Sections
  <2>3. DOMAIN lock = {"taken", "by", "proc", "plan", "head", "day", "kept", "known"}
    BY <1>2 DEF Sections
  <2>4. lock'.by = lock.by /\ lock'.proc = lock.proc
    BY <1>8, <2>3
  <2>5. lock'.plan = Tail(lock.plan)
    BY <1>8, <2>3
  <2>6. QED
    BY <2>2, <2>4, <2>5
<1>10. TypeOK'
  BY <1>5, <1>6, <1>9, SameTypes DEF TypeOK, Write
<1>11. SectionOK'
  BY <1>1, <1>9, SectionMoves DEF Write
<1>12. QED
  BY <1>10, <1>11

\* Failing to.
LEMMA AppendFailsTypes ==
  ASSUME TypeOK, SectionOK, NEW t \in Tasks, AppendFails(t)
  PROVE  TypeOK' /\ SectionOK'
<1>1. Appending(t) /\ lock.taken /\ lock.by = t /\ lock' = Free /\ Goes(t, AfterFailure(t))
  BY DEF AppendFails, Appending, Working, Drop
<1>2. job[t].at \in {"preflight", "recording", "flushing", "paging", "exiting"} /\ lock.day \in Days
  BY <1>1, SectionTypes DEF SectionOK
<1>3. JobOK(job')
  BY <1>1, <1>2, NextStage, GoesType
<1>4. faults' \in Nat
  BY FaultType DEF AppendFails
<1>5. FilesOK(files')
  <2>1. <<NewLine>> \in Seq(Lines) /\ <<>> \in Seq(Lines)
    BY <1>1, NewLineType
  <2>2. files' \in {files, Put(lock.day, <<>>), Put(lock.day, <<NewLine>>)}
    BY DEF AppendFails
  <2>3. QED
    BY <1>2, <2>1, <2>2, PutFiles, SameTypes
<1>6. TypeOK'
  BY <1>1, <1>3, <1>4, <1>5, SameTypes DEF TypeOK, AppendFails
<1>7. SectionOK'
  BY <1>1 DEF SectionOK, Free
<1>8. QED
  BY <1>6, <1>7

\* Dropping what was reported.
LEMMA ClearTypes ==
  ASSUME TypeOK, SectionOK, NEW t \in Tasks, Clear(t)
  PROVE  TypeOK' /\ SectionOK'
<1>1. lock.taken /\ lock.plan # <<>>
  BY DEF Clear, Step, Working
<1>2. lock \in Sections /\ lock.proc \in Procs
  BY <1>1, SectionTypes
<1>3. Tail(lock.plan) \in Seq(StepNames) /\ today \in Days
  BY <1>1, HeadOfPlan, SameTypes
<1>4. lock' = [lock EXCEPT !.plan = Tail(@), !.day = today]
  BY DEF Clear
<1>5. lock' \in Sections /\ lock'.by = lock.by /\ lock'.proc = lock.proc /\ lock'.plan = Tail(lock.plan)
  BY <1>2, <1>3, <1>4 DEF Sections
<1>6. outage' \in [Procs -> Counts]
  BY <1>2, SameTypes, CombineType DEF Clear, Counts, NoOutage
<1>7. marker' \in Counts /\ lost' \subseteq Calls /\ faults' \in Nat
  <2>1. marker.owed \subseteq Calls /\ NoOutage \in Counts
    BY <1>2, CountTypes DEF Counts, NoOutage
  <2>2. QED
    BY <2>1, FaultType, SameTypes DEF Clear
<1>8. TypeOK'
  BY <1>5, <1>6, <1>7, SameTypes DEF TypeOK, Clear
<1>9. SectionOK'
  BY <1>1, <1>5, SectionMoves DEF Clear
<1>10. QED
  BY <1>8, <1>9

\* The cap.
LEMMA WindowTypes ==
  ASSUME TypeOK, SectionOK, NEW t \in Tasks, Window(t)
  PROVE  TypeOK' /\ SectionOK'
<1> DEFINE p == lock.proc
           k == IF job[t].kind = "denied" THEN "denied" ELSE "reads"
           n == IF seen[p][k] > Cap THEN seen[p][k] ELSE seen[p][k] + 1
<1>1. lock.taken /\ lock.by = t /\ lock.plan # <<>> /\ Head(lock.plan) = "window"
  BY DEF Window, Step, Working
<1>2. lock \in Sections /\ p \in Procs /\ k \in Kinds /\ lock.plan \in Seq(StepNames)
  BY <1>1, SectionTypes DEF Kinds
<1>3. t \in Calls /\ job[t].at = "recording" /\ Tail(lock.plan) \in Seq(StepNames)
  BY <1>1, HeadOfPlan DEF Kinds
<1>4. CASE seen[p][k] = 0 /\ held[p][k] # {}
  <2>1. lock' = [lock EXCEPT !.plan = <<k>> \o lock.plan] /\ UNCHANGED <<seen, held>>
    BY <1>4 DEF Window
  <2>2. Ordered(lock.plan) /\ Fitting("recording", lock.plan)
    BY <1>1, <1>3 DEF SectionOK
  <2> DEFINE plan == <<k>> \o lock.plan
  <2>3. <<k>> \in Seq(StepNames)
    BY <1>2 DEF Kinds, StepNames, Appends
  <2>4. /\ plan \in Seq(StepNames) /\ Len(plan) = Len(lock.plan) + 1 /\ Len(lock.plan) \in Nat
        /\ plan[1] = k /\ 1 \in 1..Len(lock.plan) /\ lock.plan[1] = "window"
        /\ \A i \in 1..Len(lock.plan) : plan[i + 1] = lock.plan[i]
    BY <1>1, <1>2, <2>3
  <2> HIDE DEF plan, p, n, k
  <2>5. Ordered(plan)
    <3> SUFFICES ASSUME NEW i \in 1..Len(plan)
                 PROVE  /\ plan[i] = "gap" => i = 1 /\ 2 \in 1..Len(plan) /\ plan[2] = "clear"
                        /\ plan[i] = "clear" => i = 1 \/ (i = 2 /\ plan[1] = "gap")
                        /\ plan[i] = "entry" => i = Len(plan)
                        /\ plan[i] = "window" => i # Len(plan)
      BY DEF Ordered
    <3>1. CASE i = 1
      BY <1>2, <2>4, <3>1 DEF Kinds
    <3>2. CASE i # 1
      <4> DEFINE j == i - 1
      <4>1. j \in 1..Len(lock.plan) /\ i = j + 1 /\ plan[i] = lock.plan[j]
            /\ (i = Len(plan) <=> j = Len(lock.plan))
        BY <2>4, <3>2
      <4> HIDE DEF j
      <4>2. /\ lock.plan[j] = "gap" => j = 1
            /\ lock.plan[j] = "clear" => j = 1 \/ (j = 2 /\ lock.plan[1] = "gap")
            /\ lock.plan[j] = "entry" => j = Len(lock.plan)
            /\ lock.plan[j] = "window" => j # Len(lock.plan)
        BY <2>2, <4>1 DEF Ordered
      <4>3. QED
        BY <2>4, <4>1, <4>2
    <3>3. QED
      BY <3>1, <3>2
  <2>6. Fitting("recording", plan)
    <3>1. lock.plan[Len(lock.plan)] = "entry"
      BY <1>1, <2>2 DEF Fitting
    <3>2. Len(lock.plan) \in 1..Len(lock.plan)
      BY <2>4
    <3>3. plan[Len(plan)] = "entry"
      BY <2>4, <3>1, <3>2
    <3>4. QED
      BY <3>3 DEF Fitting
  <2>7. lock' \in Sections /\ lock'.by = lock.by /\ lock'.proc = lock.proc /\ lock'.plan = plan
    BY <1>2, <2>1, <2>4 DEF Sections, plan
  <2>8. TypeOK'
    BY <2>1, <2>7, SameTypes DEF TypeOK, Window
  <2>9. job' = job /\ lock.proc = Proc(t)
    BY <1>1 DEF Window, SectionOK
  <2>10. SectionOK'
    BY <1>1, <1>3, <2>5, <2>6, <2>7, <2>9 DEF SectionOK, Proc
  <2>11. QED
    BY <2>8, <2>10
<1>5. CASE ~(seen[p][k] = 0 /\ held[p][k] # {})
  <2>1. /\ seen' = [seen EXCEPT ![p][k] = n]
        /\ held' = IF n > Cap THEN [held EXCEPT ![p][k] = held[p][k] \cup {t}] ELSE held
        /\ lock' = [lock EXCEPT !.plan = IF n > Cap THEN <<>> ELSE Tail(lock.plan)]
    BY <1>5 DEF Window
  <2>2. n \in Nat /\ held[p][k] \cup {t} \in SUBSET Calls
    <3>1. seen[p] \in [Kinds -> Nat] /\ held[p] \in [Kinds -> SUBSET Calls]
      BY <1>2, SameTypes
    <3>2. seen[p][k] \in Nat /\ held[p][k] \in SUBSET Calls
      BY <1>2, <3>1
    <3>3. QED
      BY <1>3, <3>2
  <2> HIDE DEF n, p, k
  <2>3. seen' \in [Procs -> [Kinds -> Nat]]
    BY <1>2, <2>1, <2>2, SameTypes
  <2>4. held' \in [Procs -> [Kinds -> SUBSET Calls]]
    <3>1. CASE n > Cap
      BY <1>2, <2>1, <2>2, <3>1, SameTypes
    <3>2. CASE ~(n > Cap)
      BY <2>1, <3>2, SameTypes
    <3>3. QED
      BY <3>1, <3>2
  <2>5. <<>> \in Seq(StepNames)
    OBVIOUS
  <2>6. /\ lock' \in Sections /\ lock'.by = lock.by /\ lock'.proc = lock.proc
        /\ lock'.plan \in {<<>>, Tail(lock.plan)}
    BY <1>2, <1>3, <2>1, <2>5 DEF Sections
  <2>7. TypeOK'
    BY <2>3, <2>4, <2>6, SameTypes DEF TypeOK, Window
  <2>8. job' = job /\ lock.proc = Proc(t)
    BY <1>1 DEF Window, SectionOK
  <2>9. Ordered(lock'.plan) /\ Fitting("recording", lock'.plan)
    <3>1. Ordered(<<>>) /\ Fitting("recording", <<>>)
      BY DEF Ordered, Fitting
    <3>2. Ordered(Tail(lock.plan)) /\ Fitting("recording", Tail(lock.plan))
      BY <1>1, <1>3, HeadOfPlan
    <3>3. QED
      BY <2>6, <3>1, <3>2
  <2>10. SectionOK'
    BY <1>1, <1>3, <2>6, <2>8, <2>9 DEF SectionOK, Proc
  <2>11. QED
    BY <2>7, <2>10
<1>6. QED
  BY <1>4, <1>5

\* What a failure adds to the counts, and what is then left of the summaries.
LEMMA MarkedTypes ==
  ASSUME TypeOK, NEW t \in Tasks, Failed(t), Marked(t)
  PROVE  /\ JobOK(job') /\ held' \in [Procs -> [Kinds -> SUBSET Calls]]
         /\ \A u \in Tasks \ {t} : job'[u] = job[u]
         /\ Increment(t) \in Counts /\ Increment(t).on = TRUE
         /\ Increment(t).owed = outage[Proc(t)].owed \cup Owes(t) /\ Proc(t) \in Procs
<1>1. JobOK(job') /\ \A u \in Tasks \ {t} : job'[u] = job[u]
  BY NextStage, GoesType DEF Marked
<1>2. held' \in [Procs -> [Kinds -> SUBSET Calls]]
  BY SameTypes DEF Marked
<1>3. Proc(t) \in Procs /\ outage[Proc(t)] \in Counts
  BY TaskTypes, CountTypes
<1>4. [on |-> TRUE, owed |-> Owes(t)] \in Counts
  BY NextStage DEF Counts
<1>5. Increment(t) \in Counts /\ Increment(t).owed = outage[Proc(t)].owed \cup Owes(t)
      /\ Increment(t).on = TRUE
  BY <1>3, <1>4, CombineType DEF Increment
<1>6. QED
  BY <1>1, <1>2, <1>3, <1>5

\* Counting a failure in the DEGRADED file.
LEMMA MarkTypes ==
  ASSUME TypeOK, SectionOK, NEW t \in Tasks, Mark(t)
  PROVE  TypeOK' /\ SectionOK'
<1>1. Failed(t) /\ ~lock.taken /\ Marked(t) /\ lock' = lock
  BY DEF Mark
<1>2. /\ JobOK(job') /\ held' \in [Procs -> [Kinds -> SUBSET Calls]]
      /\ Increment(t) \in Counts /\ Proc(t) \in Procs
  BY <1>1, MarkedTypes
<1>3. NoOutage \in Counts /\ marker \in Counts /\ marker.owed \subseteq Calls
  BY <1>2, CountTypes, SameTypes DEF Counts, NoOutage
<1>4. PICK readable \in BOOLEAN :
        /\ IF readable THEN NoFault /\ UNCHANGED lost
           ELSE marker.on /\ Fault /\ lost' = lost \cup marker.owed
        /\ marker' = Combine(IF readable THEN marker ELSE NoOutage, Increment(t))
  BY DEF Mark
<1>5. marker' \in Counts
  BY <1>2, <1>3, <1>4, CombineType
<1>6. lost' \subseteq Calls /\ faults' \in Nat
  BY <1>3, <1>4, FaultType, SameTypes
<1>7. outage' \in [Procs -> Counts]
  BY <1>3, SameTypes DEF Mark
<1>8. TypeOK'
  BY <1>2, <1>5, <1>6, <1>7, SameTypes DEF TypeOK, Mark
<1>9. SectionOK'
  BY <1>1 DEF SectionOK
<1>10. QED
  BY <1>8, <1>9

\* Failing to: it is counted in memory.
LEMMA MarkFailsTypes ==
  ASSUME TypeOK, SectionOK, NEW t \in Tasks, MarkFails(t)
  PROVE  TypeOK' /\ SectionOK'
<1>1. Failed(t) /\ Marked(t) /\ lock' = lock /\ Fault
      /\ outage' = [outage EXCEPT ![Proc(t)] = Increment(t)]
  BY DEF MarkFails
<1>2. /\ JobOK(job') /\ held' \in [Procs -> [Kinds -> SUBSET Calls]]
      /\ \A u \in Tasks \ {t} : job'[u] = job[u]
      /\ Increment(t) \in Counts /\ Proc(t) \in Procs
  BY <1>1, MarkedTypes
<1>3. outage' \in [Procs -> Counts] /\ faults' \in Nat
  BY <1>1, <1>2, FaultType, SameTypes
<1>4. TypeOK'
  BY <1>1, <1>2, <1>3, SameTypes DEF TypeOK, MarkFails
<1>5. lock.taken => lock.by # t
  BY <1>1, SectionTask
<1>6. SectionOK'
  BY <1>1, <1>2, <1>5, SectionStays
<1>7. QED
  BY <1>4, <1>6

\* A task that is in no section takes a step of its own.
LEMMA JobStepTypes ==
  ASSUME TypeOK, SectionOK, JobOK(job'), NEW t \in Tasks, \A u \in Tasks \ {t} : job'[u] = job[u],
         lock.taken => lock.by # t, stops' \in Nat,
         UNCHANGED <<today, files, anchor, marker, outage, held, seen, lock, lost, cut, retired, faults>>
  PROVE  TypeOK' /\ SectionOK'
<1>1. TypeOK'
  BY SameTypes DEF TypeOK
<1>2. SectionOK'
  BY SectionStays
<1>3. QED
  BY <1>1, <1>2

\* A request that is given another stage and kind is still one.
LEMMA CallJobType ==
  ASSUME TypeOK, NEW c \in Calls, NEW stage \in CallStages, NEW k \in CallKinds,
         job' = [job EXCEPT ![c].at = stage, ![c].kind = k]
  PROVE  /\ JobOK(job') /\ \A u \in Tasks \ {c} : job'[u] = job[u]
         /\ c \in Tasks /\ job'[c].at = stage /\ job'[c].proc = job[c].proc
<1>1. job \in [Tasks -> [at : CallStages \cup ProcStages, kind : CallKinds, proc : Procs]]
  BY DEF TypeOK, JobOK
<1>2. c \in Tasks /\ c \notin Procs
  BY CallLogConstantsOK DEF Tasks
<1>3. job'[c] = [at |-> stage, kind |-> k, proc |-> job[c].proc]
  BY <1>1, <1>2
<1>4. \A u \in Tasks \ {c} : job'[u] = job[u]
  BY <1>1, <1>2
<1>5. job'[c] \in [at : CallStages \cup ProcStages, kind : CallKinds, proc : Procs]
  BY <1>1, <1>2, <1>3
<1>6. job' \in [Tasks -> [at : CallStages \cup ProcStages, kind : CallKinds, proc : Procs]]
  BY <1>1, <1>2, <1>5
<1>7. ASSUME NEW u \in Calls PROVE job'[u].at \in CallStages
  <2>1. u \in Tasks /\ job[u].at \in CallStages
    BY DEF Tasks, TypeOK, JobOK
  <2>2. CASE u = c
    BY <1>3, <2>2
  <2>3. CASE u # c
    BY <1>4, <2>1, <2>3
  <2>4. QED
    BY <2>2, <2>3
<1>8. ASSUME NEW p \in Procs PROVE job'[p].at \in ProcStages /\ job'[p].proc = p
  <2>1. p \in Tasks \ {c} /\ job[p].at \in ProcStages /\ job[p].proc = p
    BY <1>2 DEF Tasks, TypeOK, JobOK
  <2>2. QED
    BY <1>4, <2>1
<1>9. JobOK(job')
  BY <1>6, <1>7, <1>8 DEF JobOK
<1>10. job'[c].at = stage /\ job'[c].proc = job[c].proc
  BY <1>3
<1>11. QED
  BY <1>2, <1>4, <1>9, <1>10

\* A request comes in, and is answered by the application.
LEMMA ArriveTypes ==
  ASSUME TypeOK, SectionOK, NEW c \in Calls, Arrive(c)
  PROVE  TypeOK' /\ SectionOK'
<1>1. PICK k \in {"write", "other"} :
        job' = [job EXCEPT ![c].at = IF k = "write" THEN "preflight" ELSE "serving", ![c].kind = k]
  BY DEF Arrive
<1>2. (IF k = "write" THEN "preflight" ELSE "serving") \in CallStages /\ k \in CallKinds
  BY DEF CallStages, CallKinds
<1>3. JobOK(job') /\ c \in Tasks /\ \A u \in Tasks \ {c} : job'[u] = job[u]
  BY <1>1, <1>2, CallJobType
<1>4. lock.taken => lock.by # c
  BY SectionTask DEF Arrive
<1>5. QED
  BY <1>3, <1>4, JobStepTypes, SameTypes DEF Arrive

\* An answer: the call goes on to be recorded.
LEMMA ServeTypes ==
  ASSUME TypeOK, SectionOK, NEW c \in Calls, Serve(c)
  PROVE  TypeOK' /\ SectionOK'
<1>1. PICK k \in CallKinds : job' = [job EXCEPT ![c].at = "recording", ![c].kind = k]
  BY DEF Serve
<1>2. "recording" \in CallStages
  BY DEF CallStages
<1>3. JobOK(job') /\ c \in Tasks /\ \A u \in Tasks \ {c} : job'[u] = job[u]
  BY <1>1, <1>2, CallJobType
<1>4. lock.taken => lock.by # c
  BY SectionTask DEF Serve
<1>5. QED
  BY <1>3, <1>4, JobStepTypes, SameTypes DEF Serve

\* A process flushes, or shuts down.
LEMMA ProcessTypes ==
  ASSUME TypeOK, SectionOK, NEW p \in Procs, Flush(p) \/ Shutdown(p)
  PROVE  TypeOK' /\ SectionOK'
<1>1. PICK stage \in {"flushing", "paging", "exiting"} : Goes(p, stage)
  BY DEF Flush, Shutdown
<1>2. p \in Tasks /\ p \notin Calls /\ stage \in ProcStages /\ job[p].at = "idle"
  BY CallLogConstantsOK DEF Tasks, ProcStages, Flush, Shutdown
<1>3. JobOK(job') /\ \A u \in Tasks \ {p} : job'[u] = job[u]
  BY <1>1, <1>2, GoesType
<1>4. lock.taken => lock.by # p
  BY <1>2, SectionTask
<1>5. stops' \in Nat
  BY SameTypes DEF Flush, Shutdown
<1>6. QED
  BY <1>2, <1>3, <1>4, <1>5, JobStepTypes DEF Flush, Shutdown

\* A new process has an empty memory.
LEMMA ForgetTypes ==
  ASSUME TypeOK, NEW p \in Procs, Forget(p)
  PROVE  /\ lost' \subseteq Calls /\ lost' = lost \cup InMemory(p)
         /\ outage' \in [Procs -> Counts]
         /\ held' \in [Procs -> [Kinds -> SUBSET Calls]] /\ seen' \in [Procs -> [Kinds -> Nat]]
         /\ outage'[p].owed = {} /\ ~outage'[p].on
         /\ held'[p]["denied"] = {} /\ held'[p]["reads"] = {}
         /\ \A q \in Procs \ {p} : outage'[q] = outage[q] /\ held'[q] = held[q]
<1>1. lost' = lost \cup InMemory(p) /\ lost' \subseteq Calls
  BY CountTypes, SameTypes DEF Forget, InMemory
<1>2. NoOutage \in Counts /\ NoOutage.owed = {} /\ NoOutage.on = FALSE
  BY DEF Counts, NoOutage
<1>3. /\ outage' \in [Procs -> Counts] /\ outage'[p] = NoOutage
      /\ \A q \in Procs \ {p} : outage'[q] = outage[q]
  BY <1>2, SameTypes DEF Forget
<1>4. [k \in Kinds |-> {}] \in [Kinds -> SUBSET Calls] /\ [k \in Kinds |-> 0] \in [Kinds -> Nat]
  OBVIOUS
<1>5. /\ held' \in [Procs -> [Kinds -> SUBSET Calls]] /\ held'[p] = [k \in Kinds |-> {}]
      /\ \A q \in Procs \ {p} : held'[q] = held[q]
  BY <1>4, SameTypes DEF Forget
<1>6. seen' \in [Procs -> [Kinds -> Nat]]
  BY <1>4, SameTypes DEF Forget
<1>7. held'[p]["denied"] = {} /\ held'[p]["reads"] = {}
  BY <1>5 DEF Kinds
<1>8. QED
  BY <1>1, <1>2, <1>3, <1>5, <1>6, <1>7

\* A process starts again after a shutdown.
LEMMA RestartTypes ==
  ASSUME TypeOK, SectionOK, NEW p \in Procs, Restart(p)
  PROVE  TypeOK' /\ SectionOK'
<1>1. p \in Tasks /\ p \notin Calls /\ "idle" \in ProcStages /\ Goes(p, "idle") /\ Forget(p)
  BY CallLogConstantsOK DEF Tasks, ProcStages, Restart
<1>2. JobOK(job') /\ \A u \in Tasks \ {p} : job'[u] = job[u]
  BY <1>1, GoesType
<1>3. lock.taken => lock.by # p
  BY SectionTask DEF Restart
<1>4. SectionOK'
  BY <1>2, <1>3, SectionStays DEF Restart
<1>5. TypeOK'
  BY <1>1, <1>2, ForgetTypes, SameTypes DEF TypeOK, Restart
<1>6. QED
  BY <1>4, <1>5

\* What a dying process does to the tasks: its own end, the others go on.
LEMMA CrashJobs ==
  ASSUME TypeOK, NEW p \in Procs, Crash(p)
  PROVE  /\ JobOK(job') /\ job'[p].at = "idle"
         /\ \A u \in Tasks : job'[u].proc = job[u].proc
         /\ \A u \in Tasks \ {p} : job[u].proc # p => job'[u] = job[u]
         /\ \A c \in Calls : IF Running(c, p) THEN job'[c].at = "killed" ELSE job'[c] = job[c]
<1>1. job \in [Tasks -> [at : CallStages \cup ProcStages, kind : CallKinds, proc : Procs]]
  BY DEF TypeOK, JobOK
<1>2. p \in Tasks /\ p \notin Calls
  BY CallLogConstantsOK DEF Tasks
<1>3. job' = [u \in Tasks |-> IF u = p THEN [job[u] EXCEPT !.at = "idle"]
                              ELSE IF Running(u, p)
                              THEN [job[u] EXCEPT !.at = "killed", !.kind = "other"] ELSE job[u]]
  BY DEF Crash
<1>4. ASSUME NEW u \in Tasks
      PROVE  /\ u = p => job'[u] = [at |-> "idle", kind |-> job[u].kind, proc |-> job[u].proc]
             /\ u # p /\ Running(u, p) =>
                  job'[u] = [at |-> "killed", kind |-> "other", proc |-> job[u].proc]
             /\ u # p /\ ~Running(u, p) => job'[u] = job[u]
  <2>1. job[u] \in [at : CallStages \cup ProcStages, kind : CallKinds, proc : Procs]
    BY <1>1
  <2>2. job[u] = [at |-> job[u].at, kind |-> job[u].kind, proc |-> job[u].proc]
    BY <2>1
  <2>3. CASE u = p
    BY <1>3, <2>2, <2>3
  <2>4. CASE u # p /\ Running(u, p)
    BY <1>3, <2>2, <2>4
  <2>5. CASE u # p /\ ~Running(u, p)
    BY <1>3, <2>2, <2>5
  <2>6. QED
    BY <2>3, <2>4, <2>5
<1>5. \A q \in Procs \ {p} : ~Running(q, p)
  BY DEF TypeOK, JobOK, Running
<1>6. ASSUME NEW u \in Tasks
      PROVE  /\ job'[u] \in [at : CallStages \cup ProcStages, kind : CallKinds, proc : Procs]
             /\ job'[u].proc = job[u].proc
  <2>1. /\ job[u] \in [at : CallStages \cup ProcStages, kind : CallKinds, proc : Procs]
        /\ job[u].kind \in CallKinds /\ job[u].proc \in Procs
    BY <1>1
  <2>2. "idle" \in CallStages \cup ProcStages /\ "killed" \in CallStages \cup ProcStages
        /\ "other" \in CallKinds
    BY DEF ProcStages, CallStages, Over, CallKinds
  <2>3. CASE u = p
    <3>1. job'[u] = [at |-> "idle", kind |-> job[u].kind, proc |-> job[u].proc]
      BY <1>4, <2>3
    <3>2. QED
      BY <2>1, <2>2, <3>1
  <2>4. CASE u # p /\ Running(u, p)
    <3>1. job'[u] = [at |-> "killed", kind |-> "other", proc |-> job[u].proc]
      BY <1>4, <2>4
    <3>2. QED
      BY <2>1, <2>2, <3>1
  <2>5. CASE u # p /\ ~Running(u, p)
    BY <1>4, <2>1, <2>5
  <2>6. QED
    BY <2>3, <2>4, <2>5
<1>7. job' \in [Tasks -> [at : CallStages \cup ProcStages, kind : CallKinds, proc : Procs]]
  BY <1>3, <1>6
<1>8. ASSUME NEW c \in Calls
      PROVE  /\ job'[c].at \in CallStages
             /\ IF Running(c, p) THEN job'[c].at = "killed" ELSE job'[c] = job[c]
  <2>1. c \in Tasks /\ c # p /\ job[c].at \in CallStages
    BY <1>2 DEF Tasks, TypeOK, JobOK
  <2>2. CASE Running(c, p)
    <3>1. job'[c] = [at |-> "killed", kind |-> "other", proc |-> job[c].proc]
      BY <1>4, <2>1, <2>2
    <3>2. QED
      BY <2>2, <3>1 DEF CallStages, Over
  <2>3. CASE ~Running(c, p)
    BY <1>4, <2>1, <2>3
  <2>4. QED
    BY <2>2, <2>3
<1>9. ASSUME NEW q \in Procs PROVE job'[q].at \in ProcStages /\ job'[q].proc = q
  <2>1. q \in Tasks /\ job[q].at \in ProcStages /\ job[q].proc = q
    BY DEF Tasks, TypeOK, JobOK
  <2>2. CASE q = p
    <3>1. job'[q] = [at |-> "idle", kind |-> job[q].kind, proc |-> job[q].proc]
      BY <1>4, <2>1, <2>2
    <3>2. QED
      BY <2>1, <3>1 DEF ProcStages
  <2>3. CASE q # p
    BY <1>4, <1>5, <2>1, <2>3
  <2>4. QED
    BY <2>2, <2>3
<1>10. JobOK(job')
  BY <1>7, <1>8, <1>9 DEF JobOK
<1>11. job'[p].at = "idle" /\ \A u \in Tasks : job'[u].proc = job[u].proc
  <2>1. job'[p] = [at |-> "idle", kind |-> job[p].kind, proc |-> job[p].proc]
    BY <1>2, <1>4
  <2>2. QED
    BY <1>6, <2>1
<1>12. \A u \in Tasks \ {p} : job[u].proc # p => job'[u] = job[u]
  BY <1>4 DEF Running
<1>13. QED
  BY <1>8, <1>10, <1>11, <1>12

\* What it leaves of a line it was writing.
LEMMA CrashFiles ==
  ASSUME TypeOK, SectionOK, NEW p \in Procs, Crash(p)
  PROVE  /\ FilesOK(files')
         /\ IF lock.taken /\ lock.proc = p THEN lock' = Free ELSE lock' = lock /\ files' = files
<1>1. CASE lock.taken /\ lock.proc = p /\ Ready(lock.by)
  <2>1. lock.by \in Tasks /\ lock.day \in Days
    BY <1>1, SectionTypes
  <2>2. NewLine \in Lines /\ Torn \in Lines
    BY <1>1, <2>1, NewLineType DEF Ready
  <2>3. <<>> \in Seq(Lines) /\ <<Torn>> \in Seq(Lines) /\ <<NewLine>> \in Seq(Lines)
    BY <2>2
  <2>4. files' = files \/ \E l \in {<<>>, <<Torn>>, <<NewLine>>} : files' = Put(lock.day, l)
    BY <1>1 DEF Crash
  <2>5. lock' = Free
    BY <1>1 DEF Crash, Drop
  <2>6. \A l \in {<<>>, <<Torn>>, <<NewLine>>} : FilesOK(Put(lock.day, l))
    BY <2>1, <2>3, PutFiles
  <2>7. FilesOK(files')
    BY <2>4, <2>6, SameTypes
  <2>8. QED
    BY <1>1, <2>5, <2>7
<1>2. CASE lock.taken /\ lock.proc = p /\ ~Ready(lock.by)
  <2>1. files' = files /\ lock' = Free
    BY <1>2 DEF Crash, Drop
  <2>2. QED
    BY <1>2, <2>1, SameTypes
<1>3. CASE ~(lock.taken /\ lock.proc = p)
  BY <1>3, SameTypes DEF Crash
<1>4. QED
  BY <1>1, <1>2, <1>3

\* A crash leaves every variable in its type and no section of the dead process.
LEMMA CrashTypes ==
  ASSUME TypeOK, SectionOK, NEW p \in Procs, Crash(p)
  PROVE  TypeOK' /\ SectionOK'
<1>1. Forget(p) /\ stops' \in Nat
  <2>1. Forget(p) /\ stops' = stops + 1
    BY DEF Crash
  <2>2. QED
    BY <2>1, SameTypes
<1>2. JobOK(job') /\ FilesOK(files') /\ lock' \in {Free} \cup Sections
  BY CrashJobs, CrashFiles, SameTypes
<1>3. TypeOK'
  BY <1>1, <1>2, ForgetTypes, SameTypes DEF TypeOK, Crash
<1>4. SectionOK'
  <2>1. CASE lock.taken /\ lock.proc = p
    BY <2>1, CrashFiles DEF SectionOK, Free
  <2>2. CASE ~lock.taken
    BY <2>2, CrashFiles DEF SectionOK
  <2>3. CASE lock.taken /\ lock.proc # p
    <3>1. lock' = lock /\ lock.by \in Tasks /\ job[lock.by].proc # p
      BY <2>3, CrashFiles, SectionTypes, SectionTask
    <3>2. job[p].proc = p
      BY DEF TypeOK, JobOK
    <3>3. job'[lock.by] = job[lock.by]
      BY <3>1, <3>2, CrashJobs
    <3>4. QED
      BY <2>3, <3>1, <3>3 DEF SectionOK, Proc
  <2>4. QED
    BY <2>1, <2>2, <2>3
<1>5. QED
  BY <1>3, <1>4

\* The clock.
LEMMA ClockTypes ==
  ASSUME TypeOK, SectionOK, NewMinute \/ NewDay
  PROVE  TypeOK' /\ SectionOK'
<1>1. seen' \in [Procs -> [Kinds -> Nat]]
  BY DEF NewMinute, NewDay
<1>2. today' \in Days
  <2>1. today' = today \/ (today < LastDay /\ today' = today + 1)
    BY DEF NewMinute, NewDay
  <2>2. QED
    BY <2>1, SameTypes, CallLogConstantsOK DEF Days
<1>3. TypeOK'
  BY <1>1, <1>2, SameTypes DEF TypeOK, NewMinute, NewDay
<1>4. SectionOK'
  BY DEF SectionOK, NewMinute, NewDay, Proc
<1>5. QED
  BY <1>3, <1>4

\* Every step of the log.
LEMMA TypesStep == TypeOK /\ SectionOK /\ [Next]_vars => TypeOK' /\ SectionOK'
<1> SUFFICES ASSUME TypeOK, SectionOK, [Next]_vars PROVE TypeOK' /\ SectionOK'
  OBVIOUS
<1>1. ASSUME NEW t \in Tasks, TaskStep(t) PROVE TypeOK' /\ SectionOK'
  BY <1>1, BeginTypes, BeginFailsTypes, FinishTypes, SaveAnchorTypes, UnlinkTypes, WriteTypes,
     AppendFailsTypes, ClearTypes, WindowTypes, MarkTypes, MarkFailsTypes DEF TaskStep
<1>2. ASSUME NEW c \in Calls, Arrive(c) \/ Serve(c) PROVE TypeOK' /\ SectionOK'
  BY <1>2, ArriveTypes, ServeTypes
<1>3. ASSUME NEW p \in Procs, Flush(p) \/ Shutdown(p) \/ Restart(p) PROVE TypeOK' /\ SectionOK'
  BY <1>3, ProcessTypes, RestartTypes
<1>4. ASSUME NewMinute \/ NewDay PROVE TypeOK' /\ SectionOK'
  BY <1>4, ClockTypes
<1>5. ASSUME NEW p \in Procs, Crash(p) PROVE TypeOK' /\ SectionOK'
  BY <1>5, CrashTypes
<1>6. ASSUME UNCHANGED vars PROVE TypeOK' /\ SectionOK'
  <2>1. TypeOK'
    BY <1>6, SameTypes DEF TypeOK, vars
  <2>2. SectionOK'
    BY <1>6 DEF SectionOK, vars, Proc
  <2>3. QED
    BY <2>1, <2>2
<1>7. QED
  BY <1>1, <1>2, <1>3, <1>4, <1>5, <1>6 DEF Next, Living

\* The log starts with its types right and no section.
LEMMA TypesInit == Init => TypeOK /\ SectionOK
<1> SUFFICES ASSUME Init PROVE TypeOK /\ SectionOK
  OBVIOUS
<1>1. FilesOK(files)
  <2>1. files = <<>> /\ DOMAIN <<>> = {}
    BY DEF Init
  <2>2. QED
    BY <2>1 DEF FilesOK
<1>2. JobOK(job)
  <2>1. PICK home \in [Calls -> Procs] : job = [t \in Tasks |-> IdleAt(IF t \in Procs THEN t ELSE home[t])]
    BY DEF Init
  <2>2. ASSUME NEW t \in Tasks
        PROVE  /\ job[t] \in [at : CallStages \cup ProcStages, kind : CallKinds, proc : Procs]
               /\ job[t].at = "idle" /\ (t \in Procs => job[t].proc = t)
    <3>1. job[t] = [at |-> "idle", kind |-> "other", proc |-> IF t \in Procs THEN t ELSE home[t]]
      BY <2>1 DEF IdleAt
    <3>2. (IF t \in Procs THEN t ELSE home[t]) \in Procs
      BY <2>1 DEF Tasks
    <3>3. QED
      BY <3>1, <3>2 DEF CallStages, CallKinds
  <2>3. job \in [Tasks -> [at : CallStages \cup ProcStages, kind : CallKinds, proc : Procs]]
    BY <2>1, <2>2
  <2>4. QED
    BY <2>2, <2>3 DEF JobOK, CallStages, ProcStages, Tasks
<1>3. NoOutage \in Counts /\ lock \in {Free} \cup Sections /\ today \in Days
  BY CallLogConstantsOK DEF Init, Counts, NoOutage, Days
<1>4. /\ outage \in [Procs -> Counts] /\ held \in [Procs -> [Kinds -> SUBSET Calls]]
      /\ seen \in [Procs -> [Kinds -> Nat]]
  BY <1>3 DEF Init
<1>5. TypeOK
  BY <1>1, <1>2, <1>3, <1>4 DEF Init, TypeOK
<1>6. SectionOK
  BY DEF Init, SectionOK, Free
<1>7. QED
  BY <1>5, <1>6

\* The log's state is always of the right types, and a section always has left what its task
\* was to do: app/call_log.py's _append_locked and its callers never mix up their steps.
THEOREM CallLogTypes == Spec => [](TypeOK /\ SectionOK)
BY TypesInit, TypesStep, PTL DEF Spec

-----------------------------------------------------------------------------
(* What has been reported stays reported *)

LoggedIn(f) == UNION {UNION {f[d][i].calls : i \in DOMAIN f[d]} : d \in DOMAIN f}
Accounted(c) == c \in Reported \/ Pending(c)

\* Putting lines into a file loses none that were there.
LEMMA PutLogged ==
  ASSUME TypeOK, NEW day \in Days, NEW lines \in Seq(Lines)
  PROVE  /\ Logged \subseteq LoggedIn(Put(day, lines))
         /\ \A i \in 1..Len(lines) : lines[i].calls \subseteq LoggedIn(Put(day, lines))
<1> DEFINE P == Put(day, lines)
<1>1. /\ DOMAIN P = DOMAIN files \cup {day} /\ FilesOK(P)
      /\ \A d \in DOMAIN files \ {day} : P[d] = files[d]
      /\ day \in DOMAIN files => P[day] = files[day] \o lines
      /\ day \notin DOMAIN files => P[day] = lines
  BY PutFiles
<1> HIDE DEF P
<1>2. ASSUME NEW d \in DOMAIN files, NEW i \in DOMAIN files[d]
      PROVE  i \in DOMAIN P[d] /\ P[d][i] = files[d][i]
  <2>1. files[d] \in Seq(Lines) /\ i \in 1..Len(files[d])
    BY FileType
  <2>2. CASE d = day
    BY <1>1, <2>1, <2>2
  <2>3. CASE d # day
    BY <1>1, <2>3
  <2>4. QED
    BY <2>2, <2>3
<1>3. ASSUME NEW i \in 1..Len(lines)
      PROVE  \E j \in DOMAIN P[day] : P[day][j] = lines[i]
  <2>1. CASE day \in DOMAIN files
    <3>1. files[day] \in Seq(Lines) /\ P[day] = files[day] \o lines
      BY <1>1, <2>1, FileType
    <3>2. Len(files[day]) + i \in DOMAIN P[day] /\ P[day][Len(files[day]) + i] = lines[i]
      BY <3>1
    <3>3. QED
      BY <3>2
  <2>2. CASE day \notin DOMAIN files
    BY <1>1, <2>2
  <2>3. QED
    BY <2>1, <2>2
<1>4. Logged \subseteq LoggedIn(P)
  <2> SUFFICES ASSUME NEW c \in Logged PROVE c \in LoggedIn(P)
    OBVIOUS
  <2>1. PICK d \in DOMAIN files : c \in CallsIn(d)
    BY DEF Logged
  <2>2. PICK i \in DOMAIN files[d] : c \in files[d][i].calls
    BY <2>1 DEF CallsIn
  <2>3. d \in DOMAIN P /\ i \in DOMAIN P[d] /\ c \in P[d][i].calls
    BY <1>1, <1>2, <2>2
  <2>4. QED
    BY <2>3 DEF LoggedIn
<1>5. ASSUME NEW i \in 1..Len(lines) PROVE lines[i].calls \subseteq LoggedIn(P)
  <2>1. PICK j \in DOMAIN P[day] : P[day][j] = lines[i]
    BY <1>3
  <2>2. day \in DOMAIN P
    BY <1>1
  <2>3. QED
    BY <2>1, <2>2 DEF LoggedIn
<1>6. QED
  BY <1>4, <1>5 DEF P

\* The log is what is in the files.
LEMMA LoggedNow == Logged = LoggedIn(files) /\ Logged' = LoggedIn(files')
BY DEF Logged, CallsIn, LoggedIn

\* A step that puts lines into a file, or leaves the files alone, and forgets nothing.
LEMMA PutReports ==
  ASSUME TypeOK, retired' = retired, lost \subseteq lost',
         files' = files \/ \E day \in Days, lines \in Seq(Lines) : files' = Put(day, lines)
  PROVE  Reported \subseteq Reported'
<1>1. Logged \subseteq Logged'
  <2>1. CASE files' = files
    BY <2>1, LoggedNow
  <2>2. ASSUME NEW day \in Days, NEW lines \in Seq(Lines), files' = Put(day, lines)
        PROVE  Logged \subseteq Logged'
    BY <2>2, LoggedNow, PutLogged
  <2>3. QED
    BY <2>1, <2>2
<1>2. QED
  BY <1>1 DEF Reported

\* Retention counts the calls of a file it deletes as retired.
LEMMA UnlinkReports ==
  ASSUME TypeOK, NEW t, Unlink(t)
  PROVE  Reported \subseteq Reported'
<1> DEFINE d == Min(Old(lock.day))
<1>1. /\ d \in DOMAIN files /\ DOMAIN files' = DOMAIN files \ {d}
      /\ \A e \in DOMAIN files' : files'[e] = files[e]
      /\ retired' = retired \cup CallsIn(d) /\ lost' = lost
  BY UnlinkFiles DEF Unlink
<1> HIDE DEF d
<1>2. ASSUME NEW c \in Logged PROVE c \in Logged' \cup retired'
  <2>1. PICK e \in DOMAIN files : c \in CallsIn(e)
    BY DEF Logged
  <2>2. CASE e = d
    BY <1>1, <2>1, <2>2
  <2>3. CASE e # d
    <3>1. e \in DOMAIN files' /\ c \in CallsIn(e)'
      BY <1>1, <2>1, <2>3 DEF CallsIn
    <3>2. QED
      BY <3>1 DEF Logged
  <2>4. QED
    BY <2>2, <2>3
<1>3. QED
  BY <1>1, <1>2 DEF Reported

\* A line that is written reports its calls, and so does one that is cut: it loses them.
LEMMA WriteReports ==
  ASSUME TypeOK, SectionOK, NEW t \in Tasks, Write(t)
  PROVE  Reported \subseteq Reported' /\ NewLine.calls \subseteq Reported'
<1>1. Appending(t) /\ lock.taken /\ retired' = retired
  BY DEF Write, Ready, Appending, Working
<1>2. lock.day \in Days /\ NewLine \in Lines /\ Torn \in Lines
  BY <1>1, SectionTypes, NewLineType
<1>3. PICK whole \in BOOLEAN :
        /\ files' = Put(lock.day, <<IF whole THEN NewLine ELSE Torn>>)
        /\ IF whole THEN UNCHANGED lost ELSE lost' = lost \cup NewLine.calls
  BY DEF Write
<1> DEFINE lines == <<IF whole THEN NewLine ELSE Torn>>
<1>4. lines \in Seq(Lines) /\ Len(lines) = 1 /\ lines[1] = (IF whole THEN NewLine ELSE Torn)
  BY <1>2
<1>5. lost \subseteq lost'
  BY <1>3
<1> HIDE DEF lines
<1>6. files' = Put(lock.day, lines)
  BY <1>3 DEF lines
<1>7. Reported \subseteq Reported'
  BY <1>1, <1>2, <1>4, <1>5, <1>6, PutReports
<1>8. NewLine.calls \subseteq Reported'
  <2>1. CASE whole
    <3>1. lines[1].calls \subseteq LoggedIn(Put(lock.day, lines)) /\ lines[1] = NewLine
      <4>1. \A i \in 1..Len(lines) : lines[i].calls \subseteq LoggedIn(Put(lock.day, lines))
        BY <1>2, <1>4, PutLogged
      <4>2. 1 \in 1..Len(lines)
        BY <1>4
      <4>3. QED
        BY <1>4, <2>1, <4>1, <4>2
    <3>2. NewLine.calls \subseteq Logged'
      BY <1>6, <3>1, LoggedNow
    <3>3. QED
      BY <3>2 DEF Reported
  <2>2. CASE ~whole
    BY <1>3, <2>2 DEF Reported
  <2>3. QED
    BY <2>1, <2>2
<1>9. QED
  BY <1>7, <1>8

\* A failing append leaves the files as they are or adds to them; so does a crash.
LEMMA AppendFailsReports ==
  ASSUME TypeOK, SectionOK, NEW t \in Tasks, AppendFails(t)
  PROVE  Reported \subseteq Reported'
<1>1. Appending(t) /\ lock.taken /\ retired' = retired /\ lost' = lost
  BY DEF AppendFails, Appending, Working
<1>2. lock.day \in Days /\ <<>> \in Seq(Lines) /\ <<NewLine>> \in Seq(Lines)
  BY <1>1, SectionTypes, NewLineType
<1>3. files' \in {files, Put(lock.day, <<>>), Put(lock.day, <<NewLine>>)}
  BY DEF AppendFails
<1>4. QED
  BY <1>1, <1>2, <1>3, PutReports

\* A crash takes nothing out of the log.
LEMMA CrashReports ==
  ASSUME TypeOK, SectionOK, NEW p \in Procs, Crash(p)
  PROVE  Reported \subseteq Reported'
<1>1. retired' = retired /\ lost \subseteq lost'
  BY DEF Crash, Forget
<1>2. files' = files \/ \E day \in Days, lines \in Seq(Lines) : files' = Put(day, lines)
  <2>1. CASE lock.taken /\ lock.proc = p /\ Ready(lock.by)
    <3>1. lock.by \in Tasks /\ lock.day \in Days
      BY <2>1, SectionTypes
    <3>2. NewLine \in Lines /\ Torn \in Lines
      BY <2>1, <3>1, NewLineType DEF Ready
    <3>3. <<>> \in Seq(Lines) /\ <<Torn>> \in Seq(Lines) /\ <<NewLine>> \in Seq(Lines)
      BY <3>2
    <3>4. files' = files \/ \E l \in {<<>>, <<Torn>>, <<NewLine>>} : files' = Put(lock.day, l)
      BY <2>1 DEF Crash
    <3>5. QED
      BY <3>1, <3>3, <3>4
  <2>2. CASE ~(lock.taken /\ lock.proc = p /\ Ready(lock.by))
    BY <2>2 DEF Crash
  <2>3. QED
    BY <2>1, <2>2
<1>3. QED
  BY <1>1, <1>2, PutReports

\* In every step of the log, reported calls stay reported.
LEMMA ReportedStays ==
  ASSUME TypeOK, SectionOK, [Next]_vars
  PROVE  Reported \subseteq Reported'
<1>1. ASSUME NEW t \in Tasks, TaskStep(t) PROVE Reported \subseteq Reported'
  <2>1. CASE Unlink(t)
    BY <2>1, UnlinkReports
  <2>2. CASE Write(t)
    BY <2>2, WriteReports
  <2>3. CASE AppendFails(t)
    BY <2>3, AppendFailsReports
  <2>4. CASE Begin(t) \/ BeginFails(t) \/ Finish(t) \/ SaveAnchor(t) \/ Window(t) \/ MarkFails(t)
    <3>1. files' = files /\ retired' = retired /\ lost' = lost
      BY <2>4 DEF Begin, BeginFails, Finish, SaveAnchor, Window, MarkFails
    <3>2. QED
      BY <3>1, PutReports
  <2>5. CASE Clear(t) \/ Mark(t)
    <3>1. files' = files /\ retired' = retired /\ lost \subseteq lost'
      BY <2>5 DEF Clear, Mark
    <3>2. QED
      BY <3>1, PutReports
  <2>6. QED
    BY <1>1, <2>1, <2>2, <2>3, <2>4, <2>5 DEF TaskStep
<1>2. ASSUME NEW p \in Procs, Crash(p) PROVE Reported \subseteq Reported'
  BY <1>2, CrashReports
<1>3. ASSUME NEW p \in Procs, Restart(p) PROVE Reported \subseteq Reported'
  <2>1. files' = files /\ retired' = retired /\ lost \subseteq lost'
    BY <1>3 DEF Restart, Forget
  <2>2. QED
    BY <2>1, PutReports
<1>4. ASSUME \/ \E c \in Calls : Arrive(c) \/ Serve(c)
             \/ \E p \in Procs : Flush(p) \/ Shutdown(p)
             \/ NewMinute \/ NewDay \/ UNCHANGED vars
      PROVE  Reported \subseteq Reported'
  <2>1. files' = files /\ retired' = retired /\ lost' = lost
    BY <1>4 DEF Arrive, Serve, Flush, Shutdown, NewMinute, NewDay, vars
  <2>2. QED
    BY <2>1, PutReports
<1>5. QED
  BY <1>1, <1>2, <1>3, <1>4 DEF Next, Living

-----------------------------------------------------------------------------
(* Every call is accounted for *)

\* A step that leaves the counts alone.
LEMMA QuietStep ==
  ASSUME TypeOK, NothingVanishes, NotYetCounted, CountsMarked,
         UNCHANGED <<marker, outage, held>>, Reported \subseteq Reported',
         \A c \in Calls : job'[c].at \in {"answered", "refused"} =>
           job[c].at \in {"answered", "refused"} \/ Accounted(c),
         \A c \in Calls : Done(c)' => c \in Reported' \cup Held(lock'.proc),
         \A c \in Calls : ~Done(c)' /\ job'[c].at \notin Over => job[c].at \notin Over /\ ~Done(c)
  PROVE  NothingVanishes' /\ NotYetCounted' /\ CountsMarked'
<1>1. \A p \in Procs : InMemory(p)' = InMemory(p) /\ Held(p)' = Held(p)
  BY DEF InMemory, Held
<1>2. \A c : Pending(c)' <=> Pending(c)
  BY <1>1 DEF Pending
<1>3. CountedOnce'
  <2>1. CountedOnce
    BY DEF NothingVanishes
  <2>2. QED
    BY <1>1, <2>1 DEF CountedOnce
<1>4. ASSUME NEW c \in Calls, job'[c].at \in {"answered", "refused"}
      PROVE  c \in Reported' \/ Pending(c)'
  <2>1. Accounted(c)
    BY <1>4 DEF NothingVanishes, Accounted, Reported, Pending
  <2>2. QED
    BY <1>2, <2>1 DEF Accounted
<1>5. NothingVanishes'
  BY <1>3, <1>4 DEF NothingVanishes, Reported, Pending
<1>6. NotYetCounted'
  <2>1. \A c \in Calls : ~Done(c)' /\ job'[c].at \notin Over => ~Pending(c)'
    BY <1>2 DEF NotYetCounted
  <2>2. \A c \in Calls : Done(c)' => c \in Reported' \cup Held(lock.proc)'
    BY DEF Held
  <2>3. QED
    BY <2>1, <2>2 DEF NotYetCounted
<1>7. CountsMarked'
  BY DEF CountsMarked
<1>8. QED
  BY <1>5, <1>6, <1>7

\* What is known of the calls before a step.
AInv0 == TypeOK /\ SectionOK /\ NothingVanishes /\ NotYetCounted /\ CountsMarked
Kept == NothingVanishes' /\ NotYetCounted' /\ CountsMarked'

\* A task in no section takes a step that does not end it.
LEMMA ElsewhereStep ==
  ASSUME AInv0, UNCHANGED <<marker, outage, held, lock>>, Reported \subseteq Reported', NEW t \in Tasks,
         \A u \in Tasks \ {t} : job'[u] = job[u], lock.taken => lock.by # t,
         job[t].at \notin Over, job'[t].at \notin Over
  PROVE  Kept
<1>1. ASSUME NEW c \in Calls
      PROVE  /\ c \in Tasks /\ (c # t => job'[c] = job[c]) /\ (Done(c) => c # t) /\ (Done(c)' => c # t)
             /\ Done(c) <=> Done(c)'
  BY DEF Tasks, Done
<1>2. \A c \in Calls : job'[c].at \in {"answered", "refused"} =>
           job[c].at \in {"answered", "refused"} \/ Accounted(c)
  BY <1>1 DEF Over
<1>3. \A c \in Calls : Done(c)' => c \in Reported' \cup Held(lock'.proc)
  BY <1>1 DEF AInv0, NotYetCounted
<1>4. \A c \in Calls : ~Done(c)' /\ job'[c].at \notin Over => job[c].at \notin Over /\ ~Done(c)
  BY <1>1
<1>5. QED
  BY <1>2, <1>3, <1>4, QuietStep DEF AInv0, Kept

\* A section ends, or fails, with no entry written: its task goes on.
LEMMA LeavingStep ==
  ASSUME AInv0, UNCHANGED <<marker, outage, held>>, Reported \subseteq Reported', NEW t \in Tasks,
         \A u \in Tasks \ {t} : job'[u] = job[u], ~lock'.taken, lock.taken => lock.by = t,
         job[t].at \notin Over, job'[t].at \in Over => t \in Procs \/ Accounted(t),
         job'[t].at \notin Over => ~Done(t)
  PROVE  Kept
<1>1. ASSUME NEW c \in Calls
      PROVE  /\ c \in Tasks /\ (c # t => job'[c] = job[c]) /\ ~Done(c)' /\ (Done(c) => c = t) /\ c \notin Procs
  BY CallLogConstantsOK DEF Tasks, Done
<1>2. \A c \in Calls : job'[c].at \in {"answered", "refused"} =>
           job[c].at \in {"answered", "refused"} \/ Accounted(c)
  BY <1>1 DEF Over
<1>3. \A c \in Calls : ~Done(c)' /\ job'[c].at \notin Over => job[c].at \notin Over /\ ~Done(c)
  BY <1>1
<1>4. QED
  BY <1>1, <1>2, <1>3, QuietStep DEF AInv0, Kept

\* A section goes on without reaching or leaving its end.
LEMMA OnwardStep ==
  ASSUME AInv0, UNCHANGED <<marker, outage, held, job>>, Reported \subseteq Reported',
         \A c \in Calls : ~Done(c) /\ ~Done(c)'
  PROVE  Kept
BY QuietStep DEF AInv0, Kept

\* Taking the lock: no call is done before its section wrote or counted something.
LEMMA BeginKept ==
  ASSUME AInv0, NEW t \in Tasks, Begin(t), Reported \subseteq Reported'
  PROVE  Kept
<1>1. TypeOK' /\ SectionOK' /\ ~lock.taken /\ job[t].at \in {"preflight", "recording", "flushing", "paging", "exiting"}
  BY BeginTypes DEF AInv0, Begin, Wants
<1>2. (lock'.by = t /\ lock'.plan # <<>>) \/ job[t].at # "recording"
  <2>1. PICK known : lock'.by = t /\ lock'.plan = Plan(t, known)
    BY DEF Begin
  <2>2. job[t].at = "recording" => Plan(t, known) # <<>>
    BY <1>1, PlanFits DEF AInv0
  <2>3. QED
    BY <2>1, <2>2
<1>3. lock'.by = t /\ job' = job
  BY DEF Begin
<1>4. \A c \in Calls : ~Done(c) /\ ~Done(c)'
  BY <1>1, <1>2, <1>3 DEF Done
<1>5. QED
  BY <1>4, OnwardStep DEF Begin

\* A section that cannot begin leaves every count where it was.
LEMMA BeginFailsKept ==
  ASSUME AInv0, NEW t \in Tasks, BeginFails(t), Reported \subseteq Reported'
  PROVE  Kept
<1>1. TypeOK /\ ~lock.taken /\ job[t].at \in {"preflight", "recording", "flushing", "paging", "exiting"}
      /\ Goes(t, AfterFailure(t))
  BY DEF AInv0, BeginFails, Wants
<1>2. /\ t \in Calls => AfterFailure(t) \in CallStages \ Over
      /\ t \in Procs => AfterFailure(t) \in ProcStages
  BY <1>1, NextStage
<1>3. (\A u \in Tasks \ {t} : job'[u] = job[u]) /\ job'[t].at = AfterFailure(t)
  BY <1>1, <1>2, GoesType
<1>4. job[t].at \notin Over /\ job'[t].at \notin Over
  BY <1>1, <1>2, <1>3, TaskTypes DEF Over, ProcStages
<1>5. QED
  BY <1>1, <1>3, <1>4, ElsewhereStep DEF BeginFails

\* A failed append leaves the summary open and the call not yet over.
LEMMA AppendFailsKept ==
  ASSUME AInv0, NEW t \in Tasks, AppendFails(t), Reported \subseteq Reported'
  PROVE  Kept
<1>1. TypeOK /\ lock.taken /\ lock.by = t /\ lock.plan # <<>> /\ lock' = Free /\ Goes(t, AfterFailure(t))
  BY DEF AInv0, AppendFails, Appending, Working, Drop
<1>2. job[t].at \in {"preflight", "recording", "flushing", "paging", "exiting"}
  BY <1>1 DEF AInv0, SectionOK
<1>3. /\ t \in Calls => AfterFailure(t) \in CallStages \ Over
      /\ t \in Procs => AfterFailure(t) \in ProcStages
  BY <1>1, <1>2, NextStage
<1>4. (\A u \in Tasks \ {t} : job'[u] = job[u]) /\ job'[t].at = AfterFailure(t)
  BY <1>1, <1>3, GoesType
<1>5. job[t].at \notin Over /\ job'[t].at \notin Over /\ ~Done(t) /\ ~lock'.taken
  BY <1>1, <1>2, <1>3, <1>4, TaskTypes DEF Over, ProcStages, Done, Free
<1>6. QED
  BY <1>1, <1>4, <1>5, LeavingStep DEF AppendFails

\* A section that is through: its call is in the log or in the open summary.
LEMMA FinishKept ==
  ASSUME AInv0, NEW t \in Tasks, Finish(t), Reported \subseteq Reported'
  PROVE  Kept
<1>1. TypeOK /\ SectionOK /\ lock.taken /\ lock.by = t /\ lock.plan = <<>> /\ lock' = Free
      /\ Goes(t, AfterSection(t))
  BY DEF AInv0, Finish, Working, Drop
<1>2. job[t].at \in {"preflight", "recording", "flushing", "paging", "exiting"}
  BY <1>1 DEF SectionOK
<1>3. (\A u \in Tasks \ {t} : job'[u] = job[u]) /\ job'[t].at = AfterSection(t)
  BY <1>1, <1>2, NextStage, GoesType
<1>4. job[t].at = "recording" => t \in Calls /\ Accounted(t)
  <2> SUFFICES ASSUME job[t].at = "recording" PROVE t \in Calls /\ Accounted(t)
    OBVIOUS
  <2>1. t \in Calls /\ lock.proc \in Procs
    BY <1>1, SectionTask, SectionTypes
  <2>2. Done(t)
    BY <1>1 DEF Done
  <2>3. t \in Reported \cup Held(lock.proc)
    BY <2>1, <2>2 DEF AInv0, NotYetCounted
  <2>4. QED
    BY <2>1, <2>3 DEF Accounted, Pending, InMemory
<1>5. job'[t].at \in Over => job[t].at = "recording"
  BY <1>2, <1>3 DEF AfterSection, Over
<1>6. job'[t].at \notin Over => ~Done(t)
  BY <1>2, <1>3 DEF AfterSection, Over, Done
<1>7. job[t].at \notin Over /\ ~lock'.taken
  BY <1>1, <1>2 DEF Over, Free
<1>8. QED
  BY <1>1, <1>3, <1>4, <1>5, <1>6, <1>7, LeavingStep DEF Finish

\* Saving the anchor and deleting a file move no count.
LEMMA RetentionKept ==
  ASSUME AInv0, NEW t \in Tasks, SaveAnchor(t) \/ Unlink(t), Reported \subseteq Reported'
  PROVE  Kept
<1>1. lock.taken /\ lock.by = t /\ lock.plan # <<>> /\ lock \in Sections
  BY SectionTypes DEF AInv0, SaveAnchor, Unlink, Appending, Working
<1>2. lock'.plan = lock.plan
  BY <1>1 DEF SaveAnchor, Unlink, Sections
<1>3. \A c \in Calls : ~Done(c) /\ ~Done(c)'
  BY <1>1, <1>2 DEF Done
<1>4. QED
  BY <1>3, OnwardStep DEF SaveAnchor, Unlink

\* A request that arrives or is served is not over.
LEMMA RequestKept ==
  ASSUME AInv0, NEW c \in Calls, Arrive(c) \/ Serve(c), Reported \subseteq Reported'
  PROVE  Kept
<1>1. TypeOK /\ SectionOK /\ c \in Tasks /\ job[c].at \in {"idle", "serving"}
  BY DEF AInv0, Arrive, Serve, Tasks
<1>2. PICK k \in CallKinds, stage \in {"preflight", "serving", "recording"} :
        job' = [job EXCEPT ![c].at = stage, ![c].kind = k]
  BY DEF Arrive, Serve, CallKinds
<1>3. stage \in CallStages /\ stage \notin Over
  BY DEF CallStages, Over
<1>4. (\A u \in Tasks \ {c} : job'[u] = job[u]) /\ job'[c].at = stage
  BY <1>1, <1>2, <1>3, CallJobType
<1>5. lock.taken => lock.by # c
  BY <1>1, SectionTask
<1>6. QED
  BY <1>1, <1>3, <1>4, <1>5, ElsewhereStep DEF Arrive, Serve, Over

\* Flushing and shutting down begin with every count in place.
LEMMA ProcessKept ==
  ASSUME AInv0, NEW p \in Procs, Flush(p) \/ Shutdown(p), Reported \subseteq Reported'
  PROVE  Kept
<1>1. PICK stage \in {"flushing", "paging", "exiting"} : Goes(p, stage)
  BY DEF Flush, Shutdown
<1>2. p \in Tasks /\ p \notin Calls /\ stage \in ProcStages /\ job[p].at = "idle" /\ stage \notin Over
  BY CallLogConstantsOK DEF Tasks, ProcStages, Flush, Shutdown, Over
<1>3. (\A u \in Tasks \ {p} : job'[u] = job[u]) /\ job'[p].at = stage
  BY <1>1, <1>2, GoesType DEF AInv0
<1>4. lock.taken => lock.by # p
  BY <1>2, SectionTask DEF AInv0
<1>5. job[p].at \notin Over
  BY <1>2 DEF Over
<1>6. QED
  BY <1>2, <1>3, <1>4, <1>5, ElsewhereStep DEF Flush, Shutdown

\* The clock moves no count.
LEMMA ClockKept ==
  ASSUME AInv0, NewMinute \/ NewDay \/ UNCHANGED vars, Reported \subseteq Reported'
  PROVE  Kept
<1>1. UNCHANGED <<marker, outage, held, job, lock>>
  BY DEF NewMinute, NewDay, vars
<1>2. \A c \in Calls : Done(c)' <=> Done(c)
  BY <1>1 DEF Done
<1>3. \A c \in Calls : Done(c)' => c \in Reported' \cup Held(lock'.proc)
  BY <1>1, <1>2 DEF AInv0, NotYetCounted
<1>4. \A c \in Calls : ~Done(c)' /\ job'[c].at \notin Over => job[c].at \notin Over /\ ~Done(c)
  BY <1>1, <1>2
<1>5. \A c \in Calls : job'[c].at \in {"answered", "refused"} =>
           job[c].at \in {"answered", "refused"} \/ Accounted(c)
  BY <1>1
<1>6. QED
  BY <1>1, <1>3, <1>4, <1>5, QuietStep DEF AInv0, Kept

\* A step that adds nothing to the counts, and reports what it drops from them.
LEMMA ShrinkStep ==
  ASSUME AInv0, Reported \subseteq Reported', CountsMarked', marker'.owed \subseteq marker.owed,
         \A p \in Procs : /\ outage'[p].owed \subseteq outage[p].owed
                          /\ held'[p]["denied"] \subseteq held[p]["denied"]
                          /\ held'[p]["reads"] \subseteq held[p]["reads"],
         \A c \in Calls : Pending(c) => Pending(c)' \/ c \in Reported',
         \A c \in Calls : job'[c].at \in {"answered", "refused"} => job[c].at \in {"answered", "refused"},
         \A c \in Calls : Done(c)' => c \in Reported' \cup Held(lock.proc)',
         \A c \in Calls : ~Done(c)' /\ job'[c].at \notin Over => job[c].at \notin Over /\ ~Done(c)
  PROVE  Kept
<1>1. \A p \in Procs : InMemory(p)' \subseteq InMemory(p) /\ Held(p)' \subseteq Held(p)
  BY DEF InMemory, Held
<1>2. \A c : Pending(c)' => Pending(c)
  BY <1>1 DEF Pending
<1>3. CountedOnce'
  <2>1. CountedOnce
    BY DEF AInv0, NothingVanishes
  <2>2. ASSUME NEW p \in Procs PROVE marker'.owed \cap InMemory(p)' = {}
    BY <1>1, <2>1 DEF CountedOnce
  <2>3. ASSUME NEW p \in Procs
        PROVE  outage'[p].owed \cap Held(p)' = {} /\ held'[p]["denied"] \cap held'[p]["reads"] = {}
    BY <1>1, <2>1 DEF CountedOnce
  <2>4. ASSUME NEW p \in Procs, NEW q \in Procs \ {p} PROVE InMemory(p)' \cap InMemory(q)' = {}
    BY <1>1, <2>1 DEF CountedOnce
  <2>5. QED
    BY <2>2, <2>3, <2>4 DEF CountedOnce
<1>4. ASSUME NEW c \in Calls, job'[c].at \in {"answered", "refused"}
      PROVE  c \in Reported' \/ Pending(c)'
  <2>1. c \in Reported \/ Pending(c)
    BY <1>4 DEF AInv0, NothingVanishes, Reported, Pending
  <2>2. QED
    BY <2>1
<1>5. NothingVanishes'
  BY <1>3, <1>4 DEF NothingVanishes, Reported, Pending
<1>6. NotYetCounted'
  <2>1. \A c \in Calls : ~Done(c)' /\ job'[c].at \notin Over => ~Pending(c)'
    BY <1>2 DEF AInv0, NotYetCounted
  <2>2. QED
    BY <2>1 DEF NotYetCounted
<1>7. QED
  BY <1>5, <1>6 DEF Kept

\* A plan whose last step is done, when it ends in an entry, was about to write it.
LEMMA LastIsEntry ==
  ASSUME TypeOK, SectionOK, lock.taken, lock.plan # <<>>, Tail(lock.plan) = <<>>,
         job[lock.by].at = "recording"
  PROVE  Head(lock.plan) = "entry"
<1>1. lock.plan \in Seq(StepNames) /\ Fitting("recording", lock.plan)
  BY SectionTypes DEF SectionOK
<1>2. Len(lock.plan) = 1 /\ Head(lock.plan) = lock.plan[1]
  <2>1. Len(lock.plan) \in Nat /\ 1 \in 1..Len(lock.plan) /\ Head(lock.plan) = lock.plan[1]
    BY <1>1, PlanParts
  <2>2. 2 \notin 1..Len(lock.plan)
    BY <1>1, PlanParts
  <2>3. \A n \in Nat : 1 \in 1..n /\ 2 \notin 1..n => n = 1
    OBVIOUS
  <2>4. QED
    BY <2>1, <2>2, <2>3
<1>3. QED
  BY <1>1, <1>2 DEF Fitting

\* A line written: what it counts leaves the open summary for the log.
LEMMA WriteKept ==
  ASSUME AInv0, NEW t \in Tasks, Write(t), Reported \subseteq Reported'
  PROVE  Kept
<1> DEFINE s == Head(lock.plan)
<1>1. TypeOK /\ SectionOK /\ Appending(t) /\ lock.taken /\ lock.by = t /\ lock.plan # <<>> /\ lock \in Sections
  BY SectionTypes DEF AInv0, Write, Ready, Appending, Working
<1>2. NewLine.calls \subseteq Reported' /\ NewLine.calls = CallsOf(s) /\ lock.proc \in Procs
  BY <1>1, WriteReports, NewLineType, SectionTypes
<1>3. marker' = marker /\ outage' = outage /\ job' = job
  BY DEF Write
<1>4. lock'.plan = Tail(lock.plan) /\ lock'.by = lock.by /\ lock'.taken
  <2>1. DOMAIN lock = {"taken", "by", "proc", "plan", "head", "day", "kept", "known"}
    BY <1>1 DEF Sections
  <2>2. lock' = [lock EXCEPT !.plan = Tail(lock.plan), !.head = lock.head + 1, !.day = today, !.kept = FALSE]
    BY DEF Write
  <2>3. lock'.plan = Tail(lock.plan)
    BY <2>1, <2>2
  <2>4. lock'.by = lock.by /\ lock'.taken = lock.taken
    BY <2>1, <2>2
  <2>5. QED
    BY <1>1, <2>3, <2>4
<1>5. ASSUME NEW p \in Procs, NEW k \in Kinds
      PROVE  held'[p][k] = held[p][k] \/ (p = lock.proc /\ k = s /\ held'[p][k] = {})
  <2>1. held \in [Procs -> [Kinds -> SUBSET Calls]] /\ held[p] \in [Kinds -> SUBSET Calls]
    BY <1>1, SameTypes
  <2>2. CASE s \in Kinds
    <3>1. held' = [held EXCEPT ![lock.proc][s] = {}]
      BY <2>2 DEF Write
    <3>2. QED
      BY <1>2, <2>1, <2>2, <3>1
  <2>3. CASE s \notin Kinds
    BY <2>3 DEF Write
  <2>4. QED
    BY <2>2, <2>3
<1>6. \A c \in held[lock.proc][s] : s \in Kinds => c \in Reported'
  BY <1>2 DEF CallsOf, Kinds
<1> HIDE DEF s
<1>7. \A p \in Procs : /\ held'[p]["denied"] \subseteq held[p]["denied"]
                       /\ held'[p]["reads"] \subseteq held[p]["reads"]
  BY <1>5 DEF Kinds
<1>8. ASSUME NEW c \in Calls, Pending(c) PROVE Pending(c)' \/ c \in Reported'
  <2>1. CASE c \in marker.owed \/ \E p \in Procs : c \in outage[p].owed
    BY <1>3, <2>1 DEF Pending, InMemory
  <2>2. ASSUME NEW p \in Procs, NEW k \in Kinds, c \in held[p][k]
        PROVE  Pending(c)' \/ c \in Reported'
    <3>1. CASE held'[p][k] = held[p][k]
      <4>1. c \in Held(p)'
        BY <2>2, <3>1 DEF Held, Kinds
      <4>2. QED
        BY <4>1 DEF Pending, InMemory
    <3>2. CASE p = lock.proc /\ k = s
      BY <1>6, <2>2, <3>2
    <3>3. QED
      BY <1>5, <3>1, <3>2
  <2>3. QED
    BY <1>8, <2>1, <2>2 DEF Pending, InMemory, Held, Kinds
<1>9. ASSUME NEW c \in Calls, Done(c)' PROVE c \in Reported'
  <2>1. c = lock.by /\ job[c].at = "recording" /\ Tail(lock.plan) = <<>>
    BY <1>3, <1>4, <1>9 DEF Done
  <2>2. s = "entry"
    BY <1>1, <2>1, LastIsEntry DEF s
  <2>3. QED
    BY <1>2, <2>1, <2>2 DEF CallsOf, Kinds
<1>10. \A c \in Calls : ~Done(c)
  BY <1>1 DEF Done
<1>11. CountsMarked'
  BY <1>3 DEF AInv0, CountsMarked
<1>12. QED
  BY <1>3, <1>7, <1>8, <1>9, <1>10, <1>11, ShrinkStep

\* Clearing drops only counts that the gap entry has put in the log.
LEMMA ClearKept ==
  ASSUME AInv0, GapInOrder, NEW t \in Tasks, Clear(t), Reported \subseteq Reported'
  PROVE  Kept
<1>1. TypeOK /\ SectionOK /\ lock.taken /\ lock.by = t /\ lock.plan # <<>> /\ Head(lock.plan) = "clear"
      /\ lock \in Sections /\ lock.proc \in Procs
  BY SectionTypes DEF AInv0, Clear, Step, Working
<1>2. lock.known.owed \subseteq Reported /\ outage[lock.proc].owed \subseteq lock.known.owed
  <2>1. lock.by \in Calls
    BY <1>1, HeadOfPlan DEF Kinds
  <2>2. QED
    BY <1>1, <2>1 DEF GapInOrder, ToReport, ToClear
<1>3. /\ held' = held /\ job' = job /\ outage' = [outage EXCEPT ![lock.proc] = NoOutage]
      /\ \/ marker' = marker
         \/ marker' = NoOutage /\ lost' = lost \cup (marker.owed \ lock.known.owed)
      /\ lock'.plan = Tail(lock.plan) /\ lock'.by = lock.by
  BY <1>1 DEF Clear, Sections
<1>4. NoOutage.owed = {} /\ NoOutage.on = FALSE
  BY DEF NoOutage
<1>5. \A p \in Procs : outage'[p] = IF p = lock.proc THEN NoOutage ELSE outage[p]
  BY <1>1, <1>3, SameTypes
<1>6. marker'.owed \subseteq marker.owed /\ \A p \in Procs : outage'[p].owed \subseteq outage[p].owed
  BY <1>3, <1>4, <1>5
<1>7. ASSUME NEW c \in Calls, Pending(c) PROVE Pending(c)' \/ c \in Reported'
  <2>1. CASE c \in marker.owed
    <3>1. CASE marker' = marker
      BY <2>1, <3>1 DEF Pending
    <3>2. CASE lost' = lost \cup (marker.owed \ lock.known.owed)
      BY <1>2, <2>1, <3>2 DEF Reported
    <3>3. QED
      BY <1>3, <3>1, <3>2
  <2>2. ASSUME NEW p \in Procs, c \in outage[p].owed PROVE Pending(c)' \/ c \in Reported'
    <3>1. CASE p = lock.proc
      BY <1>2, <2>2, <3>1
    <3>2. CASE p # lock.proc
      BY <1>5, <2>2, <3>2 DEF Pending, InMemory
    <3>3. QED
      BY <3>1, <3>2
  <2>3. ASSUME NEW p \in Procs, c \in Held(p) PROVE Pending(c)'
    BY <1>3, <2>3 DEF Pending, InMemory, Held
  <2>4. QED
    BY <1>7, <2>1, <2>2, <2>3 DEF Pending, InMemory
<1>8. ASSUME NEW c \in Calls PROVE ~Done(c)' /\ ~Done(c)
  <2>1. Done(c)' => Tail(lock.plan) = <<>> /\ job[lock.by].at = "recording"
    BY <1>3 DEF Done
  <2>2. QED
    BY <1>1, <2>1, LastIsEntry DEF Done
<1>9. CountsMarked'
  <2>1. CountsMarked
    BY DEF AInv0
  <2>2. \A p \in Procs : ~outage'[p].on => outage'[p].owed = {}
    BY <1>4, <1>5, <2>1 DEF CountsMarked
  <2>3. ~marker'.on => marker'.owed = {}
    BY <1>3, <1>4, <2>1 DEF CountsMarked
  <2>4. QED
    BY <2>2, <2>3 DEF CountsMarked
<1>10. QED
  BY <1>3, <1>6, <1>7, <1>8, <1>9, ShrinkStep

\* What a process forgets is lost, and nothing else is dropped.
LEMMA ForgetDrops ==
  ASSUME AInv0, NEW p \in Procs, Forget(p), marker' = marker
  PROVE  /\ CountsMarked'
         /\ \A q \in Procs : /\ outage'[q].owed \subseteq outage[q].owed
                             /\ held'[q]["denied"] \subseteq held[q]["denied"]
                             /\ held'[q]["reads"] \subseteq held[q]["reads"]
         /\ \A q \in Procs \ {p} : Held(q)' = Held(q)
         /\ \A c \in InMemory(p) : c \in Reported'
         /\ \A c : Pending(c) => Pending(c)' \/ c \in Reported'
<1>1. /\ lost' = lost \cup InMemory(p) /\ outage'[p].owed = {} /\ ~outage'[p].on
      /\ held'[p]["denied"] = {} /\ held'[p]["reads"] = {}
      /\ \A q \in Procs \ {p} : outage'[q] = outage[q] /\ held'[q] = held[q]
  BY ForgetTypes DEF AInv0
<1>2. CountsMarked'
  BY <1>1 DEF AInv0, CountsMarked
<1>3. \A q \in Procs : /\ outage'[q].owed \subseteq outage[q].owed
                       /\ held'[q]["denied"] \subseteq held[q]["denied"]
                       /\ held'[q]["reads"] \subseteq held[q]["reads"]
  BY <1>1
<1>4. \A q \in Procs \ {p} : Held(q)' = Held(q) /\ InMemory(q)' = InMemory(q)
  BY <1>1 DEF Held, InMemory
<1>5. \A c \in InMemory(p) : c \in Reported'
  BY <1>1 DEF Reported
<1>6. \A c : Pending(c) => Pending(c)' \/ c \in Reported'
  BY <1>4, <1>5 DEF Pending
<1>7. QED
  BY <1>2, <1>3, <1>4, <1>5, <1>6

\* A new process: what the old one held in memory is named lost.
LEMMA RestartKept ==
  ASSUME AInv0, NEW p \in Procs, Restart(p), Reported \subseteq Reported'
  PROVE  Kept
<1>1. TypeOK /\ SectionOK /\ p \in Tasks /\ p \notin Calls /\ "idle" \in ProcStages /\ Goes(p, "idle")
      /\ Forget(p) /\ marker' = marker /\ lock' = lock
  BY CallLogConstantsOK DEF AInv0, Tasks, ProcStages, Restart
<1>2. \A c \in Calls : job'[c] = job[c]
  BY <1>1, GoesType DEF Tasks
<1>3. \A c \in Calls : Done(c)' <=> Done(c)
  BY <1>1, <1>2 DEF Done
<1>4. ASSUME NEW c \in Calls, Done(c)' PROVE c \in Reported' \cup Held(lock.proc)'
  <2>1. c \in Reported \cup Held(lock.proc) /\ lock.proc \in Procs /\ lock'.proc = lock.proc
    BY <1>1, <1>3, <1>4, SectionTypes DEF AInv0, NotYetCounted, Done
  <2>2. CASE lock.proc = p
    BY <1>1, <2>1, <2>2, ForgetDrops DEF InMemory
  <2>3. CASE lock.proc # p
    BY <1>1, <2>1, <2>3, ForgetDrops
  <2>4. QED
    BY <2>2, <2>3
<1>5. QED
  BY <1>1, <1>2, <1>3, <1>4, ForgetDrops, ShrinkStep

\* A crash: what the process held in memory is named lost, its requests are killed.
LEMMA CrashKept ==
  ASSUME AInv0, NEW p \in Procs, Crash(p), Reported \subseteq Reported'
  PROVE  Kept
<1>1. TypeOK /\ SectionOK /\ Forget(p) /\ marker' = marker
  BY DEF AInv0, Crash
<1>2. /\ \A c \in Calls : IF Running(c, p) THEN job'[c].at = "killed" ELSE job'[c] = job[c]
      /\ IF lock.taken /\ lock.proc = p THEN ~lock'.taken ELSE lock' = lock
  BY <1>1, CrashJobs, CrashFiles DEF Free
<1>3. ASSUME NEW c \in Calls, lock.taken, lock.by = c, lock.proc = p PROVE Running(c, p)
  BY <1>1, <1>3, SectionTask DEF Running
<1>4. ASSUME NEW c \in Calls, Done(c)' PROVE c \in Reported' \cup Held(lock.proc)'
  <2>1. lock' = lock /\ lock.taken /\ lock.proc # p /\ job'[c] = job[c]
    BY <1>2, <1>4 DEF Done
  <2>2. Done(c) /\ lock.proc \in Procs
    BY <1>1, <1>4, <2>1, SectionTypes DEF Done
  <2>3. c \in Reported \cup Held(lock.proc)
    BY <2>2 DEF AInv0, NotYetCounted
  <2>4. QED
    BY <1>1, <2>1, <2>2, <2>3, ForgetDrops
<1>5. ASSUME NEW c \in Calls, ~Done(c)', job'[c].at \notin Over PROVE job[c].at \notin Over /\ ~Done(c)
  <2>1. ~Running(c, p) /\ job'[c] = job[c]
    BY <1>2, <1>5 DEF Over
  <2>2. ASSUME Done(c) PROVE FALSE
    <3>1. lock.taken /\ lock.by = c /\ lock.proc # p
      BY <1>3, <2>1, <2>2 DEF Done
    <3>2. lock' = lock
      BY <1>2, <3>1
    <3>3. QED
      BY <1>5, <2>1, <2>2, <3>2 DEF Done
  <2>3. QED
    BY <1>5, <2>1, <2>2
<1>6. \A c \in Calls : job'[c].at \in {"answered", "refused"} => job[c].at \in {"answered", "refused"}
  BY <1>2
<1>7. QED
  BY <1>1, <1>4, <1>5, <1>6, ForgetDrops, ShrinkStep

\* What a failure adds was counted nowhere, or in the summaries of its own process.
LEMMA OwesWhat ==
  ASSUME AInv0, NEW t \in Tasks, Failed(t), Marked(t)
  PROVE  LET q == Proc(t) IN
         /\ q \in Procs
         /\ \A p \in Procs \ {q} : held'[p] = held[p]
         /\ \/ /\ t \in Calls /\ Owes(t) = {t} /\ ~Pending(t) /\ held' = held
               /\ job[t].at \in {"refusing", "unlogged"}
            \/ t \in Procs /\ Owes(t) = {} /\ held' = held
            \/ /\ t = q /\ t \in Procs /\ Owes(t) = Held(q)
               /\ held'[q]["denied"] = {} /\ held'[q]["reads"] = {}
<1> DEFINE q == Proc(t)
<1>1. TypeOK /\ q \in Procs /\ (t \in Procs => q = t) /\ t \in Calls \cup Procs
  BY TaskTypes DEF AInv0
<1>2. CASE t \in Calls
  <2>1. Owes(t) = {t} /\ job[t].at \in {"refusing", "unlogged"}
    BY <1>1, <1>2, NextStage
  <2>2. held' = held
    BY <2>1 DEF Marked
  <2>3. ~Pending(t)
    BY <1>2, <2>1 DEF AInv0, NotYetCounted, Done, Over
  <2>4. QED
    BY <1>1, <1>2, <2>1, <2>2, <2>3
<1>3. CASE t \in Procs /\ job[t].at = "exitfailed"
  <2>1. Owes(t) = Held(q)
    BY <1>1, <1>3 DEF Owes
  <2>2. held' = [held EXCEPT ![t] = [k \in Kinds |-> {}]]
    BY <1>3 DEF Marked
  <2>3. held \in [Procs -> [Kinds -> SUBSET Calls]]
    BY <1>1, SameTypes
  <2>4. held'[q] = [k \in Kinds |-> {}] /\ \A p \in Procs \ {q} : held'[p] = held[p]
    BY <1>1, <1>3, <2>2, <2>3
  <2>5. held'[q]["denied"] = {} /\ held'[q]["reads"] = {}
    BY <2>4 DEF Kinds
  <2>6. QED
    BY <1>1, <1>3, <2>1, <2>4, <2>5
<1>4. CASE t \in Procs /\ job[t].at # "exitfailed"
  <2>1. job[t].at \in {"flushfailed", "exitflush"}
    BY <1>1, <1>4, NextStage, CallLogConstantsOK DEF Failed
  <2>2. Owes(t) = {} /\ held' = held
    BY <1>4, <2>1 DEF Owes, Marked
  <2>3. QED
    BY <1>1, <1>4, <2>2
<1>5. QED
  BY <1>1, <1>2, <1>3, <1>4

\* Counting a failure: what the process owed and owes now moves into one count.
LEMMA MovedOnce ==
  ASSUME AInv0, NEW t \in Tasks, Failed(t), Marked(t), Reported \subseteq Reported',
         CountsMarked', lock' = lock, NEW q \in Procs, q = Proc(t), lock.taken => lock.proc # q,
         \A p \in Procs \ {q} : outage'[p] = outage[p],
         \/ /\ marker'.owed \subseteq marker.owed \cup outage[q].owed \cup Owes(t)
            /\ outage[q].owed \cup Owes(t) \subseteq marker'.owed
            /\ \A c \in marker.owed : c \in marker'.owed \cup Reported'
            /\ outage'[q].owed = {}
         \/ /\ marker' = marker
            /\ outage'[q].owed = outage[q].owed \cup Owes(t)
  PROVE  Kept
<1> DEFINE owed == outage[q].owed \cup Owes(t)
<1>1. /\ q \in Procs
      /\ \A p \in Procs \ {q} : held'[p] = held[p]
      /\ \/ /\ t \in Calls /\ Owes(t) = {t} /\ ~Pending(t) /\ held' = held
            /\ job[t].at \in {"refusing", "unlogged"}
         \/ t \in Procs /\ Owes(t) = {} /\ held' = held
         \/ /\ t = q /\ t \in Procs /\ Owes(t) = Held(q)
            /\ held'[q]["denied"] = {} /\ held'[q]["reads"] = {}
  BY OwesWhat
<1>2. TypeOK /\ SectionOK /\ CountedOnce
  BY DEF AInv0, NothingVanishes
<1>3. \A p \in Procs \ {q} : InMemory(p)' = InMemory(p)
  BY <1>1 DEF InMemory, Held
<1>4. /\ Held(q)' \subseteq Held(q) /\ owed \cap Held(q)' = {}
      /\ Held(q) \subseteq Held(q)' \cup Owes(t)
      /\ held'[q]["denied"] \cap held'[q]["reads"] = {}
  <2>1. outage[q].owed \cap Held(q) = {} /\ held[q]["denied"] \cap held[q]["reads"] = {}
    BY <1>1, <1>2 DEF CountedOnce
  <2>2. CASE t \in Calls /\ Owes(t) = {t} /\ ~Pending(t) /\ held' = held
    <3>1. Held(q)' = Held(q) /\ t \notin Held(q)
      BY <1>1, <2>2 DEF Held, Pending, InMemory
    <3>2. QED
      BY <2>1, <2>2, <3>1
  <2>3. CASE Owes(t) = {} /\ held' = held
    <3>1. Held(q)' = Held(q)
      BY <2>3 DEF Held
    <3>2. QED
      BY <2>1, <2>3, <3>1
  <2>4. CASE Owes(t) = Held(q) /\ held'[q]["denied"] = {} /\ held'[q]["reads"] = {}
    <3>1. Held(q)' = {}
      BY <2>4 DEF Held
    <3>2. QED
      BY <2>4, <3>1
  <2>5. QED
    BY <1>1, <2>2, <2>3, <2>4
<1>5. \A p \in Procs \ {q} : owed \cap InMemory(p) = {}
  <2> SUFFICES ASSUME NEW p \in Procs \ {q} PROVE owed \cap InMemory(p) = {}
    OBVIOUS
  <2>1. InMemory(q) \cap InMemory(p) = {} /\ outage[q].owed \subseteq InMemory(q) /\ Held(q) \subseteq InMemory(q)
    BY <1>1, <1>2 DEF CountedOnce, InMemory
  <2>2. ~Pending(t) => t \notin InMemory(p)
    BY DEF Pending
  <2>3. QED
    BY <1>1, <2>1, <2>2
<1>6. \A p \in Procs : marker.owed \cap InMemory(p) = {}
  BY <1>2 DEF CountedOnce
<1>7. marker.owed \cap owed = {}
  <2>1. outage[q].owed \subseteq InMemory(q) /\ Held(q) \subseteq InMemory(q)
    BY DEF InMemory
  <2>2. ~Pending(t) => t \notin marker.owed
    BY DEF Pending
  <2>3. QED
    BY <1>1, <1>6, <2>1, <2>2
<1>8. InMemory(q)' = outage'[q].owed \cup Held(q)'
  BY DEF InMemory
<1> HIDE DEF owed
<1>9. CountedOnce'
  <2>1. \A p \in Procs : marker'.owed \cap InMemory(p)' = {}
    <3>1. \A p \in Procs \ {q} : marker'.owed \cap InMemory(p)' = {}
      BY <1>3, <1>5, <1>6 DEF owed
    <3>2. Held(q) \subseteq InMemory(q)
      BY DEF InMemory
    <3>3. marker'.owed \cap InMemory(q)' = {}
      BY <1>1, <1>4, <1>6, <1>7, <1>8, <3>2 DEF owed
    <3>4. QED
      BY <3>1, <3>3
  <2>2. \A p \in Procs : outage'[p].owed \cap Held(p)' = {} /\ held'[p]["denied"] \cap held'[p]["reads"] = {}
    <3>1. ASSUME NEW p \in Procs \ {q}
          PROVE  outage'[p].owed \cap Held(p)' = {} /\ held'[p]["denied"] \cap held'[p]["reads"] = {}
      <4>1. Held(p)' = Held(p) /\ held'[p] = held[p] /\ outage'[p] = outage[p]
        BY <1>1 DEF Held
      <4>2. QED
        BY <1>2, <4>1 DEF CountedOnce
    <3>2. outage'[q].owed \cap Held(q)' = {}
      BY <1>4 DEF owed
    <3>3. QED
      BY <1>4, <3>1, <3>2
  <2>3. \A p \in Procs, r \in Procs : p # r => InMemory(p)' \cap InMemory(r)' = {}
    <3>1. ASSUME NEW p \in Procs \ {q} PROVE InMemory(p)' \cap InMemory(q)' = {}
      <4>1. InMemory(p) \cap InMemory(q) = {} /\ Held(q) \subseteq InMemory(q)
        BY <1>1, <1>2 DEF CountedOnce, InMemory
      <4>2. InMemory(q)' \subseteq owed \cup Held(q)
        BY <1>4, <1>8 DEF owed
      <4>3. QED
        BY <1>3, <1>5, <4>1, <4>2
    <3>2. ASSUME NEW p \in Procs \ {q}, NEW r \in Procs \ {q}, p # r PROVE InMemory(p)' \cap InMemory(r)' = {}
      BY <1>2, <1>3, <3>2 DEF CountedOnce
    <3>3. QED
      BY <3>1, <3>2
  <2>4. QED
    BY <2>1, <2>2, <2>3 DEF CountedOnce
<1>10. ASSUME NEW c, Pending(c) PROVE Pending(c)' \/ c \in Reported'
  <2>1. ASSUME c \in owed PROVE Pending(c)'
    BY <1>1, <1>8, <2>1 DEF owed, Pending
  <2>2. CASE c \in marker.owed
    BY <2>2 DEF Pending
  <2>3. CASE c \in outage[q].owed
    BY <2>1, <2>3 DEF owed
  <2>4. CASE c \in Held(q)
    <3>1. c \in Held(q)' \/ c \in owed
      BY <1>4, <2>4 DEF owed
    <3>2. QED
      BY <1>1, <1>8, <2>1, <3>1 DEF Pending
  <2>5. ASSUME NEW p \in Procs \ {q}, c \in InMemory(p) PROVE Pending(c)'
    BY <1>3, <2>5 DEF Pending
  <2>6. QED
    BY <1>10, <2>2, <2>3, <2>4, <2>5 DEF Pending, InMemory
<1>11. ASSUME NEW c, Pending(c)' PROVE Pending(c) \/ (t \in Calls /\ c = t)
  <2>1. c \in owed => Pending(c) \/ (t \in Calls /\ c = t)
    BY <1>1 DEF owed, Pending, InMemory
  <2>2. c \in Held(q)' => Pending(c)
    BY <1>1, <1>4 DEF Pending, InMemory
  <2>3. c \in marker'.owed => Pending(c) \/ c \in owed
    BY DEF Pending, owed
  <2>4. c \in InMemory(q)' => c \in owed \/ c \in Held(q)'
    BY <1>8 DEF owed
  <2>5. \A p \in Procs \ {q} : c \in InMemory(p)' => Pending(c)
    BY <1>3 DEF Pending
  <2>6. QED
    BY <1>11, <2>1, <2>2, <2>3, <2>4, <2>5 DEF Pending
<1>12. /\ \A u \in Tasks \ {t} : job'[u] = job[u]
       /\ job'[t].at = AfterMark(t)
       /\ t \in Calls => t \in owed /\ job'[t].at \in Over
  <2>1. (\A u \in Tasks \ {t} : job'[u] = job[u]) /\ job'[t].at = AfterMark(t)
    BY <1>2, NextStage, GoesType DEF Marked
  <2>2. t \in Calls => job[t].at \in {"refusing", "unlogged"} /\ Owes(t) = {t}
    BY <1>2, NextStage
  <2>3. QED
    BY <2>1, <2>2 DEF AfterMark, Over, owed
<1>13. t \in Calls => Pending(t)'
  BY <1>1, <1>8, <1>12 DEF Pending, owed
<1>14. ASSUME NEW c \in Calls, job'[c].at \in {"answered", "refused"} PROVE c \in Reported' \/ Pending(c)'
  <2>1. CASE c = t
    BY <1>13, <2>1
  <2>2. CASE c # t
    <3>1. job'[c] = job[c]
      BY <1>12, <2>2 DEF Tasks
    <3>2. c \in Reported \/ Pending(c)
      BY <1>14, <3>1 DEF AInv0, NothingVanishes, Reported, Pending
    <3>3. QED
      BY <1>10, <3>2
  <2>3. QED
    BY <2>1, <2>2
<1>15. NothingVanishes'
  BY <1>9, <1>14 DEF NothingVanishes, Reported, Pending
<1>16. lock.taken => lock.by # t
  BY <1>2, SectionTask
<1>17. NotYetCounted'
  <2> SUFFICES ASSUME NEW c \in Calls
               PROVE  IF Done(c)' THEN c \in Reported' \cup Held(lock.proc)'
                      ELSE job'[c].at \notin Over => ~Pending(c)'
    BY DEF NotYetCounted
  <2>1. CASE c = t
    BY <1>12, <1>16, <2>1 DEF Done
  <2>2. CASE c # t
    <3>1. job'[c] = job[c]
      BY <1>12, <2>2 DEF Tasks
    <3>2. Done(c)' <=> Done(c)
      BY <3>1 DEF Done
    <3>3. CASE Done(c)
      <4>1. lock.proc \in Procs \ {q} /\ c \in Reported \cup Held(lock.proc) /\ lock'.proc = lock.proc
        BY <1>2, <3>3, SectionTypes DEF AInv0, NotYetCounted, Done
      <4>2. Held(lock.proc)' = Held(lock.proc)
        BY <1>1, <4>1 DEF Held
      <4>3. QED
        BY <3>2, <3>3, <4>1, <4>2
    <3>4. CASE ~Done(c)
      <4>1. job'[c].at \notin Over => ~Pending(c)
        BY <3>1, <3>4 DEF AInv0, NotYetCounted
      <4>2. QED
        BY <1>11, <2>2, <3>2, <3>4, <4>1
    <3>5. QED
      BY <3>3, <3>4
  <2>3. QED
    BY <2>1, <2>2
<1>18. QED
  BY <1>15, <1>17 DEF Kept

\* Counting a failure in the DEGRADED file, and counting it in memory.
LEMMA MarkKept ==
  ASSUME AInv0, NEW t \in Tasks, Mark(t), Reported \subseteq Reported'
  PROVE  Kept
<1>1. TypeOK /\ SectionOK /\ CountsMarked /\ Failed(t) /\ Marked(t) /\ lock' = lock /\ ~lock.taken
  BY DEF AInv0, Mark
<1>2. PICK q \in Procs : q = Proc(t)
  BY <1>1, TaskTypes
<1>3. /\ Increment(t) \in Counts /\ Increment(t).on = TRUE
      /\ Increment(t).owed = outage[q].owed \cup Owes(t)
  BY <1>1, <1>2, MarkedTypes
<1>4. outage \in [Procs -> Counts] /\ marker \in Counts /\ outage' = [outage EXCEPT ![q] = NoOutage]
  BY <1>1, <1>2, SameTypes DEF Mark
<1>5. /\ outage'[q] = NoOutage /\ NoOutage \in Counts /\ NoOutage.owed = {}
      /\ \A p \in Procs \ {q} : outage'[p] = outage[p]
  BY <1>4, CombineType, <1>3
<1>6. PICK readable \in BOOLEAN :
        /\ IF readable THEN UNCHANGED lost ELSE lost' = lost \cup marker.owed
        /\ marker' = Combine(IF readable THEN marker ELSE NoOutage, Increment(t))
  BY DEF Mark
<1>7. /\ marker'.owed = (IF readable THEN marker.owed ELSE {}) \cup Increment(t).owed
      /\ marker'.on = TRUE
  <2>1. CASE readable
    <3>1. marker' = Combine(marker, Increment(t))
      BY <1>6, <2>1
    <3>2. QED
      BY <1>3, <1>4, <2>1, <3>1, CombineType
  <2>2. CASE ~readable
    <3>1. marker' = Combine(NoOutage, Increment(t))
      BY <1>6, <2>2
    <3>2. QED
      BY <1>3, <1>5, <2>2, <3>1, CombineType
  <2>3. QED
    BY <2>1, <2>2
<1>8. \A c \in marker.owed : c \in marker'.owed \cup Reported'
  BY <1>6, <1>7 DEF Reported
<1>9. CountsMarked'
  <2>1. \A p \in Procs : ~outage'[p].on => outage'[p].owed = {}
    BY <1>1, <1>5 DEF CountsMarked
  <2>2. QED
    BY <1>7, <2>1 DEF CountsMarked
<1>10. /\ marker'.owed \subseteq marker.owed \cup outage[q].owed \cup Owes(t)
       /\ outage[q].owed \cup Owes(t) \subseteq marker'.owed
  BY <1>3, <1>7
<1>11. QED
  BY <1>1, <1>2, <1>5, <1>8, <1>9, <1>10, MovedOnce

\* Counting in memory, when the DEGRADED file cannot be written.
LEMMA MarkFailsKept ==
  ASSUME AInv0, NEW t \in Tasks, MarkFails(t), Reported \subseteq Reported'
  PROVE  Kept
<1>1. /\ TypeOK /\ SectionOK /\ CountsMarked /\ Failed(t) /\ Marked(t) /\ lock' = lock
      /\ marker' = marker /\ (lock.taken => lock.proc # Proc(t))
  BY DEF AInv0, MarkFails
<1>2. PICK q \in Procs : q = Proc(t)
  BY <1>1, TaskTypes
<1>3. /\ Increment(t) \in Counts /\ Increment(t).on = TRUE
      /\ Increment(t).owed = outage[q].owed \cup Owes(t)
  BY <1>1, <1>2, MarkedTypes
<1>4. outage \in [Procs -> Counts] /\ outage' = [outage EXCEPT ![q] = Increment(t)]
  BY <1>1, <1>2, SameTypes DEF MarkFails
<1>5. outage'[q] = Increment(t) /\ \A p \in Procs \ {q} : outage'[p] = outage[p]
  BY <1>4
<1>6. CountsMarked'
  BY <1>1, <1>3, <1>5 DEF CountsMarked
<1>7. QED
  BY <1>1, <1>2, <1>3, <1>5, <1>6, MovedOnce

\* The cap: a call over it is counted in the open summary.
LEMMA WindowKept ==
  ASSUME AInv0, NEW t \in Tasks, Window(t), Reported \subseteq Reported'
  PROVE  Kept
<1>1. /\ TypeOK /\ SectionOK /\ CountedOnce /\ CountsMarked /\ NotYetCounted /\ lock.taken /\ lock.by = t
      /\ lock.plan # <<>> /\ Head(lock.plan) = "window" /\ job' = job /\ UNCHANGED <<marker, outage>>
  BY DEF AInv0, NothingVanishes, Window, Step, Working
<1>2. t \in Calls /\ Tail(lock.plan) # <<>> /\ job[t].at = "recording"
  <2>1. /\ "window" \notin Kinds => lock.by \in Calls
        /\ job[lock.by].at = "recording" /\ Tail(lock.plan) # <<>>
    BY <1>1, HeadOfPlan
  <2>2. QED
    BY <1>1, <2>1 DEF Kinds
<1>3. PICK p \in Procs : p = lock.proc
  BY <1>1, SectionTypes
<1>4. PICK k \in Kinds : k = IF job[t].kind = "denied" THEN "denied" ELSE "reads"
  BY DEF Kinds
<1>5. DOMAIN lock = {"taken", "by", "proc", "plan", "head", "day", "kept", "known"} /\ lock \in Sections
  BY <1>1, SectionTypes DEF Sections
<1>6. \A c \in Calls : ~Done(c)
  BY <1>1 DEF Done
<1>7. CASE seen[p][k] = 0 /\ held[p][k] # {}
  <2>1. held' = held /\ lock' = [lock EXCEPT !.plan = <<k>> \o lock.plan]
    BY <1>3, <1>4, <1>7 DEF Window
  <2>2. lock'.plan = <<k>> \o lock.plan
    BY <1>5, <2>1
  <2>3. lock'.plan # <<>>
    <3>1. lock.plan \in Seq(StepNames) /\ k \in StepNames
      BY <1>1, SectionTypes DEF StepNames, Appends, Kinds
    <3>2. Len(<<k>> \o lock.plan) = 1 + Len(lock.plan) /\ Len(lock.plan) \in Nat
      BY <3>1
    <3>3. QED
      BY <2>2, <3>2
  <2>4. \A c \in Calls : ~Done(c)'
    BY <2>3 DEF Done
  <2>5. QED
    BY <1>1, <1>6, <2>1, <2>4, OnwardStep
<1>8. CASE ~(seen[p][k] = 0 /\ held[p][k] # {})
  <2>1. PICK n : n = IF seen[p][k] > Cap THEN seen[p][k] ELSE seen[p][k] + 1
    OBVIOUS
  <2>2. /\ held' = IF n > Cap THEN [held EXCEPT ![p][k] = held[p][k] \cup {t}] ELSE held
        /\ lock' = [lock EXCEPT !.plan = IF n > Cap THEN <<>> ELSE Tail(lock.plan)]
    BY <1>3, <1>4, <1>8, <2>1 DEF Window
  <2>3. /\ lock'.plan = (IF n > Cap THEN <<>> ELSE Tail(lock.plan))
        /\ lock'.taken = lock.taken /\ lock'.by = lock.by /\ lock'.proc = lock.proc
    BY <1>5, <2>2
  <2>4. CASE ~(n > Cap)
    <3>1. held' = held /\ lock'.plan # <<>>
      BY <1>2, <2>2, <2>3, <2>4
    <3>2. \A c \in Calls : ~Done(c)'
      BY <3>1 DEF Done
    <3>3. QED
      BY <1>1, <1>6, <3>1, <3>2, OnwardStep
  <2>5. CASE n > Cap
    <3>1. /\ held[p][k] \subseteq Calls /\ held'[p][k] = held[p][k] \cup {t}
          /\ \A m \in Kinds \ {k} : held'[p][m] = held[p][m]
          /\ \A r \in Procs \ {p} : held'[r] = held[r]
      <4>1. held \in [Procs -> [Kinds -> SUBSET Calls]]
        BY <1>1, SameTypes
      <4>2. held' = [held EXCEPT ![p][k] = held[p][k] \cup {t}]
        BY <2>2, <2>5
      <4>3. QED
        BY <4>1, <4>2
    <3>2. ~Pending(t)
      BY <1>1, <1>2, <1>6 DEF NotYetCounted, Over
    <3>3. /\ Held(p)' = Held(p) \cup {t}
          /\ \A r \in Procs \ {p} : Held(r)' = Held(r)
      BY <1>4, <3>1 DEF Held, Kinds
    <3>4. /\ InMemory(p)' = InMemory(p) \cup {t}
          /\ \A r \in Procs \ {p} : InMemory(r)' = InMemory(r)
      BY <1>1, <3>3 DEF InMemory
    <3>5. t \notin marker.owed /\ \A r \in Procs : t \notin InMemory(r) /\ t \notin outage[r].owed /\ t \notin Held(r)
      BY <3>2 DEF Pending, InMemory
    <3>6. CountedOnce'
      <4> SUFFICES ASSUME NEW r \in Procs
                   PROVE  /\ marker'.owed \cap InMemory(r)' = {}
                          /\ outage'[r].owed \cap Held(r)' = {}
                          /\ held'[r]["denied"] \cap held'[r]["reads"] = {}
                          /\ \A s \in Procs \ {r} : InMemory(r)' \cap InMemory(s)' = {}
        BY DEF CountedOnce
      <4>1. marker'.owed \cap InMemory(r)' = {} /\ outage'[r].owed \cap Held(r)' = {}
        <5>1. CASE r = p
          BY <1>1, <3>3, <3>4, <3>5, <5>1 DEF CountedOnce
        <5>2. CASE r # p
          BY <1>1, <3>3, <3>4, <5>2 DEF CountedOnce
        <5>3. QED
          BY <5>1, <5>2
      <4>2. held'[r]["denied"] \cap held'[r]["reads"] = {}
        <5>1. CASE r # p
          BY <1>1, <3>1, <5>1 DEF CountedOnce
        <5>2. CASE r = p
          <6>1. held[p]["denied"] \cap held[p]["reads"] = {}
            BY <1>1 DEF CountedOnce
          <6>2. t \notin held[p]["denied"] /\ t \notin held[p]["reads"]
            BY <3>5 DEF Held
          <6>3. CASE k = "denied"
            BY <3>1, <5>2, <6>1, <6>2, <6>3 DEF Kinds
          <6>4. CASE k = "reads"
            BY <3>1, <5>2, <6>1, <6>2, <6>4 DEF Kinds
          <6>5. QED
            BY <1>4, <6>3, <6>4
        <5>3. QED
          BY <5>1, <5>2
      <4>3. ASSUME NEW s \in Procs \ {r} PROVE InMemory(r)' \cap InMemory(s)' = {}
        <5>1. InMemory(r) \cap InMemory(s) = {}
          BY <1>1 DEF CountedOnce
        <5>2. InMemory(r)' = InMemory(r) \/ (r = p /\ InMemory(r)' = InMemory(r) \cup {t})
          BY <3>4
        <5>3. InMemory(s)' = InMemory(s) \/ (s = p /\ InMemory(s)' = InMemory(s) \cup {t})
          BY <3>4
        <5>4. QED
          BY <3>5, <5>1, <5>2, <5>3
      <4>4. QED
        BY <4>1, <4>2, <4>3
    <3>7. \A c : Pending(c) => Pending(c)'
      BY <1>1, <3>4 DEF Pending
    <3>8. \A c : Pending(c)' => Pending(c) \/ c = t
      BY <1>1, <3>4 DEF Pending
    <3>9. NothingVanishes'
      <4>1. ASSUME NEW c \in Calls, job'[c].at \in {"answered", "refused"}
            PROVE  c \in Reported' \/ Pending(c)'
        <5>1. c \in Reported \/ Pending(c)
          BY <1>1, <4>1 DEF AInv0, NothingVanishes, Reported, Pending
        <5>2. QED
          BY <3>7, <5>1
      <4>2. QED
        BY <3>6, <4>1 DEF NothingVanishes, Reported, Pending
    <3>10. NotYetCounted'
      <4> SUFFICES ASSUME NEW c \in Calls
                   PROVE  IF Done(c)' THEN c \in Reported' \cup Held(lock.proc)'
                          ELSE job'[c].at \notin Over => ~Pending(c)'
        BY DEF NotYetCounted
      <4>1. CASE c = t
        <5>1. c \in Held(lock.proc)'
          <6>1. lock'.proc = p
            BY <1>3, <2>3
          <6>2. Held(lock.proc)' = Held(p)'
            BY <6>1 DEF Held
          <6>3. QED
            BY <3>3, <4>1, <6>2
        <5>2. Done(c)'
          BY <1>1, <1>2, <2>3, <2>5, <4>1 DEF Done
        <5>3. QED
          BY <5>1, <5>2
      <4>2. CASE c # t
        <5>1. ~Done(c)'
          BY <1>1, <2>3, <4>2 DEF Done
        <5>2. job'[c].at \notin Over => ~Pending(c)
          BY <1>1, <1>6 DEF NotYetCounted
        <5>3. QED
          BY <3>8, <4>2, <5>1, <5>2
      <4>3. QED
        BY <4>1, <4>2
    <3>11. CountsMarked'
      BY <1>1 DEF CountsMarked
    <3>12. QED
      BY <3>9, <3>10, <3>11 DEF Kept
  <2>6. QED
    BY <2>4, <2>5
<1>9. QED
  BY <1>7, <1>8

-----------------------------------------------------------------------------
(* A gap comes first *)

\* A section goes on: it never forgets a gap it has not reported, nor a count it has not cleared.
LEMMA GapStays ==
  ASSUME GapInOrder, Reported \subseteq Reported', faults' = 0 => faults = 0,
         lock'.taken /\ lock'.by \in Calls =>
           /\ lock.taken /\ lock'.by = lock.by /\ lock'.proc = lock.proc /\ lock'.known = lock.known
           /\ marker'.owed \subseteq marker.owed
           /\ outage'[lock.proc].owed \subseteq outage[lock.proc].owed
           /\ ~ToReport' => ~ToReport \/ lock.known.owed \subseteq Reported'
           /\ ToClear => ToClear' \/ outage'[lock.proc].owed = {}
  PROVE  GapInOrder'
<1> SUFFICES ASSUME lock'.taken, lock'.by \in Calls
             PROVE  /\ ~ToReport' => lock'.known.owed \subseteq Reported'
                    /\ outage'[lock'.proc].owed \subseteq (IF ToClear' THEN lock'.known.owed ELSE {})
                    /\ faults' = 0 => marker'.owed \subseteq lock'.known.owed
  BY DEF GapInOrder
<1>1. /\ lock'.proc = lock.proc /\ lock'.known = lock.known /\ lock.taken /\ lock.by \in Calls
      /\ marker'.owed \subseteq marker.owed
      /\ outage'[lock.proc].owed \subseteq outage[lock.proc].owed
      /\ ~ToReport' => ~ToReport \/ lock.known.owed \subseteq Reported'
      /\ ToClear => ToClear' \/ outage'[lock.proc].owed = {}
  OBVIOUS
<1>2. /\ ~ToReport => lock.known.owed \subseteq Reported
      /\ outage[lock.proc].owed \subseteq (IF ToClear THEN lock.known.owed ELSE {})
      /\ faults = 0 => marker.owed \subseteq lock.known.owed
  BY <1>1 DEF GapInOrder
<1> QED
  BY <1>1, <1>2

\* A section's first look: what it knows is everything counted, and the gap is its first step.
LEMMA BeginGap ==
  ASSUME AInv0, NEW t \in Tasks, Begin(t)
  PROVE  GapInOrder'
<1>1. TypeOK /\ CountsMarked /\ UNCHANGED <<marker, outage>>
  BY DEF AInv0, Begin
<1>2. PICK p \in Procs : p = Proc(t)
  BY <1>1, TaskTypes
<1>3. PICK readable \in BOOLEAN :
        /\ IF readable THEN NoFault ELSE Fault
        /\ lock' = [taken |-> TRUE, by |-> t, proc |-> Proc(t),
                    plan |-> Plan(t, Combine(IF readable THEN marker ELSE NoOutage, outage[Proc(t)])),
                    head |-> HeadSeq, day |-> today, kept |-> FALSE,
                    known |-> Combine(IF readable THEN marker ELSE NoOutage, outage[Proc(t)])]
  BY DEF Begin
<1>4. PICK read \in Counts : read = IF readable THEN marker ELSE NoOutage
  BY <1>1, CombineType, SameTypes
<1>5. PICK known \in Counts : known = Combine(read, outage[p])
  BY <1>1, CombineType, SameTypes
<1>6. lock'.by = t /\ lock'.proc = p /\ lock'.plan = Plan(t, known) /\ lock'.known = known
  BY <1>2, <1>3, <1>4, <1>5
<1>7. known.owed = read.owed \cup outage[p].owed /\ known.on = (read.on \/ outage[p].on)
  BY <1>1, <1>5, SameTypes, CombineType
<1>8. ~known.on => known.owed = {}
  <2>1. ~read.on => read.owed = {}
    BY <1>1, <1>4, CombineType DEF CountsMarked
  <2>2. ~outage[p].on => outage[p].owed = {}
    BY <1>1 DEF CountsMarked
  <2>3. QED
    BY <1>7, <2>1, <2>2
<1>9. faults' = 0 => marker.owed \subseteq known.owed
  <2>1. CASE readable
    BY <1>4, <1>7, <2>1
  <2>2. CASE ~readable
    <3>1. faults' = faults + 1 /\ faults \in Nat
      BY <1>1, <1>3, <2>2, SameTypes DEF Fault
    <3>2. QED
      BY <3>1
  <2>3. QED
    BY <2>1, <2>2
<1> SUFFICES ASSUME lock'.taken, lock'.by \in Calls
             PROVE  /\ ~ToReport' => lock'.known.owed \subseteq Reported'
                    /\ outage'[lock'.proc].owed \subseteq (IF ToClear' THEN lock'.known.owed ELSE {})
                    /\ faults' = 0 => marker'.owed \subseteq lock'.known.owed
  BY DEF GapInOrder
<1>10. known.on => Plan(t, known) # <<>> /\ Head(Plan(t, known)) = "gap"
  <2>1. job[t].at \in {"preflight", "recording", "flushing", "paging", "exiting"}
    BY DEF Begin, Wants
  <2>2. QED
    BY <1>1, <1>6, <2>1, PlanFits
<1>11. CASE known.on
  <2>1. ToReport' /\ ToClear'
    BY <1>6, <1>10, <1>11 DEF ToReport, ToClear
  <2>2. outage'[lock'.proc].owed \subseteq known.owed
    BY <1>1, <1>6, <1>7
  <2>3. QED
    BY <1>1, <1>6, <1>9, <2>1, <2>2
<1>12. CASE ~known.on
  <2>1. known.owed = {} /\ outage[p].owed = {}
    BY <1>7, <1>8, <1>12
  <2>2. QED
    BY <1>1, <1>6, <1>9, <2>1
<1>13. QED
  BY <1>11, <1>12

\* Writing a line: it is the gap's, or the gap is already reported and cleared.
LEMMA WriteGap ==
  ASSUME AInv0, GapInOrder, NEW t \in Tasks, Write(t)
  PROVE  GapInOrder'
<1>1. /\ TypeOK /\ SectionOK /\ lock.taken /\ lock.plan # <<>> /\ Head(lock.plan) \in Appends
      /\ UNCHANGED <<marker, outage>>
  BY DEF AInv0, Write, Ready, Appending, Working
<1>2. /\ lock' = [lock EXCEPT !.plan = Tail(lock.plan), !.head = lock.head + 1, !.day = today, !.kept = FALSE]
      /\ DOMAIN lock = {"taken", "by", "proc", "plan", "head", "day", "kept", "known"}
  BY <1>1, SectionTypes DEF Write, Sections
<1>3. /\ lock'.taken = lock.taken /\ lock'.by = lock.by /\ lock'.proc = lock.proc
      /\ lock'.known = lock.known /\ lock'.plan = Tail(lock.plan)
  BY <1>2
<1>4. /\ Reported \subseteq Reported' /\ NewLine.calls \subseteq Reported'
  BY <1>1, WriteReports
<1>5. faults' = 0 => faults = 0
  BY <1>1, FaultType DEF Write
<1>6. CASE Head(lock.plan) = "gap"
  <2>1. lock.known.owed \subseteq Reported'
    <3>1. NewLine.calls = CallsOf("gap")
      BY <1>6 DEF NewLine
    <3>2. CallsOf("gap") = lock.known.owed
      BY DEF CallsOf, Kinds
    <3>3. QED
      BY <1>4, <3>1, <3>2
  <2>2. ToClear'
    <3>1. Tail(lock.plan) # <<>> /\ Head(Tail(lock.plan)) = "clear"
      BY <1>1, <1>6, HeadOfPlan
    <3>2. QED
      BY <1>3, <3>1 DEF ToClear
  <2>3. QED
    BY <1>1, <1>3, <1>4, <1>5, <2>1, <2>2, GapStays
<1>7. CASE Head(lock.plan) # "gap"
  <2>1. ~ToReport /\ ~ToClear
    BY <1>1, <1>7 DEF ToReport, ToClear, Appends
  <2>2. QED
    BY <1>1, <1>3, <1>4, <1>5, <2>1, GapStays
<1>8. QED
  BY <1>6, <1>7

\* Clearing comes right after the report, and empties the process's own count.
LEMMA ClearGap ==
  ASSUME AInv0, GapInOrder, NEW t \in Tasks, Clear(t), Reported \subseteq Reported'
  PROVE  GapInOrder'
<1>1. /\ TypeOK /\ lock.taken /\ lock.plan # <<>> /\ Head(lock.plan) = "clear"
      /\ outage' = [outage EXCEPT ![lock.proc] = NoOutage]
  BY DEF AInv0, Clear, Step, Working
<1>2. /\ lock' = [lock EXCEPT !.plan = Tail(lock.plan), !.day = today]
      /\ DOMAIN lock = {"taken", "by", "proc", "plan", "head", "day", "kept", "known"}
      /\ lock.proc \in Procs
  BY <1>1, SectionTypes DEF Clear, Sections
<1>3. /\ lock'.taken = lock.taken /\ lock'.by = lock.by /\ lock'.proc = lock.proc
      /\ lock'.known = lock.known
  BY <1>2
<1>4. outage'[lock.proc].owed = {}
  <2>1. outage \in [Procs -> Counts] /\ NoOutage.owed = {}
    BY <1>1, SameTypes DEF NoOutage
  <2>2. QED
    BY <1>1, <1>2, <2>1
<1>5. marker'.owed \subseteq marker.owed
  <2>1. NoOutage.owed = {}
    BY DEF NoOutage
  <2>2. QED
    BY <2>1 DEF Clear
<1>6. ~ToReport
  BY <1>1 DEF ToReport
<1>7. faults' = 0 => faults = 0
  BY <1>1, FaultType DEF Clear
<1>8. QED
  BY <1>1, <1>3, <1>4, <1>5, <1>6, <1>7, GapStays

\* The cap is looked at after the gap.
LEMMA WindowGap ==
  ASSUME AInv0, GapInOrder, NEW t \in Tasks, Window(t), Reported \subseteq Reported'
  PROVE  GapInOrder'
<1>1. /\ TypeOK /\ lock.taken /\ lock.plan # <<>> /\ Head(lock.plan) = "window"
      /\ UNCHANGED <<marker, outage, faults>>
  BY DEF AInv0, Window, Step, Working
<1>2. /\ \E plan : lock' = [lock EXCEPT !.plan = plan]
      /\ DOMAIN lock = {"taken", "by", "proc", "plan", "head", "day", "kept", "known"}
  BY <1>1, SectionTypes DEF Window, Sections
<1>3. /\ lock'.taken = lock.taken /\ lock'.by = lock.by /\ lock'.proc = lock.proc
      /\ lock'.known = lock.known
  BY <1>2
<1>4. ~ToReport /\ ~ToClear
  BY <1>1 DEF ToReport, ToClear
<1>5. QED
  BY <1>1, <1>3, <1>4, GapStays

\* Retention changes nothing of this.
LEMMA RetentionGap ==
  ASSUME AInv0, GapInOrder, NEW t \in Tasks, SaveAnchor(t) \/ Unlink(t), Reported \subseteq Reported'
  PROVE  GapInOrder'
<1>1. TypeOK /\ lock.taken /\ UNCHANGED <<marker, outage, faults>>
  BY DEF AInv0, SaveAnchor, Unlink, Appending, Working
<1>2. lock' = lock \/ lock' = [lock EXCEPT !.kept = TRUE]
  BY DEF SaveAnchor, Unlink
<1>3. DOMAIN lock = {"taken", "by", "proc", "plan", "head", "day", "kept", "known"}
  BY <1>1, SectionTypes DEF Sections
<1>4. /\ lock'.taken = lock.taken /\ lock'.by = lock.by /\ lock'.proc = lock.proc
      /\ lock'.known = lock.known /\ lock'.plan = lock.plan
  BY <1>2, <1>3
<1>5. (ToReport' <=> ToReport) /\ (ToClear' <=> ToClear)
  BY <1>4 DEF ToReport, ToClear
<1>6. QED
  BY <1>1, <1>4, <1>5, GapStays

\* No section is left: nothing to show.
LEMMA DroppedGap ==
  ASSUME ~lock'.taken
  PROVE  GapInOrder'
BY DEF GapInOrder

\* Steps of others leave a section's knowledge alone.
LEMMA OthersGap ==
  ASSUME AInv0, GapInOrder, Reported \subseteq Reported', lock' = lock, faults' = 0 => faults = 0,
         lock.taken => marker' = marker /\ outage'[lock.proc].owed \subseteq outage[lock.proc].owed
  PROVE  GapInOrder'
<1>1. (ToReport' <=> ToReport) /\ (ToClear' <=> ToClear)
  BY DEF ToReport, ToClear
<1>2. QED
  BY <1>1, GapStays

\* A failure is counted by a process that is in no section.
LEMMA MarkGap ==
  ASSUME AInv0, GapInOrder, NEW t \in Tasks, Mark(t) \/ MarkFails(t), Reported \subseteq Reported'
  PROVE  GapInOrder'
<1>1. CASE Mark(t)
  BY <1>1, DroppedGap DEF Mark
<1>2. CASE MarkFails(t)
  <2>1. /\ TypeOK /\ lock' = lock /\ marker' = marker /\ (lock.taken => lock.proc # Proc(t))
        /\ outage' = [outage EXCEPT ![Proc(t)] = Increment(t)] /\ Fault
    BY <1>2 DEF AInv0, MarkFails
  <2>2. faults' = 0 => faults = 0
    BY <2>1, FaultType
  <2>3. lock.taken => outage'[lock.proc] = outage[lock.proc]
    BY <2>1, SectionTypes, SameTypes
  <2>4. QED
    BY <2>1, <2>2, <2>3, OthersGap
<1>3. QED
  BY <1>1, <1>2

\* What a process forgets is its own; the section of one that dies is over.
LEMMA ForgettingGap ==
  ASSUME AInv0, GapInOrder, NEW p \in Procs, Restart(p) \/ Crash(p), Reported \subseteq Reported'
  PROVE  GapInOrder'
<1>1. TypeOK /\ SectionOK /\ Forget(p) /\ UNCHANGED <<marker, faults>>
  BY DEF AInv0, Restart, Crash
<1>2. lock.taken => outage'[lock.proc].owed \subseteq outage[lock.proc].owed
  <2>1. outage'[p].owed = {} /\ \A q \in Procs \ {p} : outage'[q] = outage[q]
    BY <1>1, ForgetTypes
  <2>2. lock.taken => lock.proc \in Procs
    BY <1>1, SectionTypes
  <2>3. QED
    BY <2>1, <2>2
<1>3. CASE lock' = lock
  BY <1>1, <1>2, <1>3, OthersGap
<1>4. CASE lock' # lock
  <2>1. lock' = Free
    BY <1>1, <1>4, CrashFiles DEF Restart
  <2>2. QED
    BY <2>1, DroppedGap DEF Free
<1>5. QED
  BY <1>3, <1>4

-----------------------------------------------------------------------------
(* Every step keeps the accounts *)

\* The inductive step, one case per action.
LEMMA AInvStep == AInv /\ [Next]_vars => AInv'
<1> SUFFICES ASSUME AInv, [Next]_vars PROVE AInv'
  OBVIOUS
<1>1. AInv0 /\ GapInOrder /\ TypeOK /\ SectionOK
  BY DEF AInv, AInv0
<1>2. TypeOK' /\ SectionOK' /\ Reported \subseteq Reported'
  BY <1>1, TypesStep, ReportedStays
<1> SUFFICES Kept /\ GapInOrder'
  BY <1>2 DEF AInv, Kept
<1>3. ASSUME NEW t \in Tasks, TaskStep(t) PROVE Kept /\ GapInOrder'
  <2>1. CASE Begin(t)
    BY <1>1, <1>2, <2>1, BeginKept, BeginGap
  <2>2. CASE BeginFails(t)
    BY <1>1, <1>2, <2>2, BeginFailsKept, DroppedGap DEF BeginFails, Wants
  <2>3. CASE Finish(t)
    BY <1>1, <1>2, <2>3, FinishKept, DroppedGap DEF Finish, Drop, Free
  <2>4. CASE SaveAnchor(t) \/ Unlink(t)
    BY <1>1, <1>2, <2>4, RetentionKept, RetentionGap
  <2>5. CASE Write(t)
    BY <1>1, <1>2, <2>5, WriteKept, WriteGap
  <2>6. CASE AppendFails(t)
    BY <1>1, <1>2, <2>6, AppendFailsKept, DroppedGap DEF AppendFails, Drop, Free
  <2>7. CASE Clear(t)
    BY <1>1, <1>2, <2>7, ClearKept, ClearGap
  <2>8. CASE Window(t)
    BY <1>1, <1>2, <2>8, WindowKept, WindowGap
  <2>9. CASE Mark(t) \/ MarkFails(t)
    BY <1>1, <1>2, <2>9, MarkKept, MarkFailsKept, MarkGap
  <2>10. QED
    BY <1>3, <2>1, <2>2, <2>3, <2>4, <2>5, <2>6, <2>7, <2>8, <2>9 DEF TaskStep
<1>4. ASSUME NEW c \in Calls, Arrive(c) \/ Serve(c) PROVE Kept /\ GapInOrder'
  <2>1. UNCHANGED <<lock, marker, outage, faults>>
    BY <1>4 DEF Arrive, Serve
  <2>2. QED
    BY <1>1, <1>2, <1>4, <2>1, RequestKept, OthersGap
<1>5. ASSUME NEW p \in Procs, Flush(p) \/ Shutdown(p) PROVE Kept /\ GapInOrder'
  <2>1. UNCHANGED <<lock, marker, outage, faults>>
    BY <1>5 DEF Flush, Shutdown
  <2>2. QED
    BY <1>1, <1>2, <1>5, <2>1, ProcessKept, OthersGap
<1>6. ASSUME NEW p \in Procs, Restart(p) \/ Crash(p) PROVE Kept /\ GapInOrder'
  BY <1>1, <1>2, <1>6, RestartKept, CrashKept, ForgettingGap
<1>7. CASE NewMinute \/ NewDay \/ UNCHANGED vars
  <2>1. UNCHANGED <<lock, marker, outage, faults>>
    BY <1>7 DEF NewMinute, NewDay, vars
  <2>2. QED
    BY <1>1, <1>2, <1>7, <2>1, ClockKept, OthersGap
<1>8. QED
  BY <1>3, <1>4, <1>5, <1>6, <1>7 DEF Next, Living

\* At the start nothing is counted and no section is open.
LEMMA AInvInit == Init => AInv
<1> SUFFICES ASSUME Init PROVE AInv
  OBVIOUS
<1>1. TypeOK /\ SectionOK
  BY TypesInit
<1>2. ~lock.taken
  BY DEF Init, Free
<1>3. /\ marker.owed = {} /\ \A p \in Procs : outage[p].owed = {}
  BY DEF Init, NoOutage
<1>4. \A p \in Procs : held[p]["denied"] = {} /\ held[p]["reads"] = {}
  BY DEF Init, Kinds
<1>5. \A p \in Procs : InMemory(p) = {} /\ Held(p) = {}
  BY <1>3, <1>4 DEF InMemory, Held
<1>6. \A c \in Calls : job[c].at = "idle"
  <2>1. PICK home \in [Calls -> Procs] : job = [t \in Tasks |-> IdleAt(IF t \in Procs THEN t ELSE home[t])]
    BY DEF Init
  <2>2. QED
    BY <2>1 DEF Tasks, IdleAt
<1>7. NothingVanishes
  <2>1. CountedOnce
    BY <1>3, <1>4, <1>5 DEF CountedOnce
  <2>2. QED
    BY <1>6, <2>1 DEF NothingVanishes
<1>8. NotYetCounted
  BY <1>2, <1>3, <1>5 DEF NotYetCounted, Done, Pending
<1>9. CountsMarked
  BY <1>3 DEF CountsMarked
<1>10. GapInOrder
  BY <1>2 DEF GapInOrder
<1>11. QED
  BY <1>1, <1>7, <1>8, <1>9, <1>10 DEF AInv

\* The accounts are always in order.
LEMMA AlwaysAccounted == Spec => []AInv
<1>1. Init => AInv
  BY AInvInit
<1>2. AInv /\ [Next]_vars => AInv'
  BY AInvStep
<1>3. QED
  BY <1>1, <1>2, PTL DEF Spec

\* No call vanishes: whatever fails, is retried by another process or dies in between, a call
\* that was answered or refused is in the log or pending in exactly one place.
THEOREM CallsAccountedFor == Spec => []NothingVanishes
<1>1. AInv => NothingVanishes
  BY DEF AInv
<1>2. QED
  BY <1>1, AlwaysAccounted, PTL

\* A gap comes before anything else: a write that passes its preflight, and an entry about to
\* be written, find every call their process knew to be uncounted for in the log.
THEOREM GapReportedFirst == Spec => []GapComesFirst
<1>1. AInv => GapComesFirst
  <2> SUFFICES ASSUME AInv, NEW c \in Calls, Working(c),
                      Step(c, "entry") \/ (job[c].at = "preflight" /\ lock.plan = <<>>)
               PROVE  /\ outage[lock.proc].owed \subseteq Logged \cup retired \cup lost
                      /\ marker.owed \cap lock.known.owed \subseteq Logged \cup retired \cup lost
                      /\ faults = 0 => marker.owed \subseteq Logged \cup retired \cup lost
    BY DEF GapComesFirst
  <2>1. ~ToReport /\ ~ToClear
    BY DEF ToReport, ToClear, Step
  <2>2. lock.taken /\ lock.by \in Calls /\ GapInOrder
    BY DEF Working, AInv
  <2>3. QED
    BY <2>1, <2>2 DEF GapInOrder, Reported
<1>2. QED
  BY <1>1, AlwaysAccounted, PTL

-----------------------------------------------------------------------------
(* The chain: where its lines are *)

\* A position is a day and a place in that day's file.
LEMMA PositionIs ==
  ASSUME TypeOK
  PROVE  /\ \A x \in Positions :
              /\ x = <<x[1], x[2]>> /\ x[1] \in DOMAIN files /\ x[1] \in Days /\ x[1] \in Nat
              /\ x[2] \in 1..Len(files[x[1]]) /\ x[2] \in Nat /\ files[x[1]] # <<>>
              /\ At(x) = files[x[1]][x[2]] /\ At(x) \in Lines /\ At(x).seq \in Nat
         /\ \A d \in DOMAIN files : \A i \in 1..Len(files[d]) :
              <<d, i>> \in Positions /\ At(<<d, i>>) = files[d][i]
<1>1. ASSUME NEW x \in Positions
      PROVE  /\ x = <<x[1], x[2]>> /\ x[1] \in DOMAIN files /\ x[1] \in Days /\ x[1] \in Nat
             /\ x[2] \in 1..Len(files[x[1]]) /\ x[2] \in Nat /\ files[x[1]] # <<>>
             /\ At(x) = files[x[1]][x[2]] /\ At(x) \in Lines /\ At(x).seq \in Nat
  <2> PICK d \in DOMAIN files : \E i \in DOMAIN files[d] : x = <<d, i>>
    BY DEF Positions
  <2>1. PICK i \in DOMAIN files[d] : x = <<d, i>>
    OBVIOUS
  <2>2. x[1] = d /\ x[2] = i
    BY <2>1
  <2>3. /\ DOMAIN files[d] = 1..Len(files[d]) /\ Len(files[d]) \in Nat /\ d \in Days /\ d \in Nat
        /\ files[d][i] \in Lines
    BY FileType
  <2>4. files[d] # <<>>
    BY <2>3
  <2>5. At(x) = files[d][i] /\ At(x).seq \in Nat
    BY <2>2, <2>3 DEF At, Lines
  <2>6. QED
    BY <2>1, <2>2, <2>3, <2>4, <2>5
<1>2. ASSUME NEW d \in DOMAIN files, NEW i \in 1..Len(files[d])
      PROVE  <<d, i>> \in Positions /\ At(<<d, i>>) = files[d][i]
  BY FileType DEF Positions, At
<1>3. QED
  BY <1>1, <1>2

\* The order of the lines is total.
LEMMA LinesOrdered ==
  ASSUME TypeOK
  PROVE  /\ \A x \in Positions : ~Precedes(x, x)
         /\ \A x, y \in Positions : x = y \/ Precedes(x, y) \/ Precedes(y, x)
         /\ \A x, y \in Positions : ~(Precedes(x, y) /\ Precedes(y, x))
         /\ \A x, y, z \in Positions : Precedes(x, y) /\ Precedes(y, z) => Precedes(x, z)
         /\ \A x, y \in Positions : x[1] < y[1] => Precedes(x, y)
         /\ \A x, y \in Positions : Precedes(x, y) => x[1] <= y[1]
<1>1. \A x \in Positions : x = <<x[1], x[2]>> /\ x[1] \in Nat /\ x[2] \in Nat
  BY PositionIs
<1>2. \A x, y \in Positions : x[1] = y[1] /\ x[2] = y[2] => x = y
  BY <1>1
<1>3. \A x \in Positions : ~Precedes(x, x)
  BY <1>1 DEF Precedes
<1>4. \A x, y \in Positions : x = y \/ Precedes(x, y) \/ Precedes(y, x)
  BY <1>1, <1>2 DEF Precedes
<1>5. \A x, y \in Positions : ~(Precedes(x, y) /\ Precedes(y, x))
  BY <1>1 DEF Precedes
<1>6. \A x, y, z \in Positions : Precedes(x, y) /\ Precedes(y, z) => Precedes(x, z)
  BY <1>1 DEF Precedes
<1>7. \A x, y \in Positions : (x[1] < y[1] => Precedes(x, y)) /\ (Precedes(x, y) => x[1] <= y[1])
  BY <1>1 DEF Precedes
<1>8. QED
  BY <1>3, <1>4, <1>5, <1>6, <1>7

\* An entry is a line, and its seq is a number.
LEMMA EntryIs ==
  ASSUME TypeOK
  PROVE  /\ EntryAt \subseteq Positions /\ \A x \in EntryAt : At(x).seq \in Nat /\ Valid(At(x))
         /\ \A x \in Positions : Valid(At(x)) => x \in EntryAt
BY PositionIs DEF EntryAt

\* The last entry of the files of S is the one LastSeq reads.
LEMMA LastEntry ==
  ASSUME TypeOK, NEW S, S \subseteq DOMAIN files, NonEmpty(S) # {}, ~Unreadable(S)
  PROVE  \E w \in EntriesIn(S) :
           At(w).seq = LastSeq(S) /\ \A y \in EntriesIn(S) : ~Precedes(w, y)
<1>1. PICK d \in S : \E i \in 1..Len(files[d]) :
           /\ i \in DOMAIN files[d] /\ Valid(files[d][i]) /\ LastSeq(S) = files[d][i].seq
           /\ \A e \in S : files[e] # <<>> => e <= d
           /\ \A k \in 1..Len(files[d]) : Valid(files[d][k]) => k <= i
  BY LastLine
<1>2. PICK i \in 1..Len(files[d]) :
           /\ i \in DOMAIN files[d] /\ Valid(files[d][i]) /\ LastSeq(S) = files[d][i].seq
           /\ \A e \in S : files[e] # <<>> => e <= d
           /\ \A k \in 1..Len(files[d]) : Valid(files[d][k]) => k <= i
  BY <1>1
<1>3. PICK w : w = <<d, i>>
  OBVIOUS
<1>4. w \in Positions /\ At(w) = files[d][i] /\ w[1] = d /\ w[2] = i
  BY <1>3, PositionIs
<1>5. w \in EntriesIn(S)
  BY <1>2, <1>4, EntryIs DEF EntriesIn
<1>6. ASSUME NEW y \in EntriesIn(S), Precedes(w, y) PROVE FALSE
  <2>1. y \in Positions /\ Valid(At(y)) /\ y[1] \in S
    BY EntryIs DEF EntriesIn
  <2>2. /\ y[1] \in Nat /\ y[2] \in Nat /\ y[2] \in 1..Len(files[y[1]]) /\ files[y[1]] # <<>>
        /\ At(y) = files[y[1]][y[2]]
    BY <2>1, PositionIs
  <2>3. y[1] <= d
    BY <1>2, <2>1, <2>2
  <2>4. d \in Nat /\ i \in Nat
    BY <1>4, PositionIs
  <2>5. y[1] = d /\ i < y[2]
    BY <1>4, <1>6, <2>2, <2>3, <2>4 DEF Precedes
  <2>6. y[2] <= i
    BY <1>2, <2>1, <2>2, <2>5
  <2>7. QED
    BY <2>2, <2>4, <2>5, <2>6
<1>7. QED
  BY <1>2, <1>4, <1>5, <1>6

\* Files without text have no entries.
LEMMA NoText ==
  ASSUME TypeOK, NEW S, S \subseteq DOMAIN files, NonEmpty(S) = {}
  PROVE  EntriesIn(S) = {} /\ (S = DOMAIN files => Positions = {})
<1>1. \A d \in S : files[d] = <<>>
  BY DEF NonEmpty
<1>2. \A x \in Positions : x[1] \notin S
  BY <1>1, PositionIs
<1>3. EntriesIn(S) = {}
  BY <1>2, EntryIs DEF EntriesIn
<1>4. QED
  BY <1>2, <1>3, PositionIs

\* Entries in the order of the log are in the order of their seqs.
LEMMA SeqsFollow ==
  ASSUME TypeOK, Increasing, NEW x \in EntryAt, NEW y \in EntryAt
  PROVE  /\ ~Precedes(y, x) => At(x).seq <= At(y).seq
         /\ Precedes(x, y) => At(x).seq < At(y).seq
<1>1. x \in Positions /\ y \in Positions /\ At(x).seq \in Nat /\ At(y).seq \in Nat
  BY EntryIs
<1>2. Precedes(x, y) => At(x).seq < At(y).seq
  BY DEF Increasing
<1>3. ~Precedes(y, x) => x = y \/ Precedes(x, y)
  BY <1>1, LinesOrdered
<1>4. QED
  BY <1>1, <1>2, <1>3

\* The same files hold the same lines.
LEMMA SameLines ==
  ASSUME files' = files
  PROVE  /\ Positions' = Positions /\ EntryAt' = EntryAt /\ \A x : At(x)' = At(x)
         /\ \A D : EntriesIn(D)' = EntriesIn(D) /\ \A d : Old(d)' = Old(d)
<1>1. Positions' = Positions /\ \A x : At(x)' = At(x)
  BY DEF Positions, At
<1>2. EntryAt' = EntryAt
  BY <1>1 DEF EntryAt, Valid
<1>3. QED
  BY <1>1, <1>2 DEF EntriesIn, Old

\* A line put into the newest file comes after all others.
LEMMA NewLineLast ==
  ASSUME TypeOK, NEW day \in Days, NEW l \in Lines, DOMAIN files \subseteq 1..day, files' = Put(day, <<l>>)
  PROVE  \E n : /\ n \notin Positions /\ Positions' = Positions \cup {n} /\ n[1] = day
                /\ At(n)' = l /\ \A x \in Positions : At(x)' = At(x)
                /\ ~Precedes(n, n) /\ \A x \in Positions : Precedes(x, n) /\ ~Precedes(n, x)
<1> DEFINE len == IF day \in DOMAIN files THEN Len(files[day]) ELSE 0
<1>1. PICK n : n = <<day, len + 1>>
  OBVIOUS
<1>2. len \in Nat /\ day \in Nat /\ n[1] = day /\ n[2] = len + 1
  BY <1>1, FileType DEF Days
<1>3. /\ DOMAIN files' = DOMAIN files \cup {day} /\ \A d \in DOMAIN files \ {day} : files'[d] = files[d]
      /\ day \in DOMAIN files => files'[day] = files[day] \o <<l>>
      /\ day \notin DOMAIN files => files'[day] = <<l>>
  <2>1. <<l>> \in Seq(Lines)
    OBVIOUS
  <2>2. QED
    BY <2>1, PutFiles
<1>4. /\ DOMAIN files'[day] = 1..len + 1 /\ files'[day][len + 1] = l
      /\ day \in DOMAIN files => \A i \in 1..len : files'[day][i] = files[day][i]
  <2>1. CASE day \in DOMAIN files
    <3>1. files[day] \in Seq(Lines)
      BY <2>1, FileType
    <3>2. QED
      BY <1>3, <2>1, <3>1
  <2>2. CASE day \notin DOMAIN files
    BY <1>3, <2>2
  <2>3. QED
    BY <2>1, <2>2
<1>5. \A d \in DOMAIN files : DOMAIN files[d] = 1..Len(files[d])
  BY FileType
<1>6. \A x \in Positions : /\ x = <<x[1], x[2]>> /\ x[1] \in DOMAIN files /\ x[1] \in Nat
                           /\ x[2] \in 1..Len(files[x[1]]) /\ x[2] \in Nat
  BY PositionIs
<1>7. ASSUME NEW x \in Positions PROVE Precedes(x, n) /\ ~Precedes(n, x)
  <2>1. x[1] <= day
    BY <1>2, <1>6
  <2>2. x[1] = day => x[2] <= len
    BY <1>6
  <2>3. QED
    BY <1>2, <1>6, <2>1, <2>2 DEF Precedes
<1>8. ~Precedes(n, n)
  BY <1>2 DEF Precedes
<1>9. n \notin Positions
  BY <1>7, <1>8
<1>10. ASSUME NEW x \in Positions PROVE At(x)' = At(x) /\ x \in Positions'
  <2>1. files'[x[1]][x[2]] = files[x[1]][x[2]]
    BY <1>3, <1>4, <1>6
  <2>2. x[1] \in DOMAIN files' /\ x[2] \in DOMAIN files'[x[1]]
    <3>1. CASE x[1] = day
      <4>1. x[2] \in 1..len /\ day \in DOMAIN files
        BY <1>6, <3>1
      <4>2. x[2] \in 1..len + 1
        BY <1>2, <4>1
      <4>3. QED
        BY <1>3, <1>4, <3>1, <4>2
    <3>2. CASE x[1] # day
      BY <1>3, <1>5, <1>6, <3>2
    <3>3. QED
      BY <3>1, <3>2
  <2>3. x \in Positions'
    BY <1>6, <2>2 DEF Positions
  <2>4. QED
    BY <2>1, <2>3 DEF At
<1>11. n \in Positions' /\ At(n)' = l
  <2>1. day \in DOMAIN files' /\ len + 1 \in DOMAIN files'[day]
    BY <1>2, <1>3, <1>4
  <2>2. QED
    BY <1>1, <1>2, <1>4, <2>1 DEF Positions, At
<1>12. ASSUME NEW x \in Positions' PROVE x \in Positions \cup {n}
  <2> PICK d \in DOMAIN files' : \E i \in DOMAIN files'[d] : x = <<d, i>>
    BY DEF Positions
  <2>1. PICK i \in DOMAIN files'[d] : x = <<d, i>>
    OBVIOUS
  <2>2. CASE d # day
    BY <1>3, <2>1, <2>2 DEF Positions
  <2>3. CASE d = day /\ i = len + 1
    BY <1>1, <2>1, <2>3
  <2>4. CASE d = day /\ i # len + 1
    <3>1. i \in 1..len
      BY <1>2, <1>4, <2>4
    <3>2. day \in DOMAIN files /\ i \in DOMAIN files[day]
      BY <1>5, <3>1
    <3>3. QED
      BY <2>1, <2>4, <3>2 DEF Positions
  <2>5. QED
    BY <2>2, <2>3, <2>4
<1>13. Positions' = Positions \cup {n}
  BY <1>10, <1>11, <1>12
<1>14. QED
  BY <1>2, <1>7, <1>8, <1>9, <1>10, <1>11, <1>13

\* An empty file has no lines.
LEMMA EmptyFile ==
  ASSUME TypeOK, NEW day \in Days, files' = Put(day, <<>>)
  PROVE  Positions' = Positions /\ EntryAt' = EntryAt /\ \A x \in Positions : At(x)' = At(x)
<1>1. /\ DOMAIN files' = DOMAIN files \cup {day} /\ \A d \in DOMAIN files \ {day} : files'[d] = files[d]
      /\ day \in DOMAIN files => files'[day] = files[day] \o <<>>
      /\ day \notin DOMAIN files => files'[day] = <<>>
  <2>1. <<>> \in Seq(Lines)
    OBVIOUS
  <2>2. QED
    BY <2>1, PutFiles
<1>2. \A d \in DOMAIN files : files'[d] = files[d]
  <2>1. day \in DOMAIN files => files[day] \in Seq(Lines)
    BY FileType
  <2>2. QED
    BY <1>1, <2>1
<1>3. Positions' = Positions
  <2>1. ASSUME NEW x \in Positions PROVE x \in Positions'
    BY <1>1, <1>2 DEF Positions
  <2>2. ASSUME NEW x \in Positions' PROVE x \in Positions
    <3> PICK d \in DOMAIN files' : \E i \in DOMAIN files'[d] : x = <<d, i>>
      BY DEF Positions
    <3>1. PICK i \in DOMAIN files'[d] : x = <<d, i>>
      OBVIOUS
    <3>2. d \in DOMAIN files
      BY <1>1, <3>1
    <3>3. QED
      BY <1>2, <3>1, <3>2 DEF Positions
  <2>3. QED
    BY <2>1, <2>2
<1>4. \A x \in Positions : At(x)' = At(x)
  BY <1>2, PositionIs DEF At
<1>5. QED
  BY <1>3, <1>4 DEF EntryAt, Valid

-----------------------------------------------------------------------------
(* The chain: what the steps do to it *)

\* A line added at the end of the log, by whoever holds the lock.
LEMMA ChainGrows ==
  ASSUME TypeOK, Increasing, AnchorFits, NEW h \in Nat, HeadIs(h),
         NEW day \in Days, DOMAIN files \subseteq 1..day, NEW l \in Lines, files' = Put(day, <<l>>),
         Valid(l) => l.seq = h + 1, anchor' = anchor, today' = today,
         NEW c \in Nat, cut' = c, cut <= c
  PROVE  /\ Increasing' /\ AnchorFits'
         /\ Valid(l) \/ c = cut + 1 => HeadIs(h + 1)'
<1>1. PICK n : /\ n \notin Positions /\ Positions' = Positions \cup {n} /\ n[1] = day
               /\ At(n)' = l /\ \A x \in Positions : At(x)' = At(x)
               /\ ~Precedes(n, n) /\ \A x \in Positions : Precedes(x, n) /\ ~Precedes(n, x)
  BY NewLineLast
<1>2. EntryAt \subseteq Positions /\ \A x \in EntryAt : At(x).seq \in Nat
  BY EntryIs
<1>3. EntryAt' = EntryAt \cup (IF Valid(l) THEN {n} ELSE {})
  BY <1>1 DEF EntryAt, Valid
<1>4. cut \in Nat /\ anchor \in Nat /\ today \in Nat
  BY SameTypes DEF Days
<1>5. n \notin EntryAt /\ (Valid(l) => At(n)'.seq = h + 1)
  BY <1>1, <1>2
<1>6. /\ anchor <= h /\ (EntryAt = {} => h <= anchor + cut)
      /\ \A x \in EntryAt :
           /\ At(x).seq <= h
           /\ (\A y \in EntryAt : ~Precedes(x, y)) => h <= At(x).seq + cut
           /\ (\A y \in Positions : ~Precedes(x, y)) => At(x).seq = h
  BY DEF HeadIs, NewestEntry
<1>7. anchor <= h + 1 /\ anchor < h + 1 /\ (EntryAt = {} => h + 1 <= anchor + 1 + c)
  <2>1. anchor <= h /\ (EntryAt = {} => h <= anchor + cut)
    BY <1>6
  <2>2. QED
    BY <1>4, <2>1
<1>8. Increasing'
  <2> SUFFICES ASSUME NEW x \in EntryAt', NEW y \in EntryAt', Precedes(x, y)
               PROVE  /\ At(x)'.seq < At(y)'.seq
                      /\ (~\E z \in Positions' : Precedes(x, z) /\ Precedes(z, y)) => At(y)'.seq = At(x)'.seq + 1
                      /\ (~\E z \in EntryAt' : Precedes(x, z) /\ Precedes(z, y))
                           => At(y)'.seq <= At(x)'.seq + 1 + c
    BY DEF Increasing, Precedes
  <2>1. x \in EntryAt
    BY <1>1, <1>2, <1>3
  <2>2. At(x)' = At(x) /\ x \in Positions /\ At(x).seq \in Nat
    BY <1>1, <1>2, <2>1
  <2>3. CASE y \in EntryAt
    <3>1. At(y)' = At(y) /\ At(y).seq \in Nat
      BY <1>1, <1>2, <2>3
    <3>2. /\ At(x).seq < At(y).seq
          /\ (~\E z \in Positions : Precedes(x, z) /\ Precedes(z, y)) => At(y).seq = At(x).seq + 1
          /\ (~\E z \in EntryAt : Precedes(x, z) /\ Precedes(z, y)) => At(y).seq <= At(x).seq + 1 + cut
      BY <2>1, <2>3 DEF Increasing
    <3>3. EntryAt \subseteq EntryAt' /\ Positions \subseteq Positions'
      BY <1>1, <1>3
    <3>4. At(y).seq <= At(x).seq + 1 + cut => At(y).seq <= At(x).seq + 1 + c
      BY <1>4, <2>2, <3>1
    <3>5. QED
      BY <2>2, <3>1, <3>2, <3>3, <3>4
  <2>4. CASE y \notin EntryAt
    <3>1. y = n /\ Valid(l)
      BY <1>3, <2>4
    <3>2. At(y)'.seq = h + 1
      BY <1>5, <3>1
    <3>3. At(x).seq <= h
      BY <1>6, <2>1
    <3>4. (~\E z \in Positions' : Precedes(x, z) /\ Precedes(z, y)) => At(x).seq = h
      BY <1>1, <1>6, <2>1, <3>1
    <3>5. (~\E z \in EntryAt' : Precedes(x, z) /\ Precedes(z, y)) => h <= At(x).seq + cut
      BY <1>1, <1>2, <1>3, <1>6, <2>1, <3>1
    <3>6. At(x)'.seq = At(x).seq
      BY <2>2
    <3>7. QED
      BY <1>4, <2>2, <3>2, <3>3, <3>4, <3>5, <3>6
  <2>5. QED
    BY <2>3, <2>4
<1>9. AnchorFits'
  <2> SUFFICES ASSUME NEW x \in EntryAt'
               PROVE  /\ (\A y \in EntryAt' : ~Precedes(y, x)) => At(x)'.seq <= anchor' + 1 + c
                      /\ x[1] >= today' - RetainDays => anchor' < At(x)'.seq
                      /\ (\A y \in EntryAt' : ~Precedes(x, y)) => anchor' <= At(x)'.seq
    BY DEF AnchorFits, OldestIn, NewestEntry, Precedes
  <2>1. CASE x \in EntryAt
    <3>1. At(x)' = At(x) /\ At(x).seq \in Nat /\ EntryAt \subseteq EntryAt'
      BY <1>1, <1>2, <1>3, <2>1
    <3>2. /\ (\A y \in EntryAt : ~Precedes(y, x)) => At(x).seq <= anchor + 1 + cut
          /\ x[1] >= today - RetainDays => anchor < At(x).seq
          /\ (\A y \in EntryAt : ~Precedes(x, y)) => anchor <= At(x).seq
      BY <2>1 DEF AnchorFits, OldestIn, NewestEntry
    <3>3. At(x).seq <= anchor + 1 + cut => At(x).seq <= anchor + 1 + c
      BY <1>4, <3>1
    <3>4. QED
      BY <3>1, <3>2, <3>3
  <2>2. CASE x \notin EntryAt
    <3>1. x = n /\ Valid(l) /\ At(x)'.seq = h + 1
      BY <1>3, <1>5, <2>2
    <3>2. (\A y \in EntryAt' : ~Precedes(y, x)) => EntryAt = {}
      BY <1>1, <1>2, <1>3, <3>1
    <3>3. QED
      BY <1>7, <3>1, <3>2
  <2>3. QED
    BY <2>1, <2>2
<1>10. ASSUME Valid(l) \/ c = cut + 1 PROVE HeadIs(h + 1)'
  <2> SUFFICES /\ anchor' <= h + 1 /\ (EntryAt' = {} => h + 1 <= anchor' + c)
               /\ \A x \in EntryAt' :
                    /\ At(x)'.seq <= h + 1
                    /\ (\A y \in EntryAt' : ~Precedes(x, y)) => h + 1 <= At(x)'.seq + c
                    /\ (\A y \in Positions' : ~Precedes(x, y)) => At(x)'.seq = h + 1
    BY DEF HeadIs, NewestEntry, Precedes
  <2>1. anchor' <= h + 1 /\ (EntryAt' = {} => h + 1 <= anchor' + c)
    <3>1. EntryAt' = {} => EntryAt = {} /\ c = cut + 1
      BY <1>3, <1>10
    <3>2. c = cut + 1 => anchor + 1 + cut = anchor + c
      BY <1>4
    <3>3. EntryAt = {} => h + 1 <= anchor + 1 + cut
      <4>1. EntryAt = {} => h <= anchor + cut
        BY <1>6
      <4>2. QED
        BY <1>4, <4>1
    <3>4. QED
      BY <1>7, <3>1, <3>2, <3>3
  <2>2. ASSUME NEW x \in EntryAt'
        PROVE  /\ At(x)'.seq <= h + 1
               /\ (\A y \in EntryAt' : ~Precedes(x, y)) => h + 1 <= At(x)'.seq + c
               /\ (\A y \in Positions' : ~Precedes(x, y)) => At(x)'.seq = h + 1
    <3>1. CASE x \in EntryAt
      <4>1. At(x)' = At(x) /\ At(x).seq \in Nat /\ EntryAt \subseteq EntryAt' /\ n \in Positions' /\ Precedes(x, n)
        BY <1>1, <1>2, <1>3, <3>1
      <4>2. At(x).seq <= h /\ ((\A y \in EntryAt : ~Precedes(x, y)) => h <= At(x).seq + cut)
        BY <1>6, <3>1
      <4>3. (\A y \in EntryAt' : ~Precedes(x, y)) => ~Valid(l)
        BY <1>3, <4>1
      <4>4. At(x)'.seq = At(x).seq
        BY <4>1
      <4>5. (\A y \in EntryAt' : ~Precedes(x, y)) => h <= At(x).seq + cut /\ c = cut + 1
        BY <1>10, <4>1, <4>2, <4>3
      <4>6. ~\A y \in Positions' : ~Precedes(x, y)
        BY <4>1
      <4>7. QED
        BY <1>4, <4>1, <4>2, <4>4, <4>5, <4>6
    <3>2. CASE x \notin EntryAt
      <4>1. At(x)'.seq = h + 1
        BY <1>3, <1>5, <3>2
      <4>2. h + 1 <= h + 1 /\ h + 1 <= h + 1 + c
        OBVIOUS
      <4>3. QED
        BY <4>1, <4>2
    <3>3. QED
      BY <3>1, <3>2
  <2>3. QED
    BY <2>1, <2>2
<1>11. QED
  BY <1>8, <1>9, <1>10

\* The same lines, an anchor that stays and a clock that goes on.
LEMMA ChainStays ==
  ASSUME TypeOK, Increasing, AnchorFits, Positions' = Positions, EntryAt' = EntryAt,
         \A x \in Positions : At(x)' = At(x), anchor' = anchor, cut' = cut,
         today' \in Nat, today <= today'
  PROVE  Increasing' /\ AnchorFits' /\ \A h : HeadIs(h) => HeadIs(h)'
<1>1. EntryAt \subseteq Positions /\ \A x \in EntryAt : At(x)' = At(x) /\ x[1] \in Nat
  BY EntryIs, PositionIs
<1>2. Increasing'
  <2> SUFFICES ASSUME NEW x \in EntryAt, NEW y \in EntryAt, Precedes(x, y)
               PROVE  /\ At(x)'.seq < At(y)'.seq
                      /\ (~\E z \in Positions : Precedes(x, z) /\ Precedes(z, y)) => At(y)'.seq = At(x)'.seq + 1
                      /\ (~\E z \in EntryAt : Precedes(x, z) /\ Precedes(z, y))
                           => At(y)'.seq <= At(x)'.seq + 1 + cut'
    BY DEF Increasing, Precedes
  <2>1. QED
    BY <1>1 DEF Increasing
<1>3. AnchorFits'
  <2> SUFFICES ASSUME NEW x \in EntryAt
               PROVE  /\ (\A y \in EntryAt : ~Precedes(y, x)) => At(x)'.seq <= anchor' + 1 + cut'
                      /\ x[1] >= today' - RetainDays => anchor' < At(x)'.seq
                      /\ (\A y \in EntryAt : ~Precedes(x, y)) => anchor' <= At(x)'.seq
    BY DEF AnchorFits, OldestIn, NewestEntry, Precedes
  <2>1. /\ (\A y \in EntryAt : ~Precedes(y, x)) => At(x).seq <= anchor + 1 + cut
        /\ x[1] >= today - RetainDays => anchor < At(x).seq
        /\ (\A y \in EntryAt : ~Precedes(x, y)) => anchor <= At(x).seq
    BY DEF AnchorFits, OldestIn, NewestEntry
  <2>2. x[1] >= today' - RetainDays => x[1] >= today - RetainDays
    BY <1>1, SameTypes, CallLogConstantsOK DEF Days
  <2>3. QED
    BY <1>1, <2>1, <2>2
<1>4. ASSUME NEW h, HeadIs(h) PROVE HeadIs(h)'
  <2> SUFFICES /\ anchor' <= h /\ (EntryAt = {} => h <= anchor' + cut')
               /\ \A x \in EntryAt :
                    /\ At(x)'.seq <= h
                    /\ (\A y \in EntryAt : ~Precedes(x, y)) => h <= At(x)'.seq + cut'
                    /\ (\A y \in Positions : ~Precedes(x, y)) => At(x)'.seq = h
    BY DEF HeadIs, NewestEntry, Precedes
  <2>1. QED
    BY <1>1, <1>4 DEF HeadIs, NewestEntry
<1>5. QED
  BY <1>2, <1>3, <1>4

\* What the head read from the log is.
LEMMA HeadRead ==
  ASSUME TypeOK, Increasing, AnchorFits, ~Unreadable(DOMAIN files)
  PROVE  HeadIs(HeadSeq)
<1>1. EntryAt \subseteq Positions /\ \A x \in EntryAt : At(x).seq \in Nat
  BY EntryIs
<1>2. cut \in Nat /\ anchor \in Nat
  BY SameTypes
<1>3. CASE NonEmpty(DOMAIN files) = {}
  <2>1. HeadSeq = anchor /\ EntryAt = {}
    BY <1>1, <1>3, NoText DEF HeadSeq
  <2>2. QED
    BY <1>2, <2>1 DEF HeadIs
<1>4. CASE NonEmpty(DOMAIN files) # {}
  <2>1. EntriesIn(DOMAIN files) = EntryAt
    BY <1>1, PositionIs DEF EntriesIn
  <2>2. PICK w \in EntryAt : At(w).seq = LastSeq(DOMAIN files) /\ \A y \in EntryAt : ~Precedes(w, y)
    BY <1>4, <2>1, LastEntry
  <2>3. HeadSeq = At(w).seq
    BY <1>4, <2>2 DEF HeadSeq
  <2>4. anchor <= At(w).seq
    BY <2>2 DEF AnchorFits, NewestEntry
  <2>5. ASSUME NEW x \in EntryAt
        PROVE  /\ At(x).seq <= At(w).seq
               /\ NewestEntry(x) => At(w).seq <= At(x).seq + cut
               /\ (\A y \in Positions : ~Precedes(x, y)) => At(x).seq = At(w).seq
    <3>1. At(x).seq <= At(w).seq
      BY <2>2, SeqsFollow
    <3>2. ~Precedes(x, w) => At(w).seq <= At(x).seq
      BY SeqsFollow
    <3>3. QED
      BY <1>1, <1>2, <3>1, <3>2 DEF NewestEntry
  <2>6. QED
    BY <1>2, <2>2, <2>3, <2>4, <2>5 DEF HeadIs
<1>5. QED
  BY <1>3, <1>4

\* Retention saves the seq of the last entry it is about to delete.
LEMMA AnchorMoves ==
  ASSUME TypeOK, DaysInOrder, Increasing, AnchorFits, HeadFits, NEW t \in Tasks, SaveAnchor(t)
  PROVE  Increasing' /\ AnchorFits' /\ HeadFits' /\ AnchorSaved'
<1>1. /\ lock.taken /\ Old(lock.day) # {} /\ ~Unreadable(Old(lock.day)) /\ files' = files
      /\ today' = today /\ cut' = cut
      /\ anchor' = IF NonEmpty(Old(lock.day)) = {} THEN anchor ELSE LastSeq(Old(lock.day))
  BY DEF SaveAnchor, Appending, Working
<1>2. /\ lock' = [lock EXCEPT !.kept = TRUE] /\ lock.day \in Nat
      /\ DOMAIN lock = {"taken", "by", "proc", "plan", "head", "day", "kept", "known"}
  BY <1>1, SectionTypes DEF SaveAnchor, Sections, Days
<1>3. lock'.head = lock.head /\ lock'.day = lock.day
  BY <1>2
<1>4. PICK D : D = Old(lock.day)
  OBVIOUS
<1>5. /\ D \subseteq DOMAIN files /\ D \subseteq Nat /\ (\A d \in D : d < lock.day - RetainDays)
      /\ \A d \in DOMAIN files : d < lock.day - RetainDays => d \in D
  BY <1>1, <1>4, OldFiles
<1>6. lock.day <= today /\ today \in Nat /\ cut \in Nat /\ anchor \in Nat /\ RetainDays \in Nat
  BY <1>1, SameTypes, CallLogConstantsOK DEF DaysInOrder, Days
<1>7. /\ EntryAt \subseteq Positions
      /\ \A x \in EntryAt : At(x).seq \in Nat /\ x[1] \in Nat /\ x[1] \in DOMAIN files
  BY EntryIs, PositionIs
<1>8. /\ Positions' = Positions /\ EntryAt' = EntryAt /\ \A x : At(x)' = At(x)
      /\ \A S : EntriesIn(S)' = EntriesIn(S)
      /\ \A d : Old(d)' = Old(d)
  BY <1>1, SameLines
<1>9. HeadIs(lock.head)
  BY <1>1 DEF HeadFits
<1>10. EntriesIn(D) \subseteq EntryAt /\ \A x \in EntriesIn(D) : x[1] \in D
  BY DEF EntriesIn
<1>11. Increasing'
  <2>1. TypeOK /\ Increasing /\ cut' = cut
    BY <1>1
  <2>2. QED
    BY <1>8, <2>1 DEF Increasing, Precedes
<1>12. CASE NonEmpty(D) = {}
  <2>1. anchor' = anchor
    BY <1>1, <1>4, <1>12
  <2>2. EntriesIn(D) = {}
    BY <1>5, <1>12, NoText
  <2>3. AnchorFits' /\ HeadFits'
    <3>1. PICK h : h = lock.head
      OBVIOUS
    <3>2. AnchorFits' /\ HeadIs(h)'
      BY <1>1, <1>6, <1>8, <1>9, <2>1, <3>1, ChainStays
    <3>3. QED
      BY <1>3, <3>1, <3>2 DEF HeadFits
  <2>5. AnchorSaved'
    <3>1. ASSUME NEW x \in EntryAt, OldestIn(x, EntryAt) PROVE At(x)'.seq <= anchor' + 1 + cut'
      BY <1>1, <1>8, <2>1, <3>1 DEF AnchorFits
    <3>2. EntriesIn(Old(lock.day))' = {}
      BY <1>3, <1>4, <1>8, <2>2 DEF EntriesIn
    <3>3. QED
      BY <1>8, <3>1, <3>2 DEF AnchorSaved, OldestIn, Precedes
  <2>6. QED
    BY <1>11, <2>3, <2>5
<1>13. CASE NonEmpty(D) # {}
  <2>1. PICK w \in EntriesIn(D) : At(w).seq = LastSeq(D) /\ \A y \in EntriesIn(D) : ~Precedes(w, y)
    BY <1>1, <1>4, <1>5, <1>13, LastEntry
  <2>2. anchor' = At(w).seq /\ w \in EntryAt /\ w[1] \in D
    BY <1>1, <1>4, <1>10, <1>13, <2>1
  <2>3. PICK a \in Nat : a = At(w).seq
    BY <1>7, <2>2
  <2>4. \A x \in EntryAt : x[1] \notin D => Precedes(w, x)
    <3> SUFFICES ASSUME NEW x \in EntryAt, x[1] \notin D PROVE Precedes(w, x)
      OBVIOUS
    <3>1. w[1] < lock.day - RetainDays /\ ~(x[1] < lock.day - RetainDays)
      BY <1>5, <1>7, <2>2
    <3>2. w[1] < x[1]
      BY <1>2, <1>6, <1>7, <2>2, <3>1
    <3>3. QED
      BY <1>7, <2>2, <3>2, LinesOrdered
  <2>5. AnchorFits'
    <3> SUFFICES ASSUME NEW x \in EntryAt
                 PROVE  /\ (\A y \in EntryAt : ~Precedes(y, x)) => At(x).seq <= a + 1 + cut
                        /\ x[1] >= today - RetainDays => a < At(x).seq
                        /\ (\A y \in EntryAt : ~Precedes(x, y)) => a <= At(x).seq
      BY <1>1, <1>8, <2>2, <2>3 DEF AnchorFits, OldestIn, NewestEntry, Precedes
    <3>1. (\A y \in EntryAt : ~Precedes(y, x)) => At(x).seq <= a
      BY <2>2, <2>3, SeqsFollow
    <3>2. (\A y \in EntryAt : ~Precedes(x, y)) => a <= At(x).seq
      BY <2>2, <2>3, SeqsFollow
    <3>3. ASSUME x[1] >= today - RetainDays PROVE a < At(x).seq
      <4>1. x[1] \notin D
        BY <1>2, <1>5, <1>6, <1>7, <3>3
      <4>2. QED
        BY <2>2, <2>3, <2>4, <4>1, SeqsFollow
    <3>4. At(x).seq <= a => At(x).seq <= a + 1 + cut
      BY <1>6, <1>7
    <3>5. QED
      BY <3>1, <3>2, <3>3, <3>4
  <2>6. HeadFits'
    <3>1. a <= lock.head
      BY <1>9, <2>2, <2>3 DEF HeadIs
    <3>2. PICK h : h = lock.head
      OBVIOUS
    <3>3. HeadIs(h)'
      <4> SUFFICES /\ a <= h
                   /\ EntryAt # {}
                   /\ \A x \in EntryAt :
                        /\ At(x).seq <= h
                        /\ (\A y \in EntryAt : ~Precedes(x, y)) => h <= At(x).seq + cut
                        /\ (\A y \in Positions : ~Precedes(x, y)) => At(x).seq = h
        BY <1>1, <1>8, <2>2, <2>3 DEF HeadIs, NewestEntry, Precedes
      <4>1. QED
        BY <1>9, <2>2, <3>1, <3>2 DEF HeadIs, NewestEntry
    <3>4. QED
      BY <1>3, <3>2, <3>3 DEF HeadFits
  <2>7. AnchorSaved'
    <3> SUFFICES /\ \A x \in EntriesIn(D) : At(x).seq <= a
                 /\ \A x \in EntryAt \ EntriesIn(D) :
                      (\A y \in EntryAt \ EntriesIn(D) : ~Precedes(y, x)) => At(x).seq <= a + 1 + cut
      BY <1>1, <1>3, <1>4, <1>8, <2>2, <2>3 DEF AnchorSaved, OldestIn, Precedes, EntriesIn
    <3>1. \A x \in EntriesIn(D) : At(x).seq <= a
      BY <1>10, <2>1, <2>2, <2>3, SeqsFollow
    <3>2. ASSUME NEW x \in EntryAt \ EntriesIn(D), \A y \in EntryAt \ EntriesIn(D) : ~Precedes(y, x)
          PROVE  At(x).seq <= a + 1 + cut
      <4>1. Precedes(w, x)
        BY <2>4 DEF EntriesIn
      <4>2. ~\E z \in EntryAt : Precedes(w, z) /\ Precedes(z, x)
        BY <2>1, <3>2
      <4>3. QED
        BY <2>2, <2>3, <4>1, <4>2 DEF Increasing
    <3>3. QED
      BY <3>1, <3>2
  <2>8. QED
    BY <1>11, <2>5, <2>6, <2>7
<1>14. QED
  BY <1>12, <1>13

\* The lines of the oldest file go, and they come before all others.
LEMMA UnlinkLines ==
  ASSUME TypeOK, NEW t, Unlink(t)
  PROVE  \E d \in Old(lock.day) :
           /\ Positions' = {x \in Positions : x[1] # d}
           /\ EntryAt' = {x \in EntryAt : x[1] # d}
           /\ \A x \in Positions' : At(x)' = At(x)
           /\ \A x, y \in Positions : x[1] = d /\ y[1] # d => Precedes(x, y)
           /\ Old(lock.day)' = Old(lock.day) \ {d}
           /\ DOMAIN files' \subseteq DOMAIN files
<1>1. PICK d : d = Min(Old(lock.day))
  OBVIOUS
<1>2. /\ d \in Old(lock.day) /\ d \in DOMAIN files /\ d \in Nat
      /\ \A e \in DOMAIN files : e # d => d < e
      /\ DOMAIN files' = DOMAIN files \ {d} /\ \A e \in DOMAIN files' : files'[e] = files[e]
  BY <1>1, UnlinkFiles
<1>3. Positions' = {x \in Positions : x[1] # d}
  <2>1. ASSUME NEW x \in Positions' PROVE x \in Positions /\ x[1] # d
    <3> PICK e \in DOMAIN files' : \E i \in DOMAIN files'[e] : x = <<e, i>>
      BY DEF Positions
    <3>1. PICK i \in DOMAIN files'[e] : x = <<e, i>>
      OBVIOUS
    <3>2. QED
      BY <1>2, <3>1 DEF Positions
  <2>2. ASSUME NEW x \in Positions, x[1] # d PROVE x \in Positions'
    <3> PICK e \in DOMAIN files : \E i \in DOMAIN files[e] : x = <<e, i>>
      BY DEF Positions
    <3>1. PICK i \in DOMAIN files[e] : x = <<e, i>>
      OBVIOUS
    <3>2. e \in DOMAIN files' /\ i \in DOMAIN files'[e]
      BY <1>2, <2>2, <3>1
    <3>3. QED
      BY <3>1, <3>2 DEF Positions
  <2>3. QED
    BY <2>1, <2>2
<1>4. \A x \in Positions' : At(x)' = At(x)
  <2> SUFFICES ASSUME NEW x \in Positions' PROVE At(x)' = At(x)
    OBVIOUS
  <2>1. x[1] \in DOMAIN files'
    BY <1>2, <1>3, PositionIs
  <2>2. QED
    BY <1>2, <2>1 DEF At
<1>5. EntryAt' = {x \in EntryAt : x[1] # d}
  BY <1>3, <1>4 DEF EntryAt, Valid
<1>6. \A x, y \in Positions : x[1] = d /\ y[1] # d => Precedes(x, y)
  BY <1>2, PositionIs, LinesOrdered
<1>7. Old(lock.day)' = Old(lock.day) \ {d}
  <2>1. PICK day : day = lock.day
    OBVIOUS
  <2>2. lock' = lock
    BY DEF Unlink
  <2>3. Old(day) = {e \in DOMAIN files : e < day - RetainDays} /\ Old(day) # DOMAIN files
    BY <1>2, <2>1 DEF Old
  <2>4. {e \in DOMAIN files' : e < day - RetainDays} = Old(day) \ {d}
    BY <1>2, <2>3
  <2>5. Old(day) \ {d} # DOMAIN files'
    BY <1>2, <2>1, <2>3
  <2>6. Old(day)' = Old(day) \ {d}
    BY <2>4, <2>5 DEF Old
  <2>7. Old(lock.day)' = Old(day)'
    BY <2>1, <2>2 DEF Old
  <2>8. QED
    BY <2>1, <2>6, <2>7
<1>8. QED
  BY <1>2, <1>3, <1>4, <1>5, <1>6, <1>7

\* Deleting the oldest file: the anchor stands for what it held.
LEMMA FileGoes ==
  ASSUME TypeOK, KeptInAppend, Increasing, AnchorFits, HeadFits, AnchorSaved, NEW t \in Tasks, Unlink(t)
  PROVE  Increasing' /\ AnchorFits' /\ HeadFits' /\ AnchorSaved'
<1>1. /\ lock.taken /\ lock.kept /\ anchor' = anchor /\ today' = today /\ cut' = cut /\ lock' = lock
  BY DEF Unlink, Appending, Working
<1>2. PICK d \in Old(lock.day) :
           /\ Positions' = {x \in Positions : x[1] # d}
           /\ EntryAt' = {x \in EntryAt : x[1] # d}
           /\ \A x \in Positions' : At(x)' = At(x)
           /\ \A x, y \in Positions : x[1] = d /\ y[1] # d => Precedes(x, y)
           /\ Old(lock.day)' = Old(lock.day) \ {d}
           /\ DOMAIN files' \subseteq DOMAIN files
  BY UnlinkLines
<1>3. /\ EntryAt \subseteq Positions /\ EntryAt' \subseteq Positions'
      /\ \A x \in EntryAt : At(x).seq \in Nat
  BY <1>2, EntryIs
<1>4. cut \in Nat /\ anchor \in Nat
  BY SameTypes
<1>5. \A x \in Positions', z \in Positions : Precedes(x, z) => z \in Positions' /\ (z \in EntryAt => z \in EntryAt')
  <2> SUFFICES ASSUME NEW x \in Positions', NEW z \in Positions, Precedes(x, z) PROVE z[1] # d
    BY <1>2
  <2>1. z[1] = d => Precedes(z, x)
    BY <1>2
  <2>2. QED
    BY <1>2, <2>1, LinesOrdered
<1>6. PICK D : D = Old(lock.day)
  OBVIOUS
<1>7. /\ \A x \in EntriesIn(D) : At(x).seq <= anchor
      /\ \A x \in EntryAt \ EntriesIn(D) :
           (\A y \in EntryAt \ EntriesIn(D) : ~Precedes(y, x)) => At(x).seq <= anchor + 1 + cut
  BY <1>1, <1>6 DEF AnchorSaved, OldestIn
<1>8. EntryAt \ EntriesIn(D) = {x \in EntryAt' : x[1] \notin D}
  BY <1>2, <1>6 DEF EntriesIn
<1>9. Increasing'
  <2> SUFFICES ASSUME NEW x \in EntryAt', NEW y \in EntryAt', Precedes(x, y)
               PROVE  /\ At(x).seq < At(y).seq
                      /\ (~\E z \in Positions' : Precedes(x, z) /\ Precedes(z, y)) => At(y).seq = At(x).seq + 1
                      /\ (~\E z \in EntryAt' : Precedes(x, z) /\ Precedes(z, y))
                           => At(y).seq <= At(x).seq + 1 + cut
    BY <1>1, <1>2, <1>3 DEF Increasing, Precedes
  <2>1. x \in EntryAt /\ y \in EntryAt /\ x \in Positions'
    BY <1>2, <1>3
  <2>2. /\ At(x).seq < At(y).seq
        /\ (~\E z \in Positions : Precedes(x, z) /\ Precedes(z, y)) => At(y).seq = At(x).seq + 1
        /\ (~\E z \in EntryAt : Precedes(x, z) /\ Precedes(z, y)) => At(y).seq <= At(x).seq + 1 + cut
    BY <2>1 DEF Increasing
  <2>3. QED
    BY <1>3, <1>5, <2>1, <2>2
<1>10. AnchorFits'
  <2> SUFFICES ASSUME NEW x \in EntryAt'
               PROVE  /\ (\A y \in EntryAt' : ~Precedes(y, x)) => At(x).seq <= anchor + 1 + cut
                      /\ x[1] >= today - RetainDays => anchor < At(x).seq
                      /\ (\A y \in EntryAt' : ~Precedes(x, y)) => anchor <= At(x).seq
    BY <1>1, <1>2, <1>3 DEF AnchorFits, OldestIn, NewestEntry, Precedes
  <2>1. x \in EntryAt /\ x \in Positions' /\ At(x).seq \in Nat
    BY <1>2, <1>3
  <2>2. /\ x[1] >= today - RetainDays => anchor < At(x).seq
        /\ (\A y \in EntryAt : ~Precedes(x, y)) => anchor <= At(x).seq
    BY <2>1 DEF AnchorFits, NewestEntry
  <2>3. (\A y \in EntryAt' : ~Precedes(x, y)) => \A y \in EntryAt : ~Precedes(x, y)
    BY <1>3, <1>5, <2>1
  <2>4. ASSUME \A y \in EntryAt' : ~Precedes(y, x) PROVE At(x).seq <= anchor + 1 + cut
    <3>1. CASE x[1] \in D
      <4>1. At(x).seq <= anchor
        BY <1>7, <2>1, <3>1 DEF EntriesIn
      <4>2. QED
        BY <1>4, <2>1, <4>1
    <3>2. CASE x[1] \notin D
      <4>1. x \in EntryAt \ EntriesIn(D) /\ EntryAt \ EntriesIn(D) \subseteq EntryAt'
        BY <1>8, <3>2
      <4>2. QED
        BY <1>7, <2>4, <4>1
    <3>3. QED
      BY <3>1, <3>2
  <2>5. QED
    BY <2>2, <2>3, <2>4
<1>11. HeadFits'
  <2>1. HeadIs(lock.head) /\ lock.head \in Nat
    BY <1>1, SectionTypes DEF HeadFits
  <2> SUFFICES /\ EntryAt' = {} => lock.head <= anchor + cut
               /\ \A x \in EntryAt' :
                    /\ At(x).seq <= lock.head
                    /\ (\A y \in EntryAt' : ~Precedes(x, y)) => lock.head <= At(x).seq + cut
                    /\ (\A y \in Positions' : ~Precedes(x, y)) => At(x).seq = lock.head
    <3>1. anchor <= lock.head
      BY <2>1 DEF HeadIs
    <3>2. QED
      BY <1>1, <1>2, <1>3, <3>1 DEF HeadFits, HeadIs, NewestEntry, Precedes
  <2>2. ASSUME NEW x \in EntryAt'
        PROVE  /\ At(x).seq <= lock.head
               /\ (\A y \in EntryAt' : ~Precedes(x, y)) => lock.head <= At(x).seq + cut
               /\ (\A y \in Positions' : ~Precedes(x, y)) => At(x).seq = lock.head
    <3>1. x \in EntryAt /\ x \in Positions'
      BY <1>2, <1>3
    <3>2. /\ At(x).seq <= lock.head
          /\ (\A y \in EntryAt : ~Precedes(x, y)) => lock.head <= At(x).seq + cut
          /\ (\A y \in Positions : ~Precedes(x, y)) => At(x).seq = lock.head
      BY <2>1, <3>1 DEF HeadIs, NewestEntry
    <3>3. (\A y \in EntryAt' : ~Precedes(x, y)) => \A y \in EntryAt : ~Precedes(x, y)
      BY <1>3, <1>5, <3>1
    <3>4. (\A y \in Positions' : ~Precedes(x, y)) => \A y \in Positions : ~Precedes(x, y)
      BY <1>5, <3>1
    <3>5. QED
      BY <3>2, <3>3, <3>4
  <2>3. ASSUME EntryAt' = {} PROVE lock.head <= anchor + cut
    <3>1. CASE EntryAt = {}
      BY <2>1, <3>1 DEF HeadIs
    <3>2. CASE EntryAt # {}
      <4>1. \A x \in EntryAt : x[1] = d
        BY <1>2, <2>3
      <4>2. NonEmpty({d}) # {} /\ ~Unreadable({d}) /\ {d} \subseteq DOMAIN files
        <5>1. PICK x \in EntryAt : x[1] = d
          BY <3>2, <4>1
        <5>2. /\ x \in Positions /\ Valid(At(x)) /\ d \in DOMAIN files /\ files[d] # <<>>
              /\ x[2] \in 1..Len(files[d]) /\ At(x) = files[d][x[2]]
          BY <1>3, <5>1, PositionIs, EntryIs
        <5>3. NonEmpty({d}) = {d}
          BY <5>2 DEF NonEmpty
        <5>4. Max({d}) = d
          <6>1. Max({d}) \in {d}
            <7>1. d \in Nat /\ {d} \subseteq 0..d
              BY <5>1, <5>2, PositionIs
            <7>2. QED
              BY <7>1, MaxIsLargest
          <6>2. QED
            BY <6>1
        <5>5. x[2] \in ValidLines(d)
          BY <5>2, FileType DEF ValidLines
        <5>6. QED
          BY <5>2, <5>3, <5>4, <5>5 DEF Unreadable
      <4>3. PICK w \in EntriesIn({d}) : \A y \in EntriesIn({d}) : ~Precedes(w, y)
        BY <4>2, LastEntry
      <4>4. EntriesIn({d}) = EntryAt
        BY <4>1 DEF EntriesIn
      <4>5. lock.head <= At(w).seq + cut
        BY <2>1, <4>3, <4>4 DEF HeadIs, NewestEntry
      <4>6. At(w).seq <= anchor
        BY <1>2, <1>6, <1>7, <4>1, <4>3, <4>4 DEF EntriesIn
      <4>7. At(w).seq \in Nat
        BY <1>3, <4>3, <4>4
      <4>8. QED
        BY <1>4, <2>1, <4>5, <4>6, <4>7
    <3>3. QED
      BY <3>1, <3>2
  <2>4. QED
    BY <2>2, <2>3
<1>12. AnchorSaved'
  <2>1. EntriesIn(Old(lock.day))' = {x \in EntryAt' : x[1] \in D}
    BY <1>2, <1>6 DEF EntriesIn
  <2>2. EntryAt' \ EntriesIn(Old(lock.day))' = EntryAt \ EntriesIn(D)
    BY <1>8, <2>1
  <2>3. ASSUME NEW x \in EntriesIn(Old(lock.day))' PROVE At(x)'.seq <= anchor
    BY <1>2, <1>3, <1>7, <2>1 DEF EntriesIn
  <2>4. ASSUME NEW x \in EntryAt \ EntriesIn(D), \A y \in EntryAt \ EntriesIn(D) : ~Precedes(y, x)
        PROVE  At(x)'.seq <= anchor + 1 + cut
    <3>1. x \in Positions'
      BY <1>3, <1>8
    <3>2. QED
      BY <1>2, <1>7, <2>4, <3>1
  <2>5. QED
    BY <1>1, <2>2, <2>3, <2>4 DEF AnchorSaved, OldestIn, Precedes
<1>13. QED
  BY <1>9, <1>10, <1>11, <1>12

\* Steps that touch neither the files nor the anchor: the section goes on, with its day
\* brought up to date, or ends, or there was none.
LEMMA LinesStay ==
  ASSUME CInv, UNCHANGED <<files, anchor, cut>>, today' \in Days, today <= today',
         \/ ~lock'.taken
         \/ /\ lock.taken /\ lock'.head = lock.head
            /\ \/ lock'.day = lock.day /\ lock'.kept = lock.kept /\ lock'.plan = lock.plan
               \/ lock'.day \in {lock.day, today} /\ ~lock'.kept
  PROVE  Chained'
<1>1. /\ TypeOK /\ KeptInAppend /\ DaysInOrder /\ Increasing /\ AnchorFits /\ HeadFits /\ AnchorSaved
      /\ files' = files /\ anchor' = anchor /\ cut' = cut /\ today \in Nat /\ today' \in Nat
  BY SameTypes DEF CInv, Chained, Days
<1>2. /\ Positions' = Positions /\ EntryAt' = EntryAt /\ \A x : At(x)' = At(x)
      /\ \A D : EntriesIn(D)' = EntriesIn(D)
      /\ \A d : Old(d)' = Old(d)
  BY <1>1, SameLines
<1>3. Increasing' /\ AnchorFits' /\ \A h : HeadIs(h) => HeadIs(h)'
  BY <1>1, <1>2, ChainStays
<1>4. DOMAIN files' \subseteq 1..today'
  <2>1. DOMAIN files \subseteq 1..today
    BY <1>1 DEF DaysInOrder
  <2>2. 1..today \subseteq 1..today'
    BY <1>1
  <2>3. QED
    BY <1>1, <2>1, <2>2
<1>5. CASE ~lock'.taken
  BY <1>3, <1>4, <1>5 DEF Chained, KeptInAppend, DaysInOrder, HeadFits, AnchorSaved
<1>6. CASE /\ lock.taken /\ lock'.head = lock.head
           /\ \/ lock'.day = lock.day /\ lock'.kept = lock.kept /\ lock'.plan = lock.plan
              \/ lock'.day \in {lock.day, today} /\ ~lock'.kept
  <2>1. DaysInOrder'
    <3>1. lock.day <= today /\ DOMAIN files \subseteq 1..lock.day /\ DOMAIN files \subseteq 1..today
          /\ lock.day \in Nat
      BY <1>1, <1>6, SectionTypes DEF DaysInOrder, Days
    <3>2. lock'.day \in {lock.day, today}
      BY <1>6
    <3>3. lock'.day <= today' /\ DOMAIN files' \subseteq 1..lock'.day
      BY <1>1, <3>1, <3>2
    <3>4. QED
      BY <1>4, <3>3 DEF DaysInOrder
  <2>2. HeadFits'
    <3>1. PICK h : h = lock.head
      OBVIOUS
    <3>2. HeadIs(h)'
      BY <1>1, <1>3, <1>6, <3>1 DEF HeadFits
    <3>3. QED
      BY <1>6, <3>1, <3>2 DEF HeadFits
  <2>3. KeptInAppend'
    BY <1>1, <1>6 DEF KeptInAppend
  <2>4. AnchorSaved'
    <3>1. CASE ~lock'.kept
      BY <3>1 DEF AnchorSaved
    <3>2. CASE lock'.day = lock.day /\ lock'.kept = lock.kept
      <4>1. PICK D : D = Old(lock.day)
        OBVIOUS
      <4>2. Old(lock.day)' = D /\ EntriesIn(Old(lock.day))' = EntriesIn(D)
        BY <1>1, <1>2, <3>2, <4>1 DEF Old, EntriesIn
      <4>3. lock'.taken /\ lock'.kept =>
              /\ \A x \in EntriesIn(D) : At(x).seq <= anchor
              /\ \A x \in EntryAt \ EntriesIn(D) : OldestIn(x, EntryAt \ EntriesIn(D)) => At(x).seq <= anchor + 1 + cut
        BY <1>1, <1>6, <3>2, <4>1 DEF AnchorSaved
      <4>4. QED
        BY <1>1, <1>2, <4>2, <4>3 DEF AnchorSaved, OldestIn, Precedes
    <3>3. QED
      BY <1>6, <3>1, <3>2
  <2>5. QED
    BY <1>3, <2>1, <2>2, <2>3, <2>4 DEF Chained
<1>7. QED
  BY <1>5, <1>6

\* The lock is taken: the head is the log's.
LEMMA BeginChained ==
  ASSUME CInv, NEW t \in Tasks, Begin(t)
  PROVE  Chained'
<1>1. /\ TypeOK /\ DaysInOrder /\ Increasing /\ AnchorFits /\ UNCHANGED <<files, anchor, cut, today>>
      /\ ~Unreadable(DOMAIN files) /\ today \in Nat
  BY SameTypes DEF CInv, Chained, Days, Begin
<1>2. lock'.taken /\ lock'.head = HeadSeq /\ lock'.day = today /\ lock'.kept = FALSE
  BY DEF Begin
<1>3. PICK h : h = HeadSeq
  OBVIOUS
<1>4. Increasing' /\ AnchorFits' /\ HeadIs(h)'
  <2>1. HeadIs(h)
    BY <1>1, <1>3, HeadRead
  <2>2. /\ Positions' = Positions /\ EntryAt' = EntryAt /\ \A x : At(x)' = At(x)
    BY <1>1, SameLines
  <2>3. QED
    BY <1>1, <2>1, <2>2, ChainStays
<1>5. HeadFits'
  BY <1>2, <1>3, <1>4 DEF HeadFits
<1>6. DaysInOrder'
  BY <1>1, <1>2 DEF DaysInOrder
<1>7. KeptInAppend' /\ AnchorSaved'
  BY <1>2 DEF KeptInAppend, AnchorSaved
<1>8. QED
  BY <1>4, <1>5, <1>6, <1>7 DEF Chained

\* Files after a put lie in the days up to the section's.
LEMMA PutDays ==
  ASSUME CInv, lock.taken, NEW lines \in Seq(Lines), files' = Put(lock.day, lines), today' = today
  PROVE  /\ lock.day \in Days /\ DOMAIN files \subseteq 1..lock.day
         /\ DOMAIN files' \subseteq 1..today' /\ DOMAIN files' \subseteq 1..lock.day
<1>1. TypeOK /\ lock.day \in Days /\ lock.day <= today /\ DOMAIN files \subseteq 1..lock.day /\ today \in Days
  BY SectionTypes, SameTypes DEF CInv, Chained, DaysInOrder
<1>2. DOMAIN files' = DOMAIN files \cup {lock.day}
  BY <1>1, PutFiles
<1>3. lock.day \in 1..lock.day /\ 1..lock.day \subseteq 1..today
  BY <1>1 DEF Days
<1>4. QED
  BY <1>1, <1>2, <1>3

\* Lines a section may write: the next entry, or one cut short.
LEMMA LineAdded ==
  ASSUME CInv, lock.taken, NEW l \in Lines, Valid(l) => l.seq = lock.head + 1,
         files' = Put(lock.day, <<l>>), UNCHANGED <<anchor, today>>, NEW c \in Nat, cut' = c, cut <= c
  PROVE  /\ DOMAIN files' \subseteq 1..today' /\ Increasing' /\ AnchorFits'
         /\ \A h : h = lock.head + 1 => (Valid(l) \/ c = cut + 1 => HeadIs(h)')
<1>1. TypeOK /\ Increasing /\ AnchorFits /\ HeadIs(lock.head)
  BY DEF CInv, Chained, HeadFits
<1>2. PICK h \in Nat : h = lock.head
  BY <1>1, SectionTypes
<1>3. PICK day : day = lock.day
  OBVIOUS
<1>4. day \in Days /\ DOMAIN files \subseteq 1..day /\ DOMAIN files' \subseteq 1..today'
  <2>1. <<l>> \in Seq(Lines)
    OBVIOUS
  <2>2. QED
    BY <1>3, <2>1, PutDays
<1>5. /\ Increasing' /\ AnchorFits'
      /\ Valid(l) \/ c = cut + 1 => HeadIs(h + 1)'
  BY <1>1, <1>2, <1>3, <1>4, ChainGrows
<1>6. QED
  BY <1>2, <1>4, <1>5

\* A line written continues the head, or is cut short and counted.
LEMMA WriteChained ==
  ASSUME CInv, NEW t \in Tasks, Write(t)
  PROVE  Chained'
<1>1. /\ TypeOK /\ SectionOK /\ Appending(t) /\ lock.taken /\ UNCHANGED <<anchor, today>>
      /\ today \in Nat /\ cut \in Nat
  BY SameTypes DEF CInv, Write, Ready, Appending, Working, Days
<1>2. PICK whole \in BOOLEAN :
        /\ files' = Put(lock.day, <<IF whole THEN NewLine ELSE Torn>>)
        /\ IF whole THEN cut' = cut ELSE cut' = cut + 1
  BY DEF Write
<1>3. PICK l \in Lines : l = (IF whole THEN NewLine ELSE Torn) /\ (Valid(l) => l.seq = lock.head + 1)
                         /\ (whole <=> Valid(l))
  BY <1>1, NewLineType
<1>4. PICK c \in Nat : c = cut' /\ cut <= c /\ (Valid(l) \/ c = cut + 1)
  BY <1>1, <1>2, <1>3
<1>5. files' = Put(lock.day, <<l>>)
  BY <1>2, <1>3
<1>6. PICK h : h = lock.head + 1
  OBVIOUS
<1>7. DOMAIN files' \subseteq 1..today' /\ Increasing' /\ AnchorFits' /\ HeadIs(h)'
  BY <1>1, <1>3, <1>4, <1>5, <1>6, LineAdded
<1>8. lock'.head = lock.head + 1 /\ lock'.day = today /\ lock'.kept = FALSE
  <2>1. DOMAIN lock = {"taken", "by", "proc", "plan", "head", "day", "kept", "known"}
    BY <1>1, SectionTypes DEF Sections
  <2>2. lock' = [lock EXCEPT !.plan = Tail(lock.plan), !.head = lock.head + 1, !.day = today, !.kept = FALSE]
    BY DEF Write
  <2>3. QED
    BY <2>1, <2>2
<1>9. HeadFits'
  BY <1>6, <1>7, <1>8 DEF HeadFits
<1>10. DaysInOrder'
  BY <1>1, <1>7, <1>8 DEF DaysInOrder
<1>11. KeptInAppend' /\ AnchorSaved'
  BY <1>8 DEF KeptInAppend, AnchorSaved
<1>12. QED
  BY <1>7, <1>9, <1>10, <1>11 DEF Chained

\* A section that is given up leaves no line, an empty file, a torn line or the whole one.
LEMMA LogLeft ==
  ASSUME CInv, lock.taken, NEW t \in Tasks, Appending(t), ~lock'.taken, UNCHANGED <<anchor, today, cut>>,
         \/ files' = Put(lock.day, <<>>) \/ files' = Put(lock.day, <<NewLine>>)
         \/ files' = Put(lock.day, <<Torn>>)
  PROVE  Chained'
<1>1. TypeOK /\ SectionOK /\ today \in Nat /\ cut \in Nat /\ Increasing /\ AnchorFits
  BY SameTypes DEF CInv, Days, Chained
<1>2. DOMAIN files' \subseteq 1..today' /\ Increasing' /\ AnchorFits'
  <2>1. CASE files' = Put(lock.day, <<>>)
    <3>1. PICK day : day = lock.day
      OBVIOUS
    <3>2. <<>> \in Seq(Lines)
      OBVIOUS
    <3>3. day \in Days /\ DOMAIN files' \subseteq 1..today'
      BY <2>1, <3>1, <3>2, PutDays
    <3>4. Positions' = Positions /\ EntryAt' = EntryAt /\ \A x \in Positions : At(x)' = At(x)
      BY <1>1, <2>1, <3>1, <3>3, EmptyFile
    <3>5. QED
      BY <1>1, <3>3, <3>4, ChainStays
  <2>2. ASSUME NEW l \in {NewLine, Torn}, files' = Put(lock.day, <<l>>)
        PROVE  DOMAIN files' \subseteq 1..today' /\ Increasing' /\ AnchorFits'
    <3>1. l \in Lines /\ (Valid(l) => l.seq = lock.head + 1)
      BY <1>1, NewLineType
    <3>2. PICK c \in Nat : c = cut
      BY <1>1
    <3>3. cut' = c /\ cut <= c
      BY <1>1, <3>2
    <3>4. QED
      BY <2>2, <3>1, <3>3, LineAdded
  <2>3. QED
    BY <2>1, <2>2
<1>3. QED
  BY <1>2 DEF Chained, KeptInAppend, DaysInOrder, HeadFits, AnchorSaved

\* A section that raised, or whose process died.
LEMMA GivenUpChained ==
  ASSUME CInv, (\E t \in Tasks : AppendFails(t)) \/ (\E p \in Procs : Crash(p))
  PROVE  Chained'
<1>1. TypeOK /\ SectionOK /\ today \in Days /\ today <= today' /\ UNCHANGED <<anchor, today, cut>>
  <2>1. UNCHANGED <<anchor, today, cut>>
    BY DEF AppendFails, Crash
  <2>2. TypeOK /\ SectionOK /\ today \in Days /\ today <= today
    BY SameTypes DEF CInv, Days
  <2>3. QED
    BY <2>1, <2>2
<1>2. CASE lock' = lock /\ files' = files
  BY <1>1, <1>2, LinesStay
<1>3. CASE ~lock'.taken /\ files' = files
  BY <1>1, <1>3, LinesStay
<1>4. CASE lock' = Free /\ files' # files
  <2>1. PICK t \in Tasks : Appending(t) /\ (\/ files' = Put(lock.day, <<>>)
                                           \/ files' = Put(lock.day, <<NewLine>>)
                                           \/ files' = Put(lock.day, <<Torn>>))
    <3>1. ASSUME NEW t \in Tasks, AppendFails(t)
          PROVE  Appending(t) /\ (files' = Put(lock.day, <<>>) \/ files' = Put(lock.day, <<NewLine>>))
      BY <1>4, <3>1 DEF AppendFails
    <3>2. ASSUME NEW p \in Procs, Crash(p)
          PROVE  /\ lock.by \in Tasks /\ Appending(lock.by)
                 /\ \/ files' = Put(lock.day, <<>>) \/ files' = Put(lock.day, <<NewLine>>)
                    \/ files' = Put(lock.day, <<Torn>>)
      <4>1. lock.taken /\ lock.proc = p
        BY <1>4, <3>2 DEF Crash
      <4>2. Ready(lock.by) /\ files' \in {Put(lock.day, l) : l \in {<<>>, <<Torn>>, <<NewLine>>}}
        BY <1>4, <3>2, <4>1 DEF Crash
      <4>3. QED
        BY <1>1, <4>1, <4>2, SectionTypes DEF Ready
    <3>3. QED
      BY <3>1, <3>2
  <2>2. lock.taken /\ ~lock'.taken
    BY <1>4, <2>1 DEF Appending, Working, Free
  <2>3. QED
    BY <1>1, <2>1, <2>2, LogLeft
<1>5. QED
  <2>1. (\E t \in Tasks : AppendFails(t)) => lock' = Free
    BY DEF AppendFails, Drop
  <2>2. (\E p \in Procs : Crash(p)) => lock' = Free \/ (lock' = lock /\ files' = files)
    BY DEF Crash, Drop
  <2>3. ~Free.taken
    BY DEF Free
  <2>4. QED
    BY <1>2, <1>3, <1>4, <2>1, <2>2, <2>3

\* Retention: the anchor is saved, then the oldest files go.
LEMMA RetentionChained ==
  ASSUME CInv, NEW t \in Tasks, SaveAnchor(t) \/ Unlink(t)
  PROVE  Chained'
<1>1. /\ TypeOK /\ KeptInAppend /\ DaysInOrder /\ Increasing /\ AnchorFits /\ HeadFits /\ AnchorSaved
      /\ today' = today /\ lock.taken /\ lock.plan # <<>> /\ Head(lock.plan) \in Appends
  BY DEF CInv, Chained, SaveAnchor, Unlink, Appending, Working
<1>2. Increasing' /\ AnchorFits' /\ HeadFits' /\ AnchorSaved'
  BY <1>1, AnchorMoves, FileGoes
<1>3. lock'.plan = lock.plan /\ lock'.day = lock.day
  <2>1. DOMAIN lock = {"taken", "by", "proc", "plan", "head", "day", "kept", "known"}
    BY <1>1, SectionTypes DEF Sections
  <2>2. lock' = lock \/ lock' = [lock EXCEPT !.kept = TRUE]
    BY DEF SaveAnchor, Unlink
  <2>3. QED
    BY <2>1, <2>2
<1>4. DOMAIN files' \subseteq DOMAIN files
  <2>1. CASE Unlink(t)
    BY <1>1, <2>1, UnlinkLines
  <2>2. CASE SaveAnchor(t)
    BY <2>2 DEF SaveAnchor
  <2>3. QED
    BY <2>1, <2>2
<1>5. DaysInOrder'
  BY <1>1, <1>3, <1>4 DEF DaysInOrder
<1>6. KeptInAppend'
  BY <1>1, <1>3 DEF KeptInAppend
<1>7. QED
  BY <1>2, <1>5, <1>6 DEF Chained

\* Clearing, and looking at the cap, are no appends.
LEMMA PassingChained ==
  ASSUME CInv, NEW t \in Tasks, Clear(t) \/ Window(t)
  PROVE  Chained'
<1>1. /\ TypeOK /\ KeptInAppend /\ lock.taken /\ lock.plan # <<>> /\ Head(lock.plan) \in {"clear", "window"}
      /\ UNCHANGED <<files, anchor, cut, today>> /\ today \in Days /\ today <= today'
  BY SameTypes DEF CInv, Chained, Clear, Window, Step, Working, Days
<1>2. ~lock.kept
  BY <1>1 DEF KeptInAppend, Appends
<1>3. lock'.head = lock.head /\ lock'.day \in {lock.day, today} /\ lock'.kept = lock.kept
  <2>1. DOMAIN lock = {"taken", "by", "proc", "plan", "head", "day", "kept", "known"}
    BY <1>1, SectionTypes DEF Sections
  <2>2. CASE Clear(t)
    <3>1. lock' = [lock EXCEPT !.plan = Tail(lock.plan), !.day = today]
      BY <2>2 DEF Clear
    <3>2. QED
      BY <2>1, <3>1
  <2>3. CASE Window(t)
    <3>1. \E plan : lock' = [lock EXCEPT !.plan = plan]
      BY <2>3 DEF Window
    <3>2. QED
      BY <2>1, <3>1
  <2>4. QED
    BY <2>2, <2>3
<1>4. QED
  BY <1>1, <1>2, <1>3, LinesStay

\* The inductive step, one case per action.
LEMMA ChainStep == CInv /\ [Next]_vars => CInv'
<1> SUFFICES ASSUME CInv, [Next]_vars PROVE Chained'
  BY TypesStep DEF CInv
<1>1. TypeOK /\ SectionOK /\ today \in Days /\ today <= today
  BY SameTypes DEF CInv, Days
<1>2. ASSUME NEW t \in Tasks, TaskStep(t) PROVE Chained'
  <2>1. CASE BeginFails(t) \/ Finish(t)
    <3>1. UNCHANGED <<files, anchor, cut, today>> /\ ~lock'.taken
      BY <2>1 DEF BeginFails, Finish, Wants, Drop, Free
    <3>2. QED
      BY <1>1, <3>1, LinesStay
  <2>2. CASE Mark(t) \/ MarkFails(t)
    <3>1. UNCHANGED <<files, anchor, cut, today, lock>>
      BY <2>2 DEF Mark, MarkFails
    <3>2. QED
      BY <1>1, <3>1, LinesStay
  <2>3. QED
    BY <1>2, <2>1, <2>2, BeginChained, RetentionChained, WriteChained, GivenUpChained, PassingChained
       DEF TaskStep
<1>3. ASSUME NEW c \in Calls, Arrive(c) \/ Serve(c) PROVE Chained'
  <2>1. UNCHANGED <<files, anchor, cut, today, lock>>
    BY <1>3 DEF Arrive, Serve
  <2>2. QED
    BY <1>1, <2>1, LinesStay
<1>4. ASSUME NEW p \in Procs, Flush(p) \/ Shutdown(p) \/ Restart(p) PROVE Chained'
  <2>1. UNCHANGED <<files, anchor, cut, today, lock>>
    BY <1>4 DEF Flush, Shutdown, Restart
  <2>2. QED
    BY <1>1, <2>1, LinesStay
<1>5. CASE \E p \in Procs : Crash(p)
  BY <1>5, GivenUpChained
<1>6. CASE NewMinute \/ UNCHANGED vars
  <2>1. UNCHANGED <<files, anchor, cut, today, lock>>
    BY <1>6 DEF NewMinute, vars
  <2>2. QED
    BY <1>1, <2>1, LinesStay
<1>7. CASE NewDay
  <2>1. UNCHANGED <<files, anchor, cut, lock>> /\ today' \in Days /\ today <= today'
    BY <1>1, <1>7, CallLogConstantsOK DEF NewDay, Days
  <2>2. QED
    BY <2>1, LinesStay
<1>8. QED
  BY <1>2, <1>3, <1>4, <1>5, <1>6, <1>7 DEF Next, Living

\* At the start there is no log.
LEMMA ChainInit == Init => CInv
<1> SUFFICES ASSUME Init PROVE Chained
  BY TypesInit DEF CInv
<1>1. ~lock.taken /\ today = 1 /\ DOMAIN files = {}
  BY DEF Init, Free
<1>2. Positions = {} /\ EntryAt = {}
  BY <1>1 DEF Positions, EntryAt
<1>3. QED
  BY <1>1, <1>2 DEF Chained, KeptInAppend, DaysInOrder, Increasing, AnchorFits, HeadFits, AnchorSaved

\* The log is one hash chain: its entries have increasing seqs, each continues the one before it
\* unless a torn line lies between them, and the anchor meets the first, whichever file operation
\* failed and between whichever two of them the process died.
THEOREM ChainHolds == Spec => []ChainUnbroken
<1>1. Init => CInv
  BY ChainInit
<1>2. CInv /\ [Next]_vars => CInv'
  BY ChainStep
<1>3. CInv => ChainUnbroken
  <2> SUFFICES ASSUME CInv PROVE ChainUnbroken
    OBVIOUS
  <2>1. TypeOK /\ Increasing /\ AnchorFits
    BY DEF CInv, Chained
  <2>2. EntryAt \subseteq Positions /\ \A x \in Positions : Valid(At(x)) => x \in EntryAt
    BY <2>1, EntryIs
  <2>3. ASSUME NEW x \in Positions, NEW y \in Positions, Precedes(x, y), Valid(At(x)), Valid(At(y))
        PROVE  /\ At(x).seq < At(y).seq
               /\ (~\E z \in Positions : Precedes(x, z) /\ Precedes(z, y)) => At(y).seq = At(x).seq + 1
    BY <2>1, <2>2, <2>3 DEF Increasing
  <2>4. ASSUME NEW x \in Positions, Valid(At(x))
        PROVE  /\ (~\E y \in Positions : Precedes(y, x)) => At(x).seq <= anchor + 1 + cut
               /\ x[1] >= today - RetainDays => anchor < At(x).seq
    BY <2>1, <2>2, <2>4 DEF AnchorFits, OldestIn
  <2>5. QED
    BY <2>3, <2>4 DEF ChainUnbroken, AnchorMeetsChain
<1>4. QED
  BY <1>1, <1>2, <1>3, PTL DEF Spec

-----------------------------------------------------------------------------
(* Reading the log while it moves *)

\* The day of the section under way, or today.
Bound == IF lock.taken THEN lock.day ELSE today

\* The anchor lies at the end of what was to be deleted.
AnchorEnds ==
  \A x \in EntryAt : At(x).seq <= anchor =>
    \E y \in EntryAt : At(y).seq = anchor /\ y[1] < Bound - RetainDays
LinesSound == \A x \in Positions : IF Valid(At(x)) THEN At(x).seq > 0 ELSE At(x).calls = {}
\* Only a short write or a crash leaves a torn line.
AllValid == cut = 0 /\ stops = 0 => \A x \in Positions : Valid(At(x))

LogInv == AInv /\ CInv /\ AnchorEnds /\ LinesSound /\ AllValid

\* How the log moves: no line, one more at its end, or the oldest file gone.
LinesStand ==
  /\ Positions' = Positions /\ EntryAt' = EntryAt /\ \A x \in Positions : At(x)' = At(x)
  /\ DOMAIN files \subseteq DOMAIN files'
  /\ \A d \in DOMAIN files' : d \in DOMAIN files \/ (lock.taken /\ d = lock.day)
LineComes(n) ==
  /\ lock.taken /\ anchor' = anchor
  /\ n \notin Positions /\ n[1] = lock.day /\ Positions' = Positions \cup {n}
  /\ EntryAt' = EntryAt \cup (IF Valid(At(n))' THEN {n} ELSE {})
  /\ \A x \in Positions : At(x)' = At(x)
  /\ DOMAIN files' = DOMAIN files \cup {lock.day}
  /\ IF Valid(At(n))' THEN At(n).seq' = lock.head + 1
     ELSE At(n).calls' = {} /\ (cut < cut' \/ stops < stops')
FileLeaves(d) ==
  /\ lock.taken /\ anchor' = anchor
  /\ d \in DOMAIN files /\ d < lock.day - RetainDays /\ \A e \in DOMAIN files : e # d => d < e
  /\ DOMAIN files' = DOMAIN files \ {d}
  /\ Positions' = {x \in Positions : x[1] # d} /\ EntryAt' = {x \in EntryAt : x[1] # d}
  /\ \A x \in Positions' : At(x)' = At(x)
  /\ \A x \in EntryAt : x[1] = d => At(x).seq <= anchor

\* The same files.
LEMMA FilesStand ==
  ASSUME files' = files
  PROVE  LinesStand
BY SameLines DEF LinesStand

\* What a section leaves in its file.
LEMMA FileWritten ==
  ASSUME CInv, NEW t \in Tasks, Appending(t), anchor' = anchor,
         \/ files' = Put(lock.day, <<>>) \/ files' = Put(lock.day, <<NewLine>>)
         \/ files' = Put(lock.day, <<Torn>>) /\ (cut < cut' \/ stops < stops')
  PROVE  LinesStand \/ \E n : LineComes(n)
<1>1. TypeOK /\ SectionOK /\ lock.taken
  BY DEF CInv, Appending, Working
<1>2. PICK day : day = lock.day
  OBVIOUS
<1>3. day \in Days /\ DOMAIN files \subseteq 1..day
  BY <1>1, <1>2, SectionTypes DEF CInv, Chained, DaysInOrder
<1>4. CASE files' = Put(lock.day, <<>>)
  <2>1. Positions' = Positions /\ EntryAt' = EntryAt /\ \A x \in Positions : At(x)' = At(x)
    BY <1>1, <1>2, <1>3, <1>4, EmptyFile
  <2>2. <<>> \in Seq(Lines)
    OBVIOUS
  <2>3. DOMAIN files' = DOMAIN files \cup {day}
    BY <1>1, <1>2, <1>3, <1>4, <2>2, PutFiles
  <2>4. QED
    BY <1>1, <1>2, <2>1, <2>3 DEF LinesStand
<1>5. ASSUME NEW l \in {NewLine, Torn}, files' = Put(lock.day, <<l>>),
             l = Torn => cut < cut' \/ stops < stops'
      PROVE  \E n : LineComes(n)
  <2>1. /\ l \in Lines /\ IF Valid(l) THEN l.seq = lock.head + 1 
                         ELSE l.calls = {} /\ (cut < cut' \/ stops < stops')
    BY <1>1, <1>5, NewLineType
  <2>2. <<l>> \in Seq(Lines)
    BY <2>1
  <2>3. DOMAIN files' = DOMAIN files \cup {day}
    BY <1>1, <1>2, <1>3, <1>5, <2>2, PutFiles
  <2>4. PICK n : /\ n \notin Positions /\ Positions' = Positions \cup {n} /\ n[1] = day
                 /\ At(n)' = l /\ \A x \in Positions : At(x)' = At(x)
    BY <1>1, <1>2, <1>3, <1>5, <2>1, NewLineLast
  <2>5. Valid(At(n))' = Valid(l) /\ At(n).seq' = l.seq /\ At(n).calls' = l.calls
    BY <2>4 DEF Valid
  <2>6. EntryAt' = EntryAt \cup (IF Valid(At(n))' THEN {n} ELSE {})
    BY <2>4, <2>5 DEF EntryAt, Valid
  <2>7. LineComes(n)
    BY <1>1, <1>2, <2>1, <2>3, <2>4, <2>5, <2>6 DEF LineComes
  <2>8. QED
    BY <2>7
<1>6. QED
  BY <1>1, <1>4, <1>5, NewLineType

\* What retention deletes.
LEMMA FileUnlinked ==
  ASSUME CInv, NEW t \in Tasks, Unlink(t)
  PROVE  \E d : FileLeaves(d)
<1>1. TypeOK /\ lock.taken /\ lock.kept /\ AnchorSaved /\ anchor' = anchor
  BY DEF CInv, Chained, Unlink, Appending, Working
<1>2. PICK d : d = Min(Old(lock.day))
  OBVIOUS
<1>3. /\ d \in Old(lock.day) /\ d \in DOMAIN files /\ d \in Nat
      /\ \A e \in DOMAIN files : e # d => d < e
      /\ DOMAIN files' = DOMAIN files \ {d} /\ \A e \in DOMAIN files' : files'[e] = files[e]
  BY <1>1, <1>2, UnlinkFiles
<1>4. d < lock.day - RetainDays
  BY <1>1, <1>3, OldFiles
<1>5. Positions' = {x \in Positions : x[1] # d}
  <2>1. ASSUME NEW x \in Positions, x[1] # d PROVE x \in Positions'
    BY <1>1, <1>3, <2>1, PositionIs DEF Positions
  <2>2. ASSUME NEW x \in Positions' PROVE x \in Positions /\ x[1] # d
    <3> PICK e \in DOMAIN files' : \E i \in DOMAIN files'[e] : x = <<e, i>>
      BY DEF Positions
    <3>1. PICK i \in DOMAIN files'[e] : x = <<e, i>>
      OBVIOUS
    <3>2. QED
      BY <1>3, <3>1 DEF Positions
  <2>3. QED
    BY <2>1, <2>2
<1>6. \A x \in Positions' : At(x)' = At(x)
  BY <1>1, <1>3, <1>5, PositionIs DEF At
<1>7. EntryAt' = {x \in EntryAt : x[1] # d}
  BY <1>5, <1>6 DEF EntryAt, Valid
<1>8. \A x \in EntryAt : x[1] = d => At(x).seq <= anchor
  BY <1>1, <1>3 DEF AnchorSaved, EntriesIn
<1>9. FileLeaves(d)
  BY <1>1, <1>3, <1>4, <1>5, <1>6, <1>7, <1>8 DEF FileLeaves
<1>10. QED
  BY <1>9

\* How a step of the log moves its lines and its anchor.
LEMMA LogMoves ==
  ASSUME CInv, [Next]_vars
  PROVE  \/ LinesStand /\ (anchor' = anchor \/ \E t \in Tasks : SaveAnchor(t))
         \/ \E n : LineComes(n)
         \/ \E d : FileLeaves(d)
<1> DEFINE Goal == \/ LinesStand /\ (anchor' = anchor \/ \E t \in Tasks : SaveAnchor(t))
                   \/ \E n : LineComes(n)
                   \/ \E d : FileLeaves(d)
<1>1. TypeOK /\ SectionOK /\ cut \in Nat /\ stops \in Nat
  BY SameTypes DEF CInv
<1>2. CASE UNCHANGED <<files, anchor>>
  BY <1>2, FilesStand
<1>3. ASSUME NEW t \in Tasks, TaskStep(t) PROVE Goal
  <2>1. CASE SaveAnchor(t)
    <3>1. files' = files
      BY <2>1 DEF SaveAnchor
    <3>2. QED
      BY <2>1, <3>1, FilesStand
  <2>2. CASE Unlink(t)
    BY <2>2, FileUnlinked
  <2>3. CASE Write(t)
    <3>1. Appending(t) /\ anchor' = anchor
      BY <2>3 DEF Write, Ready
    <3>2. PICK whole \in BOOLEAN :
            /\ files' = Put(lock.day, <<IF whole THEN NewLine ELSE Torn>>)
            /\ IF whole THEN cut' = cut ELSE cut' = cut + 1
      BY <2>3 DEF Write
    <3>3. files' = Put(lock.day, <<NewLine>>) \/ (files' = Put(lock.day, <<Torn>>) /\ cut < cut')
      BY <1>1, <3>2
    <3>4. QED
      BY <3>1, <3>3, FileWritten
  <2>4. CASE AppendFails(t)
    <3>1. Appending(t) /\ anchor' = anchor
      BY <2>4 DEF AppendFails
    <3>2. files' = files \/ files' = Put(lock.day, <<>>) \/ files' = Put(lock.day, <<NewLine>>)
      BY <2>4 DEF AppendFails
    <3>3. QED
      BY <1>2, <3>1, <3>2, FileWritten
  <2>5. CASE Begin(t) \/ BeginFails(t) \/ Finish(t) \/ Clear(t) \/ Window(t) \/ Mark(t) \/ MarkFails(t)
    <3>1. UNCHANGED <<files, anchor>>
      BY <2>5 DEF Begin, BeginFails, Finish, Clear, Window, Mark, MarkFails
    <3>2. QED
      BY <1>2, <3>1
  <2>6. QED
    BY <1>3, <2>1, <2>2, <2>3, <2>4, <2>5 DEF TaskStep
<1>4. ASSUME NEW p \in Procs, Crash(p) PROVE Goal
  <2>1. anchor' = anchor /\ stops < stops'
    <3>1. anchor' = anchor /\ stops' = stops + 1
      BY <1>4 DEF Crash
    <3>2. QED
      BY <1>1, <3>1
  <2>2. CASE files' = files
    BY <1>2, <2>1, <2>2
  <2>3. CASE files' # files
    <3>1. lock.taken /\ lock.proc = p
      BY <1>4, <2>3 DEF Crash
    <3>2. Ready(lock.by) /\ files' \in {Put(lock.day, l) : l \in {<<>>, <<Torn>>, <<NewLine>>}}
      BY <1>4, <2>3, <3>1 DEF Crash
    <3>3. lock.by \in Tasks /\ Appending(lock.by)
      BY <1>1, <3>1, <3>2, SectionTypes DEF Ready
    <3>4. PICK t \in Tasks : t = lock.by
      BY <3>3
    <3>5. Appending(t)
      BY <3>3, <3>4
    <3>6. QED
      BY <2>1, <3>2, <3>5, FileWritten
  <2>4. QED
    BY <2>2, <2>3
<1>5. CASE \/ \E c \in Calls : Arrive(c) \/ Serve(c)
           \/ \E p \in Procs : Flush(p) \/ Shutdown(p) \/ Restart(p)
           \/ NewMinute \/ NewDay \/ UNCHANGED vars
  <2>1. UNCHANGED <<files, anchor>>
    BY <1>5 DEF Arrive, Serve, Flush, Shutdown, Restart, NewMinute, NewDay, vars
  <2>2. QED
    BY <1>2, <2>1
<1>6. QED
  BY <1>3, <1>4, <1>5 DEF Next, Living

\* The clock and the counts never go back, nor does the day of the sections.
LEMMA DaysGoOn ==
  ASSUME CInv, [Next]_vars
  PROVE  /\ cut \in Nat /\ cut' \in Nat /\ cut <= cut' /\ stops \in Nat /\ stops' \in Nat /\ stops <= stops'
         /\ Bound \in Nat /\ Bound' \in Nat /\ Bound <= Bound'
<1>1. TypeOK /\ SectionOK /\ TypeOK'
  BY TypesStep DEF CInv
<1>2. /\ cut \in Nat /\ cut' \in Nat /\ stops \in Nat /\ stops' \in Nat /\ today \in Nat /\ today' \in Nat
      /\ lock.taken => lock.day \in Nat /\ lock.day <= today
      /\ lock'.taken => lock'.day \in Nat
  <2>1. lock.taken => lock.day \in Days /\ lock.day <= today
    BY <1>1, SectionTypes DEF CInv, Chained, DaysInOrder
  <2>2. lock'.taken => lock'.day \in Days
    <3>1. lock' = Free \/ lock' \in Sections
      BY <1>1 DEF TypeOK
    <3>2. ~Free.taken
      BY DEF Free
    <3>3. \A s \in Sections : s.day \in Days
      BY DEF Sections
    <3>4. QED
      BY <3>1, <3>2, <3>3
  <2>3. QED
    BY <1>1, <2>1, <2>2 DEF TypeOK, Days
<1>3. cut <= cut' /\ stops <= stops' /\ today <= today'
  <2>1. (cut' = cut \/ cut' = cut + 1) /\ (stops' = stops \/ stops' = stops + 1)
        /\ (today' = today \/ today' = today + 1)
    BY DEF Next, Living, TaskStep, Begin, BeginFails, Finish, SaveAnchor, Unlink, Write, AppendFails, Clear,
           Window, Mark, MarkFails, Arrive, Serve, Flush, Shutdown, Restart, Crash, NewMinute, NewDay, vars
  <2>2. QED
    BY <1>2, <2>1
<1>4. ~lock'.taken \/ (lock.taken /\ lock'.day \in {lock.day, today}) \/ lock'.day = today
  <2>1. lock.taken => DOMAIN lock = {"taken", "by", "proc", "plan", "head", "day", "kept", "known"}
    BY <1>1, SectionTypes DEF Sections
  <2>2. ASSUME NEW t \in Tasks, Begin(t) PROVE lock'.day = today
    BY <2>2 DEF Begin
  <2>3. ASSUME NEW t \in Tasks, SaveAnchor(t) \/ Write(t) \/ Clear(t) \/ Window(t)
        PROVE  lock.taken /\ lock'.day \in {lock.day, today}
    <3>1. lock.taken
      BY <2>3 DEF SaveAnchor, Write, Clear, Window, Ready, Appending, Working, Step
    <3>2. CASE SaveAnchor(t)
      BY <2>1, <3>1, <3>2 DEF SaveAnchor
    <3>3. CASE Write(t)
      <4>1. PICK plan, head : lock' = [lock EXCEPT !.plan = plan, !.head = head, !.day = today, !.kept = FALSE]
        BY <3>3 DEF Write
      <4>2. QED
        BY <2>1, <3>1, <4>1
    <3>4. CASE Clear(t)
      <4>1. PICK plan : lock' = [lock EXCEPT !.plan = plan, !.day = today]
        BY <3>4 DEF Clear
      <4>2. QED
        BY <2>1, <3>1, <4>1
    <3>5. CASE Window(t)
      <4>1. PICK plan : lock' = [lock EXCEPT !.plan = plan]
        BY <3>5 DEF Window
      <4>2. QED
        BY <2>1, <3>1, <4>1
    <3>6. QED
      BY <2>3, <3>2, <3>3, <3>4, <3>5
  <2>4. ASSUME NEW t \in Tasks, BeginFails(t) \/ Finish(t) \/ Unlink(t) \/ AppendFails(t) \/ Mark(t) \/ MarkFails(t)
        PROVE  lock' = lock \/ ~lock'.taken
    BY <2>4 DEF BeginFails, Finish, Unlink, AppendFails, Mark, MarkFails, Drop, Free
  <2>5. ASSUME \/ \E c \in Calls : Arrive(c) \/ Serve(c)
               \/ \E p \in Procs : Flush(p) \/ Shutdown(p) \/ Restart(p)
               \/ NewMinute \/ NewDay \/ UNCHANGED vars
        PROVE  lock' = lock
    BY <2>5 DEF Arrive, Serve, Flush, Shutdown, Restart, NewMinute, NewDay, vars
  <2>6. ASSUME NEW p \in Procs, Crash(p) PROVE lock' = lock \/ ~lock'.taken
    <3>1. lock' = lock \/ lock' = Free
      BY <2>6 DEF Crash, Drop
    <3>2. QED
      BY <3>1 DEF Free
  <2>7. QED
    BY <2>2, <2>3, <2>4, <2>5, <2>6 DEF Next, Living, TaskStep
<1>5. Bound \in Nat /\ Bound' \in Nat /\ Bound <= Bound'
  BY <1>2, <1>3, <1>4 DEF Bound
<1>6. QED
  BY <1>2, <1>3, <1>5

\* Saving the anchor moves it forward, to the end of what is about to be deleted.
LEMMA AnchorSaves ==
  ASSUME CInv, AnchorEnds, NEW t \in Tasks, SaveAnchor(t)
  PROVE  /\ anchor <= anchor' /\ Bound' = Bound
         /\ anchor' = anchor \/ \E w \in EntryAt : At(w).seq = anchor' /\ w[1] < Bound - RetainDays
<1>1. /\ TypeOK /\ Increasing /\ AnchorFits /\ anchor \in Nat /\ lock.taken
      /\ Old(lock.day) # {} /\ ~Unreadable(Old(lock.day)) /\ Bound = lock.day
  BY SameTypes DEF CInv, Chained, SaveAnchor, Appending, Working, Bound
<1>2. PICK S : S = Old(lock.day)
  OBVIOUS
<1>3. /\ S \subseteq DOMAIN files /\ S # {} /\ ~Unreadable(S) /\ \A d \in S : d < Bound - RetainDays
      /\ \A d \in DOMAIN files : d < Bound - RetainDays => d \in S
  BY <1>1, <1>2, OldFiles
<1>4. Bound' = Bound
  <2>1. DOMAIN lock = {"taken", "by", "proc", "plan", "head", "day", "kept", "known"}
    BY <1>1, SectionTypes DEF Sections
  <2>2. lock' = [lock EXCEPT !.kept = TRUE]
    BY DEF SaveAnchor
  <2>3. lock'.taken /\ lock'.day = lock.day
    BY <1>1, <2>1, <2>2
  <2>4. QED
    BY <1>1, <2>3 DEF Bound
<1>5. CASE NonEmpty(S) = {}
  BY <1>1, <1>2, <1>4, <1>5 DEF SaveAnchor
<1>6. CASE NonEmpty(S) # {}
  <2>1. anchor' = LastSeq(S)
    BY <1>2, <1>6 DEF SaveAnchor
  <2>2. PICK w \in EntriesIn(S) : At(w).seq = LastSeq(S) /\ \A y \in EntriesIn(S) : ~Precedes(w, y)
    BY <1>1, <1>3, <1>6, LastEntry
  <2>3. w \in EntryAt /\ w[1] < Bound - RetainDays /\ At(w).seq \in Nat
    BY <1>1, <1>3, <2>2, EntryIs DEF EntriesIn
  <2>4. anchor <= At(w).seq
    <3> SUFFICES ASSUME At(w).seq <= anchor PROVE anchor <= At(w).seq
      BY <1>1, <2>3
    <3>1. PICK y \in EntryAt : At(y).seq = anchor /\ y[1] < Bound - RetainDays
      BY <2>3 DEF AnchorEnds
    <3>2. y[1] \in DOMAIN files
      BY <1>1, <3>1, EntryIs, PositionIs
    <3>3. y \in EntriesIn(S)
      BY <1>3, <3>1, <3>2 DEF EntriesIn
    <3>4. ~Precedes(w, y)
      BY <2>2, <3>3
    <3>5. QED
      BY <1>1, <2>3, <3>1, <3>4, SeqsFollow
  <2>5. QED
    BY <1>4, <2>1, <2>2, <2>3, <2>4
<1>7. QED
  BY <1>5, <1>6

\* The anchor stays between the files to be deleted and the rest, and does not go back.
LEMMA AnchorEndsStep ==
  ASSUME CInv, AnchorEnds, [Next]_vars
  PROVE  /\ AnchorEnds'
         /\ anchor \in Nat /\ anchor' \in Nat /\ anchor <= anchor'
<1>1. /\ TypeOK /\ Increasing /\ anchor \in Nat /\ CInv' /\ TypeOK' /\ anchor' \in Nat
      /\ RetainDays \in Nat
  BY ChainStep, CallLogConstantsOK DEF CInv, Chained, TypeOK
<1>2. Bound \in Nat /\ Bound' \in Nat /\ Bound <= Bound'
  BY DaysGoOn
<1>3. ASSUME NEW y, y[1] \in Nat, y[1] < Bound - RetainDays PROVE y[1] < Bound' - RetainDays
  BY <1>1, <1>2, <1>3
<1>4. \A x \in EntryAt : x \in Positions /\ x[1] \in Nat /\ At(x).seq \in Nat
  BY <1>1, EntryIs, PositionIs
<1>5. CASE LinesStand /\ anchor' = anchor
  <2>1. EntryAt' = EntryAt /\ \A x \in EntryAt : At(x)' = At(x)
    BY <1>4, <1>5 DEF LinesStand
  <2>2. QED
    BY <1>1, <1>3, <1>4, <1>5, <2>1 DEF AnchorEnds
<1>6. ASSUME NEW t \in Tasks, LinesStand, SaveAnchor(t) PROVE AnchorEnds' /\ anchor <= anchor'
  <2>1. EntryAt' = EntryAt /\ \A x \in EntryAt : At(x)' = At(x)
    BY <1>4, <1>6 DEF LinesStand
  <2>2. /\ anchor <= anchor' /\ Bound' = Bound
        /\ anchor' = anchor \/ \E w \in EntryAt : At(w).seq = anchor' /\ w[1] < Bound - RetainDays
    BY <1>6, AnchorSaves
  <2>3. QED
    BY <2>1, <2>2 DEF AnchorEnds
<1>7. ASSUME NEW n, LineComes(n) PROVE AnchorEnds' /\ anchor' = anchor
  <2>1. /\ EntryAt \subseteq EntryAt' /\ EntryAt' \subseteq EntryAt \cup {n} /\ \A x \in EntryAt : At(x)' = At(x)
        /\ anchor' = anchor /\ lock.taken /\ (n \in EntryAt' => At(n).seq' = lock.head + 1)
    BY <1>4, <1>7 DEF LineComes
  <2>2. anchor <= lock.head /\ lock.head \in Nat
    BY <1>1, <2>1, SectionTypes DEF CInv, Chained, HeadFits, HeadIs
  <2>3. n \in EntryAt' => ~(At(n).seq' <= anchor')
    BY <1>1, <2>1, <2>2
  <2>4. ASSUME NEW x \in EntryAt', At(x).seq' <= anchor'
        PROVE  \E y \in EntryAt' : At(y).seq' = anchor' /\ y[1] < Bound' - RetainDays
    <3>1. x \in EntryAt /\ At(x).seq <= anchor
      BY <2>1, <2>3, <2>4
    <3>2. PICK y \in EntryAt : At(y).seq = anchor /\ y[1] < Bound - RetainDays
      BY <3>1 DEF AnchorEnds
    <3>3. QED
      BY <1>3, <1>4, <2>1, <3>2
  <2>5. QED
    BY <2>1, <2>4 DEF AnchorEnds
<1>8. ASSUME NEW d, FileLeaves(d) PROVE AnchorEnds' /\ anchor' = anchor
  <2>1. /\ EntryAt' = {x \in EntryAt : x[1] # d} /\ \A x \in EntryAt' : At(x)' = At(x)
        /\ anchor' = anchor /\ \A e \in DOMAIN files : e # d => d < e
    BY <1>4, <1>8 DEF FileLeaves
  <2>2. ASSUME NEW x \in EntryAt', At(x).seq' <= anchor'
        PROVE  \E y \in EntryAt' : At(y).seq' = anchor' /\ y[1] < Bound' - RetainDays
    <3>1. x \in EntryAt /\ x[1] # d /\ At(x).seq <= anchor
      BY <2>1, <2>2
    <3>2. PICK y \in EntryAt : At(y).seq = anchor /\ y[1] < Bound - RetainDays
      BY <3>1 DEF AnchorEnds
    <3>3. y[1] # d
      <4>1. ASSUME y[1] = d PROVE FALSE
        <5>1. x[1] \in DOMAIN files /\ d < x[1]
          BY <1>1, <1>4, <2>1, <3>1, PositionIs
        <5>2. Precedes(y, x)
          BY <4>1, <5>1 DEF Precedes
        <5>3. At(y).seq < At(x).seq
          BY <1>1, <5>2, <3>1, SeqsFollow
        <5>4. QED
          BY <1>1, <1>4, <3>1, <3>2, <5>3
      <4>2. QED
        BY <4>1
    <3>4. QED
      BY <1>3, <1>4, <2>1, <3>2, <3>3
  <2>3. QED
    BY <2>1, <2>2 DEF AnchorEnds
<1>9. QED
  BY <1>1, <1>5, <1>6, <1>7, <1>8, LogMoves

\* Lines stay sound, and valid while nothing is cut short and no process dies.
LEMMA LinesSoundStep ==
  ASSUME CInv, LinesSound, AllValid, [Next]_vars
  PROVE  LinesSound' /\ AllValid'
<1>1. TypeOK /\ cut \in Nat /\ cut' \in Nat /\ cut <= cut' /\ stops \in Nat /\ stops' \in Nat /\ stops <= stops'
  BY DaysGoOn DEF CInv
<1>2. cut' = 0 /\ stops' = 0 => cut = 0 /\ stops = 0
  BY <1>1
<1>3. ASSUME Positions' \subseteq Positions, \A x \in Positions' : At(x)' = At(x)
      PROVE  LinesSound' /\ AllValid'
  BY <1>2, <1>3 DEF LinesSound, AllValid, Valid
<1>4. ASSUME NEW n, LineComes(n) PROVE LinesSound' /\ AllValid'
  <2>1. /\ Positions' = Positions \cup {n} /\ \A x \in Positions : At(x)' = At(x)
        /\ IF Valid(At(n))' THEN At(n).seq' = lock.head + 1
           ELSE At(n).calls' = {} /\ (cut < cut' \/ stops < stops')
        /\ lock.taken
    BY <1>4 DEF LineComes
  <2>2. lock.head \in Nat
    BY <1>1, <2>1, SectionTypes
  <2>3. IF Valid(At(n))' THEN At(n).seq' > 0 ELSE At(n).calls' = {} /\ ~(cut' = 0 /\ stops' = 0)
    BY <1>1, <2>1, <2>2
  <2>4. QED
    BY <1>2, <2>1, <2>3 DEF LinesSound, AllValid, Valid
<1>5. QED
  <2>1. LinesStand => Positions' \subseteq Positions /\ \A x \in Positions' : At(x)' = At(x)
    BY DEF LinesStand
  <2>2. \A d : FileLeaves(d) => Positions' \subseteq Positions /\ \A x \in Positions' : At(x)' = At(x)
    BY DEF FileLeaves
  <2>3. QED
    BY <1>3, <1>4, <2>1, <2>2, LogMoves

\* The log alone.
LEMMA LogInvStep == LogInv /\ [Next]_vars => LogInv'
BY AInvStep, ChainStep, AnchorEndsStep, LinesSoundStep DEF LogInv

\* A failing read counts as a fault and leaves the log alone.
OnlyFault == Fault /\ UNCHANGED <<today, files, anchor, marker, outage, held, seen, job, lock, lost, cut, retired, stops>>

\* What is counted in the DEGRADED file is reported when it is taken out of it.
LEMMA OwedMoves ==
  ASSUME AInv, [Next]_vars
  PROVE  marker.owed \subseteq Reported' \cup marker'.owed
<1>1. TypeOK /\ SectionOK /\ Reported \subseteq Reported'
  BY ReportedStays DEF AInv
<1>2. ASSUME NEW t \in Tasks, Clear(t) PROVE marker.owed \subseteq Reported' \cup marker'.owed
  <2>1. lock.taken /\ lock.plan # <<>> /\ Head(lock.plan) = "clear"
    BY <1>2 DEF Clear, Step, Working
  <2>2. lock.by \in Calls
    BY <1>1, <2>1, HeadOfPlan DEF Kinds
  <2>3. lock.known.owed \subseteq Reported
    BY <2>1, <2>2 DEF AInv, GapInOrder, ToReport
  <2>4. CASE marker' = marker
    BY <2>4
  <2>5. CASE lost' = lost \cup (marker.owed \ lock.known.owed)
    <3>1. marker.owed \ lock.known.owed \subseteq Reported'
      BY <2>5 DEF Reported
    <3>2. QED
      BY <1>1, <2>3, <3>1
  <2>6. QED
    BY <1>2, <2>4, <2>5 DEF Clear
<1>3. ASSUME NEW t \in Tasks, Mark(t) PROVE marker.owed \subseteq Reported' \cup marker'.owed
  <2>1. \/ marker' = Combine(marker, Increment(t))
        \/ lost' = lost \cup marker.owed
    BY <1>3 DEF Mark
  <2>2. CASE marker' = Combine(marker, Increment(t))
    BY <2>2 DEF Combine
  <2>3. CASE lost' = lost \cup marker.owed
    BY <2>3 DEF Reported
  <2>4. QED
    BY <2>1, <2>2, <2>3
<1>4. CASE marker' = marker
  BY <1>4
<1>5. QED
  BY <1>2, <1>3, <1>4 DEF Next, Living, TaskStep, Begin, BeginFails, Finish, SaveAnchor, Unlink, Write,
     AppendFails, Window, MarkFails, Arrive, Serve, Flush, Shutdown, Restart, Crash, NewMinute, NewDay, vars

\* What the auditor can count on, whatever the log did.
LogMoved ==
  /\ LinesStand \/ (\E n : LineComes(n)) \/ \E d : FileLeaves(d)
  /\ anchor \in Nat /\ anchor' \in Nat /\ anchor <= anchor'
  /\ cut \in Nat /\ cut' \in Nat /\ cut <= cut' /\ stops \in Nat /\ stops' \in Nat /\ stops <= stops'
  /\ Bound \in Nat /\ Bound' \in Nat /\ Bound <= Bound'
  /\ Reported \subseteq Reported' /\ marker.owed \subseteq Reported' \cup marker'.owed

\* A failing read changes nothing but the count of faults.
LEMMA FaultAlone ==
  ASSUME LogInv, OnlyFault
  PROVE  LogInv' /\ LogMoved
<1>1. AInv0 /\ GapInOrder /\ CInv /\ TypeOK /\ SectionOK
  BY DEF LogInv, AInv, AInv0, CInv
<1>2. /\ UNCHANGED <<today, files, anchor, marker, outage, held, seen, job, lock, lost, cut, retired, stops>>
      /\ faults' \in Nat /\ (faults' = 0 => faults = 0)
  BY <1>1, FaultType DEF OnlyFault
<1>3. TypeOK' /\ SectionOK'
  <2>1. TypeOK'
    BY <1>1, <1>2, SameTypes DEF TypeOK
  <2>2. SectionOK'
    BY <1>1, <1>2 DEF SectionOK, Proc
  <2>3. QED
    BY <2>1, <2>2
<1>4. Reported' = Reported
  <2>1. Logged' = Logged
    BY <1>2, LoggedNow
  <2>2. QED
    BY <1>2, <2>1 DEF Reported
<1>5. Kept
  <2>1. \A c \in Calls : Done(c)' <=> Done(c)
    BY <1>2 DEF Done
  <2>2. \A c \in Calls : job'[c].at \in {"answered", "refused"} => job[c].at \in {"answered", "refused"}
    BY <1>2
  <2>3. \A c \in Calls : Done(c)' => c \in Reported' \cup Held(lock'.proc)
    BY <1>1, <1>2, <1>4, <2>1 DEF AInv0, NotYetCounted
  <2>4. \A c \in Calls : ~Done(c)' /\ job'[c].at \notin Over => job[c].at \notin Over /\ ~Done(c)
    BY <1>2, <2>1
  <2>5. QED
    BY <1>1, <1>2, <1>4, <2>2, <2>3, <2>4, QuietStep DEF AInv0, Kept
<1>6. GapInOrder'
  BY <1>1, <1>2, <1>4, OthersGap
<1>7. Chained'
  <2>1. today' \in Days /\ today <= today'
    BY <1>1, <1>2, SameTypes DEF Days
  <2>2. QED
    BY <1>1, <1>2, <2>1, LinesStay
<1>8. LinesStand
  BY <1>2, FilesStand
<1>9. Bound' = Bound
  BY <1>2 DEF Bound
<1>10. AnchorEnds' /\ LinesSound' /\ AllValid'
  <2>1. Positions' = Positions /\ EntryAt' = EntryAt /\ \A x : At(x)' = At(x)
    BY <1>2, SameLines
  <2>2. QED
    BY <1>2, <1>9, <2>1 DEF LogInv, AnchorEnds, LinesSound, AllValid, Valid
<1>11. LogInv'
  BY <1>3, <1>5, <1>6, <1>7, <1>10 DEF LogInv, AInv, CInv, Kept
<1>12. Bound \in Nat /\ anchor \in Nat /\ cut \in Nat /\ stops \in Nat
  <2>1. lock.taken => lock.day \in Days
    BY <1>1, SectionTypes
  <2>2. QED
    BY <1>1, <2>1, SameTypes DEF Bound, Days
<1>13. LogMoved
  BY <1>2, <1>4, <1>8, <1>9, <1>12 DEF LogMoved
<1>14. QED
  BY <1>11, <1>13

\* A step of the log, or a fault that leaves it alone.
LEMMA LogSteps ==
  ASSUME LogInv, [Next]_vars \/ OnlyFault
  PROVE  LogInv' /\ LogMoved
<1>1. CASE [Next]_vars
  <2>1. AInv /\ CInv /\ AnchorEnds /\ TypeOK /\ SectionOK
    BY DEF LogInv, AInv
  <2>2. LogInv'
    BY <1>1, LogInvStep
  <2>3. LinesStand \/ (\E n : LineComes(n)) \/ \E d : FileLeaves(d)
    BY <1>1, <2>1, LogMoves
  <2>4. anchor \in Nat /\ anchor' \in Nat /\ anchor <= anchor'
    BY <1>1, <2>1, AnchorEndsStep
  <2>5. Reported \subseteq Reported' /\ marker.owed \subseteq Reported' \cup marker'.owed
    BY <1>1, <2>1, ReportedStays, OwedMoves
  <2>6. QED
    BY <1>1, <2>1, <2>2, <2>3, <2>4, <2>5, DaysGoOn DEF LogMoved
<1>2. QED
  BY <1>1, FaultAlone

(* What the auditor holds, in terms of any report a and any walk w. *)
AuditOK(a) ==
  /\ DOMAIN a = {"at", "proc", "cursor", "head", "snap", "read", "pages", "failed", "logged", "owed",
                 "degraded", "blind"}
  /\ a.cursor \in Nat /\ a.head \in Nat /\ a.pages \in Nat
  /\ FilesOK(a.snap) /\ a.read \subseteq Lines
WalkOK(w) == DOMAIN w = {"from", "prev", "listed", "todo", "clean", "pruning"} /\ w.from \in Nat

Paged(a) == a.pages > 0 \/ a.at = "read"
\* The head of the first page was the head of the log then.
Reached(a) == Paged(a) => a.head <= anchor \/ \E x \in EntryAt : a.head <= At(x).seq
InOrder(fs) ==
  \A d, e \in DOMAIN fs : \A i \in DOMAIN fs[d], j \in DOMAIN fs[e] :
    d < e /\ Valid(fs[d][i]) /\ Valid(fs[e][j]) => fs[d][i].seq < fs[e][j].seq
\* Between two pages the log has no entry left out down to the cursor; while a page is read,
\* its snapshot has none.
PagesJoin(a) ==
  a.at \in {"ask", "flush", "read"} =>
    /\ ~a.failed /\ (a.pages = 0 <=> a.cursor = 0)
    /\ a.pages > 0 /\ a.at # "read" =>
         \A x \in EntryAt : At(x).seq >= a.cursor /\ At(x).seq <= a.head => At(x) \in a.read
    /\ a.at = "read" =>
         /\ InOrder(a.snap)
         /\ \A x \in EntryAt : At(x).seq <= a.head => At(x) \in LinesOf(a.snap)
         /\ \A l \in LinesOf(a.snap) :
              a.pages > 0 /\ Valid(l) /\ l.seq >= a.cursor /\ l.seq <= a.head => l \in a.read
PagesFull(a) ==
  a.at \in {"ask", "check"} /\ ~a.failed =>
    \A l \in LinesOf(a.snap) : Valid(l) /\ l.seq <= a.head /\ l.seq >= a.cursor => l \in a.read

\* As long as nothing was ever retired, the calls logged at the start are in the log, then in
\* what was read.
Whole(a) == ~a.failed /\ a.cursor = 0
CallsKept(a, w) ==
  /\ a.at \in {"ask", "flush", "read"} /\ anchor = 0 =>
       \A c \in a.logged : \E x \in EntryAt : c \in At(x).calls /\ (Paged(a) => At(x).seq <= a.head)
  /\ (a.at \in {"check", "vflush"} /\ anchor = 0) \/ (a.at \in {"list", "walk", "reported"} /\ w.from = 0) =>
       (Whole(a) => a.logged \subseteq CallsOfLines(a.read))
OwedKept(a) ==
  /\ a.owed \subseteq Reported \cup marker.owed
  /\ a.at = "reported" => a.degraded \/ a.blind \/ a.owed \subseteq Reported

\* The walk goes through the files from the oldest, and no other step has met them meanwhile.
Undisturbed(w) == cut = 0 /\ stops = 0 /\ ~w.pruning /\ w.from = anchor /\ w.listed \subseteq DOMAIN files
StandsAt(w, m) ==
  IF \E x \in EntryAt : x[1] < m
  THEN \E x \in EntryAt : x[1] < m /\ At(x).seq = w.prev /\ \A y \in EntryAt : y[1] < m => At(y).seq <= w.prev
  ELSE w.prev = anchor
Listing(a, w) ==
  /\ w.from <= anchor /\ w.listed \subseteq Days /\ w.todo \subseteq w.listed
  /\ \A d \in w.listed : d \in DOMAIN files \/ d < Bound - RetainDays
  /\ \A t \in w.todo, e \in w.listed : e \in w.todo \/ e < t
  /\ a.at = "list" => w.listed = {} /\ w.clean /\ w.prev = w.from
Walked(w) ==
  /\ w.clean
  /\ \A x \in EntryAt : anchor < At(x).seq
  /\ \A d \in DOMAIN files \ w.listed, e \in w.listed : e < d
  /\ \A m \in w.todo : (\A t \in w.todo : m <= t) => StandsAt(w, m)
WalkFits(a, w) ==
  a.at \in {"list", "walk", "reported"} => Listing(a, w) /\ (Undisturbed(w) => Walked(w))

AuditInv(a, w) ==
  /\ AuditOK(a) /\ WalkOK(w) /\ Reached(a) /\ PagesJoin(a) /\ PagesFull(a)
  /\ CallsKept(a, w) /\ OwedKept(a) /\ WalkFits(a, w)

(* The log moves under the auditor. *)

\* An entry that comes is the newest; one that goes lies before the anchor.
LEMMA EntriesMove ==
  ASSUME LogInv, LogMoved
  PROVE  /\ \A x \in EntryAt' : \/ x \in EntryAt /\ At(x)' = At(x)
                                \/ anchor < At(x).seq' /\ \A y \in EntryAt : At(y).seq < At(x).seq'
         /\ \A x \in EntryAt' : At(x).seq' \in Nat
         /\ \A x \in EntryAt : \/ x \in EntryAt' /\ At(x)' = At(x)
                               \/ At(x).seq <= anchor'
<1>1. /\ TypeOK /\ CInv /\ EntryAt \subseteq Positions /\ anchor \in Nat
      /\ \A x \in EntryAt : At(x).seq \in Nat
  BY EntryIs, SameTypes DEF LogInv, CInv
<1>2. CASE LinesStand
  <2>1. EntryAt' = EntryAt /\ \A x \in EntryAt : At(x)' = At(x)
    BY <1>1, <1>2 DEF LinesStand
  <2>2. \A x \in EntryAt' : x \in EntryAt /\ At(x)' = At(x) /\ At(x).seq' \in Nat
    BY <1>1, <2>1
  <2>3. \A x \in EntryAt : x \in EntryAt' /\ At(x)' = At(x)
    BY <2>1
  <2>4. QED
    BY <2>2, <2>3
<1>3. ASSUME NEW n, LineComes(n)
      PROVE  /\ \A x \in EntryAt' : \/ x \in EntryAt /\ At(x)' = At(x)
                                    \/ anchor < At(x).seq' /\ \A y \in EntryAt : At(y).seq < At(x).seq'
             /\ \A x \in EntryAt' : At(x).seq' \in Nat
             /\ \A x \in EntryAt : x \in EntryAt' /\ At(x)' = At(x)
  <2>1. /\ EntryAt' = EntryAt \cup (IF Valid(At(n))' THEN {n} ELSE {})
        /\ \A x \in Positions : At(x)' = At(x)
        /\ Valid(At(n))' => At(n).seq' = lock.head + 1
        /\ lock.taken
    BY <1>3 DEF LineComes
  <2>2. /\ lock.head \in Nat /\ anchor <= lock.head /\ \A y \in EntryAt : At(y).seq <= lock.head
    BY <1>1, <2>1, SectionTypes DEF CInv, Chained, HeadFits, HeadIs
  <2>3. Valid(At(n))' => /\ anchor < At(n).seq' /\ \A y \in EntryAt : At(y).seq < At(n).seq'
                         /\ At(n).seq' \in Nat
    BY <1>1, <2>1, <2>2
  <2>4. \A x \in EntryAt : x \in EntryAt' /\ At(x)' = At(x) /\ At(x).seq' \in Nat
    BY <1>1, <2>1
  <2>5. \A x \in EntryAt' : x \in EntryAt \/ (x = n /\ Valid(At(n))')
    BY <2>1
  <2>6. QED
    BY <2>3, <2>4, <2>5
<1>4. ASSUME NEW d, FileLeaves(d)
      PROVE  /\ \A x \in EntryAt' : x \in EntryAt /\ At(x)' = At(x) /\ At(x).seq' \in Nat
             /\ \A x \in EntryAt : (x \in EntryAt' /\ At(x)' = At(x)) \/ At(x).seq <= anchor'
  BY <1>1, <1>4 DEF FileLeaves
<1>5. QED
  BY <1>2, <1>3, <1>4 DEF LogMoved

\* The log, or its anchor, does not fall back behind the head of the first page.
LEMMA ReachedStays ==
  ASSUME LogInv, LogMoved, NEW a, AuditOK(a), Reached(a)
  PROVE  Reached(a)'
<1> SUFFICES ASSUME Paged(a) PROVE a.head <= anchor' \/ \E x \in EntryAt' : a.head <= At(x).seq'
  BY DEF Reached, Paged
<1>1. anchor \in Nat /\ anchor' \in Nat /\ anchor <= anchor' /\ a.head \in Nat
  BY DEF LogMoved, AuditOK
<1>2. CASE a.head <= anchor
  BY <1>1, <1>2
<1>3. ASSUME NEW x \in EntryAt, a.head <= At(x).seq
      PROVE  a.head <= anchor' \/ (x \in EntryAt' /\ At(x)' = At(x))
  <2>1. At(x).seq \in Nat
    BY EntryIs DEF LogInv, CInv
  <2>2. (x \in EntryAt' /\ At(x)' = At(x)) \/ At(x).seq <= anchor'
    BY EntriesMove
  <2>3. QED
    BY <1>1, <1>3, <2>1, <2>2
<1>4. QED
  BY <1>2, <1>3 DEF Reached

\* What comes lies above the head of the first page.
LEMMA NewerStays ==
  ASSUME LogInv, LogMoved, NEW a, AuditOK(a), Reached(a), Paged(a), NEW x \in EntryAt', At(x).seq' <= a.head
  PROVE  x \in EntryAt /\ At(x)' = At(x)
<1>1. anchor \in Nat /\ a.head \in Nat /\ \A y \in EntryAt : At(y).seq \in Nat
  BY EntryIs DEF LogMoved, AuditOK, LogInv, CInv
<1>2. At(x).seq' \in Nat
  BY EntriesMove
<1>3. SUFFICES ASSUME anchor < At(x).seq', \A y \in EntryAt : At(y).seq < At(x).seq' PROVE FALSE
  BY EntriesMove
<1>4. a.head <= anchor \/ \E y \in EntryAt : a.head <= At(y).seq
  BY DEF Reached
<1>5. QED
  BY <1>1, <1>2, <1>3, <1>4

\* Between two pages the log brings no entry into the part already read.
LEMMA PagesJoinStays ==
  ASSUME LogInv, LogMoved, NEW a, AuditOK(a), Reached(a), PagesJoin(a)
  PROVE  PagesJoin(a)'
<1> SUFFICES ASSUME a.at \in {"ask", "flush", "read"}
             PROVE  /\ a.pages > 0 /\ a.at # "read" =>
                         \A x \in EntryAt' : At(x).seq' >= a.cursor /\ At(x).seq' <= a.head => At(x)' \in a.read
                    /\ a.at = "read" =>
                         \A x \in EntryAt' : At(x).seq' <= a.head => At(x)' \in LinesOf(a.snap)
  BY DEF PagesJoin, InOrder, LinesOf, Valid
<1>1. ASSUME Paged(a), NEW x \in EntryAt', At(x).seq' <= a.head
      PROVE  x \in EntryAt /\ At(x)' = At(x)
  BY <1>1, NewerStays
<1>2. ASSUME a.pages > 0, a.at # "read", NEW x \in EntryAt', At(x).seq' >= a.cursor, At(x).seq' <= a.head
      PROVE  At(x)' \in a.read
  <2>1. x \in EntryAt /\ At(x)' = At(x)
    BY <1>1, <1>2 DEF Paged
  <2>2. QED
    BY <1>2, <2>1 DEF PagesJoin
<1>3. ASSUME a.at = "read", NEW x \in EntryAt', At(x).seq' <= a.head
      PROVE  At(x)' \in LinesOf(a.snap)
  <2>1. x \in EntryAt /\ At(x)' = At(x)
    BY <1>1, <1>3 DEF Paged
  <2>2. QED
    BY <1>3, <2>1 DEF PagesJoin
<1>4. QED
  BY <1>2, <1>3

\* The calls logged at the start stay in the log until something is retired.
LEMMA CallsKeptStays ==
  ASSUME LogInv, LogMoved, NEW a, NEW w, CallsKept(a, w)
  PROVE  CallsKept(a, w)'
<1>1. anchor' = 0 => anchor = 0
  BY DEF LogMoved
<1>2. ASSUME anchor' = 0, NEW x \in EntryAt PROVE x \in EntryAt' /\ At(x)' = At(x)
  <2>1. At(x).seq \in Nat /\ At(x).seq > 0
    BY EntryIs DEF LogInv, CInv, LinesSound
  <2>2. ~(At(x).seq <= anchor')
    BY <1>2, <2>1
  <2>3. QED
    BY <2>2, EntriesMove
<1>3. ASSUME a.at \in {"ask", "flush", "read"}, anchor' = 0, NEW c \in a.logged
      PROVE  \E x \in EntryAt' : c \in At(x).calls' /\ (Paged(a) => At(x).seq' <= a.head)
  <2>1. PICK x \in EntryAt : c \in At(x).calls /\ (Paged(a) => At(x).seq <= a.head)
    BY <1>1, <1>3 DEF CallsKept
  <2>2. QED
    BY <1>2, <1>3, <2>1
<1>4. QED
  BY <1>1, <1>3 DEF CallsKept, Paged, Whole, CallsOfLines

\* What was owed at the start is still accounted for.
LEMMA OwedKeptStays ==
  ASSUME LogMoved, NEW a, OwedKept(a)
  PROVE  OwedKept(a)'
BY DEF LogMoved, OwedKept

\* A file that goes lay before the days kept; one that comes is the newest.
LEMMA FilesMove ==
  ASSUME LogInv, LogMoved
  PROVE  /\ \A d \in DOMAIN files : d \in DOMAIN files' \/ d < Bound' - RetainDays
         /\ \A d \in DOMAIN files' : d \in DOMAIN files \/ (d = Bound /\ \A e \in DOMAIN files : e < d)
<1>1. /\ TypeOK /\ DOMAIN files \subseteq Nat /\ (lock.taken => DOMAIN files \subseteq 1..lock.day /\ lock.day \in Nat)
      /\ Bound \in Nat /\ Bound' \in Nat /\ Bound <= Bound' /\ RetainDays \in Nat
  <2>1. TypeOK /\ (lock.taken => DOMAIN files \subseteq 1..lock.day /\ lock.day \in Days)
    BY SectionTypes DEF LogInv, CInv, Chained, DaysInOrder
  <2>2. QED
    BY <2>1, FileType, CallLogConstantsOK DEF LogMoved, Days
<1>2. lock.taken => Bound = lock.day
  BY DEF Bound
<1>3. ASSUME DOMAIN files \subseteq DOMAIN files', \A d \in DOMAIN files' : d \in DOMAIN files \/ (lock.taken /\ d = lock.day)
      PROVE  /\ \A d \in DOMAIN files : d \in DOMAIN files'
             /\ \A d \in DOMAIN files' : d \in DOMAIN files \/ (d = Bound /\ \A e \in DOMAIN files : e < d)
  <2>1. ASSUME NEW d \in DOMAIN files', d \notin DOMAIN files, NEW e \in DOMAIN files PROVE d = Bound /\ e < d
    <3>1. lock.taken /\ d = lock.day
      BY <1>3, <2>1
    <3>2. e \in 1..lock.day /\ lock.day \in Nat /\ e # lock.day
      BY <1>1, <2>1, <3>1
    <3>3. QED
      BY <1>2, <3>1, <3>2
  <2>2. QED
    BY <1>2, <1>3, <2>1
<1>4. CASE LinesStand
  BY <1>3, <1>4 DEF LinesStand
<1>5. ASSUME NEW n, LineComes(n)
      PROVE  DOMAIN files \subseteq DOMAIN files' /\ \A d \in DOMAIN files' : d \in DOMAIN files \/ (lock.taken /\ d = lock.day)
  BY <1>5 DEF LineComes
<1>6. ASSUME NEW f, FileLeaves(f)
      PROVE  /\ \A d \in DOMAIN files : d \in DOMAIN files' \/ d < Bound' - RetainDays
             /\ \A d \in DOMAIN files' : d \in DOMAIN files
  <2>1. lock.taken /\ f \in DOMAIN files /\ f < lock.day - RetainDays /\ DOMAIN files' = DOMAIN files \ {f}
    BY <1>6 DEF FileLeaves
  <2>2. f < Bound' - RetainDays
    BY <1>1, <1>2, <2>1
  <2>3. QED
    BY <2>1, <2>2
<1>7. QED
  BY <1>3, <1>4, <1>5, <1>6 DEF LogMoved

\* A listed file is there, or lies before the days kept.
LEMMA ListingStays ==
  ASSUME LogInv, LogMoved, NEW a, NEW w, WalkOK(w), Listing(a, w)
  PROVE  Listing(a, w)'
<1>1. anchor \in Nat /\ anchor' \in Nat /\ anchor <= anchor' /\ w.from \in Nat
  BY DEF LogMoved, WalkOK
<1>2. Bound \in Nat /\ Bound' \in Nat /\ Bound <= Bound' /\ RetainDays \in Nat
  BY CallLogConstantsOK DEF LogMoved
<1>3. w.from <= anchor'
  BY <1>1 DEF Listing
<1>4. ASSUME NEW d \in w.listed PROVE d \in DOMAIN files' \/ d < Bound' - RetainDays
  <2>1. d \in Nat
    BY DEF Listing, Days
  <2>2. CASE d \in DOMAIN files
    BY <2>2, FilesMove
  <2>3. d < Bound - RetainDays => d < Bound' - RetainDays
    BY <1>2, <2>1
  <2>4. QED
    BY <2>2, <2>3 DEF Listing
<1>5. QED
  BY <1>3, <1>4 DEF Listing

\* A walk that is undisturbed was so before the step.
LEMMA UndisturbedBefore ==
  ASSUME LogInv, LogMoved, NEW a, NEW w, WalkOK(w), Listing(a, w), Undisturbed(w)'
  PROVE  Undisturbed(w) /\ anchor' = anchor
<1>1. /\ anchor \in Nat /\ anchor' \in Nat /\ anchor <= anchor' /\ w.from \in Nat /\ w.from <= anchor
      /\ cut \in Nat /\ cut' \in Nat /\ cut <= cut' /\ stops \in Nat /\ stops' \in Nat /\ stops <= stops'
      /\ Bound \in Nat /\ RetainDays \in Nat
  BY CallLogConstantsOK DEF LogMoved, WalkOK, Listing
<1>2. cut' = 0 /\ stops' = 0 /\ ~w.pruning /\ w.from = anchor' /\ w.listed \subseteq DOMAIN files'
  BY DEF Undisturbed
<1>3. cut = 0 /\ stops = 0 /\ w.from = anchor /\ anchor' = anchor
  BY <1>1, <1>2
<1>4. ASSUME NEW d \in w.listed PROVE d \in DOMAIN files
  <2>1. d \in Nat /\ (d \in DOMAIN files \/ d < Bound - RetainDays)
    BY DEF Listing, Days
  <2>2. d \in DOMAIN files \/ d = Bound
    BY <1>2, FilesMove
  <2>3. QED
    BY <1>1, <2>1, <2>2
<1>5. QED
  BY <1>2, <1>3, <1>4 DEF Undisturbed

\* Where the walk stands, it stands after a step of the log that left it undisturbed.
LEMMA StandsAtStays ==
  ASSUME LogInv, LogMoved, anchor' = anchor, NEW w, NEW m \in DOMAIN files, StandsAt(w, m),
         \A d \in DOMAIN files \ DOMAIN files' : m < d
  PROVE  StandsAt(w, m)'
<1>1. /\ TypeOK /\ \A x \in EntryAt : x \in Positions /\ x[1] \in DOMAIN files /\ x[1] \in Nat
      /\ \A d \in DOMAIN files : d \in Nat
  <2>1. TypeOK
    BY DEF LogInv, CInv
  <2>2. QED
    BY <2>1, EntryIs, PositionIs, FileType
<1>2. ASSUME \A x : x[1] < m => (x \in EntryAt' <=> x \in EntryAt), \A x \in EntryAt : x[1] < m => At(x)' = At(x)
      PROVE  StandsAt(w, m)'
  BY <1>2 DEF StandsAt
<1>3. CASE LinesStand
  <2>1. EntryAt' = EntryAt /\ \A x \in EntryAt : At(x)' = At(x)
    BY <1>1, <1>3 DEF LinesStand
  <2>2. QED
    BY <1>2, <2>1
<1>4. ASSUME NEW n, LineComes(n) PROVE StandsAt(w, m)'
  <2>1. /\ EntryAt' = EntryAt \cup (IF Valid(At(n))' THEN {n} ELSE {}) /\ \A x \in EntryAt : At(x)' = At(x)
        /\ lock.taken /\ n[1] = lock.day
    BY <1>1, <1>4 DEF LineComes
  <2>2. m \in 1..lock.day /\ lock.day \in Nat
    <3>1. lock.day \in Days /\ DOMAIN files \subseteq 1..lock.day
      BY <1>1, <2>1, SectionTypes DEF LogInv, CInv, Chained, DaysInOrder
    <3>2. QED
      BY <3>1 DEF Days
  <2>3. ~(n[1] < m)
    BY <2>1, <2>2
  <2>4. QED
    BY <1>2, <2>1, <2>3
<1>5. ASSUME NEW d, FileLeaves(d) PROVE StandsAt(w, m)'
  <2>1. /\ EntryAt' = {x \in EntryAt : x[1] # d} /\ \A x \in EntryAt' : At(x)' = At(x)
        /\ d \in DOMAIN files /\ d \notin DOMAIN files'
    BY <1>1, <1>5 DEF FileLeaves
  <2>2. m < d /\ m \in Nat /\ d \in Nat
    BY <1>1, <2>1
  <2>3. \A x : x[1] < m => x[1] # d
    BY <2>2
  <2>4. QED
    BY <1>2, <2>1, <2>3
<1>6. QED
  BY <1>3, <1>4, <1>5 DEF LogMoved

\* The walk fits the files after a step of the log too.
LEMMA WalkFitsStays ==
  ASSUME LogInv, LogMoved, NEW a, NEW w, WalkOK(w), WalkFits(a, w)
  PROVE  WalkFits(a, w)'
<1> SUFFICES ASSUME a.at \in {"list", "walk", "reported"}
             PROVE  Listing(a, w)' /\ (Undisturbed(w)' => Walked(w)')
  BY DEF WalkFits
<1>1. Listing(a, w) /\ (Undisturbed(w) => Walked(w))
  BY DEF WalkFits
<1>2. Listing(a, w)'
  BY <1>1, ListingStays
<1>3. ASSUME Undisturbed(w)' PROVE Walked(w)'
  <2>1. Undisturbed(w) /\ anchor' = anchor /\ Walked(w)
    BY <1>1, <1>3, UndisturbedBefore
  <2>2. w.listed \subseteq DOMAIN files /\ w.listed \subseteq DOMAIN files' /\ w.todo \subseteq w.listed
    BY <1>1, <1>3, <2>1 DEF Undisturbed, Listing
  <2>3. ASSUME NEW x \in EntryAt' PROVE anchor' < At(x).seq'
    BY <2>1, EntriesMove DEF Walked
  <2>4. ASSUME NEW d \in DOMAIN files' \ w.listed, NEW e \in w.listed PROVE e < d
    BY <2>1, <2>2, FilesMove DEF Walked
  <2>5. ASSUME NEW m \in w.todo, \A t \in w.todo : m <= t PROVE StandsAt(w, m)'
    <3>1. m \in DOMAIN files /\ StandsAt(w, m)
      BY <2>1, <2>2, <2>5 DEF Walked
    <3>2. \A d \in DOMAIN files \ DOMAIN files' : m < d
      BY <2>1, <2>2 DEF Walked
    <3>3. QED
      BY <2>1, <3>1, <3>2, StandsAtStays
  <2>6. w.clean
    BY <2>1 DEF Walked
  <2>7. QED
    BY <2>3, <2>4, <2>5, <2>6 DEF Walked
<1>4. QED
  BY <1>2, <1>3

\* The auditor's own steps aside, all of it stays.
LEMMA AuditStays ==
  ASSUME LogInv, LogMoved, NEW a, NEW w, AuditInv(a, w)
  PROVE  AuditInv(a, w)'
<1>1. (AuditOK(a) /\ WalkOK(w) /\ PagesFull(a))'
  BY DEF AuditInv, AuditOK, WalkOK, PagesFull, FilesOK, LinesOf, Valid
<1>2. QED
  BY <1>1, ReachedStays, PagesJoinStays, CallsKeptStays, OwedKeptStays, WalkFitsStays DEF AuditInv

(* The pages. *)

\* A snapshot has finitely many lines.
LEMMA LinesFinite ==
  ASSUME NEW fs, FilesOK(fs)
  PROVE  IsFiniteSet(LinesOf(fs)) /\ LinesOf(fs) \subseteq Lines
<1>1. DOMAIN fs \subseteq Days /\ \A d \in DOMAIN fs : fs[d] \in Seq(Lines)
  BY DEF FilesOK
<1>2. \A d \in DOMAIN fs : DOMAIN fs[d] = 1..Len(fs[d]) /\ Len(fs[d]) \in Nat /\ \A i \in DOMAIN fs[d] : fs[d][i] \in Lines
  BY <1>1
<1>3. LinesOf(fs) \subseteq Lines
  BY <1>2 DEF LinesOf
<1>4. PICK S : S = {{fs[d][i] : i \in DOMAIN fs[d]} : d \in DOMAIN fs}
  OBVIOUS
<1>5. ASSUME NEW T \in S PROVE IsFiniteSet(T)
  <2> PICK d \in DOMAIN fs : T = {fs[d][i] : i \in DOMAIN fs[d]}
    BY <1>4
  <2>1. PICK n \in Nat : n = Len(fs[d])
    BY <1>2
  <2>2. fs[d] \in [1..n -> T] /\ \A l \in T : \E i \in 1..n : fs[d][i] = l
    BY <1>1, <1>2, <2>1
  <2>3. fs[d] \in Surjection(1..n, T)
    BY <2>2 DEF Surjection
  <2>4. IsFiniteSet(1..n)
    BY <2>1, FS_Interval
  <2>5. QED
    BY <2>3, <2>4, FS_Surjection
<1>6. IsFiniteSet(S)
  <2>1. IsFiniteSet(DOMAIN fs)
    <3>1. IsFiniteSet(Days)
      BY FS_Interval, CallLogConstantsOK DEF Days
    <3>2. QED
      BY <1>1, <3>1, FS_Subset
  <2>2. PICK f : f = [d \in DOMAIN fs |-> {fs[d][i] : i \in DOMAIN fs[d]}]
    OBVIOUS
  <2>3. f \in Surjection(DOMAIN fs, S)
    BY <1>4, <2>2 DEF Surjection
  <2>4. QED
    BY <2>1, <2>3, FS_Surjection
<1>7. LinesOf(fs) = UNION S
  BY <1>4 DEF LinesOf
<1>8. QED
  BY <1>3, <1>5, <1>6, <1>7, FS_UNION

\* A set of entries, and those above a seq.
Above(S, n) == {k \in S : k.seq > n}

\* A page of something is not empty.
LEMMA PageHasOne ==
  ASSUME NEW S, IsFiniteSet(S), S \subseteq Lines, S # {}
  PROVE  PageOf(S) # {}
<1>1. PageSize \in Nat /\ PageSize > 0 /\ \A k \in S : k.seq \in Nat
  BY ReadsConstantsOK DEF Lines
<1>2. \A n : Above(S, n) \in SUBSET S /\ IsFiniteSet(Above(S, n)) /\ Cardinality(Above(S, n)) \in Nat
  BY FS_Subset, FS_CardinalityType DEF Above
<1>3. PICK top \in S : \A k \in S : k.seq <= top.seq
  <2>1. PICK C : C = {Cardinality(Above(S, k.seq)) : k \in S}
    OBVIOUS
  <2>2. C \subseteq Nat /\ C # {}
    BY <1>2, <2>1
  <2>3. PICK c \in C : \A e \in C : c <= e
    BY <2>2, LeastNatural
  <2>4. PICK top \in S : c = Cardinality(Above(S, top.seq))
    BY <2>1
  <2>5. ASSUME NEW k \in S, k.seq > top.seq PROVE FALSE
    <3>1. k \in Above(S, top.seq) /\ k \notin Above(S, k.seq)
      BY <1>1, <2>5 DEF Above
    <3>2. Above(S, k.seq) \in SUBSET Above(S, top.seq)
      BY <1>1, <2>5 DEF Above
    <3>3. Cardinality(Above(S, k.seq)) < Cardinality(Above(S, top.seq))
      <4>1. PICK T \in SUBSET Above(S, top.seq) : T = Above(S, k.seq)
        BY <3>2
      <4>2. /\ Cardinality(T) <= Cardinality(Above(S, top.seq))
            /\ Cardinality(Above(S, top.seq)) = Cardinality(T) => Above(S, top.seq) = T
        BY <1>2, FS_Subset
      <4>3. QED
        BY <1>2, <3>1, <4>1, <4>2
    <3>4. QED
      <4>1. Cardinality(Above(S, k.seq)) \in C
        BY <2>1
      <4>2. c <= Cardinality(Above(S, k.seq))
        BY <2>3, <4>1
      <4>3. QED
        BY <1>2, <2>4, <3>3, <4>2
  <2>6. \A k \in S : k.seq <= top.seq
    BY <1>1, <2>5
  <2>7. QED
    BY <2>6
<1>4. Above(S, top.seq) = {}
  BY <1>1, <1>3 DEF Above
<1>5. Cardinality(Above(S, top.seq)) = 0
  BY <1>4, FS_EmptySet
<1>6. QED
  BY <1>1, <1>5 DEF PageOf, Above

\* The entries of a page: those with fewer than PageSize above them, so all from the last of
\* them upwards.
LEMMA PageIsTop ==
  ASSUME NEW S, IsFiniteSet(S), S \subseteq Lines, NEW l \in S, NextCursor(S) <= l.seq
  PROVE  l \in PageOf(S)
<1>1. /\ PageSize \in Nat /\ PageSize > 0 /\ Cardinality(S) \in Nat /\ l.seq \in Nat
      /\ \A k \in S : k.seq \in Nat
  BY ReadsConstantsOK, FS_CardinalityType DEF Lines
<1>2. \A n : Above(S, n) \in SUBSET S /\ IsFiniteSet(Above(S, n)) /\ Cardinality(Above(S, n)) \in Nat
  BY FS_Subset, FS_CardinalityType DEF Above
<1>3. \A k \in S : k \in PageOf(S) <=> Cardinality(Above(S, k.seq)) < PageSize
  BY DEF PageOf, Above
<1>4. ASSUME NEW m \in PageOf(S), m.seq <= l.seq PROVE l \in PageOf(S)
  <2>1. m \in S /\ m.seq \in Nat
    BY <1>1 DEF PageOf
  <2>2. Above(S, l.seq) \in SUBSET Above(S, m.seq)
    BY <1>1, <1>4, <2>1 DEF Above
  <2>3. Cardinality(Above(S, l.seq)) <= Cardinality(Above(S, m.seq))
    BY <1>2, <2>2, FS_Subset
  <2>4. QED
    BY <1>1, <1>2, <1>3, <1>4, <2>1, <2>3
<1>5. CASE Cardinality(S) <= PageSize
  <2>1. l \notin Above(S, l.seq)
    BY <1>1 DEF Above
  <2>2. Cardinality(Above(S, l.seq)) <= Cardinality(S) /\ Cardinality(Above(S, l.seq)) # Cardinality(S)
    <3>1. PICK T \in SUBSET S : T = Above(S, l.seq)
      BY <1>2
    <3>2. Cardinality(T) <= Cardinality(S) /\ (Cardinality(S) = Cardinality(T) => S = T)
      BY FS_Subset
    <3>3. QED
      BY <2>1, <3>1, <3>2
  <2>3. Cardinality(Above(S, l.seq)) < PageSize
    BY <1>1, <1>2, <1>5, <2>2
  <2>4. QED
    BY <1>3, <2>3
<1>6. CASE Cardinality(S) > PageSize
  <2>1. PageOf(S) # {}
    BY PageHasOne
  <2>2. Seqs(PageOf(S)) \subseteq Nat /\ Seqs(PageOf(S)) # {}
    BY <1>1, <2>1 DEF Seqs, PageOf
  <2>3. Min(Seqs(PageOf(S))) \in Seqs(PageOf(S))
    BY <2>2, MinIsLeast
  <2>4. PICK m \in PageOf(S) : m.seq = Min(Seqs(PageOf(S)))
    BY <2>3 DEF Seqs
  <2>5. NextCursor(S) = m.seq
    BY <1>1, <1>6, <2>4 DEF NextCursor
  <2>6. QED
    BY <1>4, <2>5
<1>7. QED
  BY <1>1, <1>5, <1>6

\* Entries that are no part of what the page could give have no more than it above them.
LEMMA PageJoins ==
  ASSUME FilesOK(audit.snap), InOrder(audit.snap), audit.cursor \in Nat, ~Missed,
         NEW l \in Before(audit.snap), NextCursor(Before(Present)) <= l.seq
  PROVE  l \in PageOf(Before(Present))
<1>1. /\ PageSize \in Nat /\ PageSize > 0 /\ Pinned \in Nat /\ FilesOK(audit.snap)
      /\ DOMAIN audit.snap \subseteq Nat /\ DOMAIN audit.snap \subseteq 0..LastDay /\ LastDay \in Nat
  BY ReadsConstantsOK, CallLogConstantsOK DEF FilesOK, Days
<1>2. PICK S : S = Before(Present)
  OBVIOUS
<1>3. PICK gone : gone = {x \in DOMAIN audit.snap : x \notin DOMAIN files /\ ~(Cardinality(DOMAIN Newer(audit.snap, x)) < Pinned)}
  OBVIOUS
<1>4. /\ DOMAIN Present = DOMAIN audit.snap \ gone
      /\ \A d \in DOMAIN Present : Present[d] = audit.snap[d]
  BY <1>3 DEF Present
<1>5. \A d : /\ DOMAIN Newer(audit.snap, d) = {x \in DOMAIN audit.snap : x > d}
             /\ \A x \in DOMAIN Newer(audit.snap, d) : Newer(audit.snap, d)[x] = audit.snap[x]
  BY DEF Newer
<1>6. LinesOf(Present) \subseteq LinesOf(audit.snap)
  BY <1>4 DEF LinesOf
<1>7. IsFiniteSet(S) /\ S \subseteq Lines /\ Cardinality(S) \in Nat
  <2>1. IsFiniteSet(LinesOf(audit.snap)) /\ LinesOf(audit.snap) \subseteq Lines
    BY <1>1, LinesFinite
  <2>2. S \in SUBSET LinesOf(audit.snap)
    BY <1>2, <1>6 DEF Before
  <2>3. QED
    BY <2>1, <2>2, FS_Subset, FS_CardinalityType
<1>8. CASE l \in S
  BY <1>2, <1>7, <1>8, PageIsTop
<1>9. CASE l \notin S
  <2>1. /\ l \in LinesOf(audit.snap) /\ Valid(l) /\ (audit.cursor = 0 \/ l.seq < audit.cursor) /\ l.seq \in Nat
        /\ l \in Lines
    BY <1>1, LinesFinite DEF Before, Lines
  <2>2. PICK d \in DOMAIN audit.snap : \E i \in DOMAIN audit.snap[d] : l = audit.snap[d][i]
    BY <2>1 DEF LinesOf
  <2>3. PICK i \in DOMAIN audit.snap[d] : l = audit.snap[d][i]
    BY <2>2
  <2>4. d \in gone
    <3>1. ASSUME d \in DOMAIN Present PROVE FALSE
      <4>1. l \in LinesOf(Present)
        BY <1>4, <2>3, <3>1 DEF LinesOf
      <4>2. QED
        BY <1>2, <1>9, <2>1, <4>1 DEF Before
    <3>2. QED
      BY <1>4, <3>1
  <2>5. PICK y \in gone : \A x \in gone : x <= y
    <3>1. gone \subseteq 0..LastDay /\ gone # {}
      BY <1>1, <1>3, <2>4
    <3>2. QED
      BY <1>1, <3>1, MaxIsLargest
  <2>6. PICK N : N = Before(Newer(audit.snap, y))
    OBVIOUS
  <2>7. y \in DOMAIN audit.snap \ DOMAIN files /\ y \in Nat /\ d <= y /\ d \in Nat
    BY <1>1, <1>3, <2>4, <2>5
  <2>8. N \subseteq LinesOf(audit.snap) /\ IsFiniteSet(N) /\ Cardinality(N) \in Nat
    <3>1. IsFiniteSet(LinesOf(audit.snap))
      BY <1>1, LinesFinite
    <3>2. N \in SUBSET LinesOf(audit.snap)
      <4>1. LinesOf(Newer(audit.snap, y)) \subseteq LinesOf(audit.snap)
        <5>1. PICK newer : newer = Newer(audit.snap, y)
          OBVIOUS
        <5>2. DOMAIN newer \subseteq DOMAIN audit.snap /\ \A x \in DOMAIN newer : newer[x] = audit.snap[x]
          BY <1>5, <5>1
        <5>3. LinesOf(newer) \subseteq LinesOf(audit.snap)
          BY <5>2 DEF LinesOf
        <5>4. QED
          BY <5>1, <5>3
      <4>2. QED
        BY <2>6, <4>1 DEF Before
    <3>3. QED
      BY <3>1, <3>2, FS_Subset, FS_CardinalityType
  <2>9. Cardinality(N) > PageSize
    <3>1. ~(Cardinality(DOMAIN Newer(audit.snap, y)) < Pinned)
      BY <1>3
    <3>2. IsFiniteSet(DOMAIN Newer(audit.snap, y))
      <4>1. IsFiniteSet(0..LastDay)
        BY <1>1, FS_Interval
      <4>2. QED
        BY <1>1, <1>5, <4>1, FS_Subset
    <3>3. Cardinality(DOMAIN Newer(audit.snap, y)) \in Nat
      BY <3>2, FS_CardinalityType
    <3>4. Cardinality(DOMAIN Newer(audit.snap, y)) >= Pinned
      BY <1>1, <3>1, <3>3
    <3>5. ~(Cardinality(N) <= PageSize)
      BY <2>6, <2>7, <3>4 DEF Missed
    <3>6. QED
      BY <1>1, <2>8, <3>5
  <2>10. ASSUME NEW k \in N PROVE k \in S /\ k.seq > l.seq
    <3>1. k \in LinesOf(Newer(audit.snap, y)) /\ Valid(k) /\ (audit.cursor = 0 \/ k.seq < audit.cursor)
      BY <2>6 DEF Before
    <3>2. PICK e \in DOMAIN Newer(audit.snap, y) : \E j \in DOMAIN Newer(audit.snap, y)[e] : k = Newer(audit.snap, y)[e][j]
      BY <3>1 DEF LinesOf
    <3>3. e \in DOMAIN audit.snap /\ e > y /\ Newer(audit.snap, y)[e] = audit.snap[e] /\ e \in Nat
      BY <1>1, <1>5
    <3>4. PICK j \in DOMAIN audit.snap[e] : k = audit.snap[e][j]
      BY <3>2, <3>3
    <3>5. e \notin gone
      BY <1>1, <2>5, <2>7, <3>3
    <3>6. k \in LinesOf(Present)
      BY <1>4, <3>3, <3>4, <3>5 DEF LinesOf
    <3>7. d < e
      BY <2>7, <3>3
    <3>8. l.seq < k.seq
      BY <2>1, <2>3, <3>1, <3>3, <3>4, <3>7 DEF InOrder
    <3>9. k.seq \in Nat
      BY <1>1, <2>8, LinesFinite DEF Lines
    <3>10. QED
      BY <1>2, <2>1, <3>1, <3>6, <3>8, <3>9 DEF Before
  <2>11. Cardinality(S) > PageSize
    <3>1. N \in SUBSET S
      BY <2>10
    <3>2. QED
      BY <1>1, <1>7, <2>8, <2>9, <3>1, FS_Subset
  <2>12. NextCursor(S) = Min(Seqs(PageOf(S)))
    BY <2>11, <1>1, <1>7 DEF NextCursor
  <2>13. PICK m \in S : m \in PageOf(S) /\ m.seq = NextCursor(S)
    <3>1. PICK m \in S : m \in PageOf(S)
      <4>1. S # {}
        BY <1>1, <2>11, FS_EmptySet
      <4>2. PageOf(S) # {}
        BY <1>7, <4>1, PageHasOne
      <4>3. QED
        BY <4>2 DEF PageOf
    <3>2. Seqs(PageOf(S)) \subseteq Nat /\ Seqs(PageOf(S)) # {}
      BY <1>7, <3>1 DEF Seqs, PageOf, Lines
    <3>3. Min(Seqs(PageOf(S))) \in Seqs(PageOf(S))
      BY <3>2, MinIsLeast
    <3>4. QED
      BY <2>12, <3>3 DEF Seqs, PageOf
  <2>14. N \in SUBSET Above(S, m.seq)
    <3>1. m.seq <= l.seq /\ m.seq \in Nat
      BY <1>2, <1>7, <2>13 DEF Lines
    <3>2. \A k \in N : k.seq \in Nat
      BY <1>7, <2>10 DEF Lines
    <3>3. QED
      BY <2>1, <2>10, <3>1, <3>2 DEF Above
  <2>15. Cardinality(Above(S, m.seq)) < PageSize
    BY <2>13 DEF PageOf, Above
  <2>16. IsFiniteSet(Above(S, m.seq)) /\ Cardinality(Above(S, m.seq)) \in Nat
    BY <1>7, FS_Subset, FS_CardinalityType DEF Above
  <2>17. QED
    BY <1>1, <2>8, <2>9, <2>14, <2>15, <2>16, FS_Subset
<1>10. QED
  BY <1>8, <1>9

(* The auditor's own steps. *)

\* What the log holds is in its entries.
LEMMA LoggedEntries ==
  ASSUME TypeOK, LinesSound, NEW c \in Logged
  PROVE  \E x \in EntryAt : c \in At(x).calls
<1>1. PICK d \in DOMAIN files : \E i \in DOMAIN files[d] : c \in files[d][i].calls
  BY DEF Logged, CallsIn
<1>2. PICK i \in DOMAIN files[d] : c \in files[d][i].calls
  BY <1>1
<1>3. <<d, i>> \in Positions /\ At(<<d, i>>) = files[d][i]
  BY FileType, PositionIs
<1>4. Valid(At(<<d, i>>))
  BY <1>2, <1>3 DEF LinesSound
<1>5. QED
  BY <1>2, <1>3, <1>4, EntryIs

\* No file is a snapshot too.
LEMMA NoFiles == FilesOK(<<>>) /\ LinesOf(<<>>) = {}
<1>1. DOMAIN <<>> = {}
  OBVIOUS
<1>2. FilesOK(<<>>)
  BY <1>1 DEF FilesOK
<1>3. QED
  BY <1>1, <1>2 DEF LinesOf

\* Asking for a page.
LEMMA AskKeeps ==
  ASSUME LogInv, AuditInv(audit, walk), NEW p \in Procs, Ask(p), NEW b, b = audit'
  PROVE  AuditInv(b, walk)
<1>1. TypeOK /\ LinesSound /\ AuditOK(audit) /\ WalkOK(walk)
  BY DEF LogInv, CInv, AuditInv
<1>2. CASE audit.at = "off"
  <2>1. b = Begun(p)
    BY <1>2 DEF Ask
  <2>2. /\ DOMAIN b = {"at", "proc", "cursor", "head", "snap", "read", "pages", "failed", "logged", "owed",
                       "degraded", "blind"}
        /\ b.at = "flush" /\ b.cursor = 0 /\ b.head = 0 /\ b.snap = <<>> /\ b.read = {} /\ b.pages = 0
        /\ b.failed = FALSE /\ b.logged = Logged /\ b.owed = marker.owed
    BY <2>1 DEF Begun, Unasked
  <2>3. AuditOK(b)
    BY <2>2, NoFiles DEF AuditOK
  <2>4. ~Paged(b) /\ Reached(b) /\ PagesJoin(b) /\ PagesFull(b) /\ OwedKept(b) /\ WalkFits(b, walk)
    BY <2>2 DEF Paged, Reached, PagesJoin, PagesFull, OwedKept, WalkFits
  <2>5. CallsKept(b, walk)
    BY <1>1, <2>2, <2>4, LoggedEntries DEF CallsKept
  <2>6. QED
    BY <1>1, <2>3, <2>4, <2>5 DEF AuditInv
<1>3. CASE audit.at # "off"
  <2>1. audit.at = "ask" /\ b = [audit EXCEPT !.at = "flush", !.proc = p]
    BY <1>3 DEF Ask
  <2>2. /\ DOMAIN b = DOMAIN audit /\ b.at = "flush" /\ b.cursor = audit.cursor /\ b.head = audit.head
        /\ b.snap = audit.snap /\ b.read = audit.read /\ b.pages = audit.pages /\ b.failed = audit.failed
        /\ b.logged = audit.logged /\ b.owed = audit.owed
    BY <1>1, <2>1 DEF AuditOK
  <2>3. AuditOK(b)
    BY <1>1, <2>2 DEF AuditOK
  <2>4. Paged(b) <=> Paged(audit)
    BY <2>1, <2>2 DEF Paged
  <2>5. Reached(b) /\ PagesJoin(b) /\ PagesFull(b) /\ OwedKept(b) /\ WalkFits(b, walk)
    BY <2>1, <2>2, <2>4 DEF AuditInv, Reached, PagesJoin, PagesFull, OwedKept, WalkFits
  <2>6. CallsKept(b, walk)
    BY <2>1, <2>2, <2>4 DEF AuditInv, CallsKept
  <2>7. QED
    BY <1>1, <2>3, <2>5, <2>6 DEF AuditInv
<1>4. QED
  BY <1>2, <1>3

\* Taking the snapshot of a page.
LEMMA SnapshotKeeps ==
  ASSUME LogInv, AuditInv(audit, walk), Snapshot, NEW b, b = audit'
  PROVE  AuditInv(b, walk)
<1>1. /\ TypeOK /\ Increasing /\ AnchorFits /\ AuditOK(audit) /\ WalkOK(walk)
      /\ audit.at = "flush" /\ ~Unreadable(DOMAIN files) /\ anchor \in Nat
  BY SameTypes DEF LogInv, CInv, Chained, AuditInv, Snapshot
<1>2. PICK h : h = IF audit.pages = 0 THEN HeadSeq ELSE audit.head
  OBVIOUS
<1>3. b = [audit EXCEPT !.at = "read", !.head = h, !.snap = files]
  BY <1>2 DEF Snapshot
<1>4. /\ DOMAIN b = DOMAIN audit /\ b.at = "read" /\ b.cursor = audit.cursor /\ b.head = h
      /\ b.snap = files /\ b.read = audit.read /\ b.pages = audit.pages /\ b.failed = audit.failed
      /\ b.logged = audit.logged /\ b.owed = audit.owed
  BY <1>1, <1>3 DEF AuditOK
<1>5. HeadSeq \in Nat /\ h \in Nat /\ HeadIs(HeadSeq)
  BY <1>1, <1>2, HeadSeqType, HeadRead DEF AuditOK
<1>6. AuditOK(b)
  BY <1>1, <1>4, <1>5, SameTypes DEF AuditOK
<1>7. Paged(b) /\ (audit.pages # 0 => Paged(audit))
  BY <1>1, <1>4 DEF Paged, AuditOK
<1>8. Reached(b)
  <2>1. CASE audit.pages = 0
    <3>1. CASE NonEmpty(DOMAIN files) = {}
      BY <1>1, <1>2, <1>4, <2>1, <3>1 DEF HeadSeq, Reached
    <3>2. CASE NonEmpty(DOMAIN files) # {}
      <4>1. PICK x \in EntriesIn(DOMAIN files) : At(x).seq = LastSeq(DOMAIN files)
        BY <1>1, <3>2, LastEntry
      <4>2. x \in EntryAt /\ At(x).seq = h
        BY <1>2, <2>1, <3>2, <4>1 DEF HeadSeq, EntriesIn
      <4>3. QED
        BY <1>4, <1>5, <4>2 DEF Reached
    <3>3. QED
      BY <3>1, <3>2
  <2>2. CASE audit.pages # 0
    BY <1>2, <1>4, <1>7, <2>2 DEF AuditInv, Reached
  <2>3. QED
    BY <2>1, <2>2
<1>9. InOrder(files)
  <2>1. ASSUME NEW d \in DOMAIN files, NEW e \in DOMAIN files, NEW i \in DOMAIN files[d], NEW j \in DOMAIN files[e],
               d < e, Valid(files[d][i]), Valid(files[e][j])
        PROVE  files[d][i].seq < files[e][j].seq
    <3>1. PICK x, y : x = <<d, i>> /\ y = <<e, j>>
      OBVIOUS
    <3>2. x \in Positions /\ y \in Positions /\ At(x) = files[d][i] /\ At(y) = files[e][j]
      BY <1>1, <3>1, FileType, PositionIs
    <3>3. x \in EntryAt /\ y \in EntryAt
      BY <1>1, <2>1, <3>2, EntryIs
    <3>4. Precedes(x, y)
      BY <2>1, <3>1 DEF Precedes
    <3>5. QED
      BY <1>1, <3>2, <3>3, <3>4, SeqsFollow
  <2>2. QED
    BY <2>1 DEF InOrder
<1>10. \A x \in EntryAt : At(x) \in LinesOf(files)
  <2>1. ASSUME NEW x \in EntryAt PROVE At(x) \in LinesOf(files)
    <3>1. x[1] \in DOMAIN files /\ x[2] \in 1..Len(files[x[1]]) /\ At(x) = files[x[1]][x[2]]
      BY <1>1, EntryIs, PositionIs
    <3>2. x[2] \in DOMAIN files[x[1]]
      BY <1>1, <3>1, FileType
    <3>3. QED
      BY <3>1, <3>2 DEF LinesOf
  <2>2. QED
    BY <2>1
<1>11. ASSUME NEW l \in LinesOf(files), audit.pages > 0, Valid(l), l.seq >= audit.cursor, l.seq <= h
       PROVE  l \in audit.read
  <2>1. PICK d \in DOMAIN files : \E i \in DOMAIN files[d] : l = files[d][i]
    BY DEF LinesOf
  <2>2. PICK i \in DOMAIN files[d] : l = files[d][i]
    BY <2>1
  <2>3. PICK x : x = <<d, i>>
    OBVIOUS
  <2>4. x \in EntryAt /\ At(x) = l
    BY <1>1, <1>11, <2>2, <2>3, FileType, PositionIs, EntryIs
  <2>5. audit.pages # 0 /\ h = audit.head
    BY <1>1, <1>2, <1>11 DEF AuditOK
  <2>6. QED
    BY <1>1, <1>11, <2>4, <2>5 DEF AuditInv, PagesJoin
<1>12. PagesJoin(b)
  BY <1>1, <1>4, <1>9, <1>10, <1>11 DEF AuditInv, PagesJoin
<1>13. CallsKept(b, walk)
  <2>1. ASSUME anchor = 0, NEW c \in b.logged
        PROVE  \E x \in EntryAt : c \in At(x).calls /\ At(x).seq <= b.head
    <3>1. PICK x \in EntryAt : c \in At(x).calls /\ (Paged(audit) => At(x).seq <= audit.head)
      BY <1>1, <1>4, <2>1 DEF AuditInv, CallsKept
    <3>2. At(x).seq <= HeadSeq
      BY <1>5 DEF HeadIs
    <3>3. QED
      BY <1>2, <1>4, <1>7, <3>1, <3>2
  <2>2. QED
    BY <1>4, <2>1 DEF CallsKept
<1>14. PagesFull(b) /\ OwedKept(b) /\ WalkFits(b, walk)
  BY <1>4 DEF AuditInv, PagesFull, OwedKept, WalkFits
<1>15. QED
  BY <1>1, <1>6, <1>8, <1>12, <1>13, <1>14 DEF AuditInv

\* Reading a page joins it to the ones before.
LEMMA ReadPageKeeps ==
  ASSUME LogInv, AuditInv(audit, walk), ReadPage, NEW b, b = audit'
  PROVE  AuditInv(b, walk)
<1>1. /\ TypeOK /\ AuditOK(audit) /\ WalkOK(walk) /\ audit.at = "read" /\ ~Missed /\ PagesJoin(audit)
  BY DEF LogInv, CInv, AuditInv, ReadPage
<1>2. PICK S : S = Before(Present)
  OBVIOUS
<1>3. PICK c : c = NextCursor(S)
  OBVIOUS
<1>4. PICK stage \in {"ask", "check"} :
        /\ b = [audit EXCEPT !.read = audit.read \cup PageOf(S), !.pages = audit.pages + 1, !.cursor = c,
                             !.at = stage]
        /\ stage = "ask" => c # 0
  BY <1>2, <1>3 DEF ReadPage
<1>5. /\ DOMAIN b = DOMAIN audit /\ b.at = stage /\ b.cursor = c /\ b.head = audit.head
      /\ b.snap = audit.snap /\ b.read = audit.read \cup PageOf(S) /\ b.pages = audit.pages + 1
      /\ b.failed = audit.failed /\ b.logged = audit.logged /\ b.owed = audit.owed
  BY <1>1, <1>4 DEF AuditOK
<1>6. S \subseteq Lines /\ IsFiniteSet(S) /\ S \subseteq LinesOf(audit.snap)
  <2>1. DOMAIN Present \subseteq DOMAIN audit.snap /\ \A x \in DOMAIN Present : Present[x] = audit.snap[x]
    BY DEF Present
  <2>2. LinesOf(Present) \subseteq LinesOf(audit.snap)
    BY <2>1 DEF LinesOf
  <2>3. S \in SUBSET LinesOf(audit.snap)
    BY <1>2, <2>2 DEF Before
  <2>4. IsFiniteSet(LinesOf(audit.snap)) /\ LinesOf(audit.snap) \subseteq Lines
    BY <1>1, LinesFinite DEF AuditOK
  <2>5. QED
    BY <2>3, <2>4, FS_Subset
<1>7. c \in Nat
  <2>1. CASE Cardinality(S) > PageSize
    <3>1. S # {}
      BY <2>1, ReadsConstantsOK, FS_EmptySet
    <3>2. PageOf(S) # {}
      BY <1>6, <3>1, PageHasOne
    <3>3. Seqs(PageOf(S)) \subseteq Nat /\ Seqs(PageOf(S)) # {}
      BY <1>6, <3>2 DEF Seqs, PageOf, Lines
    <3>4. Min(Seqs(PageOf(S))) \in Nat
      BY <3>3, MinIsLeast
    <3>5. QED
      BY <1>3, <2>1, <3>4 DEF NextCursor
  <2>2. CASE ~(Cardinality(S) > PageSize)
    BY <1>3, <2>2 DEF NextCursor
  <2>3. QED
    BY <2>1, <2>2
<1>8. AuditOK(b)
  BY <1>1, <1>5, <1>6, <1>7 DEF AuditOK, PageOf
<1>9. ASSUME NEW l \in LinesOf(audit.snap), Valid(l), l.seq <= audit.head, l.seq >= c
      PROVE  l \in b.read
  <2>1. l.seq \in Nat /\ audit.pages \in Nat /\ audit.cursor \in Nat /\ (audit.pages = 0 <=> audit.cursor = 0)
    BY <1>1, LinesFinite DEF AuditOK, Lines, PagesJoin
  <2>2. CASE audit.pages > 0 /\ l.seq >= audit.cursor
    BY <1>1, <1>5, <1>9, <2>2 DEF PagesJoin
  <2>3. CASE ~(audit.pages > 0 /\ l.seq >= audit.cursor)
    <3>1. audit.cursor = 0 \/ l.seq < audit.cursor
      BY <2>1, <2>3
    <3>2. l \in Before(audit.snap)
      BY <1>9, <3>1 DEF Before
    <3>3. FilesOK(audit.snap) /\ InOrder(audit.snap)
      BY <1>1 DEF AuditOK, PagesJoin
    <3>4. NextCursor(Before(Present)) <= l.seq
      BY <1>2, <1>3, <1>7, <1>9, <2>1
    <3>5. l \in PageOf(S)
      BY <1>1, <1>2, <2>1, <3>2, <3>3, <3>4, PageJoins
    <3>6. QED
      BY <1>5, <3>5
  <2>4. QED
    BY <2>2, <2>3
<1>10. Paged(b) /\ Paged(audit)
  BY <1>1, <1>5 DEF Paged, AuditOK
<1>11. Reached(b)
  BY <1>5, <1>10 DEF AuditInv, Reached
<1>12. PagesJoin(b)
  <2>1. ASSUME NEW x \in EntryAt, At(x).seq >= c, At(x).seq <= audit.head
        PROVE  At(x) \in b.read
    <3>1. At(x) \in LinesOf(audit.snap) /\ Valid(At(x))
      BY <1>1, <2>1, EntryIs DEF PagesJoin
    <3>2. QED
      BY <1>9, <2>1, <3>1
  <2>2. stage = "ask" => b.pages # 0 /\ b.cursor # 0 /\ ~b.failed
    BY <1>1, <1>4, <1>5 DEF PagesJoin, AuditOK
  <2>3. QED
    BY <1>5, <2>1, <2>2 DEF PagesJoin
<1>13. PagesFull(b)
  BY <1>5, <1>9 DEF PagesFull
<1>14. CallsKept(b, walk)
  <2>1. ASSUME anchor = 0, NEW k \in audit.logged
        PROVE  \E x \in EntryAt : k \in At(x).calls /\ At(x).seq <= audit.head
    BY <1>1, <1>10, <2>1 DEF AuditInv, CallsKept
  <2>2. ASSUME anchor = 0, Whole(b), NEW k \in b.logged
        PROVE  k \in CallsOfLines(b.read)
    <3>1. PICK x \in EntryAt : k \in At(x).calls /\ At(x).seq <= audit.head
      BY <1>5, <2>1, <2>2
    <3>2. At(x) \in LinesOf(audit.snap) /\ Valid(At(x)) /\ At(x).seq \in Nat
      BY <1>1, <3>1, EntryIs DEF PagesJoin
    <3>3. c = 0
      BY <1>5, <2>2 DEF Whole
    <3>4. At(x) \in b.read
      BY <1>9, <3>1, <3>2, <3>3
    <3>5. QED
      BY <3>1, <3>4 DEF CallsOfLines
  <2>3. QED
    BY <1>5, <2>1, <2>2 DEF CallsKept
<1>15. OwedKept(b) /\ WalkFits(b, walk)
  BY <1>5 DEF AuditInv, OwedKept, WalkFits
<1>16. QED
  BY <1>1, <1>8, <1>11, <1>12, <1>13, <1>14, <1>15 DEF AuditInv

\* A request that failed, or whose process died.
LEMMA BrokenKeeps ==
  ASSUME AuditInv(audit, walk)
  PROVE  AuditInv(Broken(audit), walk)
<1>1. PICK b : b = Broken(audit)
  OBVIOUS
<1>2. AuditOK(audit) /\ WalkOK(walk)
  BY DEF AuditInv
<1>3. /\ DOMAIN b = DOMAIN audit /\ b.cursor = audit.cursor /\ b.head = audit.head
      /\ b.snap = audit.snap /\ b.read = audit.read /\ b.pages = audit.pages
      /\ b.logged = audit.logged /\ b.owed = audit.owed
      /\ b.at = "over" \/ (b.at = "check" /\ b.failed = TRUE)
  <2>1. CASE b = [audit EXCEPT !.at = "check", !.failed = TRUE]
    BY <1>2, <2>1 DEF AuditOK
  <2>2. CASE b = [audit EXCEPT !.at = "over"]
    BY <1>2, <2>2 DEF AuditOK
  <2>3. QED
    BY <1>1, <2>1, <2>2 DEF Broken
<1>4. AuditOK(b)
  BY <1>2, <1>3 DEF AuditOK
<1>5. Paged(b) => Paged(audit)
  BY <1>3 DEF Paged
<1>6. Reached(b) /\ PagesJoin(b) /\ PagesFull(b) /\ OwedKept(b) /\ WalkFits(b, walk)
  BY <1>3, <1>5 DEF AuditInv, Reached, PagesJoin, PagesFull, OwedKept, WalkFits
<1>7. CallsKept(b, walk)
  BY <1>3 DEF CallsKept, Whole
<1>8. QED
  BY <1>1, <1>2, <1>4, <1>6, <1>7 DEF AuditInv

\* Asking for the check of the chain.
LEMMA AskVerifyKeeps ==
  ASSUME LogInv, AuditInv(audit, walk), NEW p \in Procs, AskVerify(p), NEW b, b = audit'
  PROVE  AuditInv(b, walk)
<1>1. AuditOK(audit) /\ WalkOK(walk) /\ audit.at = "check"
  BY DEF AuditInv, AskVerify
<1>2. b = [audit EXCEPT !.at = "vflush", !.proc = p, !.snap = <<>>]
  BY DEF AskVerify
<1>3. /\ DOMAIN b = DOMAIN audit /\ b.at = "vflush" /\ b.cursor = audit.cursor /\ b.head = audit.head
      /\ b.snap = <<>> /\ b.read = audit.read /\ b.pages = audit.pages /\ b.failed = audit.failed
      /\ b.logged = audit.logged /\ b.owed = audit.owed
  BY <1>1, <1>2 DEF AuditOK
<1>4. AuditOK(b)
  BY <1>1, <1>3, NoFiles DEF AuditOK
<1>5. Paged(b) => Paged(audit)
  BY <1>3 DEF Paged
<1>6. Reached(b) /\ PagesJoin(b) /\ PagesFull(b) /\ OwedKept(b) /\ WalkFits(b, walk)
  BY <1>3, <1>5 DEF AuditInv, Reached, PagesJoin, PagesFull, OwedKept, WalkFits
<1>7. CallsKept(b, walk)
  BY <1>1, <1>3 DEF AuditInv, CallsKept, Whole
<1>8. QED
  BY <1>1, <1>4, <1>6, <1>7 DEF AuditInv

\* Reading the anchor begins the walk.
LEMMA ReadAnchorKeeps ==
  ASSUME LogInv, AuditInv(audit, walk), ReadAnchor, NEW b, b = audit', NEW u, u = walk'
  PROVE  AuditInv(b, u)
<1>1. TypeOK /\ AuditOK(audit) /\ audit.at = "vflush" /\ anchor \in Nat
  BY SameTypes DEF LogInv, CInv, AuditInv, ReadAnchor
<1>2. PICK pruned : pruned = \E d \in DOMAIN files : \E i \in ValidLines(d) : files[d][i].seq <= anchor
  OBVIOUS
<1>3. b = [audit EXCEPT !.at = "list"] /\ u = [Unwalked EXCEPT !.from = anchor, !.prev = anchor, !.pruning = pruned]
  BY <1>2 DEF ReadAnchor
<1>4. /\ DOMAIN b = DOMAIN audit /\ b.at = "list" /\ b.cursor = audit.cursor /\ b.head = audit.head
      /\ b.snap = audit.snap /\ b.read = audit.read /\ b.pages = audit.pages /\ b.failed = audit.failed
      /\ b.logged = audit.logged /\ b.owed = audit.owed
  BY <1>1, <1>3 DEF AuditOK
<1>5. /\ DOMAIN u = {"from", "prev", "listed", "todo", "clean", "pruning"} /\ u.from = anchor /\ u.prev = anchor
      /\ u.listed = {} /\ u.todo = {} /\ u.clean = TRUE /\ u.pruning = pruned
  BY <1>3 DEF Unwalked
<1>6. AuditOK(b) /\ WalkOK(u)
  BY <1>1, <1>4, <1>5 DEF AuditOK, WalkOK
<1>7. Paged(b) => Paged(audit)
  BY <1>4 DEF Paged
<1>8. Reached(b) /\ PagesJoin(b) /\ PagesFull(b) /\ OwedKept(b)
  BY <1>4, <1>7 DEF AuditInv, Reached, PagesJoin, PagesFull, OwedKept
<1>9. CallsKept(b, u)
  BY <1>1, <1>4, <1>5 DEF AuditInv, CallsKept, Whole
<1>10. ASSUME ~u.pruning, NEW x \in EntryAt PROVE anchor < At(x).seq
  <2>1. /\ x[1] \in DOMAIN files /\ x[2] \in 1..Len(files[x[1]]) /\ At(x) = files[x[1]][x[2]]
        /\ Valid(At(x)) /\ At(x).seq \in Nat
    BY <1>1, EntryIs, PositionIs
  <2>2. x[2] \in ValidLines(x[1])
    BY <1>1, <2>1, FileType DEF ValidLines
  <2>3. ~(files[x[1]][x[2]].seq <= anchor)
    BY <1>2, <1>5, <1>10, <2>1, <2>2
  <2>4. QED
    BY <1>1, <2>1, <2>3
<1>11. Listing(b, u) /\ (Undisturbed(u) => Walked(u))
  BY <1>1, <1>5, <1>10 DEF Listing, Undisturbed, Walked
<1>12. QED
  BY <1>6, <1>8, <1>9, <1>11 DEF AuditInv, WalkFits

\* Listing the files.
LEMMA ListFilesKeeps ==
  ASSUME LogInv, AuditInv(audit, walk), ListFiles, NEW b, b = audit', NEW u, u = walk'
  PROVE  AuditInv(b, u)
<1>1. /\ TypeOK /\ AuditOK(audit) /\ WalkOK(walk) /\ audit.at = "list" /\ anchor \in Nat
      /\ Listing(audit, walk) /\ (Undisturbed(walk) => Walked(walk))
  BY SameTypes DEF LogInv, CInv, AuditInv, ListFiles, WalkFits
<1>2. b = [audit EXCEPT !.at = "walk"] /\ u = [walk EXCEPT !.listed = DOMAIN files, !.todo = DOMAIN files]
  BY DEF ListFiles
<1>3. /\ DOMAIN b = DOMAIN audit /\ b.at = "walk" /\ b.cursor = audit.cursor /\ b.head = audit.head
      /\ b.snap = audit.snap /\ b.read = audit.read /\ b.pages = audit.pages /\ b.failed = audit.failed
      /\ b.logged = audit.logged /\ b.owed = audit.owed
  BY <1>1, <1>2 DEF AuditOK
<1>4. /\ DOMAIN u = DOMAIN walk /\ u.from = walk.from /\ u.prev = walk.prev /\ u.listed = DOMAIN files
      /\ u.todo = DOMAIN files /\ u.clean = walk.clean /\ u.pruning = walk.pruning
  BY <1>1, <1>2 DEF WalkOK
<1>5. AuditOK(b) /\ WalkOK(u)
  BY <1>1, <1>3, <1>4 DEF AuditOK, WalkOK
<1>6. Paged(b) => Paged(audit)
  BY <1>3 DEF Paged
<1>7. Reached(b) /\ PagesJoin(b) /\ PagesFull(b) /\ OwedKept(b)
  BY <1>3, <1>6 DEF AuditInv, Reached, PagesJoin, PagesFull, OwedKept
<1>8. CallsKept(b, u)
  BY <1>1, <1>3, <1>4 DEF AuditInv, CallsKept, Whole
<1>9. walk.listed = {} /\ walk.clean /\ walk.prev = walk.from /\ walk.from <= anchor
  BY <1>1 DEF Listing
<1>10. DOMAIN files \subseteq Days
  BY <1>1 DEF TypeOK, FilesOK
<1>11. Listing(b, u)
  BY <1>3, <1>4, <1>9, <1>10 DEF Listing
<1>12. ASSUME Undisturbed(u) PROVE Walked(u)
  <2>1. Undisturbed(walk) /\ walk.from = anchor
    BY <1>4, <1>9, <1>12 DEF Undisturbed
  <2>2. \A x \in EntryAt : anchor < At(x).seq
    BY <1>1, <2>1 DEF Walked
  <2>3. ASSUME NEW m \in DOMAIN files, \A t \in DOMAIN files : m <= t PROVE StandsAt(u, m)
    <3>1. \A x \in EntryAt : x[1] \in DOMAIN files /\ x[1] \in Nat
      BY <1>1, EntryIs, PositionIs
    <3>2. m \in Nat
      BY <1>1, FileType
    <3>3. \A x \in EntryAt : ~(x[1] < m)
      BY <2>3, <3>1, <3>2
    <3>4. QED
      BY <1>4, <1>9, <2>1, <3>3 DEF StandsAt
  <2>4. QED
    BY <1>4, <1>9, <2>2, <2>3 DEF Walked
<1>13. QED
  BY <1>3, <1>5, <1>7, <1>8, <1>11, <1>12 DEF AuditInv, WalkFits

\* Before the walk's next day there is nothing it has not passed, nor between that day and the
\* one after it.
LEMMA FileFits ==
  ASSUME LogInv, NEW w, Undisturbed(w), NEW d \in DOMAIN files, StandsAt(w, d),
         \A x \in EntryAt : anchor < At(x).seq
  PROVE  Continues(files[d], w.prev)
<1>1. /\ TypeOK /\ Increasing /\ AnchorFits /\ anchor \in Nat /\ cut = 0
      /\ \A x \in Positions : Valid(At(x)) /\ x \in EntryAt /\ At(x).seq \in Nat
      /\ \A x \in EntryAt : x \in Positions
  <2>1. TypeOK /\ Increasing /\ AnchorFits /\ anchor \in Nat /\ cut = 0 /\ stops = 0
    BY SameTypes DEF LogInv, CInv, Chained, Undisturbed
  <2>2. \A x \in Positions : Valid(At(x))
    BY <2>1 DEF LogInv, AllValid
  <2>3. QED
    BY <2>1, <2>2, EntryIs
<1>2. /\ d \in Nat /\ DOMAIN files[d] = 1..Len(files[d]) /\ Len(files[d]) \in Nat
      /\ \A i \in 1..Len(files[d]) : <<d, i>> \in Positions /\ At(<<d, i>>) = files[d][i]
  BY <1>1, FileType, PositionIs
<1>3. ASSUME NEW i \in DOMAIN files[d]
      PROVE  files[d][i].seq = (IF i = 1 THEN w.prev ELSE files[d][i - 1].seq) + 1
  <2>1. PICK x : x = <<d, i>>
    OBVIOUS
  <2>2. x \in EntryAt /\ At(x) = files[d][i] /\ x[1] = d /\ x[2] = i /\ i \in Nat /\ i > 0
    BY <1>1, <1>2, <2>1
  <2>3. CASE i # 1
    <3>1. PICK y : y = <<d, i - 1>>
      OBVIOUS
    <3>2. i - 1 \in 1..Len(files[d])
      BY <1>2, <2>2, <2>3
    <3>3. y \in EntryAt /\ At(y) = files[d][i - 1] /\ y[1] = d /\ y[2] = i - 1
      BY <1>1, <1>2, <3>1, <3>2
    <3>4. Precedes(y, x)
      BY <1>2, <2>2, <3>3 DEF Precedes
    <3>5. ASSUME NEW z \in Positions, Precedes(y, z), Precedes(z, x) PROVE FALSE
      <4>1. z[1] \in Nat /\ z[2] \in Nat
        BY <1>1, PositionIs
      <4>2. QED
        BY <1>2, <2>2, <3>3, <3>5, <4>1 DEF Precedes
    <3>6. At(x).seq = At(y).seq + 1
      BY <1>1, <2>2, <3>3, <3>4, <3>5 DEF Increasing
    <3>7. QED
      BY <2>2, <2>3, <3>3, <3>6
  <2>4. CASE i = 1
    <3>1. ASSUME NEW z \in Positions, Precedes(z, x) PROVE z[1] < d
      <4>1. z[1] \in Nat /\ z[2] \in Nat /\ z[2] \in 1..Len(files[z[1]])
        BY <1>1, PositionIs
      <4>2. z[2] > 0
        BY <1>1, <4>1, PositionIs, FileType
      <4>3. QED
        BY <1>2, <2>2, <2>4, <3>1, <4>1, <4>2 DEF Precedes
    <3>2. CASE \E v \in EntryAt : v[1] < d
      <4>1. PICK v \in EntryAt : /\ v[1] < d /\ At(v).seq = w.prev
                                 /\ \A y \in EntryAt : y[1] < d => At(y).seq <= w.prev
        BY <3>2 DEF StandsAt
      <4>2. Precedes(v, x)
        BY <2>2, <4>1 DEF Precedes
      <4>3. ASSUME NEW z \in Positions, Precedes(v, z), Precedes(z, x) PROVE FALSE
        <5>1. z \in EntryAt /\ At(z).seq \in Nat /\ At(v).seq \in Nat
          BY <1>1
        <5>2. At(z).seq <= At(v).seq
          BY <3>1, <4>1, <4>3, <5>1
        <5>3. At(v).seq < At(z).seq
          BY <1>1, <4>3, <5>1 DEF Increasing
        <5>4. QED
          BY <5>1, <5>2, <5>3
      <4>4. At(x).seq = At(v).seq + 1
        BY <1>1, <2>2, <4>2, <4>3 DEF Increasing
      <4>5. QED
        BY <2>2, <2>4, <4>1, <4>4
    <3>3. CASE ~\E v \in EntryAt : v[1] < d
      <4>1. w.prev = anchor
        BY <3>3 DEF StandsAt
      <4>2. OldestIn(x, EntryAt)
        BY <1>1, <3>1, <3>3 DEF OldestIn
      <4>3. At(x).seq <= anchor + 1 + cut /\ anchor < At(x).seq /\ At(x).seq \in Nat
        BY <1>1, <2>2, <4>2 DEF AnchorFits
      <4>4. At(x).seq = anchor + 1
        BY <1>1, <4>3
      <4>5. QED
        BY <2>2, <2>4, <4>1, <4>4
    <3>4. QED
      BY <3>2, <3>3
  <2>5. QED
    BY <2>3, <2>4
<1>4. \A i \in DOMAIN files[d] : Valid(files[d][i])
  BY <1>1, <1>2
<1>5. QED
  BY <1>3, <1>4 DEF Continues

\* Having read the file of a day, the walk stands before the next.
LEMMA WalkGoesOn ==
  ASSUME LogInv, NEW w, NEW d \in DOMAIN files, StandsAt(w, d), NEW u,
         u.prev = IF ValidLines(d) = {} THEN w.prev ELSE files[d][Max(ValidLines(d))].seq,
         NEW m \in DOMAIN files, d < m, \A e \in DOMAIN files : ~(d < e /\ e < m)
  PROVE  StandsAt(u, m)
<1>1. /\ TypeOK /\ Increasing
      /\ \A x \in EntryAt : /\ x \in Positions /\ At(x).seq \in Nat /\ x[1] \in DOMAIN files /\ x[1] \in Nat
                            /\ x = <<x[1], x[2]>> /\ x[2] \in Nat /\ Valid(At(x))
                            /\ x[2] \in 1..Len(files[x[1]]) /\ At(x) = files[x[1]][x[2]]
  <2>1. TypeOK /\ Increasing
    BY DEF LogInv, CInv, Chained
  <2>2. QED
    BY <2>1, EntryIs, PositionIs
<1>2. /\ d \in Nat /\ m \in Nat /\ DOMAIN files[d] = 1..Len(files[d]) /\ Len(files[d]) \in Nat
      /\ \A i \in 1..Len(files[d]) : <<d, i>> \in Positions /\ At(<<d, i>>) = files[d][i]
  BY <1>1, FileType, PositionIs
<1>3. \A x \in EntryAt : x[1] < m <=> x[1] < d \/ x[1] = d
  BY <1>1, <1>2
<1>4. CASE ValidLines(d) = {}
  <2>1. \A x \in EntryAt : x[1] # d
    BY <1>1, <1>2, <1>4 DEF ValidLines
  <2>2. \A x \in EntryAt : x[1] < m <=> x[1] < d
    BY <1>3, <2>1
  <2>3. QED
    BY <1>4, <2>2 DEF StandsAt
<1>5. CASE ValidLines(d) # {}
  <2>1. PICK k : k = Max(ValidLines(d))
    OBVIOUS
  <2>2. k \in ValidLines(d) /\ \A j \in ValidLines(d) : j <= k
    <3>1. PICK n \in Nat : n = Len(files[d])
      BY <1>2
    <3>2. ValidLines(d) \subseteq 0..n
      BY <1>2, <3>1 DEF ValidLines
    <3>3. QED
      BY <1>5, <2>1, <3>2, MaxIsLargest
  <2>3. PICK x : x = <<d, k>>
    OBVIOUS
  <2>4. x \in EntryAt /\ At(x) = files[d][k] /\ x[1] = d /\ x[2] = k /\ At(x).seq = u.prev
    BY <1>1, <1>2, <1>5, <2>1, <2>2, <2>3, EntryIs DEF ValidLines
  <2>5. ASSUME NEW y \in EntryAt, y[1] < m PROVE At(y).seq <= At(x).seq
    <3>1. y[1] < d \/ y[1] = d
      BY <1>3, <2>5
    <3>2. y[1] = d => y[2] \in ValidLines(d)
      BY <1>1, <1>2 DEF ValidLines
    <3>3. ~Precedes(x, y)
      <4>1. CASE y[1] < d
        BY <1>1, <1>2, <2>4, <4>1 DEF Precedes
      <4>2. CASE y[1] = d
        <5>1. y[2] <= k /\ k \in Nat
          BY <1>2, <2>2, <3>2, <4>2 DEF ValidLines
        <5>2. QED
          BY <1>1, <1>2, <2>4, <4>2, <5>1 DEF Precedes
      <4>3. QED
        BY <3>1, <4>1, <4>2
    <3>4. QED
      BY <1>1, <2>4, <3>3, SeqsFollow
  <2>6. x[1] < m
    BY <2>4
  <2>7. QED
    BY <2>4, <2>5, <2>6 DEF StandsAt
<1>6. QED
  BY <1>4, <1>5

\* Reading the next file of the walk.
LEMMA WalkFileKeeps ==
  ASSUME LogInv, AuditInv(audit, walk), WalkFile, NEW u, u = walk'
  PROVE  AuditInv(audit, u)
<1>1. /\ TypeOK /\ AuditOK(audit) /\ WalkOK(walk) /\ audit.at = "walk" /\ walk.todo # {}
      /\ Listing(audit, walk) /\ (Undisturbed(walk) => Walked(walk))
  BY DEF LogInv, CInv, AuditInv, WalkFile, WalkFits
<1>2. PICK d : d = Min(walk.todo)
  OBVIOUS
<1>3. d \in walk.todo /\ walk.todo \subseteq Nat /\ walk.listed \subseteq Nat /\ \A t \in walk.todo : d <= t
  <2>1. walk.todo \subseteq Nat /\ walk.listed \subseteq Nat /\ walk.todo \subseteq walk.listed
    BY <1>1 DEF Listing, Days
  <2>2. QED
    BY <1>1, <1>2, <2>1, MinIsLeast
<1>4. PICK entries : entries = IF d \in DOMAIN files THEN ValidLines(d) ELSE {}
  OBVIOUS
<1>5. PICK clean, prev :
        /\ u = [walk EXCEPT !.todo = walk.todo \ {d}, !.clean = clean, !.prev = prev]
        /\ clean = (walk.clean /\ d \in DOMAIN files /\ Continues(files[d], walk.prev))
        /\ prev = IF entries = {} THEN walk.prev ELSE files[d][Max(entries)].seq
  BY <1>2, <1>4 DEF WalkFile
<1>6. /\ DOMAIN u = DOMAIN walk /\ u.from = walk.from /\ u.prev = prev /\ u.listed = walk.listed
      /\ u.todo = walk.todo \ {d} /\ u.clean = clean /\ u.pruning = walk.pruning
  BY <1>1, <1>5 DEF WalkOK
<1>7. WalkOK(u)
  BY <1>1, <1>6 DEF WalkOK
<1>8. CallsKept(audit, u)
  BY <1>6 DEF AuditInv, CallsKept
<1>9. Listing(audit, u)
  <2>1. ASSUME NEW t \in u.todo, NEW e \in u.listed PROVE e \in u.todo \/ e < t
    <3>1. t \in walk.todo /\ e \in walk.listed /\ t # d /\ d <= t
      BY <1>3, <1>6
    <3>2. e \in walk.todo \/ e < t
      BY <1>1, <3>1 DEF Listing
    <3>3. d < t
      BY <1>3, <3>1
    <3>4. QED
      BY <1>6, <3>2, <3>3
  <2>2. QED
    BY <1>1, <1>6, <2>1 DEF Listing
<1>10. ASSUME Undisturbed(u) PROVE Walked(u)
  <2>1. Undisturbed(walk) /\ Walked(walk) /\ walk.listed \subseteq DOMAIN files
    BY <1>1, <1>6, <1>10 DEF Undisturbed
  <2>2. d \in DOMAIN files /\ walk.todo \subseteq walk.listed /\ entries = ValidLines(d)
    BY <1>1, <1>3, <1>4, <2>1 DEF Listing
  <2>3. StandsAt(walk, d) /\ \A x \in EntryAt : anchor < At(x).seq
    BY <1>3, <2>1 DEF Walked
  <2>4. Continues(files[d], walk.prev)
    BY <2>1, <2>2, <2>3, FileFits
  <2>5. u.clean
    BY <1>5, <1>6, <2>1, <2>2, <2>4 DEF Walked
  <2>6. ASSUME NEW m \in u.todo, \A t \in u.todo : m <= t PROVE StandsAt(u, m)
    <3>1. m \in walk.todo /\ m # d /\ m \in DOMAIN files /\ d < m /\ m \in Nat /\ d \in Nat
      BY <1>3, <1>6, <2>1, <2>2
    <3>2. ASSUME NEW e \in DOMAIN files, d < e, e < m PROVE FALSE
      <4>1. e \in Nat
        BY <1>1, FileType
      <4>2. CASE e \in walk.todo
        <5>1. e \in u.todo
          BY <1>6, <3>1, <3>2, <4>1, <4>2
        <5>2. m <= e
          BY <2>6, <5>1
        <5>3. QED
          BY <3>1, <3>2, <4>1, <5>2
      <4>3. CASE e \in walk.listed /\ e \notin walk.todo
        <5>1. e < d
          BY <1>1, <1>3, <4>3 DEF Listing
        <5>2. QED
          BY <3>1, <3>2, <4>1, <5>1
      <4>4. CASE e \notin walk.listed
        <5>1. m < e
          BY <2>1, <2>2, <3>1, <4>4 DEF Walked
        <5>2. QED
          BY <3>1, <3>2, <4>1, <5>1
      <4>5. QED
        BY <4>2, <4>3, <4>4
    <3>3. u.prev = IF ValidLines(d) = {} THEN walk.prev ELSE files[d][Max(ValidLines(d))].seq
      BY <1>5, <1>6, <2>2
    <3>4. QED
      BY <2>2, <2>3, <3>1, <3>2, <3>3, WalkGoesOn
  <2>7. QED
    BY <1>6, <2>1, <2>5, <2>6 DEF Walked
<1>11. QED
  BY <1>7, <1>8, <1>9, <1>10 DEF AuditInv, WalkFits

\* The verdict, after the last file.
LEMMA JudgeKeeps ==
  ASSUME LogInv, AuditInv(audit, walk), Judge, NEW b, b = audit'
  PROVE  AuditInv(b, walk)
<1>1. /\ TypeOK /\ AuditOK(audit) /\ WalkOK(walk) /\ audit.at = "walk" /\ WalkFits(audit, walk) /\ CountsMarked
  BY DEF LogInv, AInv, AuditInv, Judge
<1>2. PICK readable \in BOOLEAN :
        audit' = [audit EXCEPT !.at = "reported", !.blind = ~readable,
                    !.degraded = Combine(IF readable THEN marker ELSE NoOutage, outage[audit.proc]).on]
  BY DEF Judge
<1>3. PICK blind, degraded :
        /\ blind = ~readable
        /\ degraded = Combine(IF readable THEN marker ELSE NoOutage, outage[audit.proc]).on
        /\ b = [audit EXCEPT !.at = "reported", !.blind = blind, !.degraded = degraded]
  BY <1>2
<1>4. /\ DOMAIN b = DOMAIN audit /\ b.at = "reported" /\ b.cursor = audit.cursor /\ b.head = audit.head
      /\ b.snap = audit.snap /\ b.read = audit.read /\ b.pages = audit.pages /\ b.failed = audit.failed
      /\ b.logged = audit.logged /\ b.owed = audit.owed /\ b.blind = blind /\ b.degraded = degraded
  BY <1>1, <1>3 DEF AuditOK
<1>5. AuditOK(b)
  BY <1>1, <1>4 DEF AuditOK
<1>6. Paged(b) => Paged(audit)
  BY <1>4 DEF Paged
<1>7. Reached(b) /\ PagesJoin(b) /\ PagesFull(b)
  BY <1>4, <1>6 DEF AuditInv, Reached, PagesJoin, PagesFull
<1>8. CallsKept(b, walk)
  BY <1>1, <1>4 DEF AuditInv, CallsKept, Whole
<1>9. OwedKept(b)
  <2>1. audit.owed \subseteq Reported \cup marker.owed
    BY DEF AuditInv, OwedKept
  <2>2. CASE readable
    <3>1. degraded = (marker.on \/ outage[audit.proc].on)
      BY <1>3, <2>2 DEF Combine
    <3>2. ~degraded => marker.owed = {}
      BY <1>1, <3>1 DEF CountsMarked
    <3>3. QED
      BY <1>4, <2>1, <3>2 DEF OwedKept
  <2>3. CASE ~readable
    BY <1>3, <1>4, <2>1, <2>3 DEF OwedKept
  <2>4. QED
    BY <2>2, <2>3
<1>10. WalkFits(b, walk)
  BY <1>1, <1>4 DEF WalkFits, Listing
<1>11. QED
  BY <1>1, <1>5, <1>7, <1>8, <1>9, <1>10 DEF AuditInv

-----------------------------------------------------------------------------
(* Every step keeps the report *)

\* A request for a page or a check is at most the flush of a process.
LEMMA ReachIsFlush ==
  ASSUME NEW p \in Procs, NEW task \in {"paging", "flushing"}, Reaches(p, task)
  PROVE  [Next]_vars
<1>1. CASE Held(p) # {}
  <2>1. Flush(p)
    BY <1>1 DEF Reaches, Flush
  <2>2. QED
    BY <2>1 DEF Next, Living
<1>2. CASE Held(p) = {}
  BY <1>2 DEF Reaches, vars
<1>3. QED
  BY <1>1, <1>2

\* A step of the log or a fault, and what the auditor makes of it.
LEMMA AuditMoves ==
  ASSUME LogInv, AuditInv(audit, walk), [CrNext]_<<vars, audit, walk>>
  PROVE  /\ [Next]_vars \/ OnlyFault
         /\ \E b, u : b = audit' /\ u = walk' /\ AuditInv(b, u)
<1>1. ASSUME UNCHANGED <<vars, audit, walk>>
      PROVE  [Next]_vars /\ AuditInv(audit, walk) /\ audit' = audit /\ walk' = walk
  BY <1>1
<1>2. PICK b, u : b = audit' /\ u = walk'
  OBVIOUS
<1>3. ASSUME NEW p \in Procs, Ask(p) PROVE [Next]_vars /\ AuditInv(b, u)
  <2>1. Reaches(p, "paging") /\ walk' = walk
    BY <1>3 DEF Ask, Reaches
  <2>2. QED
    BY <1>2, <1>3, <2>1, ReachIsFlush, AskKeeps
<1>4. ASSUME NEW p \in Procs, AskVerify(p) PROVE [Next]_vars /\ AuditInv(b, u)
  <2>1. Reaches(p, "flushing") /\ walk' = walk
    BY <1>4 DEF AskVerify, Reaches
  <2>2. QED
    BY <1>2, <1>4, <2>1, ReachIsFlush, AskVerifyKeeps
<1>5. CASE Snapshot
  <2>1. UNCHANGED vars /\ walk' = walk
    BY <1>5 DEF Snapshot
  <2>2. QED
    BY <1>2, <1>5, <2>1, SnapshotKeeps
<1>6. CASE ReadPage
  <2>1. UNCHANGED vars /\ walk' = walk
    BY <1>6 DEF ReadPage
  <2>2. QED
    BY <1>2, <1>6, <2>1, ReadPageKeeps
<1>7. CASE PageFails
  <2>1. /\ UNCHANGED <<today, files, anchor, marker, outage, held, seen, job, lock, lost, cut, retired, stops, walk>>
        /\ (Fault \/ NoFault) /\ audit' = Broken(audit)
    BY <1>7 DEF PageFails
  <2>2. OnlyFault \/ UNCHANGED vars
    BY <2>1 DEF OnlyFault, NoFault, vars
  <2>3. AuditInv(b, u)
    BY <1>2, <2>1, BrokenKeeps
  <2>4. QED
    BY <1>2, <2>2, <2>3
<1>8. CASE ReadAnchor
  <2>1. UNCHANGED vars
    BY <1>8 DEF ReadAnchor
  <2>2. QED
    BY <1>2, <1>8, <2>1, ReadAnchorKeeps
<1>9. CASE ListFiles
  <2>1. UNCHANGED vars
    BY <1>9 DEF ListFiles
  <2>2. QED
    BY <1>2, <1>9, <2>1, ListFilesKeeps
<1>10. CASE WalkFile
  <2>1. UNCHANGED vars /\ audit' = audit
    BY <1>10 DEF WalkFile
  <2>2. QED
    BY <1>2, <1>10, <2>1, WalkFileKeeps
<1>11. CASE Judge
  <2>1. /\ UNCHANGED <<today, files, anchor, marker, outage, held, seen, job, lock, lost, cut, retired, stops, walk>>
        /\ (Fault \/ NoFault)
    BY <1>11 DEF Judge
  <2>2. OnlyFault \/ UNCHANGED vars
    BY <2>1 DEF OnlyFault, NoFault, vars
  <2>3. AuditInv(b, u)
    BY <1>2, <1>11, <2>1, JudgeKeeps
  <2>4. QED
    BY <1>2, <2>2, <2>3
<1>12. CASE Living /\ UNCHANGED <<audit, walk>>
  <2>1. Next
    BY <1>12 DEF Next
  <2>2. QED
    BY <1>2, <1>12, <2>1
<1>13. ASSUME NEW p \in Procs, Crash(p), UNCHANGED walk,
              audit' = IF audit.at \in Requesting /\ audit.proc = p THEN Broken(audit) ELSE audit
       PROVE  [Next]_vars /\ AuditInv(b, u)
  <2>1. Next
    BY <1>13 DEF Next
  <2>2. audit' = audit \/ audit' = Broken(audit)
    BY <1>13
  <2>3. QED
    BY <1>2, <1>13, <2>1, <2>2, BrokenKeeps
<1>14. QED
  BY <1>1, <1>2, <1>3, <1>4, <1>5, <1>6, <1>7, <1>8, <1>9, <1>10, <1>11, <1>12, <1>13 DEF CrNext, CrStep

ReportInv == LogInv /\ AuditInv(audit, walk)

\* Every step of the log and of its readers keeps the invariant of the report.
LEMMA ReportStep == ReportInv /\ [CrNext]_<<vars, audit, walk>> => ReportInv'
<1> SUFFICES ASSUME ReportInv, [CrNext]_<<vars, audit, walk>> PROVE ReportInv'
  OBVIOUS
<1>1. LogInv /\ AuditInv(audit, walk)
  BY DEF ReportInv
<1>2. [Next]_vars \/ OnlyFault
  BY <1>1, AuditMoves
<1>3. PICK b, u : b = audit' /\ u = walk' /\ AuditInv(b, u)
  BY <1>1, AuditMoves
<1>4. LogInv' /\ LogMoved
  BY <1>1, <1>2, LogSteps
<1>5. AuditInv(b, u)'
  BY <1>1, <1>3, <1>4, AuditStays
<1>6. AuditInv(audit, walk)'
  BY <1>3, <1>5
<1>7. QED
  BY <1>4, <1>6 DEF ReportInv

\* The invariant of the report holds before anything was asked.
LEMMA ReportInit == CrInit => ReportInv
<1> SUFFICES ASSUME CrInit PROVE ReportInv
  OBVIOUS
<1>1. Init /\ audit = Unasked /\ walk = Unwalked
  BY DEF CrInit
<1>2. AInv /\ CInv
  BY <1>1, AInvInit, ChainInit
<1>3. Positions = {} /\ EntryAt = {}
  BY <1>1 DEF Init, Positions, EntryAt
<1>4. LogInv
  BY <1>2, <1>3 DEF LogInv, AnchorEnds, LinesSound, AllValid
<1>5. /\ DOMAIN audit = {"at", "proc", "cursor", "head", "snap", "read", "pages", "failed", "logged", "owed",
                         "degraded", "blind"}
      /\ audit.at = "off" /\ audit.cursor = 0 /\ audit.head = 0 /\ audit.snap = <<>> /\ audit.read = {}
      /\ audit.pages = 0 /\ audit.owed = {}
  BY <1>1 DEF Unasked
<1>6. DOMAIN walk = {"from", "prev", "listed", "todo", "clean", "pruning"} /\ walk.from = 0
  BY <1>1 DEF Unwalked
<1>7. AuditOK(audit) /\ WalkOK(walk)
  BY <1>5, <1>6, NoFiles DEF AuditOK, WalkOK
<1>8. /\ Reached(audit) /\ PagesJoin(audit) /\ PagesFull(audit)
      /\ CallsKept(audit, walk) /\ OwedKept(audit) /\ WalkFits(audit, walk)
  BY <1>5 DEF Paged, Reached, PagesJoin, PagesFull, CallsKept, OwedKept, WalkFits
<1>9. QED
  BY <1>4, <1>7, <1>8 DEF ReportInv, AuditInv

\* The report keeps its word: its pages leave no entry of their snapshots out and join without a
\* hole, verify's walk beside writers and retention accuses nobody without a cause, and a view
\* called complete has every call logged when the report began, with nothing then counted as
\* unlogged still unlogged (unless the DEGRADED file could not be read) - whatever was appended,
\* rotated, deleted, failed or died between any two of its requests.
THEOREM ReportsAreHonest == CrSpec => []ReportIsHonest
<1>1. CrInit => ReportInv
  BY ReportInit
<1>2. ReportInv /\ [CrNext]_<<vars, audit, walk>> => ReportInv'
  BY ReportStep
<1>3. ReportInv => ReportIsHonest
  <2> SUFFICES ASSUME ReportInv PROVE ReportIsHonest
    OBVIOUS
  <2>1. LogInv /\ AuditInv(audit, walk)
    BY DEF ReportInv
  <2>2. PagesAreWhole
    BY <2>1 DEF AuditInv, PagesFull, PagesAreWhole
  <2>3. AlarmsHaveACause
    <3> SUFFICES ASSUME audit.at = "reported", ~walk.clean,
                        ~(cut > 0 \/ stops > 0 \/ walk.pruning \/ walk.from # anchor \/ walk.listed \ DOMAIN files # {})
                 PROVE  FALSE
      BY DEF AlarmsHaveACause
    <3>1. cut \in Nat /\ stops \in Nat
      BY <2>1, SameTypes DEF LogInv, CInv
    <3>2. Undisturbed(walk)
      BY <3>1 DEF Undisturbed
    <3>3. QED
      BY <2>1, <3>2 DEF AuditInv, WalkFits, Walked
  <2>4. ASSUME audit.at = "reported", ViewComplete
        PROVE  /\ audit.logged \subseteq CallsOfLines(audit.read)
               /\ audit.owed \subseteq Logged \cup retired \cup lost \/ audit.blind
    <3>1. Whole(audit) /\ walk.from = 0 /\ ~audit.degraded
      BY <2>4 DEF ViewComplete, Truncated, RetentionPruned, Whole
    <3>2. audit.logged \subseteq CallsOfLines(audit.read)
      BY <2>1, <2>4, <3>1 DEF AuditInv, CallsKept
    <3>3. audit.owed \subseteq Reported \/ audit.blind
      BY <2>1, <2>4, <3>1 DEF AuditInv, OwedKept
    <3>4. QED
      BY <3>2, <3>3 DEF Reported
  <2>5. QED
    BY <2>2, <2>3, <2>4 DEF ReportIsHonest
<1>4. QED
  BY <1>1, <1>2, <1>3, PTL DEF CrSpec
=============================================================================
