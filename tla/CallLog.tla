------------------------------- MODULE CallLog -------------------------------
(***************************************************************************)
(* The call log of app/call_log.py and its use by app/call_witness.py: each*)
(* request the server answers leaves an entry in one hash chain over daily *)
(* files, or is counted somewhere that a later entry reports.              *)
(*                                                                         *)
(* A task is a call, or a process doing its own housekeeping (the flush of *)
(* verify and query, the flush at shutdown).  What a task does to the log  *)
(* it does in a section under the file lock; the steps of a section are    *)
(* the file operations, so that each of them can fail and the process can  *)
(* die between any two.  A count kept by the code (unlogged, refused,      *)
(* suppressed) is modelled by the set of calls it counts.  An entry's hash *)
(* is named by its seq: the head is always read as a (seq, hash) pair, so  *)
(* linking to the wrong hash shows as a wrong seq.                         *)
(***************************************************************************)
EXTENDS Integers, Sequences, FiniteSetsExt

CONSTANTS
  Calls,       \* the requests
  Procs,       \* the server processes (workers) sharing the directory
  LastDay,     \* bound: the days are 1..LastDay
  RetainDays,  \* JARVIS_CALL_LOG_RETAIN_DAYS
  Cap,         \* the denied and the read cap per minute
  MaxFaults,   \* bound: failing file operations
  MaxStops     \* bound: crashes and shutdowns

ASSUME CallLogConstantsOK ==
  /\ Calls \cap Procs = {}
  /\ LastDay \in Nat \ {0} /\ RetainDays \in Nat \ {0} /\ Cap \in Nat \ {0}
  /\ MaxFaults \in Nat /\ MaxStops \in Nat

VARIABLES
  today,   \* the UTC day
  files,   \* the daily files: a sequence of lines for each day that has one
  anchor,  \* the seq kept in anchor.json; 0: there is no such file
  marker,  \* the DEGRADED file
  outage,  \* per process: _outage, what it could not write to DEGRADED
  held,    \* per process: the open summaries, _suppressed and _read_suppressed
  seen,    \* per process: calls counted in the current minute; 0: an earlier minute
  job,     \* what each task is doing
  lock,    \* the section under the file lock
  lost,    \* history: calls whose only trace a crash or a failed operation removed
  cut,     \* history: how many lines os.write cut short
  retired, \* history: calls whose line was in a file retention deleted
  faults, stops

vars == <<today, files, anchor, marker, outage, held, seen, job, lock, lost, cut, retired, faults, stops>>

Days == 1..LastDay
Tasks == Calls \cup Procs
Kinds == {"denied", "reads"}
\* What a call turns out to be for the log: a ledger write that succeeded, a memory read
\* that succeeded, a denied call (401, 403), or anything else, failures included.
CallKinds == {"write", "read", "denied", "other"}
Over == {"answered", "refused", "killed"}

\* A line of a file: its seq, what it reports and the calls it counts.
Torn == [seq |-> 0, what |-> "torn", calls |-> {}]
NoOutage == [on |-> FALSE, owed |-> {}]
IdleAt(p) == [at |-> "idle", kind |-> "other", proc |-> p]

\* The section under the lock has by, proc, plan (steps still to do), head, day, kept (the
\* anchor is saved for this append) and known (the outage as degraded() read it).
Free == [taken |-> FALSE]

-----------------------------------------------------------------------------
(* Reading the files *)

Valid(line) == line.what # "torn"
NonEmpty(S) == {d \in S : files[d] # <<>>}
ValidLines(d) == {i \in DOMAIN files[d] : Valid(files[d][i])}

\* _last_line over the files of S from the newest: it looks at the newest file
\* with text in it, and raises when nothing there parses.
Unreadable(S) == NonEmpty(S) # {} /\ ValidLines(Max(NonEmpty(S))) = {}
LastSeq(S) == LET d == Max(NonEmpty(S)) IN files[d][Max(ValidLines(d))].seq

HeadOfToday ==  \* mutant: the head of the day's own file, as if each day began a chain
  IF NonEmpty(DOMAIN files \cap {today}) = {} THEN anchor ELSE LastSeq({today})
HeadSeq == IF NonEmpty(DOMAIN files) = {} THEN anchor ELSE LastSeq(DOMAIN files)

\* The files _rotate_and_retain deletes: those before the cutoff, unless that is all of them.
Old(day) ==
  LET old == {d \in DOMAIN files : d < day - RetainDays}
  IN IF old = DOMAIN files THEN {} ELSE old

Put(day, lines) ==
  [d \in DOMAIN files \cup {day} |-> (IF d \in DOMAIN files THEN files[d] ELSE <<>>)
                                     \o (IF d = day THEN lines ELSE <<>>)]

CallsIn(d) == UNION {files[d][i].calls : i \in DOMAIN files[d]}
Logged == UNION {CallsIn(d) : d \in DOMAIN files}

Combine(a, b) == [on |-> a.on \/ b.on, owed |-> a.owed \cup b.owed]
Held(p) == held[p]["denied"] \cup held[p]["reads"]
InMemory(p) == outage[p].owed \cup Held(p)

-----------------------------------------------------------------------------
(* Tasks and sections *)

Proc(t) == job[t].proc
Goes(t, stage) ==
  job' = [job EXCEPT ![t].at = stage, ![t].kind = IF stage \in Over THEN "other" ELSE @]

Fault == faults < MaxFaults /\ faults' = faults + 1
NoFault == UNCHANGED faults

Working(t) == lock.taken /\ lock.by = t
Step(t, s) == Working(t) /\ lock.plan # <<>> /\ Head(lock.plan) = s
Drop == lock' = Free

\* A section that raised: the lock is released and the caller takes its error path.
AfterFailure(t) ==
  CASE job[t].at = "preflight" -> "refusing"
    [] job[t].at = "recording" -> "unlogged"
    [] job[t].at = "flushing" -> IF Held(t) # {} THEN "flushfailed" ELSE "idle"
    [] job[t].at = "paging" -> "idle"
    [] job[t].at = "exiting" -> IF Held(t) # {} THEN "exitflush" ELSE "abandon"
AfterSection(t) ==
  CASE job[t].at = "preflight" -> "serving"
    [] job[t].at = "recording" -> "answered"
    [] job[t].at \in {"flushing", "paging"} -> "idle"
    [] job[t].at = "exiting" -> "abandon"

Summary(p, k) == IF held[p][k] # {} THEN <<k>> ELSE <<>>
Flushes(p) == Summary(p, "denied") \o Summary(p, "reads")
ClearThenReport(known) == IF known.on THEN <<"clear", "gap">> ELSE <<>>  \* mutant: swapped order
Report(known) == IF known.on THEN <<"gap", "clear">> ELSE <<>>

\* What append writes for a call, after the gap.
Entries(t, p) ==
  CASE job[t].kind = "denied" -> <<"window", "entry">>
    [] job[t].kind = "read" -> Summary(p, "denied") \o <<"window", "entry">>
    [] job[t].kind = "write" -> Flushes(p) \o <<"entry">>
    [] job[t].kind = "other" -> Summary(p, "denied") \o <<"entry">>

PlanUnreported(t, known) ==  \* mutant: a preflight only looks
  CASE job[t].at = "preflight" -> <<>>
    [] job[t].at = "recording" -> Report(known) \o Entries(t, Proc(t))
    [] OTHER -> Flushes(Proc(t))
Plan(t, known) ==
  CASE job[t].at = "preflight" -> Report(known)
    [] job[t].at = "recording" -> Report(known) \o Entries(t, Proc(t))
    [] OTHER -> Flushes(Proc(t))

Wants(t) == job[t].at \in {"preflight", "recording", "flushing", "paging", "exiting"} /\ ~lock.taken

\* The lock is taken, the head and the degraded state are read.  A DEGRADED file
\* that cannot be read is taken for no outage (_file_state).
Begin(t) ==
  LET p == Proc(t) IN
  /\ Wants(t) /\ ~Unreadable(DOMAIN files)
  /\ \E readable \in BOOLEAN :
       /\ IF readable THEN NoFault ELSE marker.on /\ t \in Calls /\ Fault
       /\ LET known == Combine(IF readable THEN marker ELSE NoOutage, outage[p])
          IN lock' = [taken |-> TRUE, by |-> t, proc |-> p, plan |-> Plan(t, known), head |-> HeadSeq,
                      day |-> today, kept |-> FALSE, known |-> known]
  /\ UNCHANGED <<today, files, anchor, marker, outage, held, seen, job, lost, cut, retired, stops>>

\* The lock cannot be opened, the head cannot be read or does not parse, or (for a
\* preflight) the directory, today's file or the free space fails the check.
BeginFails(t) ==
  /\ Wants(t)
  /\ IF Unreadable(DOMAIN files) THEN NoFault ELSE Fault
  /\ Goes(t, AfterFailure(t))
  /\ UNCHANGED <<today, files, anchor, marker, outage, held, seen, lock, lost, cut, retired, stops>>

Finish(t) ==
  /\ Working(t) /\ lock.plan = <<>>
  /\ Drop /\ Goes(t, AfterSection(t))
  /\ UNCHANGED <<today, files, anchor, marker, outage, held, seen, lost, cut, retired, faults, stops>>

-----------------------------------------------------------------------------
(* The steps of _append_locked *)

Appends == {"gap", "denied", "reads", "entry"}
Appending(t) == Working(t) /\ lock.plan # <<>> /\ Head(lock.plan) \in Appends

CallsOf(s) ==
  CASE s = "gap" -> lock.known.owed
    [] s \in Kinds -> held[lock.proc][s]
    [] s = "entry" -> {lock.by}
NewLine ==
  LET s == Head(lock.plan) IN [seq |-> lock.head + 1, what |-> s, calls |-> CallsOf(s)]

\* anchor.json is replaced before anything is deleted.
SaveAnchor(t) ==
  /\ Appending(t) /\ ~lock.kept /\ Old(lock.day) # {} /\ ~Unreadable(Old(lock.day))
  /\ anchor' = IF NonEmpty(Old(lock.day)) = {} THEN anchor ELSE LastSeq(Old(lock.day))
  /\ lock' = [lock EXCEPT !.kept = TRUE]
  /\ UNCHANGED <<today, files, marker, outage, held, seen, job, lost, cut, retired, faults, stops>>

UnlinkAnyway(t) ==  \* mutant: the anchor is not saved first
  /\ Appending(t) /\ Old(lock.day) # {}
  /\ LET d == Min(Old(lock.day)) IN
       /\ files' = [e \in DOMAIN files \ {d} |-> files[e]]
       /\ retired' = retired \cup CallsIn(d)
  /\ UNCHANGED <<today, anchor, marker, outage, held, seen, job, lock, lost, cut, faults, stops>>
Unlink(t) ==
  /\ Appending(t) /\ lock.kept /\ Old(lock.day) # {}
  /\ LET d == Min(Old(lock.day)) IN
       /\ files' = [e \in DOMAIN files \ {d} |-> files[e]]
       /\ retired' = retired \cup CallsIn(d)
  /\ UNCHANGED <<today, anchor, marker, outage, held, seen, job, lock, lost, cut, faults, stops>>

Ready(t) == Appending(t) /\ Old(lock.day) = {}

\* The line is written: the summary it reports is closed, the head moves on.
\* A short write (os.write writes less and does not raise) is taken for a whole one; so
\* is a line joined to a torn one because the end of the file could not be looked at.
Write(t) ==
  LET s == Head(lock.plan) IN
  /\ Ready(t)
  /\ \E whole \in BOOLEAN :
       /\ files' = Put(lock.day, <<IF whole THEN NewLine ELSE Torn>>)
       /\ IF whole THEN NoFault /\ UNCHANGED <<lost, cut>>
          ELSE Fault /\ lost' = lost \cup NewLine.calls /\ cut' = cut + 1
  /\ held' = IF s \in Kinds THEN [held EXCEPT ![lock.proc][s] = {}] ELSE held
  /\ lock' = [lock EXCEPT !.plan = Tail(@), !.head = @ + 1, !.day = today, !.kept = FALSE]
  /\ UNCHANGED <<today, anchor, marker, outage, seen, job, retired, stops>>

\* A file operation raises.  A write that raised may leave no file, an empty one, or
\* the whole line (fsync raised after it).
AppendFails(t) ==
  /\ Appending(t)
  /\ IF ~lock.kept /\ Unreadable(Old(lock.day)) THEN NoFault ELSE Fault
  /\ files' \in {files} \cup (IF Old(lock.day) = {} THEN {Put(lock.day, <<>>), Put(lock.day, <<NewLine>>)} ELSE {})
  /\ Drop /\ Goes(t, AfterFailure(t))
  /\ UNCHANGED <<today, anchor, marker, outage, held, seen, lost, cut, retired, stops>>

-----------------------------------------------------------------------------
(* The other steps of a section *)

\* _clear_degraded; the unlink of DEGRADED may fail, and that is ignored.
Clear(t) ==
  /\ Step(t, "clear")
  /\ \E gone \in BOOLEAN :
       /\ IF gone THEN NoFault ELSE marker.on /\ Fault
       /\ marker' = IF gone THEN NoOutage ELSE marker
       /\ lost' = IF gone THEN lost \cup (marker.owed \ lock.known.owed) ELSE lost
  /\ outage' = [outage EXCEPT ![lock.proc] = NoOutage]
  /\ lock' = [lock EXCEPT !.plan = Tail(@), !.day = today]
  /\ UNCHANGED <<today, files, anchor, held, seen, job, cut, retired, stops>>

\* The cap: in a new minute the open summary is written first; a call over the cap
\* joins the summary and writes nothing.
Window(t) ==
  LET p == lock.proc
      k == IF job[t].kind = "denied" THEN "denied" ELSE "reads"
      n == IF seen[p][k] > Cap THEN seen[p][k] ELSE seen[p][k] + 1
  IN
  /\ Step(t, "window")
  /\ IF seen[p][k] = 0 /\ held[p][k] # {}
     THEN /\ lock' = [lock EXCEPT !.plan = <<k>> \o @]
          /\ UNCHANGED <<seen, held>>
     ELSE /\ seen' = [seen EXCEPT ![p][k] = n]
          /\ held' = IF n > Cap THEN [held EXCEPT ![p][k] = @ \cup {t}] ELSE held
          /\ lock' = [lock EXCEPT !.plan = IF n > Cap THEN <<>> ELSE Tail(@)]
  /\ UNCHANGED <<today, files, anchor, marker, outage, job, lost, cut, retired, faults, stops>>

-----------------------------------------------------------------------------
(* _mark_degraded *)

Failed(t) == job[t].at \in {"refusing", "unlogged", "flushfailed", "exitflush", "exitfailed"}

\* What a failure adds: the call that was refused or not logged; nothing for summaries
\* that are still held; all of them when the process is about to exit.
Owes(t) ==
  CASE job[t].at \in {"refusing", "unlogged"} -> {t}
    [] job[t].at \in {"flushfailed", "exitflush"} -> {}
    [] job[t].at = "exitfailed" -> Held(t)

AfterMark(t) ==
  CASE job[t].at = "refusing" -> "refused"
    [] job[t].at = "unlogged" -> "answered"
    [] job[t].at = "flushfailed" -> "idle"
    [] job[t].at = "exitflush" -> "exitfailed"
    [] job[t].at = "exitfailed" -> "abandon"

Increment(t) == Combine(outage[Proc(t)], [on |-> TRUE, owed |-> Owes(t)])

Marked(t) ==
  /\ Goes(t, AfterMark(t))
  /\ held' = IF job[t].at = "exitfailed" THEN [held EXCEPT ![t] = [k \in Kinds |-> {}]] ELSE held

\* Under the lock: the increments are added to the DEGRADED file and dropped from memory.
\* A file that cannot be read counts as none, and is replaced.
Mark(t) ==
  /\ Failed(t) /\ ~lock.taken
  /\ \E readable \in BOOLEAN :
       /\ IF readable THEN NoFault /\ UNCHANGED lost
          ELSE marker.on /\ Fault /\ lost' = lost \cup marker.owed
       /\ marker' = Combine(IF readable THEN marker ELSE NoOutage, Increment(t))
  /\ outage' = [outage EXCEPT ![Proc(t)] = NoOutage]
  /\ Marked(t)
  /\ UNCHANGED <<today, files, anchor, seen, lock, cut, retired, stops>>

\* The lock or the file cannot be opened or written: the increments stay in memory.
MarkFails(t) ==
  /\ Failed(t) /\ (lock.taken => lock.proc # Proc(t)) /\ Fault
  /\ outage' = [outage EXCEPT ![Proc(t)] = Increment(t)]
  /\ Marked(t)
  /\ UNCHANGED <<today, files, anchor, marker, seen, lock, lost, cut, retired, stops>>

-----------------------------------------------------------------------------
(* Requests and processes *)

Accepting(p) == job[p].at \notin {"exiting", "exitflush", "exitfailed", "abandon"}
Running(c, p) == job[c].at \notin Over \cup {"idle"} /\ job[c].proc = p

\* A witnessed request reaches a process; only the routes classify() calls writes are preflighted.
Arrive(c) ==
  /\ job[c].at = "idle"
  /\ Accepting(Proc(c))
  /\ \E k \in {"write", "other"} :
       job' = [job EXCEPT ![c].at = IF k = "write" THEN "preflight" ELSE "serving", ![c].kind = k]
  /\ UNCHANGED <<today, files, anchor, marker, outage, held, seen, lock, lost, cut, retired, faults, stops>>

\* The application answers; the response is held back until it is witnessed.  A route
\* that was not preflighted can turn out to be a write: promote and pipeline.
Serve(c) ==
  /\ job[c].at = "serving"
  /\ \E k \in CallKinds :
       /\ k = "read" => job[c].kind # "write"
       /\ job' = [job EXCEPT ![c].at = "recording", ![c].kind = k]
  /\ UNCHANGED <<today, files, anchor, marker, outage, held, seen, lock, lost, cut, retired, faults, stops>>

\* verify and query flush the open summaries of the process that serves them; a page
\* with its head (query_with_head) does too, but ignores a failure.
Flush(p) ==
  /\ job[p].at = "idle" /\ Held(p) # {}
  /\ \E stage \in {"flushing", "paging"} : Goes(p, stage)
  /\ UNCHANGED <<today, files, anchor, marker, outage, held, seen, lock, lost, cut, retired, faults, stops>>

\* A graceful shutdown: the requests have ended, the summaries are flushed.
Shutdown(p) ==
  /\ job[p].at = "idle" /\ ~\E c \in Calls : Running(c, p)
  /\ stops < MaxStops /\ stops' = stops + 1
  /\ Goes(p, "exiting")
  /\ UNCHANGED <<today, files, anchor, marker, outage, held, seen, lock, lost, cut, retired, faults>>

\* A new process has an empty memory; what only the old one held is lost.
Forget(p) ==
  /\ lost' = lost \cup InMemory(p)
  /\ outage' = [outage EXCEPT ![p] = NoOutage]
  /\ held' = [held EXCEPT ![p] = [k \in Kinds |-> {}]]
  /\ seen' = [seen EXCEPT ![p] = [k \in Kinds |-> 0]]

Restart(p) ==
  /\ job[p].at = "abandon"
  /\ Forget(p) /\ Goes(p, "idle")
  /\ UNCHANGED <<today, files, anchor, marker, lock, cut, retired, faults, stops>>

\* The process dies: in the middle of a write it may leave no file, an empty one, part of the line or all of it.
Crash(p) ==
  /\ stops < MaxStops /\ stops' = stops + 1
  /\ Forget(p)
  /\ job' = [t \in Tasks |-> IF t = p THEN [job[t] EXCEPT !.at = "idle"]
                             ELSE IF Running(t, p)
                             THEN [job[t] EXCEPT !.at = "killed", !.kind = "other"] ELSE job[t]]
  /\ IF lock.taken /\ lock.proc = p
     THEN /\ Drop
          /\ files' \in {files} \cup (IF Ready(lock.by)
                                      THEN {Put(lock.day, l) : l \in {<<>>, <<Torn>>, <<NewLine>>}} ELSE {})
     ELSE UNCHANGED <<lock, files>>
  /\ UNCHANGED <<today, anchor, marker, cut, retired, faults>>

\* The clock: it never steps back.
NewMinute ==
  /\ \E p \in Procs, k \in Kinds : seen[p][k] # 0
  /\ seen' = [p \in Procs |-> [k \in Kinds |-> 0]]
  /\ UNCHANGED <<today, files, anchor, marker, outage, held, job, lock, lost, cut, retired, faults, stops>>

NewDay ==
  /\ today < LastDay /\ today' = today + 1
  /\ seen' = [p \in Procs |-> [k \in Kinds |-> 0]]
  /\ UNCHANGED <<files, anchor, marker, outage, held, job, lock, lost, cut, retired, faults, stops>>

Init ==
  /\ today = 1 /\ files = <<>> /\ anchor = 0
  /\ marker = NoOutage /\ outage = [p \in Procs |-> NoOutage]
  /\ held = [p \in Procs |-> [k \in Kinds |-> {}]]
  /\ seen = [p \in Procs |-> [k \in Kinds |-> 0]]
  /\ \E home \in [Calls -> Procs] :
       job = [t \in Tasks |-> IdleAt(IF t \in Procs THEN t ELSE home[t])]
  /\ lock = Free /\ lost = {} /\ cut = 0 /\ retired = {} /\ faults = 0 /\ stops = 0

TaskStep(t) == Begin(t) \/ BeginFails(t) \/ Finish(t) \/ SaveAnchor(t) \/ Unlink(t) \/ Write(t)
               \/ AppendFails(t) \/ Clear(t) \/ Window(t) \/ Mark(t) \/ MarkFails(t)

\* What happens while every process lives.
Living ==
  \/ \E t \in Tasks : TaskStep(t)
  \/ \E c \in Calls : Arrive(c) \/ Serve(c)
  \/ \E p \in Procs : Flush(p) \/ Shutdown(p) \/ Restart(p)
  \/ NewMinute \/ NewDay

Next == Living \/ \E p \in Procs : Crash(p)

Spec == Init /\ [][Next]_vars

-----------------------------------------------------------------------------
(* Properties *)

\* The counts are "disjoint by construction" (_combine adds them, it never takes the
\* larger): no call is pending in two of the DEGRADED file, the increments in the memory of
\* the processes and their open summaries, so no gap entry counts it twice over.
CountedOnce ==
  \A p \in Procs :
    /\ marker.owed \cap InMemory(p) = {}
    /\ outage[p].owed \cap Held(p) = {} /\ held[p]["denied"] \cap held[p]["reads"] = {}
    /\ \A q \in Procs \ {p} : InMemory(p) \cap InMemory(q) = {}

\* No call vanishes, and none is pending twice: a request that got its answer, or was
\* refused because the log was not available, is in an entry of the log or counted in the
\* DEGRADED file, in a process's memory or in an open summary - whatever failed, was retried
\* by another process or died in between.  The exceptions are the ones named by lost: counts
\* a dying process held only in memory, a line that os.write cut short, and a DEGRADED file
\* replaced or removed unread.
NothingVanishes ==
  /\ \A c \in Calls : job[c].at \in {"answered", "refused"} =>
       c \in Logged \cup retired \cup lost \cup marker.owed
            \cup UNION {InMemory(p) : p \in Procs}
  /\ CountedOnce

Positions == UNION {{<<d, i>> : i \in DOMAIN files[d]} : d \in DOMAIN files}
At(x) == files[x[1]][x[2]]
Precedes(x, y) == x[1] < y[1] \/ (x[1] = y[1] /\ x[2] < y[2])

\* verify's starting point survives a crash inside retention: the first line of the log
\* continues the anchor (a line cut short leaves its seq out) or lies before it, in a file
\* that is still to be deleted, and the anchor lies before every file inside the retention window.
AnchorMeetsChain ==
  \A x \in Positions : Valid(At(x)) =>
    /\ (~\E y \in Positions : Precedes(y, x)) => At(x).seq <= anchor + 1 + cut
    /\ x[1] >= today - RetainDays => anchor < At(x).seq

\* One hash chain across processes, days, crashes and deleted files: in the order verify
\* reads them the entries have increasing seqs, an entry continues the one before it
\* unless a torn line lies between them, and the first continues the anchor.
ChainUnbroken ==
  /\ \A x, y \in Positions : Precedes(x, y) /\ Valid(At(x)) /\ Valid(At(y)) =>
       /\ At(x).seq < At(y).seq
       /\ (~\E z \in Positions : Precedes(x, z) /\ Precedes(z, y)) => At(y).seq = At(x).seq + 1
  /\ AnchorMeetsChain

\* A gap comes before anything else: when a write passes its preflight, or a call's entry
\* is about to be written, every call the process knew to be unlogged or refused - from the
\* DEGRADED file, whoever wrote it, or from its own memory - is in the log.
GapComesFirst ==
  \A c \in Calls :
    Working(c) /\ (Step(c, "entry") \/ (job[c].at = "preflight" /\ lock.plan = <<>>)) =>
      LET reported == Logged \cup retired \cup lost IN
      /\ outage[lock.proc].owed \subseteq reported
      /\ marker.owed \cap lock.known.owed \subseteq reported
      /\ faults = 0 => marker.owed \subseteq reported

\* What _last_line says of a crash in the middle of a write: the torn line is skipped, so
\* the head of the log can be read and the log goes on.
TornLineIsSkipped == ~Unreadable(DOMAIN files)
=============================================================================
