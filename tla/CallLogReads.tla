---------------------------- MODULE CallLogReads ----------------------------
(***************************************************************************)
(* Reading the call log while it is written, rotated and pruned: the pages *)
(* of query_with_head, each from a snapshot taken under the lock and read  *)
(* after it was released, the check of the chain (verify), which takes no  *)
(* lock, and the report of scripts/relay_evidence.py, which follows the    *)
(* cursor from page to page, then verifies, and says whether its view of   *)
(* the log is complete.                                                    *)
(*                                                                         *)
(* The lines of a file are its sequence of lines: they are appended whole, *)
(* so a size is a number of lines.  A page is the set of its entries, for  *)
(* newest first is the order of their seqs (ChainUnbroken).  Filters are   *)
(* left out: a filtered page is a page of a log with fewer lines.  The     *)
(* wait for a reader slot and every other reason a page has to fail is one *)
(* of the bounded faults.                                                  *)
(***************************************************************************)
EXTENDS CallLog

CONSTANTS
  PageSize,  \* limit
  Pinned,    \* JARVIS_CALL_LOG_SNAPSHOT_PINNED
  MaxPages   \* MAX_CALL_PAGES

ASSUME ReadsConstantsOK == PageSize \in Nat \ {0} /\ Pinned \in Nat

VARIABLES
  audit,  \* the report: its stage, the process it waits for, what it has read
  walk    \* verify's way along the files

Unasked == [at |-> "off", proc |-> "none", cursor |-> 0, head |-> 0, snap |-> <<>>, read |-> {}, pages |-> 0,
            failed |-> FALSE, logged |-> {}, owed |-> {}, degraded |-> FALSE, blind |-> FALSE]

LinesOf(fs) == UNION {{fs[d][i] : i \in DOMAIN fs[d]} : d \in DOMAIN fs}
Seqs(lines) == {l.seq : l \in lines}
CallsOfLines(lines) == UNION {l.calls : l \in lines}

-----------------------------------------------------------------------------
(* A page *)

Requesting == {"flush", "read", "vflush", "list", "walk"}

\* A request reaches a process, which first writes its open summaries.
Reaches(p, task) ==
  /\ job[p].at = "idle"
  /\ IF Held(p) # {} THEN Goes(p, task) ELSE UNCHANGED job
  /\ UNCHANGED <<today, files, anchor, marker, outage, held, seen, lock, lost, cut, retired, faults, stops, walk>>

\* The first page, or the next one.
Begun(p) == [Unasked EXCEPT !.at = "flush", !.proc = p, !.logged = Logged, !.owed = marker.owed]
Ask(p) ==
  /\ audit.at \in {"off", "ask"} /\ Reaches(p, "paging")
  /\ audit' = IF audit.at = "off" THEN Begun(p) ELSE [audit EXCEPT !.at = "flush", !.proc = p]

\* Under the lock, after the flush, failed or not: the head and the size of every file; the
\* newest files are held open.
Snapshot ==
  /\ audit.at = "flush" /\ job[audit.proc].at = "idle" /\ ~lock.taken
  /\ ~Unreadable(DOMAIN files)
  /\ audit' = [audit EXCEPT !.at = "read", !.head = IF audit.pages = 0 THEN HeadSeq ELSE @, !.snap = files]
  /\ UNCHANGED <<vars, walk>>

\* The entries the page may give, and the page: the newest of them.
Before(fs) == {l \in LinesOf(fs) : Valid(l) /\ (audit.cursor = 0 \/ l.seq < audit.cursor)}
PageOf(lines) == {l \in lines : Cardinality({k \in lines : k.seq > l.seq}) < PageSize}
NextCursor(lines) == IF Cardinality(lines) > PageSize THEN Min(Seqs(PageOf(lines))) ELSE 0
Newer(fs, d) == [e \in {x \in DOMAIN fs : x > d} |-> fs[e]]

\* A file not held open that the page comes to and that retention has deleted meanwhile.
NeverMissed == FALSE  \* mutant: the page ends there
Missed ==
  \E d \in DOMAIN audit.snap \ DOMAIN files :
    /\ Cardinality(DOMAIN Newer(audit.snap, d)) >= Pinned
    /\ Cardinality(Before(Newer(audit.snap, d))) <= PageSize

Present == [d \in {x \in DOMAIN audit.snap :
                     x \in DOMAIN files \/ Cardinality(DOMAIN Newer(audit.snap, x)) < Pinned} |-> audit.snap[d]]
ReadPage ==
  /\ audit.at = "read" /\ ~Missed
  /\ LET lines == Before(Present)
         cursor == NextCursor(lines)
     IN audit' = [audit EXCEPT !.read = @ \cup PageOf(lines), !.pages = @ + 1, !.cursor = cursor,
                               !.at = IF cursor # 0 /\ audit.pages + 1 < MaxPages THEN "ask" ELSE "check"]
  /\ UNCHANGED <<vars, walk>>

\* The page is answered with an error, or not at all; what was read before is kept.
Broken(a) ==
  IF a.at \in {"flush", "read"} THEN [a EXCEPT !.at = "check", !.failed = TRUE]
  ELSE [a EXCEPT !.at = "over"]
PageFails ==
  /\ audit.at \in {"flush", "read"}
  /\ IF audit.at = "read" /\ Missed THEN NoFault ELSE Fault
  /\ audit' = Broken(audit)
  /\ UNCHANGED <<today, files, anchor, marker, outage, held, seen, job, lock, lost, cut, retired, stops, walk>>

-----------------------------------------------------------------------------
(* verify: the flush is under the lock, the rest is not *)

AskVerify(p) ==
  /\ audit.at = "check" /\ Reaches(p, "flushing")
  /\ audit' = [audit EXCEPT !.at = "vflush", !.proc = p, !.snap = <<>>]

\* What the walk knows: the anchor and the files it found, the last seq, whether a line or a
\* file was wrong, and (history) whether a file already anchored was waiting to be deleted.
Unwalked == [from |-> 0, prev |-> 0, listed |-> {}, todo |-> {}, clean |-> TRUE, pruning |-> FALSE]
ReadAnchor ==
  /\ audit.at = "vflush" /\ job[audit.proc].at = "idle"
  /\ audit' = [audit EXCEPT !.at = "list"]
  /\ walk' = [Unwalked EXCEPT !.from = anchor, !.prev = anchor,
                               !.pruning = \E d \in DOMAIN files : \E i \in ValidLines(d) : files[d][i].seq <= anchor]
  /\ UNCHANGED vars

ListFiles ==
  /\ audit.at = "list"
  /\ audit' = [audit EXCEPT !.at = "walk"]
  /\ walk' = [walk EXCEPT !.listed = DOMAIN files, !.todo = DOMAIN files]
  /\ UNCHANGED vars

\* Each entry continues the one before it and each line is an entry.
Continues(lines, prev) ==
  \A i \in DOMAIN lines : /\ Valid(lines[i])
                          /\ lines[i].seq = (IF i = 1 THEN prev ELSE lines[i - 1].seq) + 1
WalkFile ==
  /\ audit.at = "walk" /\ walk.todo # {}
  /\ LET d == Min(walk.todo)
         entries == IF d \in DOMAIN files THEN ValidLines(d) ELSE {}
     IN walk' = [walk EXCEPT
          !.todo = @ \ {d},
          !.clean = @ /\ d \in DOMAIN files /\ Continues(files[d], walk.prev),
          !.prev = IF entries = {} THEN @ ELSE files[d][Max(entries)].seq]
  /\ UNCHANGED <<vars, audit>>

\* degraded() comes last; a DEGRADED file that cannot be read counts as none.
Judge ==
  /\ audit.at = "walk" /\ walk.todo = {}
  /\ \E readable \in BOOLEAN :
       /\ IF readable THEN NoFault ELSE marker.on /\ Fault
       /\ audit' = [audit EXCEPT !.at = "reported", !.blind = ~readable,
                      !.degraded = Combine(IF readable THEN marker ELSE NoOutage, outage[audit.proc]).on]
  /\ UNCHANGED <<today, files, anchor, marker, outage, held, seen, job, lock, lost, cut, retired, stops, walk>>

-----------------------------------------------------------------------------
(* The report: call_log_section *)

Truncated == audit.failed \/ audit.cursor # 0
RetentionPruned == walk.from # 0 \/ (audit.read # {} /\ Min(Seqs(audit.read)) > 1)
Gaps == \E l \in audit.read : l.what = "gap"
ViewComplete == ~(Truncated \/ RetentionPruned \/ Gaps \/ audit.degraded \/ ~walk.clean)

CrInit == Init /\ audit = Unasked /\ walk = Unwalked

CrStep ==
  \/ \E p \in Procs : Ask(p) \/ AskVerify(p)
  \/ Snapshot \/ ReadPage \/ PageFails \/ ReadAnchor \/ ListFiles \/ WalkFile \/ Judge

\* A process that serves the auditor does not exit; when it dies, the request fails.  One report
\* is looked at.
CrNext ==
  /\ audit.at \notin {"reported", "over"}
  /\ \/ CrStep
     \/ Living /\ UNCHANGED <<audit, walk>> /\ (audit.at \in Requesting => job'[audit.proc].at # "exiting")
     \/ \E p \in Procs : /\ Crash(p) /\ UNCHANGED walk
                          /\ audit' = IF audit.at \in Requesting /\ audit.proc = p THEN Broken(audit) ELSE audit

CrSpec == CrInit /\ [][CrNext]_<<vars, audit, walk>>

-----------------------------------------------------------------------------
(* Properties *)

\* A page is never quietly shorter than the snapshot it was read from, and the pages join:
\* whatever is appended, rotated or deleted between them, the entries read so far are the
\* lines of the latest snapshot from the newest entry of the first page downwards - all of them
\* when no cursor was given, and with no entry left out above the cursor otherwise.
PagesAreWhole ==
  audit.at \in {"ask", "check"} /\ ~audit.failed =>
    \A line \in LinesOf(audit.snap) :
      Valid(line) /\ line.seq <= audit.head /\ line.seq >= audit.cursor => line \in audit.read

\* verify, beside writers and retention and without the lock, accuses nobody who did nothing: it
\* finds a problem only if a line was torn, or if retention was at work: a file already
\* anchored was still there when it began, or the anchor moved or a listed file was deleted
\* before it had ended.
AlarmsHaveACause ==
  audit.at = "reported" /\ ~walk.clean =>
    cut > 0 \/ stops > 0 \/ walk.pruning \/ walk.from # anchor \/ walk.listed \ DOMAIN files # {}

\* When the report calls its view complete, every call the log held when the report began is among
\* the entries it read, and none that was counted as unlogged by then is still unlogged - unless
\* the DEGRADED file could not be read.  (Its gap entry may be missing from the view: one written
\* between verify's walk and its look at DEGRADED is neither newer than the head nor pending.)
ReportIsHonest ==
  /\ PagesAreWhole /\ AlarmsHaveACause
  /\ audit.at = "reported" /\ ViewComplete =>
       /\ audit.logged \subseteq CallsOfLines(audit.read)
       /\ audit.owed \subseteq Logged \cup retired \cup lost \/ audit.blind
=============================================================================
