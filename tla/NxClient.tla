------------------------------ MODULE NxClient ------------------------------
(***************************************************************************)
(* The client of nx-search (app/nx_search_client.py): one MCP child spoken *)
(* to line by line under the client's lock, the CLI as its fallback, and   *)
(* what the routes of app/main.py do with an answer.                       *)
(*                                                                         *)
(* The child itself is external: it answers what it was asked, with a      *)
(* result or an error, may write other lines in between, and may exit.     *)
(* A line is [id, about, ok]: whose answer it is, and to what.             *)
(***************************************************************************)
EXTENDS Integers, Sequences, FiniteSets

CONSTANTS Callers, Questions, MaxAsked
ASSUME NxConstantsOK == "nothing" \notin Callers

VARIABLES keeps,      \* _persistent: the client keeps its child between calls
          client,     \* [lock, child, lastId, asked, lines]: _mcp_lock, _mcp_process, _request_id, the
                      \* requests the child has yet to answer, _mcp_lines
          running,    \* the MCP children that run, numbered as they were started
          call,       \* per caller: [pc, id, question, answer, promotes]
          promoted    \* (question, answer) pairs written to the ledger

nxVars == <<keeps, client, running, call, promoted>>

Nothing == "nothing"
Failed == "failed"
Exit == [id |-> -1, about |-> Nothing, ok |-> FALSE]
Notice == [id |-> 0, about |-> Nothing, ok |-> TRUE]     \* a line that answers no request
Quiet == [pc |-> "idle", id |-> 0, question |-> Nothing, answer |-> Nothing, promotes |-> FALSE]
NoChild == [lock |-> Nothing, child |-> 0, lastId |-> 0, asked |-> <<>>, lines |-> <<>>]

NxInit ==
  /\ keeps \in BOOLEAN
  /\ client = NoChild
  /\ running = {}
  /\ call = [c \in Callers |-> Quiet]
  /\ promoted = {}

-----------------------------------------------------------------------------
(* A call over MCP *)

At(c, pc) == call[c].pc = pc
StepsTo(c, pc) == call' = [call EXCEPT ![c].pc = pc]

\* _stop_mcp forgets the child and its lines, and ends it.
Terminated(who) == running \ {client.child}
Stopped(who) == [client EXCEPT !.lock = who, !.child = 0, !.asked = <<>>, !.lines = <<>>]
StopMcp(who) == client' = Stopped(who) /\ running' = Terminated(who)

\* What ends a call over MCP with an exception: the child is stopped and the CLI is asked.
Breaks(c) == StopMcp(Nothing) /\ StepsTo(c, "cli")

BeginCall(c, q, p) ==
  /\ At(c, "idle") /\ client.lastId + 2 * Cardinality(Callers) <= MaxAsked
  /\ call' = [call EXCEPT ![c] = [Quiet EXCEPT !.pc = "enter", !.question = q, !.promotes = p]]
  /\ UNCHANGED <<keeps, client, running, promoted>>

\* _ensure_mcp: a child that runs is used again; otherwise a new one is greeted, with a
\* queue of lines of its own.
Enter(c) ==
  /\ At(c, "enter") /\ client.lock = Nothing
  /\ IF client.child \in running
     THEN /\ client' = [client EXCEPT !.lock = c]
          /\ StepsTo(c, "send")
          /\ UNCHANGED running
     ELSE LET id == client.lastId + 1
          IN /\ client' = [Stopped(c) EXCEPT !.child = id, !.lastId = id, !.asked = <<[id |-> id, about |-> Nothing]>>]
             /\ running' = Terminated(c) \cup {id}
             /\ call' = [call EXCEPT ![c].pc = "hello", ![c].id = id]
  /\ UNCHANGED <<keeps, promoted>>

CannotStart(c) ==
  /\ At(c, "enter") /\ client.lock = Nothing /\ client.child \notin running
  /\ StopMcp(Nothing)
  /\ StepsTo(c, "cli")
  /\ UNCHANGED <<keeps, promoted>>

\* _mcp_send; the child may have exited since it was looked at.
SendRequest(c) ==
  /\ At(c, "send")
  /\ IF client.child \in running
     THEN LET id == client.lastId + 1
          IN /\ client' = [client EXCEPT !.lastId = id, !.asked = Append(@, [id |-> id, about |-> call[c].question])]
             /\ call' = [call EXCEPT ![c].pc = "wait", ![c].id = id]
             /\ UNCHANGED running
     ELSE Breaks(c)
  /\ UNCHANGED <<keeps, promoted>>

AnyLine(c, line) == TRUE   \* mutant: the first line is taken for the answer
IsAnswer(c, line) == line.id = call[c].id
Handshake(c) ==
  /\ client' = [client EXCEPT !.lines = Tail(@)]
  /\ StepsTo(c, "send")
  /\ UNCHANGED running
\* A tool's answer is returned; a JSON-RPC error raises, and the child stays.
TakesAnswer(c, line) ==
  /\ client' = [client EXCEPT !.lines = Tail(@), !.lock = Nothing]
  /\ call' = [call EXCEPT ![c].pc = IF line.ok THEN "release" ELSE "cli",
                          ![c].answer = IF line.ok THEN line.about ELSE Nothing]
  /\ UNCHANGED running

\* _mcp_roundtrip: one line of the queue; lines that are not the answer are skipped.
Read(c) ==
  /\ call[c].pc \in {"hello", "wait"} /\ client.lines # <<>>
  /\ LET line == Head(client.lines)
     IN CASE line = Exit -> Breaks(c)
          [] line # Exit /\ ~IsAnswer(c, line) ->
               client' = [client EXCEPT !.lines = Tail(@)] /\ UNCHANGED <<running, call>>
          [] line # Exit /\ IsAnswer(c, line) /\ At(c, "hello") -> IF line.ok THEN Handshake(c) ELSE Breaks(c)
          [] OTHER -> TakesAnswer(c, line)
  /\ UNCHANGED <<keeps, promoted>>

McpTimesOut(c) ==
  /\ call[c].pc \in {"hello", "wait"}
  /\ Breaks(c)
  /\ UNCHANGED <<keeps, promoted>>

\* _search_subprocess, _cli_cmd: a process of its own outside the lock; an answer or an error.
CliAnswers(q) == {q, Failed}
AskCli(c) ==
  /\ At(c, "cli")
  /\ \E a \in CliAnswers(call[c].question) : call' = [call EXCEPT ![c].pc = "release", ![c].answer = a]
  /\ UNCHANGED <<keeps, client, running, promoted>>

\* The commands only the CLI has (ask, remember, describe, scan, ...): no child, no lock.
Command(c, q) ==
  /\ At(c, "idle")
  /\ \E a \in CliAnswers(q) : call' = [call EXCEPT ![c] = [Quiet EXCEPT !.pc = "done", !.question = q, !.answer = a]]
  /\ UNCHANGED <<keeps, client, running, promoted>>

\* _release: a client that does not persist closes its child, whoever started it.
ReleaseClient(c) ==
  /\ At(c, "release")
  /\ keeps \/ client.lock = Nothing
  /\ IF keeps THEN UNCHANGED <<client, running>> ELSE StopMcp(Nothing)
  /\ StepsTo(c, "done")
  /\ UNCHANGED <<keeps, promoted>>

\* The routes: an error is answered 502, and promotion writes what the index answered.
Return(c) ==
  /\ At(c, "done")
  /\ promoted' = IF call[c].promotes /\ call[c].answer # Failed
                 THEN promoted \cup {<<call[c].question, call[c].answer>>} ELSE promoted
  /\ call' = [call EXCEPT ![c] = Quiet]
  /\ UNCHANGED <<keeps, client, running>>

\* The child, external: it answers in order, writes other lines, exits.
Says(line) == client' = [client EXCEPT !.lines = Append(@, line)]
ChildAnswers ==
  /\ client.child \in running /\ client.asked # <<>>
  /\ \E ok \in BOOLEAN :
       client' = [client EXCEPT !.asked = Tail(@),
                                !.lines = Append(@, [id |-> Head(client.asked).id, about |-> Head(client.asked).about, ok |-> ok])]
  /\ UNCHANGED <<keeps, running, call, promoted>>
ChildNotices ==
  /\ client.child \in running /\ client.lines = <<>>
  /\ Says(Notice)
  /\ UNCHANGED <<keeps, running, call, promoted>>
McpChildExits ==
  /\ client.child \in running
  /\ Says(Exit)
  /\ running' = running \ {client.child}
  /\ UNCHANGED <<keeps, call, promoted>>

NxNext ==
  \/ \E c \in Callers :
       \/ \E q \in Questions, p \in BOOLEAN : BeginCall(c, q, p) \/ Command(c, q)
       \/ Enter(c) \/ CannotStart(c) \/ SendRequest(c) \/ Read(c) \/ McpTimesOut(c)
       \/ AskCli(c) \/ ReleaseClient(c) \/ Return(c)
  \/ ChildAnswers \/ ChildNotices \/ McpChildExits

NxSpec == NxInit /\ [][NxNext]_nxVars

-----------------------------------------------------------------------------
(* Properties *)

\* Every answer is to the caller's own question, whatever else came down the same pipe: late
\* answers, notices, the answers to other callers and of children before; and so is what is
\* promoted to the ledger.  "A client created per request cannot leak" a child: one that runs
\* is the one the client holds, and when nobody calls, only a client that persists holds one
\* (_mcp_roundtrip, _mcp_call_tool, _release).
OwnAnswersOnly ==
  /\ \A c \in Callers : call[c].answer \in {Nothing, Failed, call[c].question}
  /\ \A p \in promoted : p[1] = p[2]
  /\ running \subseteq {client.child}
  /\ ~keeps /\ (\A c \in Callers : call[c].pc \in {"idle", "done"}) => running = {}
=============================================================================
