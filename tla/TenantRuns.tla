----------------------------- MODULE TenantRuns -----------------------------
(***************************************************************************)
(* Jobs over a list of tenants on the box: the signer's sign and status    *)
(* passes, each tenant reached through a container of its own              *)
(* (app/signer.py ContainerTransport, sign_tenants, report_status), what   *)
(* serves there (app/tenant_jobs.py serve), and the seal job, which works  *)
(* in its own process (run_for_tenants).  Requests and answers are lines   *)
(* without ids on the pipes of a compose client; killing that client does  *)
(* not stop the container.  What a pass asks and decides is Signing.       *)
(***************************************************************************)
EXTENDS Integers, Sequences, FiniteSets, SequencesExt, FiniteSetsExt

CONSTANTS BoxTenant, Lists, MaxLines    \* Box: the operator's tenant; Lists: what --tenants may hold
ASSUME TrConstantsOK ==
  /\ BoxTenant \in STRING \ {""}
  /\ \A list \in Lists : list \in Seq(STRING)

VARIABLES job,        \* [kind, todo, pc, asked, answered, unsent, result]
          line,       \* the client: [on, eof, inbox, lines], lines is the reader thread's queue
          container,  \* [tenant, state, did, why]; did: requests worked off, why: what may leave it behind
          acting,     \* _acting_tenant of the seal job and of the container; "" is nobody
          outcomes,   \* what was recorded, in order: [tenant, ok, code]
          left,       \* containers still stuck when their tenant was over (history)
          exit        \* exit code, -1 while it runs

trVars == <<job, line, container, acting, outcomes, left, exit>>

\* parse_tenants, _tenant_list: the operator first, no duplicates, no blanks.
FirstSeen(list) ==
  LET seen[n \in 0..Len(list)] ==
        IF n = 0 THEN <<>>
        ELSE IF list[n] = "" \/ Contains(seen[n - 1], list[n]) THEN seen[n - 1] ELSE Append(seen[n - 1], list[n])
  IN seen[Len(list)]
ParseTenants(list) == FirstSeen(IF Contains(list, BoxTenant) THEN <<BoxTenant>> \o list ELSE list)

Unrun == [ok |-> TRUE, code |-> 0]
ApiFailed == [ok |-> FALSE, code |-> 5]
Hung == [on |-> FALSE, eof |-> FALSE, inbox |-> <<>>, lines |-> <<>>]
NoContainer == [tenant |-> "", state |-> "none", did |-> 0, why |-> ""]
EndOfLines == [by |-> "", n |-> 0]
Fresh(j) == [j EXCEPT !.pc = "open", !.asked = 0, !.answered = 0, !.unsent = FALSE, !.result = Unrun]

TrInit ==
  /\ \E kind \in {"seal", "sign", "status"}, list \in Lists :
       job = [kind |-> kind, given |-> list, todo |-> ParseTenants(list), pc |-> "next",
              asked |-> 0, answered |-> 0, unsent |-> FALSE, result |-> Unrun]
  /\ line = Hung /\ container = NoContainer /\ acting = ""
  /\ outcomes = <<>> /\ left = {}
  /\ exit = IF job.todo = <<>> THEN 2 ELSE -1     \* an empty selection is a usage error

JobAt(pc) == exit = -1 /\ job.pc = pc
CurrentTenant == Head(job.todo)
StopsAtFailure(ok) == IF ok THEN Tail(job.todo) ELSE <<>>   \* mutant: an exception ends the loop
Remaining(ok) == Tail(job.todo)
Recorded(result) == Append(outcomes, [tenant |-> CurrentTenant, ok |-> result.ok, code |-> result.code])

\* run_for_tenants and seal_one: the store is the one of the tenant that is bound.
Bind ==
  /\ JobAt("next") /\ job.kind = "seal" /\ job.todo # <<>>
  /\ job' = [Fresh(job) EXCEPT !.pc = "works"]
  /\ acting' = CurrentTenant
  /\ UNCHANGED <<line, container, outcomes, left, exit>>
SealTenant(ok) ==
  /\ JobAt("works")
  /\ outcomes' = Append(outcomes, [tenant |-> acting, ok |-> ok, code |-> IF ok THEN 0 ELSE 1])
  /\ acting' = ""
  /\ job' = [job EXCEPT !.pc = "next", !.todo = Remaining(ok)]
  /\ UNCHANGED <<line, container, left, exit>>

\* ContainerTransport.__init__: a named one-off container, or no client to start it with.
OpenContainer ==
  /\ JobAt("next") /\ job.kind # "seal" /\ job.todo # <<>>
  /\ job' = Fresh(job)
  /\ line' = [Hung EXCEPT !.on = TRUE]
  /\ container' = [NoContainer EXCEPT !.tenant = CurrentTenant, !.state = "serves"]
  /\ UNCHANGED <<acting, outcomes, left, exit>>
CannotOpen ==
  /\ JobAt("next") /\ job.kind # "seal" /\ job.todo # <<>>
  /\ outcomes' = Recorded(ApiFailed)
  /\ job' = [job EXCEPT !.todo = Remaining(FALSE)]
  /\ UNCHANGED <<line, container, acting, left, exit>>

\* __call__: the line is written and the next line of the queue is its answer.  A client that
\* is gone breaks the pipe, and what could not be written stays in the buffer.
AskContainer ==
  /\ JobAt("open") /\ job.asked < MaxLines
  /\ IF line.on
     THEN /\ job' = [job EXCEPT !.pc = "waits", !.asked = @ + 1]
          /\ line' = [line EXCEPT !.inbox = Append(@, job.asked + 1)]
     ELSE /\ job' = [job EXCEPT !.pc = "close", !.unsent = TRUE, !.result = ApiFailed]
          /\ UNCHANGED line
  /\ UNCHANGED <<container, acting, outcomes, left, exit>>
ReceiveLine ==
  /\ JobAt("waits") /\ line.lines # <<>>
  /\ line' = [line EXCEPT !.lines = Tail(@)]
  /\ job' = IF Head(line.lines) = EndOfLines THEN [job EXCEPT !.pc = "close", !.result = ApiFailed]
            ELSE [job EXCEPT !.pc = "open", !.answered = Head(line.lines).n]
  /\ UNCHANGED <<container, acting, outcomes, left, exit>>

KillClientOnly(removed) ==   \* mutant: the container outlives its client
  /\ line' = [line EXCEPT !.on = FALSE, !.eof = TRUE]
  /\ UNCHANGED container
\* _kill: the client, then the container by its name, which docker may fail to remove.
Kill(removed) ==
  /\ line' = [line EXCEPT !.on = FALSE, !.eof = TRUE]
  /\ container' = IF removed THEN [container EXCEPT !.state = "none"]
                  ELSE [container EXCEPT !.why = "not removed"]
RequestTimesOut ==
  /\ JobAt("waits") /\ line.lines = <<>>
  /\ job' = [job EXCEPT !.pc = "close", !.result = ApiFailed]
  /\ \E removed \in BOOLEAN : Kill(removed)
  /\ UNCHANGED <<acting, outcomes, left, exit>>

\* run_sign, status: the pass comes to its end, or gives up on what an answer says; a signing
\* pass that refused a receipt is done and unhealthy (report_sign).
TenantPassEnds ==
  /\ JobAt("open") /\ job.asked > 0
  /\ \E code \in {0, 3, 4, 5} :
       \E ok \in IF code = 0 THEN {TRUE} ELSE IF code = 4 /\ job.kind = "sign" THEN BOOLEAN ELSE {FALSE} :
         job' = [job EXCEPT !.pc = "close", !.result = [ok |-> ok, code |-> code]]
  /\ UNCHANGED <<line, container, acting, outcomes, left, exit>>

\* close: the pipe is closed, and a client that does not end in time killed.  A broken pipe,
\* here if something is still in the buffer, leads to _kill too.
CloseInput ==
  /\ JobAt("close")
  /\ job' = [job EXCEPT !.pc = "closing"]
  /\ IF job.unsent THEN \E removed \in BOOLEAN : Kill(removed)
     ELSE line' = [line EXCEPT !.eof = TRUE] /\ UNCHANGED container
  /\ UNCHANGED <<acting, outcomes, left, exit>>
CloseTimesOut ==
  /\ JobAt("closing") /\ line.on
  /\ \E removed \in BOOLEAN : Kill(removed)
  /\ UNCHANGED <<job, acting, outcomes, left, exit>>
TransportClosed ==
  /\ JobAt("closing") /\ ~line.on
  /\ outcomes' = Recorded(job.result)
  /\ left' = IF container.state = "stuck" THEN left \cup {container} ELSE left
  /\ job' = [job EXCEPT !.pc = "next", !.todo = Remaining(job.result.ok)]
  /\ line' = Hung /\ container' = NoContainer /\ acting' = ""
  /\ UNCHANGED exit

\* serve: a line is answered as the tenant the container is bound to (request_as), until the
\* input ends.
Serves == container.state = "serves" /\ acting = ""
TakeLine ==
  /\ Serves /\ line.inbox # <<>>
  /\ acting' = container.tenant
  /\ UNCHANGED <<job, line, container, outcomes, left, exit>>
Answer ==
  /\ job.kind # "seal" /\ container.state = "serves" /\ acting # ""
  /\ container' = [container EXCEPT !.did = Head(line.inbox)]
  /\ line' = [line EXCEPT !.inbox = Tail(@),
                          !.lines = IF line.on THEN Append(@, [by |-> acting, n |-> Head(line.inbox)]) ELSE @]
  /\ acting' = ""
  /\ UNCHANGED <<job, outcomes, left, exit>>
\* The container ends, at the end of its input or because it crashes, and its client after it.
ContainerEnds ==
  /\ container.state = "serves"
  /\ container' = [container EXCEPT !.state = "none"]
  /\ line' = [line EXCEPT !.on = FALSE, !.lines = IF line.on THEN Append(@, EndOfLines) ELSE @]
  /\ acting' = ""
  /\ UNCHANGED <<job, outcomes, left, exit>>
\* It hangs, on the database, and may go on.
Hangs ==
  /\ container.state \in {"serves", "stuck"}
  /\ container' = [container EXCEPT !.state = IF @ = "stuck" THEN "serves" ELSE "stuck"]
  /\ UNCHANGED <<job, line, acting, outcomes, left, exit>>
\* The client dies on its own.
ClientDies ==
  /\ line.on
  /\ line' = [line EXCEPT !.on = FALSE, !.eof = TRUE, !.lines = Append(@, EndOfLines)]
  /\ container' = [container EXCEPT !.why = "client died"]
  /\ UNCHANGED <<job, acting, outcomes, left, exit>>

\* report_tenants, report_status, seal: the highest code of the tenants; 1 for a failed seal.
ExitCode == IF job.kind = "seal" THEN IF \E o \in Range(outcomes) : ~o.ok THEN 1 ELSE 0
            ELSE Max({o.code : o \in Range(outcomes)})
FinishRuns ==
  /\ JobAt("next") /\ job.todo = <<>>
  /\ exit' = ExitCode
  /\ UNCHANGED <<job, line, container, acting, outcomes, left>>

TrNext ==
  \/ Bind \/ (\E ok \in BOOLEAN : SealTenant(ok))
  \/ OpenContainer \/ CannotOpen \/ AskContainer \/ ReceiveLine \/ RequestTimesOut \/ TenantPassEnds
  \/ CloseInput \/ CloseTimesOut \/ TransportClosed \/ FinishRuns
  \/ TakeLine \/ Answer \/ ContainerEnds \/ Hangs \/ ClientDies

TrSpec == TrInit /\ [][TrNext]_trVars

-----------------------------------------------------------------------------
(* Property *)

\* "One tenant cannot break the others" (app/tenant_jobs.py): every tenant of the list is
\* reported once, as itself, and exit 0 means that all went well.
ReportIsComplete ==
  exit \notin {-1, 2} =>
    /\ [i \in DOMAIN outcomes |-> outcomes[i].tenant] = ParseTenants(job.given)
    /\ (exit = 0) <=> \A o \in Range(outcomes) : o.ok /\ o.code = 0
\* An answer that is used is to the last question and of the tenant's own container, which
\* has worked off that question and at most the one after it.
AnswersMatch ==
  job.pc \in {"open", "waits", "close"} /\ job.kind # "seal" =>
    /\ container.tenant = CurrentTenant
    /\ job.pc = "open" => job.answered = job.asked
    /\ job.answered <= container.did /\ container.did <= job.answered + 1
    /\ \A a \in Range(line.lines) : a.by \in {"", CurrentTenant}
\* A container is left behind only if docker would not remove it or its client had died.
NoneLeftBehind == \A c \in left : c.why # ""

\* A run over the tenants reports each of them truly and takes no answer for another's,
\* whatever hangs, dies or comes too late, and cleans up after itself (sign_tenants,
\* report_status, ContainerTransport, run_for_tenants).
TenantRunIsWhole == ReportIsComplete /\ AnswersMatch /\ NoneLeftBehind
=============================================================================
