------------------------------ MODULE MCCallLog ------------------------------
(***************************************************************************)
(* The call log for TLC: three requests and two server processes, both     *)
(* sets interchangeable.  One day with two faults for what is counted      *)
(* where; three days with one day of retention, so that a file is deleted  *)
(* while later ones are in use, for the chain; and, beside an auditor, the *)
(* same log on the day after its first entry.                              *)
(***************************************************************************)
EXTENDS CallLogReads, TLC

CONSTANTS Parts, c1, c2, c3, p1, p2

VARIABLE part

MCCalls == {c1, c2, c3}
MCProcs == {p1, p2}
MCSymmetry == Permutations(MCCalls) \cup Permutations(MCProcs)

NextMorning ==
  \E c \in Calls, p \in Procs :
    /\ today = 2 /\ files = 1 :> <<[seq |-> 1, what |-> "entry", calls |-> {c}]>> /\ anchor = 0
    /\ marker = NoOutage /\ outage = [q \in Procs |-> NoOutage]
    /\ held = [q \in Procs |-> [k \in Kinds |-> {}]]
    /\ seen = [q \in Procs |-> [k \in Kinds |-> 0]]
    /\ job = [[t \in Tasks |-> IdleAt(IF t \in Procs THEN t ELSE p)] EXCEPT ![c].at = "answered"]
    /\ lock = Free /\ lost = {} /\ cut = 0 /\ retired = {} /\ faults = 0 /\ stops = 0
    /\ audit = Unasked /\ walk = Unwalked

\* With an auditor the calls come one by one, and none is a ledger write or denied.
InService(c) == job[c].at \notin Over \cup {"idle"}
Quieter ==
  /\ \A c, d \in Calls : c # d => ~(InService(c)' /\ InService(d)')
  /\ \A c \in Calls : job'[c].kind \in {"read", "other"}

LogInit == part \in Parts /\ IF part = "log" THEN CrInit ELSE NextMorning
LogNext ==
  /\ UNCHANGED part
  /\ \/ part = "log" /\ Next /\ UNCHANGED <<audit, walk>>
     \/ part = "reads" /\ CrNext /\ Quieter
LogSpec == LogInit /\ [][LogNext]_<<vars, audit, walk, part>>
=============================================================================
