------------------------------ MODULE EmrDynamics ------------------------------
(***************************************************************************)
(* The reinforcement overlay of app/emr.py: what a positive outcome adds   *)
(* to a memory's retrievability and what a correction takes away, kept in  *)
(* memory and in a sidecar file beside the ledger.  One process, one lock: *)
(* an operation loads the file if nobody has, changes the entries of the   *)
(* caller's tenant and replaces the file; whether that failed, nobody is   *)
(* told.  Salience and decay damping grow and fall together: one number.   *)
(***************************************************************************)
EXTENDS Integers, Sequences, FiniteSets

CONSTANTS Tenants, Operator,    \* Operator \in Tenants: the entries without a prefix
          Memories, Outcomes, Corrections,
          Cap,                  \* SALIENCE_CAP in gains
          MaxReports

VARIABLES overlay,     \* _REINFORCEMENT: <<tenant, memory>> -> entry
          file,        \* the sidecar
          keptV1,      \* the copy of a v1 file made before it was rewritten
          dynamicsLoaded,      \* _dynamics_loaded
          earned,      \* <<tenant, memory>> -> outcomes taken since the last correction (history)
          lost,        \* a save failed or the file was damaged since the start (history)
          reports

ASSUME EdConstantsOK == Operator \in Tenants /\ Cap \in Nat \ {0}

edVars == <<overlay, file, keptV1, dynamicsLoaded, earned, lost, reports>>

Keys == Tenants \X Memories
NewEntry == [uses |-> 0, boost |-> 0, outcomes |-> {}, corrections |-> {}]
Entries == [Keys -> [uses : Nat, boost : 0..Cap, outcomes : SUBSET Outcomes, corrections : SUBSET Corrections]]
Empty == [k \in Keys |-> NewEntry]
Least(m, n) == IF m < n THEN m ELSE n

\* A v1 file has one list, whose entries became the operator's; one that cannot be parsed
\* gives what was read before the bad part, which is taken for all there is.
FileOf(schema, entries) == [schema |-> schema, entries |-> entries]
NoSidecar == FileOf("none", Empty)
Legacy(m, o) == FileOf("v1", [Empty EXCEPT ![<<Operator, m>>] =
                  [NewEntry EXCEPT !.uses = 1, !.boost = 1, !.outcomes = {o}]])

-----------------------------------------------------------------------------
\* _ensure_dynamics, the first thing of every operation.
Loaded == IF dynamicsLoaded THEN overlay ELSE file.entries

\* save_dynamics writes one list per tenant; the first rewrite of a v1 file keeps a copy.
\* mutant: the entries are saved by memory alone, as in v1
TenantsMerged(entries) ==
  [k \in Keys |-> IF k[1] = Operator THEN NewEntry
                  ELSE LET own == {t \in Tenants : entries[<<t, k[2]>>] # NewEntry}
                       IN IF own = {} THEN NewEntry ELSE entries[<<CHOOSE t \in own : TRUE, k[2]>>]]
Saved(entries) == entries

Save(entries) ==
  \/ /\ file' = FileOf("v2", Saved(entries))
     /\ keptV1' = IF file.schema = "v1" /\ keptV1 = NoSidecar THEN file ELSE keptV1
     /\ UNCHANGED lost
  \/ UNCHANGED <<file, keptV1>> /\ lost' = TRUE

\* mutant: an outcome is counted each time it is reported
EveryReport(entry, outcome) == FALSE
Replayed(entry, outcome) == outcome \in entry.outcomes

Strengthened(entry, outcome) ==
  IF Replayed(entry, outcome) THEN entry
  ELSE [entry EXCEPT !.uses = @ + 1, !.boost = Least(Cap, @ + 1), !.outcomes = @ \cup {outcome}]
Corrected(entry, correction) ==
  IF correction \in entry.corrections THEN entry
  ELSE [entry EXCEPT !.boost = 0, !.corrections = @ \cup {correction}]

Changed(kind, entry, signal) ==
  IF kind = "outcome" THEN Strengthened(entry, signal) ELSE Corrected(entry, signal)

\* The ids of a request (one or two) in order, repeated ones included.
Apply(kind, tenant, ids, signal) ==
  LET first == [Loaded EXCEPT ![<<tenant, ids[1]>>] = Changed(kind, @, signal)]
  IN IF Len(ids) = 1 THEN first ELSE [first EXCEPT ![<<tenant, ids[2]>>] = Changed(kind, @, signal)]

Operation(after) ==
  /\ reports < MaxReports /\ reports' = reports + 1
  /\ overlay' = after /\ dynamicsLoaded' = TRUE
  /\ IF after = Loaded THEN UNCHANGED <<file, keptV1, lost>> ELSE Save(after)

Named(ids) == {ids[i] : i \in DOMAIN ids}
Requested == {<<m>> : m \in Memories} \cup {<<m, n>> : m \in Memories, n \in Memories}

\* reinforce_ids, from the route or from an excitation that was told of a good result.
Reinforce == \E t \in Tenants, ids \in Requested, o \in Outcomes :
  /\ Operation(Apply("outcome", t, ids, o))
  /\ earned' = [k \in Keys |-> IF k[1] = t /\ k[2] \in Named(ids) /\ o \notin Loaded[k].outcomes
                               THEN earned[k] \cup {o} ELSE earned[k]]

\* correct_memory_ids.
Correct == \E t \in Tenants, ids \in Requested, c \in Corrections :
  /\ Operation(Apply("correction", t, ids, c))
  /\ earned' = [k \in Keys |-> IF k[1] = t /\ k[2] \in Named(ids) /\ c \notin Loaded[k].corrections
                               THEN {} ELSE earned[k]]

\* A recall, or a status request, loads the file.
Recall ==
  /\ ~dynamicsLoaded /\ overlay' = Loaded /\ dynamicsLoaded' = TRUE
  /\ UNCHANGED <<file, keptV1, earned, lost, reports>>

Restart ==
  /\ dynamicsLoaded
  /\ overlay' = Empty /\ dynamicsLoaded' = FALSE
  /\ UNCHANGED <<file, keptV1, earned, lost, reports>>

DamageSidecar == \E k \in Keys :
  /\ file.schema = "v2" /\ file.entries[k] # NewEntry
  /\ file' = FileOf("v2", [file.entries EXCEPT ![k] = NewEntry])
  /\ lost' = TRUE
  /\ UNCHANGED <<overlay, keptV1, dynamicsLoaded, earned, reports>>

EdInit ==
  /\ overlay = Empty /\ dynamicsLoaded = FALSE
  /\ file \in {NoSidecar} \cup {Legacy(m, o) : m \in Memories, o \in Outcomes}
  /\ keptV1 = NoSidecar
  /\ earned = [k \in Keys |-> file.entries[k].outcomes]
  /\ lost = FALSE /\ reports = 0

EdNext == Reinforce \/ Correct \/ Recall \/ Restart \/ DamageSidecar
EdSpec == EdInit /\ [][EdNext]_edVars

-----------------------------------------------------------------------------

\* "A particle can never dominate context by repetition alone": however often outcomes are
\* reported, by whom, and across restarts, an entry counts each of them once; and as long as
\* no save failed it has exactly the boost its own tenant's outcomes earned since it was last
\* corrected.
EarnedOnce ==
  /\ \A k \in Keys : Loaded[k].uses = Cardinality(Loaded[k].outcomes)
  /\ ~lost => \A k \in Keys : Loaded[k].boost = Least(Cap, Cardinality(earned[k]))
=============================================================================
