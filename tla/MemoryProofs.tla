----------------------------- MODULE MemoryProofs -----------------------------
(***************************************************************************)
(* What guards the memories: the Clause V gate (ClauseV), the write        *)
(* gateway (EmrWrite), the reinforcement overlay (EmrDynamics), the        *)
(* ledger in one JSON file (JsonStore), its pages (LedgerReads) and what   *)
(* recall makes of it (EmrBundle), for every set of requests, ids,         *)
(* tenants, outcomes, records and scores and every bound.                  *)
(***************************************************************************)
EXTENDS JsonStore, ClauseV, EmrWrite, EmrDynamics, EmrBundle, LedgerReads, FiniteSetTheorems, WellFoundedInduction, TLAPS

-----------------------------------------------------------------------------
(* The gate *)

CvInv == ungated \in BOOLEAN /\ AdmittedHasEvidence

\* The gate raises nothing: a record it asked the hard questions about passes them.
LEMMA NothingRefused ==
  ASSUME NEW hard, NEW soft, NEW e, Refusals(hard, soft, e) = {}, hard
  PROVE  HardReasons(e.type, e.evidence) = {}
BY DEF Refusals

\* An update the gate does not ask the hard questions about leaves what they are about.
LEMMA NotAskedIsKept ==
  ASSUME NEW e, NEW u, ~CheckHard(e, u, Merge(e, u)), Merge(e, u).status # "archived"
  PROVE  e.status # "archived" /\ Merge(e, u).type = e.type /\ Merge(e, u).evidence = e.evidence
BY DEF CheckHard, Admits, Merge, Pick

\* An admitted record stays one with evidence.
LEMMA GateStep == CvInv /\ [CvNext]_cvVars => CvInv'
<1> SUFFICES ASSUME CvInv, [CvNext]_cvVars PROVE CvInv'
  OBVIOUS
<1>1. CASE Create
  <2>1. PICK e \in Entry : Refusals(TRUE, TRUE, e) = {} /\ entry' = e
    BY <1>1 DEF Create
  <2>2. HardReasons(e.type, e.evidence) = {}
    BY <2>1, NothingRefused
  <2>3. ungated' = FALSE
    BY <1>1 DEF Create
  <2>4. QED
    BY <2>1, <2>2, <2>3 DEF CvInv, AdmittedHasEvidence
<1>2. CASE CreateBeforeGate
  BY <1>2 DEF CvInv, AdmittedHasEvidence, CreateBeforeGate
<1>3. CASE Update
  <2>1. PICK u \in Updates :
          /\ Refusals(CheckHard(entry, u, Merge(entry, u)), CheckSoft(u, Merge(entry, u)), Merge(entry, u)) = {}
          /\ entry' = Merge(entry, u)
          /\ ungated' = (ungated /\ ~CheckHard(entry, u, Merge(entry, u)))
    BY <1>3 DEF Update
  <2>2. PICK merged : merged = Merge(entry, u)
    OBVIOUS
  <2>3. CASE CheckHard(entry, u, merged)
    <3>1. HardReasons(merged.type, merged.evidence) = {}
      BY <2>1, <2>2, <2>3, NothingRefused
    <3>2. ungated' = FALSE
      BY <2>1, <2>2, <2>3
    <3>3. QED
      BY <2>1, <2>2, <3>1, <3>2 DEF CvInv, AdmittedHasEvidence
  <2>4. CASE ~CheckHard(entry, u, merged)
    <3>1. ungated' = ungated /\ entry # NoEntry
      BY <1>3, <2>1, <2>2, <2>4 DEF Update, CvInv
    <3>2. merged.status # "archived" =>
            entry.status # "archived" /\ merged.type = entry.type /\ merged.evidence = entry.evidence
      BY <2>2, <2>4, NotAskedIsKept
    <3>3. QED
      BY <2>1, <2>2, <3>1, <3>2 DEF CvInv, AdmittedHasEvidence
  <2>5. QED
    BY <2>3, <2>4
<1>4. CASE Delete
  BY <1>4 DEF CvInv, AdmittedHasEvidence, Delete
<1>5. CASE UNCHANGED cvVars
  BY <1>5 DEF CvInv, AdmittedHasEvidence, cvVars, HardReasons, EvidenceMissing
<1>6. QED
  BY <1>1, <1>2, <1>3, <1>4, <1>5 DEF CvNext

\* "The ledger stores evidence": whatever sequence of creations, updates, archivings and returns
\* brought it there, a record that is not archived and was judged once has evidence of its kind.
THEOREM GateAdmits == CvSpec => []AdmittedHasEvidence
<1>1. CvInit => CvInv
  BY DEF CvInit, CvInv, AdmittedHasEvidence
<1>2. QED
  BY <1>1, GateStep, PTL DEF CvSpec, CvInv

-----------------------------------------------------------------------------
(* The overlay *)

Counted(e) ==
  /\ e = [uses |-> e.uses, boost |-> e.boost, outcomes |-> e.outcomes, corrections |-> e.corrections]
  /\ IsFiniteSet(e.outcomes) /\ e.uses = Cardinality(e.outcomes) /\ e.boost \in Nat
Ledgered(E) == E = [k \in Keys |-> E[k]] /\ \A k \in Keys : Counted(E[k])

(* What was earned is among the outcomes counted, and the boost is what it is worth. *)
Worth(e, own) == IsFiniteSet(own) /\ own \subseteq e.outcomes /\ e.boost = Least(Cap, Cardinality(own))

EdInv ==
  /\ dynamicsLoaded \in BOOLEAN /\ lost \in BOOLEAN
  /\ Ledgered(file.entries) /\ (dynamicsLoaded => Ledgered(overlay))
  /\ ~lost => /\ DOMAIN earned = Keys /\ \A k \in Keys : Worth(Loaded[k], earned[k])
              /\ dynamicsLoaded => file.entries = overlay

\* An entry counts an outcome once.
LEMMA OutcomeCounted ==
  ASSUME NEW e, NEW o, Counted(e)
  PROVE  /\ Counted(Strengthened(e, o))
         /\ Strengthened(e, o).outcomes = e.outcomes \cup {o}
         /\ o \in e.outcomes => Strengthened(e, o) = e
         /\ o \notin e.outcomes => Strengthened(e, o).boost = Least(Cap, e.boost + 1)
<1>1. CASE o \in e.outcomes
  BY <1>1 DEF Strengthened, Replayed
<1>2. CASE o \notin e.outcomes
  <2>1. PICK f : /\ f = Strengthened(e, o) /\ f.uses = e.uses + 1 /\ f.boost = Least(Cap, e.boost + 1)
                 /\ f.outcomes = e.outcomes \cup {o} /\ f.corrections = e.corrections
                 /\ f = [uses |-> f.uses, boost |-> f.boost, outcomes |-> f.outcomes, corrections |-> f.corrections]
    <3>1. e = [uses |-> e.uses, boost |-> e.boost, outcomes |-> e.outcomes, corrections |-> e.corrections]
      BY DEF Counted
    <3>2. Strengthened(e, o) = [uses |-> e.uses + 1, boost |-> Least(Cap, e.boost + 1),
                                outcomes |-> e.outcomes \cup {o}, corrections |-> e.corrections]
      BY <1>2, <3>1 DEF Strengthened, Replayed
    <3>3. QED
      BY <3>2
  <2>2. IsFiniteSet(f.outcomes) /\ Cardinality(f.outcomes) = Cardinality(e.outcomes) + 1
    BY <1>2, <2>1, FS_AddElement DEF Counted
  <2>3. f.boost \in Nat
    BY <2>1, EdConstantsOK DEF Counted, Least
  <2>4. QED
    BY <1>2, <2>1, <2>2, <2>3 DEF Counted
<1>3. QED
  BY <1>1, <1>2

\* A correction takes the boost, and no outcome is forgotten.
LEMMA CorrectionCounted ==
  ASSUME NEW e, NEW c, Counted(e)
  PROVE  /\ Counted(Corrected(e, c))
         /\ Corrected(e, c).outcomes = e.outcomes
         /\ c \in Corrected(e, c).corrections
         /\ c \in e.corrections => Corrected(e, c) = e
         /\ c \notin e.corrections => Corrected(e, c).boost = 0
<1>1. e = [uses |-> e.uses, boost |-> e.boost, outcomes |-> e.outcomes, corrections |-> e.corrections]
  BY DEF Counted
<1>2. CASE c \in e.corrections
  BY <1>2 DEF Corrected
<1>3. CASE c \notin e.corrections
  <2>1. PICK f : /\ f = Corrected(e, c) /\ f.uses = e.uses /\ f.boost = 0
                 /\ f.outcomes = e.outcomes /\ f.corrections = e.corrections \cup {c}
                 /\ f = [uses |-> f.uses, boost |-> f.boost, outcomes |-> f.outcomes, corrections |-> f.corrections]
    <3>1. Corrected(e, c) = [uses |-> e.uses, boost |-> 0, outcomes |-> e.outcomes,
                             corrections |-> e.corrections \cup {c}]
      BY <1>1, <1>3 DEF Corrected
    <3>2. QED
      BY <3>1
  <2>2. QED
    BY <1>3, <2>1 DEF Counted
<1>4. QED
  BY <1>2, <1>3

\* What an outcome earns is what the boost grows by, up to the cap.
LEMMA OutcomeWorth ==
  ASSUME NEW e, NEW o, NEW own, Counted(e), Worth(e, own)
  PROVE  Worth(Strengthened(e, o), IF o \in e.outcomes THEN own ELSE own \cup {o})
<1>1. CASE o \in e.outcomes
  BY <1>1, OutcomeCounted
<1>2. CASE o \notin e.outcomes
  <2>1. o \notin own /\ IsFiniteSet(own) /\ e.boost = Least(Cap, Cardinality(own))
    BY <1>2 DEF Worth
  <2>2. IsFiniteSet(own \cup {o}) /\ Cardinality(own \cup {o}) = Cardinality(own) + 1
    BY <2>1, FS_AddElement
  <2>3. Least(Cap, Least(Cap, Cardinality(own)) + 1) = Least(Cap, Cardinality(own) + 1)
    BY <2>1, FS_CardinalityType, EdConstantsOK DEF Least
  <2>4. PICK f : f = Strengthened(e, o) /\ f.outcomes = e.outcomes \cup {o} /\ f.boost = Least(Cap, e.boost + 1)
    BY <1>2, OutcomeCounted
  <2>5. QED
    BY <1>2, <2>1, <2>2, <2>3, <2>4 DEF Worth
<1>3. QED
  BY <1>1, <1>2

LEMMA CorrectionWorth ==
  ASSUME NEW e, NEW c, NEW own, Counted(e), Worth(e, own)
  PROVE  Worth(Corrected(e, c), IF c \in e.corrections THEN own ELSE {})
<1>1. CASE c \in e.corrections
  BY <1>1, CorrectionCounted
<1>2. CASE c \notin e.corrections
  <2>1. PICK f : f = Corrected(e, c) /\ f.boost = 0
    BY <1>2, CorrectionCounted
  <2>2. Least(Cap, 0) = 0
    BY EdConstantsOK DEF Least
  <2>3. QED
    BY <1>2, <2>1, <2>2, FS_EmptySet DEF Worth
<1>3. QED
  BY <1>1, <1>2

\* Whichever ids a request names, repeated or not, each of their entries is changed once.
LEMMA AppliedOnce ==
  ASSUME Ledgered(Loaded), NEW kind, NEW t \in Tenants, NEW ids \in Requested, NEW s
  PROVE  Apply(kind, t, ids, s)
           = [k \in Keys |-> IF k[1] = t /\ k[2] \in Named(ids) THEN Changed(kind, Loaded[k], s) ELSE Loaded[k]]
<1> DEFINE E == [k \in Keys |-> IF k[1] = t /\ k[2] \in Named(ids) THEN Changed(kind, Loaded[k], s) ELSE Loaded[k]]
<1>1. PICK L : L = Loaded /\ DOMAIN L = Keys /\ L = [k \in Keys |-> L[k]] /\ \A k \in Keys : Counted(L[k])
  BY DEF Ledgered
<1>2. \A k \in Keys : k = <<k[1], k[2]>>
  BY DEF Keys
<1>3. ASSUME NEW m \in Memories, ids = <<m>> PROVE Apply(kind, t, ids, s) = E
  <2>1. Len(ids) = 1 /\ ids[1] = m /\ Named(ids) = {m}
    BY <1>3 DEF Named
  <2>2. Apply(kind, t, ids, s) = [L EXCEPT ![<<t, m>>] = Changed(kind, @, s)]
    BY <1>1, <2>1 DEF Apply
  <2>3. [L EXCEPT ![<<t, m>>] = Changed(kind, @, s)] = E
    BY <1>1, <1>2, <2>1
  <2>4. QED
    BY <2>2, <2>3
<1>4. ASSUME NEW m \in Memories, NEW n \in Memories, ids = <<m, n>> PROVE Apply(kind, t, ids, s) = E
  <2>1. Len(ids) = 2 /\ ids[1] = m /\ ids[2] = n /\ Named(ids) = {m, n}
    BY <1>4 DEF Named
  <2>2. PICK once : once = [L EXCEPT ![<<t, m>>] = Changed(kind, @, s)]
    OBVIOUS
  <2>3. Apply(kind, t, ids, s) = [once EXCEPT ![<<t, n>>] = Changed(kind, @, s)]
    BY <1>1, <2>1, <2>2 DEF Apply
  <2>4. <<t, m>> \in Keys /\ <<t, n>> \in Keys
    BY DEF Keys
  <2>5. Changed(kind, Changed(kind, L[<<t, m>>], s), s) = Changed(kind, L[<<t, m>>], s)
    BY <1>1, <2>4, OutcomeCounted, CorrectionCounted DEF Changed
  <2>6. [once EXCEPT ![<<t, n>>] = Changed(kind, @, s)] = E
    <3>1. \A k \in Keys : once[k] = IF k = <<t, m>> THEN Changed(kind, L[k], s) ELSE L[k]
      BY <1>1, <2>2
    <3>2. DOMAIN once = Keys /\ once = [k \in Keys |-> once[k]]
      BY <1>1, <2>2
    <3>3. \A k \in Keys : [once EXCEPT ![<<t, n>>] = Changed(kind, @, s)][k]
                            = IF k = <<t, n>> THEN Changed(kind, once[k], s) ELSE once[k]
      BY <3>2
    <3>4. \A k \in Keys : [once EXCEPT ![<<t, n>>] = Changed(kind, @, s)][k] = E[k]
      BY <1>1, <1>2, <2>1, <2>5, <3>1, <3>3
    <3>5. QED
      BY <3>2, <3>4
  <2>7. QED
    BY <2>3, <2>6
<1>5. \/ \E m \in Memories : ids = <<m>>
      \/ \E m \in Memories, n \in Memories : ids = <<m, n>>
  BY DEF Requested
<1>6. QED
  BY <1>3, <1>4, <1>5

\* The end of an operation: the file holds what memory holds, or the save was lost.
LEMMA OperationKeeps ==
  ASSUME EdInv, NEW after, Operation(after), Ledgered(after),
         ~lost => DOMAIN earned' = Keys /\ \A k \in Keys : Worth(after[k], earned'[k])
  PROVE  EdInv'
<1>1. overlay' = after /\ dynamicsLoaded' = TRUE /\ Loaded' = after
  BY DEF Operation, Loaded
<1>2. CASE after = Loaded
  <2>1. UNCHANGED <<file, lost>>
    BY <1>2 DEF Operation
  <2>2. ~lost => file.entries = after
    BY <1>2 DEF EdInv, Loaded
  <2>3. QED
    BY <1>1, <2>1, <2>2 DEF EdInv
<1>3. CASE after # Loaded
  <2>1. Save(after)
    BY <1>3 DEF Operation
  <2>2. CASE file' = FileOf("v2", Saved(after)) /\ UNCHANGED lost
    <3>1. file'.entries = after
      BY <2>2 DEF FileOf, Saved
    <3>2. QED
      BY <1>1, <2>2, <3>1 DEF EdInv
  <2>3. CASE UNCHANGED file /\ lost' = TRUE
    BY <1>1, <2>3 DEF EdInv
  <2>4. QED
    BY <2>1, <2>2, <2>3 DEF Save
<1>4. QED
  BY <1>2, <1>3

LEMMA LoadedIsLedgered == EdInv => Ledgered(Loaded)
  BY DEF EdInv, Loaded

LEMMA ReinforceKeeps ==
  ASSUME EdInv, Reinforce
  PROVE  EdInv'
<1>1. PICK t \in Tenants, ids \in Requested, o \in Outcomes :
        /\ Operation(Apply("outcome", t, ids, o))
        /\ earned' = [k \in Keys |-> IF k[1] = t /\ k[2] \in Named(ids) /\ o \notin Loaded[k].outcomes
                                     THEN earned[k] \cup {o} ELSE earned[k]]
  BY DEF Reinforce
<1>2. PICK after : after = Apply("outcome", t, ids, o)
  OBVIOUS
<1>3. after = [k \in Keys |-> IF k[1] = t /\ k[2] \in Named(ids) THEN Strengthened(Loaded[k], o) ELSE Loaded[k]]
  BY <1>2, LoadedIsLedgered, AppliedOnce DEF Changed
<1>4. ASSUME NEW k \in Keys
      PROVE  Counted(after[k]) /\ (~lost => Worth(after[k], earned'[k]))
  <2>1. Counted(Loaded[k])
    BY LoadedIsLedgered DEF Ledgered
  <2>2. ~lost => Worth(Loaded[k], earned[k])
    BY DEF EdInv
  <2>3. CASE k[1] = t /\ k[2] \in Named(ids)
    <3>1. after[k] = Strengthened(Loaded[k], o)
      BY <1>3, <2>3
    <3>2. earned'[k] = IF o \in Loaded[k].outcomes THEN earned[k] ELSE earned[k] \cup {o}
      BY <1>1, <2>3
    <3>3. Counted(after[k])
      BY <2>1, <3>1, OutcomeCounted
    <3>4. ASSUME ~lost PROVE Worth(after[k], earned'[k])
      <4>1. Worth(Strengthened(Loaded[k], o), IF o \in Loaded[k].outcomes THEN earned[k] ELSE earned[k] \cup {o})
        BY <2>1, <2>2, <3>4, OutcomeWorth
      <4>2. QED
        BY <3>1, <3>2, <4>1
    <3>5. QED
      BY <3>3, <3>4
  <2>4. CASE ~(k[1] = t /\ k[2] \in Named(ids))
    <3>1. after[k] = Loaded[k] /\ earned'[k] = earned[k]
      BY <1>1, <1>3, <2>4
    <3>2. QED
      BY <2>1, <2>2, <3>1
  <2>5. QED
    BY <2>3, <2>4
<1>5. Ledgered(after)
  BY <1>3, <1>4 DEF Ledgered
<1>6. QED
  BY <1>1, <1>2, <1>4, <1>5, OperationKeeps

LEMMA CorrectKeeps ==
  ASSUME EdInv, Correct
  PROVE  EdInv'
<1>1. PICK t \in Tenants, ids \in Requested, c \in Corrections :
        /\ Operation(Apply("correction", t, ids, c))
        /\ earned' = [k \in Keys |-> IF k[1] = t /\ k[2] \in Named(ids) /\ c \notin Loaded[k].corrections
                                     THEN {} ELSE earned[k]]
  BY DEF Correct
<1>2. PICK after : after = Apply("correction", t, ids, c)
  OBVIOUS
<1>3. after = [k \in Keys |-> IF k[1] = t /\ k[2] \in Named(ids) THEN Corrected(Loaded[k], c) ELSE Loaded[k]]
  BY <1>2, LoadedIsLedgered, AppliedOnce DEF Changed
<1>4. ASSUME NEW k \in Keys
      PROVE  Counted(after[k]) /\ (~lost => Worth(after[k], earned'[k]))
  <2>1. Counted(Loaded[k])
    BY LoadedIsLedgered DEF Ledgered
  <2>2. ~lost => Worth(Loaded[k], earned[k])
    BY DEF EdInv
  <2>3. CASE k[1] = t /\ k[2] \in Named(ids)
    <3>1. after[k] = Corrected(Loaded[k], c)
      BY <1>3, <2>3
    <3>2. earned'[k] = IF c \in Loaded[k].corrections THEN earned[k] ELSE {}
      BY <1>1, <2>3
    <3>3. QED
      BY <2>1, <2>2, <3>1, <3>2, CorrectionCounted, CorrectionWorth
  <2>4. CASE ~(k[1] = t /\ k[2] \in Named(ids))
    <3>1. after[k] = Loaded[k] /\ earned'[k] = earned[k]
      BY <1>1, <1>3, <2>4
    <3>2. QED
      BY <2>1, <2>2, <3>1
  <2>5. QED
    BY <2>3, <2>4
<1>5. Ledgered(after)
  BY <1>3, <1>4 DEF Ledgered
<1>6. QED
  BY <1>1, <1>2, <1>4, <1>5, OperationKeeps

\* Entries as they are before anyone reinforced or corrected them.
LEMMA NewIsCounted == Counted(NewEntry) /\ Worth(NewEntry, NewEntry.outcomes)
<1>1. IsFiniteSet({}) /\ Cardinality({}) = 0 /\ Least(Cap, 0) = 0
  BY FS_EmptySet, EdConstantsOK DEF Least
<1>2. QED
  BY <1>1 DEF Counted, Worth, NewEntry

LEMMA OverlayStep == EdInv /\ [EdNext]_edVars => EdInv'
<1> SUFFICES ASSUME EdInv, [EdNext]_edVars PROVE EdInv'
  OBVIOUS
<1>1. CASE Reinforce
  BY <1>1, ReinforceKeeps
<1>2. CASE Correct
  BY <1>2, CorrectKeeps
<1>3. CASE Recall
  <2>1. overlay' = file.entries /\ Loaded' = Loaded
    BY <1>3 DEF Recall, Loaded
  <2>2. QED
    BY <1>3, <2>1 DEF EdInv, Recall
<1>4. CASE Restart
  <2>1. Loaded' = file.entries /\ (~lost => file.entries = Loaded)
    BY <1>4 DEF EdInv, Restart, Loaded
  <2>2. QED
    BY <1>4, <2>1 DEF EdInv, Restart
<1>5. CASE DamageSidecar
  <2>1. PICK k \in Keys : file' = FileOf("v2", [file.entries EXCEPT ![k] = NewEntry])
    BY <1>5 DEF DamageSidecar
  <2>2. Ledgered(file'.entries)
    BY <2>1, NewIsCounted DEF EdInv, Ledgered, FileOf
  <2>3. QED
    BY <1>5, <2>2 DEF EdInv, DamageSidecar
<1>6. CASE UNCHANGED edVars
  BY <1>6 DEF EdInv, edVars, Loaded
<1>7. QED
  BY <1>1, <1>2, <1>3, <1>4, <1>5, <1>6 DEF EdNext

LEMMA OverlayStart == EdInit => EdInv
<1> SUFFICES ASSUME EdInit PROVE EdInv
  OBVIOUS
<1>1. \A k \in Keys : Counted(file.entries[k]) /\ Worth(file.entries[k], file.entries[k].outcomes)
  <2>1. CASE file = NoSidecar
    BY <2>1, NewIsCounted DEF NoSidecar, FileOf, Empty
  <2>2. ASSUME NEW m \in Memories, NEW o \in Outcomes, file = Legacy(m, o)
        PROVE  \A k \in Keys : Counted(file.entries[k]) /\ Worth(file.entries[k], file.entries[k].outcomes)
    <3>1. PICK e : e = [NewEntry EXCEPT !.uses = 1, !.boost = 1, !.outcomes = {o}]
      OBVIOUS
    <3>2. Counted(e) /\ Worth(e, e.outcomes)
      <4>1. IsFiniteSet({o}) /\ Cardinality({o}) = 1
        BY FS_Singleton
      <4>2. Least(Cap, 1) = 1
        BY EdConstantsOK DEF Least
      <4>3. QED
        BY <3>1, <4>1, <4>2 DEF Counted, Worth, NewEntry
    <3>3. \A k \in Keys : file.entries[k] \in {e, NewEntry}
      BY <2>2, <3>1 DEF Legacy, FileOf, Empty
    <3>4. QED
      BY <3>2, <3>3, NewIsCounted
  <2>3. QED
    BY <2>1, <2>2 DEF EdInit
<1>2. file.entries = [k \in Keys |-> file.entries[k]]
  <2>1. ASSUME NEW m \in Memories, NEW o \in Outcomes, file = Legacy(m, o)
        PROVE  file.entries = [k \in Keys |-> file.entries[k]]
    BY <2>1 DEF Legacy, FileOf, Empty
  <2>2. QED
    BY <2>1 DEF EdInit, NoSidecar, FileOf, Empty
<1>3. QED
  BY <1>1, <1>2 DEF EdInit, EdInv, Ledgered, Loaded

\* An outcome that is reported again, in one request or many, by any tenant and across restarts,
\* is counted once, and unless a save was lost the boost is what the outcomes since the last
\* correction are worth.
THEOREM OutcomesCountOnce == EdSpec => []EarnedOnce
<1>1. EdInv => EarnedOnce
  BY LoadedIsLedgered DEF EdInv, EarnedOnce, Ledgered, Counted, Worth
<1>2. QED
  BY <1>1, OverlayStart, OverlayStep, PTL DEF EdSpec

-----------------------------------------------------------------------------
(* The write gateway *)

LiveIn(L, i) == L[i] # NoRecord /\ L[i].status # "archived"

(* Live records of a subject say the same, but for one that replaces the other. *)
Agree(L) ==
  \A i, j \in Given :
    /\ LiveIn(L, i) /\ LiveIn(L, j) /\ L[i].subject = L[j].subject /\ L[i].subject # None
    => L[i].hash = L[j].hash \/ L[i].supersedes = j \/ L[j].supersedes = i

(* A live record that a live one replaces is about to be archived. *)
Doomed(L, C) ==
  \A i, j \in Given :
    LiveIn(L, i) /\ LiveIn(L, j) /\ L[j].supersedes = i
      => \E q \in Requests : C[q].pc = "archive" /\ C[q].target = i

Flying(c) == c.pc \notin {"idle", "done"}
Alone(C) == \A p, q \in Requests : Flying(C[p]) /\ Flying(C[q]) => p = q

(* The live records the write of c has to agree with. *)
Rivals(c, L) == {j \in Given : LiveIn(L, j) /\ L[j].subject = c.subject /\ j # c.target}

(* What c has read of them, and what it knows once it has compared. *)
Peered(c, L) ==
  c.pc = "superseded" =>
    /\ \A j \in Rivals(c, L) : \E r \in c.peers : r.id = j /\ r.hash = L[j].hash
    /\ \A r, s \in c.peers : r.hash = s.hash
Checked(c, L) ==
  c.pc \in {"same", "create"} /\ c.subject # None => \A j \in Rivals(c, L) : L[j].hash = c.hash

Stored(i) ==
  ledger[i] # NoRecord =>
    /\ i <= given /\ ledger[i].id = i /\ ledger[i].status \in {"draft", "verified", "archived"}
    /\ DOMAIN ledger[i] = DOMAIN NoRecord /\ ledger[i].supersedes \in 1..given \cup {None}
Held(c) ==
  /\ DOMAIN c = DOMAIN Idle
  /\ c.target \in 1..given \cup {None}
  /\ c.pc \in {"get", "archive"} => c.target # None
  /\ c.pc \in {"peers", "superseded"} => c.subject # None
  /\ c.pc = "archive" => c.made # None
  /\ c.pc = "idle" => c.made = None

WTyped ==
  /\ given \in 0..MaxIds /\ DOMAIN ledger = Given /\ DOMAIN calls = Requests
  /\ \A i \in Given : Stored(i)
  /\ \A q \in Requests : Held(calls[q])

Unraced ==
  /\ Alone(calls) /\ Agree(ledger) /\ Doomed(ledger, calls)
  /\ \A q \in Requests : Peered(calls[q], ledger) /\ Checked(calls[q], ledger)

EwInv == WTyped /\ ArchivedHasSuccessor /\ (overlap = {} => Unraced)

\* Where live records agree there is no open conflict, about any subject.
LEMMA NoneOpen ==
  ASSUME WTyped, Agree(ledger), NEW x
  PROVE  Unresolved(DetectConflicts(Live(Records), x)) = {}
<1> SUFFICES ASSUME NEW c \in Unresolved(DetectConflicts(Live(Records), x)) PROVE FALSE
  OBVIOUS
<1>1. PICK s : s # None /\ c = Conflict(Live(Records), s) /\ c.unresolved
  BY DEF Unresolved, DetectConflicts
<1> DEFINE open == NonSuperseded(About(Live(Records), s))
<1>2. Cardinality(Hashes(open)) > 1
  BY <1>1 DEF Conflict
<1>3. ASSUME NEW a \in open
      PROVE  \E i \in Given : /\ a = ledger[i] /\ LiveIn(ledger, i) /\ ledger[i].subject = s
                              /\ \A b \in open : b.supersedes # i
  <2>1. a \in Live(Records) /\ a.subject = s
    BY <1>3 DEF NonSuperseded, About, Live
  <2>2. PICK i \in Given : a = ledger[i] /\ ledger[i] # NoRecord
    BY <2>1 DEF Live, Records
  <2>3. a.id = i
    BY <2>2 DEF WTyped, Stored
  <2>4. \A b \in open : b.supersedes # a.id
    BY <1>3 DEF NonSuperseded
  <2>5. QED
    BY <2>1, <2>2, <2>3, <2>4 DEF LiveIn, Live, Active
<1>4. \A a, b \in open : a.hash = b.hash
  <2>1. SUFFICES ASSUME NEW a \in open, NEW b \in open PROVE a.hash = b.hash
    OBVIOUS
  <2>2. PICK i \in Given : /\ a = ledger[i] /\ LiveIn(ledger, i) /\ ledger[i].subject = s
                           /\ \A e \in open : e.supersedes # i
    BY <1>3
  <2>3. PICK j \in Given : /\ b = ledger[j] /\ LiveIn(ledger, j) /\ ledger[j].subject = s
                           /\ \A e \in open : e.supersedes # j
    BY <1>3
  <2> HIDE DEF open
  <2>4. QED
    BY <1>1, <2>2, <2>3 DEF Agree
<1> HIDE DEF open
<1>5. Hashes(open) = {} \/ \E h : Hashes(open) = {h}
  BY <1>4 DEF Hashes
<1>6. Cardinality(Hashes(open)) \in {0, 1}
  BY <1>5, FS_EmptySet, FS_Singleton
<1>7. QED
  BY <1>2, <1>6

\* What a ledger that only lost live records keeps.
Shrunk(L, M) ==
  \A i \in Given : LiveIn(M, i) =>
    /\ LiveIn(L, i) /\ M[i].subject = L[i].subject /\ M[i].hash = L[i].hash
    /\ \A j \in Given : LiveIn(M, j) => (M[i].supersedes = j <=> L[i].supersedes = j)

LEMMA ShrunkAgrees ==
  ASSUME NEW L, NEW M, Shrunk(L, M)
  PROVE  /\ Agree(L) => Agree(M)
         /\ \A C : Doomed(L, C) => Doomed(M, C)
         /\ \A c : Rivals(c, M) \subseteq Rivals(c, L) /\ \A j \in Rivals(c, M) : M[j].hash = L[j].hash
         /\ \A c : Peered(c, L) => Peered(c, M)
         /\ \A c : Checked(c, L) => Checked(c, M)
<1>1. ASSUME Agree(L) PROVE Agree(M)
  BY <1>1 DEF Agree, Shrunk
<1>2. ASSUME NEW C, Doomed(L, C) PROVE Doomed(M, C)
  BY <1>2 DEF Doomed, Shrunk
<1>3. ASSUME NEW c PROVE Rivals(c, M) \subseteq Rivals(c, L) /\ \A j \in Rivals(c, M) : M[j].hash = L[j].hash
  BY DEF Rivals, Shrunk
<1>4. ASSUME NEW c, Peered(c, L) PROVE Peered(c, M)
  BY <1>3, <1>4 DEF Peered
<1>5. ASSUME NEW c, Checked(c, L) PROVE Checked(c, M)
  BY <1>3, <1>5 DEF Checked
<1>6. QED
  BY <1>1, <1>2, <1>3, <1>4, <1>5

\* A request that moves and leaves the ledger alone.
LEMMA RequestMoves ==
  ASSUME EwInv, NEW q \in Requests, Flying(calls[q]), calls[q].pc # "archive",
         NEW c, calls' = [calls EXCEPT ![q] = c], UNCHANGED <<ledger, given, overlap>>,
         Held(c), c.target = calls[q].target, c.made = calls[q].made,
         overlap = {} => Peered(c, ledger) /\ Checked(c, ledger)
  PROVE  EwInv'
<1>1. calls'[q] = c /\ DOMAIN calls' = Requests /\ \A p \in Requests \ {q} : calls'[p] = calls[p]
  BY DEF EwInv, WTyped
<1>2. WTyped'
  BY <1>1 DEF EwInv, WTyped, Stored, Held
<1>3. ArchivedHasSuccessor'
  BY <1>1 DEF EwInv, ArchivedHasSuccessor
<1>4. ASSUME overlap = {} PROVE Unraced'
  <2>1. Alone(calls')
    BY <1>1, <1>4 DEF EwInv, Unraced, Alone
  <2>2. Doomed(ledger, calls')
    BY <1>1, <1>4 DEF EwInv, Unraced, Doomed
  <2>3. \A p \in Requests : Peered(calls'[p], ledger) /\ Checked(calls'[p], ledger)
    BY <1>1, <1>4 DEF EwInv, Unraced
  <2>4. QED
    BY <1>4, <2>1, <2>2, <2>3 DEF EwInv, Unraced
<1>5. QED
  BY <1>2, <1>3, <1>4 DEF EwInv

\* A ledger that only lost live records, under requests that stand where they stood.
LEMMA LedgerShrinks ==
  ASSUME EwInv, UNCHANGED <<calls, given, overlap>>, DOMAIN ledger' = Given,
         Shrunk(ledger, ledger'), \A i \in Given : Stored(i)', ArchivedHasSuccessor'
  PROVE  EwInv'
<1>1. WTyped'
  BY DEF EwInv, WTyped, Stored, Held
<1>2. ASSUME overlap = {} PROVE Unraced'
  <2>1. PICK M : M = ledger'
    OBVIOUS
  <2>2. /\ Agree(ledger) /\ Doomed(ledger, calls) /\ Alone(calls)
        /\ \A q \in Requests : Peered(calls[q], ledger) /\ Checked(calls[q], ledger)
    BY <1>2 DEF EwInv, Unraced
  <2>3. /\ Agree(M) /\ Doomed(M, calls)
        /\ \A q \in Requests : Peered(calls[q], M) /\ Checked(calls[q], M)
    BY <2>1, <2>2, ShrunkAgrees
  <2>4. QED
    BY <2>1, <2>2, <2>3 DEF Unraced
<1>3. QED
  BY <1>1, <1>2 DEF EwInv

\* A request starts: if nobody has ever overlapped it starts alone.
LEMMA BeginKeeps ==
  ASSUME EwInv, NEW q \in Requests, NEW tool \in {"conflicts", "get", "effective"},
         NEW subject, NEW hash, NEW target \in 1..given \cup {None},
         tool = "get" => target # None, Begin(q, tool, subject, hash, target)
  PROVE  EwInv'
<1> DEFINE c == [Idle EXCEPT !.pc = tool, !.subject = subject, !.hash = hash, !.target = target]
<1>1. /\ calls[q].pc = "idle" /\ calls' = [calls EXCEPT ![q] = c]
      /\ UNCHANGED <<ledger, given>>
  BY DEF Begin
<1>2. DOMAIN c = DOMAIN Idle /\ c.pc = tool /\ c.target = target /\ c.made = None
  BY DEF Idle
<1> HIDE DEF c
<1>3. calls'[q] = c /\ DOMAIN calls' = Requests /\ \A p \in Requests \ {q} : calls'[p] = calls[p]
  BY <1>1 DEF EwInv, WTyped
<1>4. WTyped'
  <2>1. Held(c)'
    BY <1>1, <1>2 DEF Held
  <2>2. \A p \in Requests : Held(calls[p])'
    BY <1>1, <1>3, <2>1 DEF EwInv, WTyped, Held
  <2>3. QED
    BY <1>1, <1>3, <2>2 DEF EwInv, WTyped, Stored
<1>5. ArchivedHasSuccessor'
  BY <1>1, <1>3 DEF EwInv, WTyped, Held, ArchivedHasSuccessor
<1>6. ASSUME overlap' = {} PROVE Unraced'
  <2>1. overlap = {} /\ \A p \in Requests : ~Flying(calls[p])
    BY <1>6 DEF Begin, InFlight, Flying
  <2>2. \A p \in Requests : calls'[p].pc \notin {"superseded", "same", "create"}
    BY <1>2, <1>3, <2>1 DEF Flying
  <2>3. Alone(calls')
    BY <1>3, <2>1 DEF Alone
  <2>4. Agree(ledger) /\ Doomed(ledger, calls')
    BY <2>1 DEF EwInv, Unraced, Doomed, Flying
  <2>5. \A p \in Requests : Peered(calls'[p], ledger) /\ Checked(calls'[p], ledger)
    BY <2>2 DEF Peered, Checked
  <2>6. QED
    BY <1>1, <2>3, <2>4, <2>5 DEF Unraced
<1>7. QED
  BY <1>4, <1>5, <1>6 DEF EwInv

\* A request that gives up.
LEMMA RefuseKeeps ==
  ASSUME EwInv, NEW q \in Requests, NEW why, Flying(calls[q]), calls[q].pc # "archive",
         Refuse(q, why), Undisturbed
  PROVE  EwInv'
<1>1. PICK c : c = [calls[q] EXCEPT !.pc = "done", !.refused = why]
  OBVIOUS
<1>2. calls' = [calls EXCEPT ![q] = c]
  BY <1>1 DEF Refuse, EwInv, WTyped
<1>3. DOMAIN calls[q] = DOMAIN Idle /\ Held(calls[q])
  BY DEF EwInv, WTyped, Held
<1>4. /\ DOMAIN c = DOMAIN Idle /\ c.pc = "done" /\ c.target = calls[q].target
      /\ c.made = calls[q].made /\ c.subject = calls[q].subject
  BY <1>1, <1>3 DEF Idle
<1>5. Held(c) /\ Peered(c, ledger) /\ Checked(c, ledger)
  BY <1>3, <1>4 DEF Held, Peered, Checked
<1>6. QED
  BY <1>2, <1>4, <1>5, RequestMoves DEF Undisturbed

\* A request that goes on with what it has.
LEMMA GotoKeeps ==
  ASSUME EwInv, NEW q \in Requests, NEW pc \in {"create", "peers", "same", "done"},
         Flying(calls[q]), calls[q].pc # "archive", Goto(q, pc), Undisturbed,
         pc = "peers" => calls[q].subject # None,
         pc \in {"same", "create"} /\ overlap = {} /\ calls[q].subject # None =>
           \A j \in Rivals(calls[q], ledger) : ledger[j].hash = calls[q].hash
  PROVE  EwInv'
<1>1. PICK c : c = [calls[q] EXCEPT !.pc = pc]
  OBVIOUS
<1>2. calls' = [calls EXCEPT ![q] = c]
  BY <1>1 DEF Goto, EwInv, WTyped
<1>3. DOMAIN calls[q] = DOMAIN Idle /\ Held(calls[q])
  BY DEF EwInv, WTyped, Held
<1>4. /\ DOMAIN c = DOMAIN Idle /\ c.pc = pc /\ c.target = calls[q].target
      /\ c.made = calls[q].made /\ c.subject = calls[q].subject /\ c.hash = calls[q].hash
  BY <1>1, <1>3 DEF Idle
<1>5. Held(c) /\ Peered(c, ledger)
  BY <1>3, <1>4 DEF Held, Peered
<1>6. overlap = {} => Checked(c, ledger)
  BY <1>4 DEF Checked, Rivals
<1>7. QED
  BY <1>2, <1>4, <1>5, <1>6, RequestMoves DEF Undisturbed

LEMMA EffectiveKeeps ==
  ASSUME EwInv, NEW q \in Requests, EffectiveSubject(q)
  PROVE  EwInv'
<1>1. PICK s : calls' = [calls EXCEPT ![q].pc = "conflicts", ![q].subject = s]
  <2>1. PICK s : s = IF Live(About(Records, calls[q].subject)) # {} THEN None ELSE calls[q].subject
    OBVIOUS
  <2>2. QED
    BY <2>1 DEF EffectiveSubject, EwInv, WTyped
<1>2. PICK c : c = [calls[q] EXCEPT !.pc = "conflicts", !.subject = s]
  OBVIOUS
<1>3. calls' = [calls EXCEPT ![q] = c]
  BY <1>1, <1>2 DEF EwInv, WTyped
<1>4. DOMAIN calls[q] = DOMAIN Idle /\ Held(calls[q])
  BY DEF EwInv, WTyped, Held
<1>5. /\ DOMAIN c = DOMAIN Idle /\ c.pc = "conflicts" /\ c.target = calls[q].target
      /\ c.made = calls[q].made
  BY <1>2, <1>4 DEF Idle
<1>6. Held(c) /\ Peered(c, ledger) /\ Checked(c, ledger)
  BY <1>4, <1>5 DEF Held, Peered, Checked
<1>7. QED
  BY <1>3, <1>5, <1>6, RequestMoves DEF EffectiveSubject, Undisturbed, Flying

LEMMA GetKeeps ==
  ASSUME EwInv, NEW q \in Requests, GetTarget(q)
  PROVE  EwInv'
<1>1. Flying(calls[q]) /\ calls[q].pc = "get" /\ Undisturbed
  BY DEF GetTarget, Flying
<1>2. CASE \E why : Refuse(q, why)
  BY <1>1, <1>2, RefuseKeeps
<1>3. CASE \E s : calls' = [calls EXCEPT ![q].pc = "conflicts", ![q].subject = s]
  <2>1. PICK s : calls' = [calls EXCEPT ![q].pc = "conflicts", ![q].subject = s]
    BY <1>3
  <2>2. PICK c : c = [calls[q] EXCEPT !.pc = "conflicts", !.subject = s]
    OBVIOUS
  <2>3. calls' = [calls EXCEPT ![q] = c]
    BY <2>1, <2>2 DEF EwInv, WTyped
  <2>4. DOMAIN calls[q] = DOMAIN Idle /\ Held(calls[q])
    BY DEF EwInv, WTyped, Held
  <2>5. /\ DOMAIN c = DOMAIN Idle /\ c.pc = "conflicts" /\ c.target = calls[q].target
        /\ c.made = calls[q].made
    BY <2>2, <2>4 DEF Idle
  <2>6. Held(c) /\ Peered(c, ledger) /\ Checked(c, ledger)
    BY <2>4, <2>5 DEF Held, Peered, Checked
  <2>7. QED
    BY <1>1, <2>3, <2>5, <2>6, RequestMoves DEF Undisturbed
<1>4. QED
  BY <1>2, <1>3 DEF GetTarget
LEMMA ConflictsKeep ==
  ASSUME EwInv, NEW q \in Requests, CheckConflicts(q)
  PROVE  EwInv'
<1> DEFINE open == IF calls[q].subject = None THEN {}
                   ELSE Unresolved(DetectConflicts(Live(Records), calls[q].subject))
<1>1. Flying(calls[q]) /\ calls[q].pc = "conflicts" /\ Undisturbed
  BY DEF CheckConflicts, Flying
<1>2. overlap = {} => open = {}
  BY NoneOpen DEF EwInv, Unraced
<1>3. \/ open = {} /\ Goto(q, IF calls[q].subject = None THEN "create" ELSE "peers")
      \/ open # {} /\ (Goto(q, "same") \/ Refuse(q, "conflict-membrane"))
  BY DEF CheckConflicts
<1> HIDE DEF open
<1>4. CASE Refuse(q, "conflict-membrane")
  BY <1>1, <1>4, RefuseKeeps
<1>5. CASE calls[q].subject = None /\ Goto(q, "create")
  BY <1>1, <1>5, GotoKeeps
<1>6. CASE calls[q].subject # None /\ Goto(q, "peers")
  BY <1>1, <1>6, GotoKeeps
<1>7. CASE open # {} /\ Goto(q, "same")
  BY <1>1, <1>2, <1>7, GotoKeeps
<1>8. QED
  BY <1>3, <1>4, <1>5, <1>6, <1>7

\* While a request is not archiving, alone, nothing live is replaced by a live record.
LEMMA NothingReplaced ==
  ASSUME Unraced, NEW q \in Requests, Flying(calls[q]), calls[q].pc # "archive",
         NEW i \in Given, NEW j \in Given, LiveIn(ledger, i), LiveIn(ledger, j)
  PROVE  ledger[j].supersedes # i
BY DEF Unraced, Doomed, Alone, Flying

\* The records the gateway reads of a subject, by their ids.
LEMMA AboutByIds ==
  ASSUME WTyped, NEW s
  PROVE  /\ \A i \in Given : LiveIn(ledger, i) /\ ledger[i].subject = s
                               => ledger[i] \in Live(About(Records, s)) /\ ledger[i].id = i
         /\ \A r \in Live(About(Records, s)) :
              \E i \in Given : r = ledger[i] /\ LiveIn(ledger, i) /\ ledger[i].subject = s
BY DEF WTyped, Stored, Live, Active, About, Records, LiveIn

LEMMA PeersKeep ==
  ASSUME EwInv, NEW q \in Requests, ListPeers(q)
  PROVE  EwInv'
<1>1. PICK peers : peers = {r \in Live(About(Records, calls[q].subject)) : r.id \notin Superseding(q)}
  OBVIOUS
<1>2. /\ Flying(calls[q]) /\ calls[q].pc = "peers" /\ Undisturbed
      /\ calls' = [calls EXCEPT ![q].pc = "superseded", ![q].peers = peers]
  BY <1>1 DEF ListPeers, Flying
<1>3. PICK c : c = [calls[q] EXCEPT !.pc = "superseded", !.peers = peers]
  OBVIOUS
<1>4. calls' = [calls EXCEPT ![q] = c]
  BY <1>2, <1>3 DEF EwInv, WTyped
<1>5. DOMAIN calls[q] = DOMAIN Idle /\ Held(calls[q])
  BY DEF EwInv, WTyped, Held
<1>6. /\ DOMAIN c = DOMAIN Idle /\ c.pc = "superseded" /\ c.target = calls[q].target
      /\ c.made = calls[q].made /\ c.subject = calls[q].subject /\ c.peers = peers
  BY <1>3, <1>5 DEF Idle
<1>7. Held(c) /\ Checked(c, ledger)
  BY <1>2, <1>5, <1>6 DEF Held, Checked
<1>8. \A j \in Rivals(c, ledger) : \E r \in peers : r.id = j /\ r.hash = ledger[j].hash
  BY <1>1, <1>6, AboutByIds DEF EwInv, Rivals, Superseding
<1>9. ASSUME overlap = {}, NEW r \in peers, NEW s \in peers PROVE r.hash = s.hash
  <2>1. calls[q].subject # None
    BY <1>2, <1>5 DEF Held
  <2>2. PICK i \in Given : r = ledger[i] /\ LiveIn(ledger, i) /\ ledger[i].subject = calls[q].subject
    BY <1>1, <1>9, AboutByIds DEF EwInv
  <2>3. PICK j \in Given : s = ledger[j] /\ LiveIn(ledger, j) /\ ledger[j].subject = calls[q].subject
    BY <1>1, <1>9, AboutByIds DEF EwInv
  <2>4. Unraced
    BY <1>9 DEF EwInv
  <2>5. ledger[i].supersedes # j /\ ledger[j].supersedes # i
    BY <1>2, <2>2, <2>3, <2>4, NothingReplaced
  <2>6. QED
    BY <2>1, <2>2, <2>3, <2>4, <2>5 DEF Unraced, Agree
<1>10. overlap = {} => Peered(c, ledger)
  BY <1>6, <1>8, <1>9 DEF Peered
<1>11. QED
  BY <1>2, <1>4, <1>6, <1>7, <1>10, RequestMoves DEF Undisturbed

LEMMA ComparedKeeps ==
  ASSUME EwInv, NEW q \in Requests, CheckPeers(q)
  PROVE  EwInv'
<1> DEFINE replaced == {r.supersedes : r \in Live(Records)}
           claims == Hashes({r \in calls[q].peers : r.id \notin replaced})
<1>1. Flying(calls[q]) /\ calls[q].pc = "superseded" /\ Undisturbed
  BY DEF CheckPeers, Flying
<1>2. \/ Refuse(q, "conflict-membrane")
      \/ Goto(q, "same") /\ (claims = {} \/ calls[q].hash \in claims)
  BY DEF CheckPeers
<1>3. CASE Refuse(q, "conflict-membrane")
  BY <1>1, <1>3, RefuseKeeps
<1>4. CASE Goto(q, "same") /\ (claims = {} \/ calls[q].hash \in claims)
  <2>1. ASSUME overlap = {}, NEW j \in Rivals(calls[q], ledger) PROVE ledger[j].hash = calls[q].hash
    <3>1. Unraced /\ Peered(calls[q], ledger)
      BY <2>1 DEF EwInv, Unraced
    <3>2. PICK r \in calls[q].peers : r.id = j /\ r.hash = ledger[j].hash
      BY <1>1, <2>1, <3>1 DEF Peered
    <3>3. \A e \in Live(Records) : e.supersedes # j
      <4>1. SUFFICES ASSUME NEW e \in Live(Records) PROVE e.supersedes # j
        OBVIOUS
      <4>2. PICK i \in Given : e = ledger[i] /\ LiveIn(ledger, i)
        BY <4>1 DEF Live, Active, Records, LiveIn
      <4>3. QED
        BY <1>1, <2>1, <3>1, <4>2, NothingReplaced DEF Rivals
    <3>4. ledger[j].hash \in claims
      BY <3>2, <3>3 DEF Hashes
    <3>5. \A h \in claims : h = ledger[j].hash
      BY <1>1, <3>1, <3>2 DEF Hashes, Peered
    <3>6. QED
      BY <1>4, <3>4, <3>5
  <2>2. QED
    BY <1>1, <1>4, <2>1, GotoKeeps
<1>5. QED
  BY <1>2, <1>3, <1>4

LEMMA SameKeeps ==
  ASSUME EwInv, NEW q \in Requests, FindSame(q)
  PROVE  EwInv'
<1>1. Flying(calls[q]) /\ calls[q].pc = "same" /\ Undisturbed
  BY DEF FindSame, Flying
<1>2. overlap = {} /\ calls[q].subject # None =>
        \A j \in Rivals(calls[q], ledger) : ledger[j].hash = calls[q].hash
  BY <1>1 DEF EwInv, Unraced, Checked
<1>3. Goto(q, "done") \/ Goto(q, "create")
  BY DEF FindSame
<1>4. QED
  BY <1>1, <1>2, <1>3, GotoKeeps
\* create_memory: the new record agrees with what the request compared it to, and nothing
\* replaces it yet.
LEMMA CreateKeeps ==
  ASSUME EwInv, NEW q \in Requests, CreateRecord(q)
  PROVE  EwInv'
<1>1. Flying(calls[q]) /\ calls[q].pc = "create" /\ UNCHANGED overlap
  BY DEF CreateRecord, Flying
<1>2. CASE Refuse(q, "ambiguous-write") /\ UNCHANGED <<ledger, given>>
  BY <1>1, <1>2, RefuseKeeps DEF Undisturbed
<1>3. CASE ~(calls[q].target # None /\ ledger[calls[q].target] = NoRecord)
  <2> DEFINE i == given + 1
             e == [id |-> i, status |-> "draft", subject |-> calls[q].subject,
                   hash |-> calls[q].hash, supersedes |-> calls[q].target]
             pc == IF calls[q].target = None THEN "done" ELSE "archive"
  <2>1. /\ given < MaxIds /\ ledger' = [ledger EXCEPT ![i] = e] /\ given' = i
        /\ calls' = [calls EXCEPT ![q].made = i, ![q].pc = pc]
    BY <1>3 DEF CreateRecord
  <2>2. i \in Given /\ given \in Nat /\ i # None /\ 1..given' = 1..given \cup {i} /\ i \notin 1..given
    BY <2>1, EwConstantsOK DEF EwInv, WTyped, Given
  <2>3. PICK c : c = [calls[q] EXCEPT !.made = i, !.pc = pc]
    OBVIOUS
  <2>4. calls' = [calls EXCEPT ![q] = c]
    BY <2>1, <2>3 DEF EwInv, WTyped
  <2>5. calls'[q] = c /\ DOMAIN calls' = Requests /\ \A p \in Requests \ {q} : calls'[p] = calls[p]
    BY <2>4 DEF EwInv, WTyped
  <2>6. DOMAIN calls[q] = DOMAIN Idle /\ Held(calls[q])
    BY DEF EwInv, WTyped, Held
  <2>7. /\ DOMAIN c = DOMAIN Idle /\ c.pc = pc /\ c.target = calls[q].target /\ c.made = i
        /\ c.subject = calls[q].subject /\ c.hash = calls[q].hash
    BY <2>3, <2>6 DEF Idle
  <2>8. /\ e # NoRecord /\ DOMAIN e = DOMAIN NoRecord /\ e.id = i /\ e.status = "draft"
        /\ e.subject = calls[q].subject /\ e.hash = calls[q].hash /\ e.supersedes = calls[q].target
    BY DEF NoRecord
  <2>9. ledger'[i] = e /\ DOMAIN ledger' = Given /\ \A j \in Given \ {i} : ledger'[j] = ledger[j]
    BY <2>1, <2>2 DEF EwInv, WTyped
  <2>10. ledger[i] = NoRecord
    BY <2>2 DEF EwInv, WTyped, Stored
  <2>11. given' = given + 1 /\ given' \in 0..MaxIds
    BY <2>1, <2>2, EwConstantsOK DEF Given
  <2> HIDE DEF i, e, pc
  <2>12. WTyped'
    <3>1. \A j \in Given : Stored(j)'
      <4>1. SUFFICES ASSUME NEW j \in Given, ledger'[j] # NoRecord
                     PROVE  /\ j <= given' /\ ledger'[j].id = j
                            /\ ledger'[j].status \in {"draft", "verified", "archived"}
                            /\ DOMAIN ledger'[j] = DOMAIN NoRecord
                            /\ ledger'[j].supersedes \in 1..given' \cup {None}
        BY DEF Stored
      <4>2. CASE j = i
        BY <2>1, <2>2, <2>6, <2>8, <2>9, <4>2 DEF Held, Given
      <4>3. CASE j # i
        <5>1. ledger'[j] = ledger[j] /\ Stored(j)
          BY <2>9, <4>3 DEF EwInv, WTyped
        <5>2. j \in Nat /\ (j <= given => j <= given')
          BY <2>2, <2>11 DEF Given
        <5>3. QED
          BY <2>2, <4>1, <5>1, <5>2 DEF Stored
      <4>4. QED
        BY <4>2, <4>3
    <3>2. \A p \in Requests : Held(calls[p])'
      <4>1. \A p \in Requests : Held(calls[p])
        BY DEF EwInv, WTyped
      <4>2. pc \in {"done", "archive"} /\ (pc = "archive" => calls[q].target # None)
        BY DEF pc
      <4>3. SUFFICES ASSUME NEW p \in Requests
                     PROVE  /\ DOMAIN calls'[p] = DOMAIN Idle
                            /\ calls'[p].target \in 1..given' \cup {None}
                            /\ calls'[p].pc \in {"get", "archive"} => calls'[p].target # None
                            /\ calls'[p].pc \in {"peers", "superseded"} => calls'[p].subject # None
                            /\ calls'[p].pc = "archive" => calls'[p].made # None
                            /\ calls'[p].pc = "idle" => calls'[p].made = None
        BY DEF Held
      <4>4. CASE p = q
        BY <2>2, <2>5, <2>6, <2>7, <4>2, <4>4 DEF Held
      <4>5. CASE p # q
        BY <2>2, <2>5, <4>1, <4>5 DEF Held
      <4>6. QED
        BY <4>4, <4>5
    <3>3. QED
      BY <2>5, <2>9, <2>11, <3>1, <3>2 DEF WTyped
  <2>13. ArchivedHasSuccessor'
    <3>1. SUFFICES ASSUME NEW j \in 1..given', ledger'[j].status = "archived"
                   PROVE  \E p \in Requests : calls'[p].target = j /\ calls'[p].made # None
      BY DEF ArchivedHasSuccessor
    <3>2. j # i /\ j \in 1..given /\ j \in Given
      <4>1. j # i
        BY <2>8, <2>9, <3>1
      <4>2. j \in 1..given
        BY <2>2, <3>1, <4>1
      <4>3. j \in Given
        BY <2>2, <4>2, EwConstantsOK DEF EwInv, WTyped, Given
      <4>4. QED
        BY <4>1, <4>2, <4>3
    <3>3. PICK p \in Requests : calls[p].target = j /\ calls[p].made # None
      BY <2>9, <3>1, <3>2 DEF EwInv, ArchivedHasSuccessor
    <3>4. QED
      BY <2>2, <2>5, <2>7, <3>3
  <2>14. ASSUME overlap = {} PROVE Unraced'
    <3>1. Unraced
      BY <2>14 DEF EwInv
    <3>2. \A p \in Requests \ {q} : ~Flying(calls[p])
      BY <1>1, <3>1 DEF Unraced, Alone
    <3>3. Alone(calls')
      BY <2>5, <3>2 DEF Alone
    <3>4. \A p \in Requests : calls'[p].pc \notin {"superseded", "same", "create"}
      BY <2>5, <2>7, <3>2 DEF Flying, pc
    <3>5. \A p \in Requests : Peered(calls'[p], ledger') /\ Checked(calls'[p], ledger')
      BY <3>4 DEF Peered, Checked
    <3>6. ASSUME NEW j \in Given, j # i PROVE LiveIn(ledger', j) <=> LiveIn(ledger, j)
      BY <2>9, <3>6 DEF LiveIn
    <3>7. Agree(ledger')
      <4>1. Agree(ledger) /\ Checked(calls[q], ledger)
        BY <3>1 DEF Unraced
      <4>2. ASSUME NEW j \in Given, j # i, LiveIn(ledger', j), ledger'[j].subject = e.subject,
                   e.subject # None, e.supersedes # j
            PROVE  ledger'[j].hash = e.hash
        <5>1. j \in Rivals(calls[q], ledger)
          BY <2>8, <2>9, <3>6, <4>2 DEF Rivals
        <5>2. QED
          BY <1>1, <2>8, <2>9, <4>1, <4>2, <5>1 DEF Checked
      <4>3. SUFFICES ASSUME NEW j \in Given, NEW k \in Given,
                            LiveIn(ledger', j), LiveIn(ledger', k),
                            ledger'[j].subject = ledger'[k].subject, ledger'[j].subject # None
                     PROVE  \/ ledger'[j].hash = ledger'[k].hash
                            \/ ledger'[j].supersedes = k
                            \/ ledger'[k].supersedes = j
        BY DEF Agree
      <4>4. CASE j = i /\ k = i
        BY <4>4
      <4>5. CASE j = i /\ k # i
        BY <2>9, <4>2, <4>3, <4>5
      <4>6. CASE j # i /\ k = i
        BY <2>9, <4>2, <4>3, <4>6
      <4>7. CASE j # i /\ k # i
        BY <2>9, <3>6, <4>1, <4>3, <4>7 DEF Agree
      <4>8. QED
        BY <4>4, <4>5, <4>6, <4>7
    <3>8. Doomed(ledger', calls')
      <4>1. SUFFICES ASSUME NEW j \in Given, NEW k \in Given, LiveIn(ledger', j),
                            LiveIn(ledger', k), ledger'[k].supersedes = j
                     PROVE  \E p \in Requests : calls'[p].pc = "archive" /\ calls'[p].target = j
        BY DEF Doomed
      <4>2. CASE k = i
        BY <2>2, <2>5, <2>7, <2>8, <2>9, <4>1, <4>2, EwConstantsOK DEF pc
      <4>3. CASE k # i
        <5>1. ledger'[k] = ledger[k] /\ LiveIn(ledger, k)
          BY <2>9, <3>6, <4>1, <4>3
        <5>2. j # i
          BY <2>2, <4>1, <5>1, EwConstantsOK DEF EwInv, WTyped, Stored, LiveIn
        <5>3. LiveIn(ledger, j)
          BY <3>6, <4>1, <5>2
        <5>4. FALSE
          BY <1>1, <3>1, <4>1, <5>1, <5>3, NothingReplaced
        <5>5. QED
          BY <5>4
      <4>4. QED
        BY <4>2, <4>3
    <3>9. QED
      BY <3>3, <3>5, <3>7, <3>8 DEF Unraced
  <2>15. QED
    BY <1>1, <2>12, <2>13, <2>14 DEF EwInv
<1>4. QED
  BY <1>2, <1>3 DEF CreateRecord
\* update_memory: the one record a live record may replace stops being live.
LEMMA ArchiveKeeps ==
  ASSUME EwInv, NEW q \in Requests, ArchiveTarget(q)
  PROVE  EwInv'
<1>1. /\ Flying(calls[q]) /\ calls[q].pc = "archive" /\ Goto(q, "done") /\ UNCHANGED <<given, overlap>>
      /\ IF ledger[calls[q].target] = NoRecord THEN UNCHANGED ledger
         ELSE ledger' = [ledger EXCEPT ![calls[q].target].status = "archived"]
  BY DEF ArchiveTarget, Flying
<1>2. PICK c : c = [calls[q] EXCEPT !.pc = "done"]
  OBVIOUS
<1>3. DOMAIN calls[q] = DOMAIN Idle /\ Held(calls[q])
  BY DEF EwInv, WTyped, Held
<1>4. /\ DOMAIN c = DOMAIN Idle /\ c.pc = "done" /\ c.target = calls[q].target
      /\ c.made = calls[q].made
  BY <1>2, <1>3 DEF Idle
<1>5. calls'[q] = c /\ DOMAIN calls' = Requests /\ \A p \in Requests \ {q} : calls'[p] = calls[p]
  BY <1>1, <1>2 DEF Goto, EwInv, WTyped
<1>6. PICK t \in Given : t = calls[q].target /\ t \in 1..given /\ calls[q].made # None
  <2>1. calls[q].target \in 1..given /\ calls[q].made # None
    BY <1>1, <1>3 DEF Held
  <2>2. calls[q].target \in Given
    BY <2>1, EwConstantsOK DEF EwInv, WTyped, Given
  <2>3. QED
    BY <2>1, <2>2
<1>7. PICK e : e = [ledger[t] EXCEPT !.status = "archived"]
  OBVIOUS
<1>8. /\ DOMAIN ledger' = Given /\ \A i \in Given \ {t} : ledger'[i] = ledger[i]
      /\ ledger'[t] = IF ledger[t] = NoRecord THEN NoRecord ELSE e
  BY <1>1, <1>6, <1>7 DEF EwInv, WTyped
<1>9. ledger[t] # NoRecord =>
        /\ DOMAIN e = DOMAIN NoRecord /\ e.status = "archived" /\ e.id = ledger[t].id
        /\ e.supersedes = ledger[t].supersedes
  BY <1>7 DEF EwInv, WTyped, Stored, NoRecord
<1>10. ~LiveIn(ledger', t) /\ \A i \in Given \ {t} : ledger'[i] = ledger[i]
  BY <1>8, <1>9 DEF LiveIn
<1>11. WTyped'
  <2>1. \A i \in Given : Stored(i)'
    BY <1>1, <1>6, <1>8, <1>9 DEF EwInv, WTyped, Stored
  <2>2. \A p \in Requests : Held(calls[p])'
    BY <1>1, <1>3, <1>4, <1>5 DEF EwInv, WTyped, Held
  <2>3. QED
    BY <1>1, <1>5, <1>8, <2>1, <2>2 DEF EwInv, WTyped
<1>12. ArchivedHasSuccessor'
  <2>1. SUFFICES ASSUME NEW i \in 1..given, ledger'[i].status = "archived"
                 PROVE  \E p \in Requests : calls'[p].target = i /\ calls'[p].made # None
    BY <1>1 DEF ArchivedHasSuccessor
  <2>2. i \in Given
    BY EwConstantsOK DEF EwInv, WTyped, Given
  <2>3. CASE i = t
    BY <1>4, <1>5, <1>6, <2>3
  <2>4. CASE i # t
    <3>1. PICK p \in Requests : calls[p].target = i /\ calls[p].made # None
      BY <1>8, <2>1, <2>2, <2>4 DEF EwInv, ArchivedHasSuccessor
    <3>2. QED
      BY <1>4, <1>5, <3>1
  <2>5. QED
    BY <2>3, <2>4
<1>13. ASSUME overlap = {} PROVE Unraced'
  <2>1. Unraced
    BY <1>13 DEF EwInv
  <2>2. \A p \in Requests : ~Flying(calls'[p])
    BY <1>1, <1>4, <1>5, <2>1 DEF Unraced, Alone, Flying
  <2>3. Alone(calls') /\ \A p \in Requests : Peered(calls'[p], ledger') /\ Checked(calls'[p], ledger')
    BY <2>2 DEF Alone, Peered, Checked, Flying
  <2>4. PICK M : M = ledger'
    OBVIOUS
  <2>5. Shrunk(ledger, M)
    BY <1>10, <2>4 DEF Shrunk, LiveIn
  <2>6. Agree(M)
    BY <2>1, <2>5, ShrunkAgrees DEF Unraced
  <2>7. ASSUME NEW i \in Given, NEW j \in Given, LiveIn(M, i), LiveIn(M, j), M[j].supersedes = i
        PROVE  FALSE
    <3>1. i # t /\ j # t /\ LiveIn(ledger, i) /\ LiveIn(ledger, j) /\ ledger[j].supersedes = i
      BY <1>10, <2>4, <2>7 DEF LiveIn
    <3>2. PICK p \in Requests : calls[p].pc = "archive" /\ calls[p].target = i
      BY <2>1, <3>1 DEF Unraced, Doomed
    <3>3. p = q
      BY <1>1, <2>1, <3>2 DEF Unraced, Alone, Flying
    <3>4. QED
      BY <1>6, <3>1, <3>2, <3>3
  <2>8. QED
    BY <2>3, <2>4, <2>6, <2>7 DEF Unraced, Doomed
<1>14. QED
  BY <1>1, <1>11, <1>12, <1>13 DEF EwInv

LEMMA OutageKeeps ==
  ASSUME EwInv, NEW q \in Requests, Outage(q)
  PROVE  EwInv'
<1>1. PICK c : c = [calls[q] EXCEPT !.pc = "done", !.refused = "unavailable"]
  OBVIOUS
<1>2. DOMAIN calls[q] = DOMAIN Idle /\ Held(calls[q])
  BY DEF EwInv, WTyped, Held
<1>3. /\ DOMAIN c = DOMAIN Idle /\ c.pc = "done" /\ c.target = calls[q].target
      /\ c.made = calls[q].made
  BY <1>1, <1>2 DEF Idle
<1>4. calls'[q] = c /\ DOMAIN calls' = Requests /\ \A p \in Requests \ {q} : calls'[p] = calls[p]
  BY <1>1 DEF Outage, Refuse, EwInv, WTyped
<1>5. UNCHANGED <<ledger, given>> /\ overlap' # {}
  BY DEF Outage
<1>6. WTyped'
  BY <1>2, <1>3, <1>4, <1>5 DEF EwInv, WTyped, Stored, Held
<1>7. ArchivedHasSuccessor'
  BY <1>3, <1>4, <1>5 DEF EwInv, ArchivedHasSuccessor
<1>8. QED
  BY <1>5, <1>6, <1>7 DEF EwInv

LEMMA VerifyKeeps ==
  ASSUME EwInv, OperatorVerifies
  PROVE  EwInv'
<1>1. PICK i \in 1..given : /\ ledger[i].status = "draft"
                            /\ ledger' = [ledger EXCEPT ![i].status = "verified"]
                            /\ UNCHANGED <<calls, given, overlap>>
  BY DEF OperatorVerifies
<1>2. i \in Given
  BY EwConstantsOK DEF EwInv, WTyped, Given
<1>3. PICK e : e = [ledger[i] EXCEPT !.status = "verified"]
  OBVIOUS
<1>4. DOMAIN ledger' = Given /\ ledger'[i] = e /\ \A j \in Given \ {i} : ledger'[j] = ledger[j]
  BY <1>1, <1>2, <1>3 DEF EwInv, WTyped
<1>5. ledger[i] # NoRecord
  BY <1>1 DEF NoRecord
<1>6. /\ DOMAIN e = DOMAIN NoRecord /\ e.status = "verified" /\ e.id = ledger[i].id
      /\ e.subject = ledger[i].subject /\ e.hash = ledger[i].hash
      /\ e.supersedes = ledger[i].supersedes
  BY <1>2, <1>3, <1>5 DEF EwInv, WTyped, Stored, NoRecord
<1>7. \A j \in Given : Stored(j)'
  BY <1>1, <1>4, <1>5, <1>6 DEF EwInv, WTyped, Stored
<1>8. ArchivedHasSuccessor'
  <2>1. \A j \in 1..given : j \in Given
    BY EwConstantsOK DEF EwInv, WTyped, Given
  <2>2. QED
    BY <1>1, <1>4, <1>6, <2>1 DEF EwInv, ArchivedHasSuccessor
<1>9. Shrunk(ledger, ledger')
  BY <1>1, <1>4, <1>5, <1>6 DEF Shrunk, LiveIn
<1>10. QED
  BY <1>1, <1>4, <1>7, <1>8, <1>9, LedgerShrinks

LEMMA DeleteKeeps ==
  ASSUME EwInv, OperatorDeletes
  PROVE  EwInv'
<1>1. PICK i \in 1..given :
        /\ ledger[i] # NoRecord
        /\ ledger' = [x \in Given |->
             IF x = i THEN NoRecord
             ELSE IF ledger[x].supersedes = i THEN [ledger[x] EXCEPT !.supersedes = None]
             ELSE ledger[x]]
        /\ UNCHANGED <<calls, given, overlap>>
  BY DEF OperatorDeletes
<1>2. DOMAIN ledger' = Given
  BY <1>1
<1>3. ASSUME NEW x \in Given, ledger[x] # NoRecord
      PROVE  LET e == [ledger[x] EXCEPT !.supersedes = None]
             IN /\ DOMAIN e = DOMAIN NoRecord /\ e.id = ledger[x].id /\ e.status = ledger[x].status
                /\ e.subject = ledger[x].subject /\ e.hash = ledger[x].hash
                /\ e.supersedes = None
  BY <1>3 DEF EwInv, WTyped, Stored, NoRecord
<1>4. NoRecord.supersedes = None /\ NoRecord.status = "none" /\ i # None
  BY EwConstantsOK DEF EwInv, WTyped, Given, NoRecord
<1>5. ASSUME NEW x \in Given
      PROVE  \/ ledger'[x] = NoRecord
             \/ /\ ledger[x] # NoRecord /\ DOMAIN ledger'[x] = DOMAIN NoRecord
                /\ ledger'[x].id = ledger[x].id /\ ledger'[x].status = ledger[x].status
                /\ ledger'[x].subject = ledger[x].subject /\ ledger'[x].hash = ledger[x].hash
                /\ ledger'[x].supersedes = IF ledger[x].supersedes = i THEN None ELSE ledger[x].supersedes
  <2>1. CASE x = i
    BY <1>1, <2>1
  <2>2. CASE x # i /\ ledger[x] = NoRecord
    BY <1>1, <1>4, <2>2
  <2>3. CASE x # i /\ ledger[x] # NoRecord /\ ledger[x].supersedes = i
    BY <1>1, <1>3, <2>3
  <2>4. CASE x # i /\ ledger[x] # NoRecord /\ ledger[x].supersedes # i
    BY <1>1, <2>4 DEF EwInv, WTyped, Stored
  <2>5. QED
    BY <2>1, <2>2, <2>3, <2>4
<1>6. \A j \in Given : Stored(j)'
  BY <1>1, <1>5 DEF EwInv, WTyped, Stored
<1>7. ArchivedHasSuccessor'
  <2>1. \A j \in 1..given : j \in Given
    BY EwConstantsOK DEF EwInv, WTyped, Given
  <2>2. QED
    BY <1>1, <1>4, <1>5, <2>1 DEF EwInv, ArchivedHasSuccessor
<1>8. Shrunk(ledger, ledger')
  <2>1. \A x \in Given : LiveIn(ledger', x) => x # i /\ ledger'[x] # NoRecord
    BY <1>1 DEF LiveIn
  <2>2. \A x \in Given : LiveIn(ledger', x) =>
          /\ LiveIn(ledger, x) /\ ledger'[x].subject = ledger[x].subject
          /\ ledger'[x].hash = ledger[x].hash
          /\ ledger'[x].supersedes = IF ledger[x].supersedes = i THEN None ELSE ledger[x].supersedes
    BY <1>5, <2>1 DEF LiveIn
  <2>3. None \notin Given
    BY EwConstantsOK
  <2>4. QED
    BY <2>1, <2>2, <2>3 DEF Shrunk
<1>9. QED
  BY <1>1, <1>2, <1>6, <1>7, <1>8, LedgerShrinks

LEMMA WriteStep == EwInv /\ [EwNext]_ewVars => EwInv'
<1> SUFFICES ASSUME EwInv, [EwNext]_ewVars PROVE EwInv'
  OBVIOUS
<1>1. CASE UNCHANGED ewVars
  BY <1>1 DEF ewVars, EwInv, WTyped, Stored, Held, ArchivedHasSuccessor, Unraced
<1>2. CASE OperatorVerifies \/ OperatorDeletes
  BY <1>2, VerifyKeeps, DeleteKeeps
<1>3. ASSUME NEW q \in Requests, Remember(q) \/ Consolidate(q) \/ Upsert(q) PROVE EwInv'
  <2>1. CASE Remember(q)
    BY <2>1, BeginKeeps DEF Remember
  <2>2. CASE Consolidate(q)
    BY <2>2, BeginKeeps DEF Consolidate
  <2>3. CASE Upsert(q)
    <3>1. PICK i \in 1..given, h \in Claims : Begin(q, "get", None, h, i)
      BY <2>3 DEF Upsert
    <3>2. i # None
      BY EwConstantsOK DEF EwInv, WTyped, Given
    <3>3. QED
      BY <3>1, <3>2, BeginKeeps
  <2>4. QED
    BY <1>3, <2>1, <2>2, <2>3
<1>4. ASSUME NEW q \in Requests,
             EffectiveSubject(q) \/ CheckConflicts(q) \/ ListPeers(q) \/ CheckPeers(q) \/ FindSame(q)
      PROVE  EwInv'
  BY <1>4, EffectiveKeeps, ConflictsKeep, PeersKeep, ComparedKeeps, SameKeeps
<1>5. ASSUME NEW q \in Requests, GetTarget(q) \/ CreateRecord(q) \/ ArchiveTarget(q) \/ Outage(q)
      PROVE  EwInv'
  BY <1>5, GetKeeps, CreateKeeps, ArchiveKeeps, OutageKeeps
<1>6. QED
  BY <1>1, <1>2, <1>3, <1>4, <1>5 DEF EwNext

LEMMA WriteStart == EwInit => EwInv
<1> SUFFICES ASSUME EwInit PROVE EwInv
  OBVIOUS
<1>1. \A i \in Given : ledger[i] = NoRecord
  BY DEF EwInit
<1>2. \A q \in Requests : calls[q] = Idle
  BY DEF EwInit
<1>3. \A q \in Requests : calls[q].pc = "idle"
  BY <1>2 DEF Idle
<1>4. WTyped
  <2>1. Held(Idle)
    BY DEF Held, Idle
  <2>2. QED
    BY <1>1, <1>2, <2>1, EwConstantsOK DEF EwInit, WTyped, Stored
<1>5. ArchivedHasSuccessor
  BY DEF EwInit, ArchivedHasSuccessor
<1>6. Unraced
  BY <1>1, <1>3 DEF Unraced, Alone, Flying, Agree, Doomed, LiveIn, Peered, Checked
<1>7. QED
  BY <1>4, <1>5, <1>6 DEF EwInv

\* The conflict membrane (_subject_conflict_block): as long as no two writes overlapped and
\* none was cut off, the live records of a subject make one claim.
THEOREM OneClaimPerSubject == EwSpec => []OneClaimUnlessRaced
<1>1. EwInv => OneClaimUnlessRaced
  BY NoneOpen DEF EwInv, Unraced, OneClaimUnlessRaced, OpenConflicts
<1>2. QED
  BY <1>1, WriteStart, WriteStep, PTL DEF EwSpec

\* emr_upsert archives nothing before the record that replaces it exists, however its calls
\* interleave with others' and wherever the ledger fails.
THEOREM NothingIsOverwritten == EwSpec => []ArchivedHasSuccessor
<1>1. EwInv => ArchivedHasSuccessor
  BY DEF EwInv
<1>2. QED
  BY <1>1, WriteStart, WriteStep, PTL DEF EwSpec

-----------------------------------------------------------------------------
(* The JSON store: readers see what the file holds, and no acknowledged version is lost *)

All == Slots \cup {Board}

(* What is needed of the types: every slot has a record, every thread a job. *)
Shaped ==
  /\ backend \in {"file", "blob"} /\ loaded \in BOOLEAN
  /\ DOMAIN memory = All /\ DOMAIN disk.ledger = All /\ DOMAIN mayHold = All
  /\ \A t \in Threads : job[t].slot \in All
  /\ DOMAIN job = Threads
  /\ DOMAIN disk = {"kind", "legacy", "ledger"}

(* One save at a time, and none before the process has loaded. *)
OneSave == \A t, u \in Threads : job[t].busy /\ job[u].busy => t = u
SavesLoaded == \A t \in Threads : job[t].busy => loaded

(* A save that is under way can be undone, to what the file holds; every other slot holds in *)
(* memory what it may. *)
Undoable ==
  \A t \in Threads : job[t].busy =>
    /\ job[t].undo.version \in mayHold[job[t].slot]
    /\ backend = "file" => job[t].undo = disk.ledger[job[t].slot]

MemoryMayHold ==
  loaded => \A s \in All : \/ memory[s].version \in mayHold[s]
                           \/ \E t \in Threads : job[t].busy /\ job[t].slot = s

DiskMayHold == disk.kind # "damaged" => \A s \in All : disk.ledger[s].version \in mayHold[s]

JInv == Shaped /\ OneSave /\ SavesLoaded /\ Undoable /\ MemoryIsDisk /\ MemoryMayHold /\ DiskMayHold

-----------------------------------------------------------------------------

\* At the start the process is down, and the file may be a legacy one.
LEMMA StartHolds ==
  ASSUME JsInit
  PROVE  JInv
<1>1. DOMAIN EmptyLedger = All /\ \A s \in All : EmptyLedger[s].version = 0
  BY DEF EmptyLedger, Absent, All
<1>2. disk = NoFile \/ \E s \in Slots : disk = LegacyFile(s)
  BY DEF JsInit
<1>3. DOMAIN disk.ledger = All /\ DOMAIN disk = {"kind", "legacy", "ledger"}
  <2>1. CASE disk = NoFile
    BY <1>1, <2>1 DEF NoFile
  <2>2. ASSUME NEW s \in Slots, disk = LegacyFile(s) PROVE DOMAIN disk.ledger = All /\ DOMAIN disk = {"kind", "legacy", "ledger"}
    BY <1>1, <2>2 DEF LegacyFile
  <2>3. QED
    BY <1>2, <2>1, <2>2
<1>4. QED
  BY <1>1, <1>3 DEF JsInit, JInv, Shaped, OneSave, SavesLoaded, Undoable, MemoryIsDisk, MemoryMayHold, DiskMayHold, NoJob, All

\* The process loads: memory is what the file holds.
LEMMA LoadHolds ==
  ASSUME JInv, Load \/ LoadFails
  PROVE  JInv'
<1>1. ~loaded /\ LockFree /\ memory' = disk.ledger /\ job' = job /\ mayHold' = mayHold /\ backend' = backend
  BY DEF Load, LoadFails
<1>2. disk'.ledger = disk.ledger /\ disk'.kind = disk.kind /\ DOMAIN disk' = DOMAIN disk
  BY DEF Load, LoadFails, JInv, Shaped
<1>3. loaded' => disk.kind # "damaged"
  BY <1>1 DEF Load, LoadFails
<1>4. QED
  BY <1>1, <1>2, <1>3 DEF Load, LoadFails, JInv, Shaped, OneSave, SavesLoaded, Undoable, MemoryIsDisk, MemoryMayHold, DiskMayHold, LockFree

\* A mutation changes one slot of the memory, and keeps what was there.
LEMMA MutateHolds ==
  ASSUME JInv, NEW t \in Threads, NEW s \in All, NEW r, Mutate(t, s, r)
  PROVE  JInv'
<1>1. /\ loaded /\ LockFree /\ memory' = [memory EXCEPT ![s] = r]
      /\ job' = [job EXCEPT ![t] = [slot |-> s, undo |-> memory[s], busy |-> TRUE]]
      /\ UNCHANGED <<backend, disk, loaded, mayHold>>
  BY DEF Mutate
<1>2. \A u \in Threads : /\ u # t => job'[u] = job[u] /\ ~job[u].busy
                         /\ u = t => job'[u] = [slot |-> s, undo |-> memory[s], busy |-> TRUE]
  BY <1>1 DEF JInv, Shaped, LockFree
<1>3. memory'[s] = r /\ \A z \in All : z # s => memory'[z] = memory[z]
  BY <1>1 DEF JInv, Shaped
<1>4. ~\E u \in Threads : job[u].busy
  BY <1>1 DEF LockFree
<1>5. Shaped' /\ OneSave' /\ SavesLoaded' /\ DiskMayHold'
  BY <1>1, <1>2 DEF JInv, Shaped, OneSave, SavesLoaded, DiskMayHold
<1>6. MemoryIsDisk'
  BY <1>1, <1>2, <1>3, <1>4 DEF JInv, MemoryIsDisk, All
<1>7. MemoryMayHold'
  BY <1>1, <1>2, <1>3, <1>4 DEF JInv, MemoryMayHold, All
<1>8. Undoable'
  <2>1. job'[t].undo = memory[s] /\ job'[t].slot = s /\ \A u \in Threads : job'[u].busy => u = t
    BY <1>2
  <2>2. memory[s].version \in mayHold[s] /\ (backend = "file" => memory[s] = disk.ledger[s])
    BY <1>1, <1>4 DEF JInv, MemoryMayHold, MemoryIsDisk, All
  <2>3. QED
    BY <1>1, <2>1, <2>2 DEF Undoable
<1>9. QED
  BY <1>5, <1>6, <1>7, <1>8 DEF JInv

\* A save that succeeds: the file is the memory, and the caller is told so.
LEMMA SuccessHolds ==
  ASSUME JInv, NEW t \in Threads, SaveSucceeds(t)
  PROVE  JInv'
<1>1. /\ job[t].busy /\ disk' = Document(memory) /\ job' = [job EXCEPT ![t] = NoJob]
      /\ mayHold' = [mayHold EXCEPT ![job[t].slot] = {memory[job[t].slot].version}]
      /\ UNCHANGED <<backend, memory, loaded>>
  BY DEF SaveSucceeds
<1>2. \A u \in Threads : ~job'[u].busy /\ job'[u].slot \in All
  BY <1>1 DEF JInv, Shaped, OneSave, NoJob, All
<1>3. disk'.ledger = memory /\ disk'.kind = "document" /\ DOMAIN disk' = {"kind", "legacy", "ledger"}
  BY <1>1 DEF Document
<1>4. \A s \in All : memory[s].version \in mayHold'[s]
  BY <1>1 DEF JInv, Shaped, SavesLoaded, MemoryMayHold, OneSave
<1>5. QED
  BY <1>1, <1>2, <1>3, <1>4 DEF JInv, Shaped, OneSave, SavesLoaded, Undoable, MemoryIsDisk, MemoryMayHold, DiskMayHold, All

\* A save that fails: the slot is what it was, and of the blob nobody knows.
LEMMA FailureHolds ==
  ASSUME JInv, NEW t \in Threads, SaveFails(t)
  PROVE  JInv'
<1> DEFINE s == job[t].slot
<1>1. /\ job[t].busy /\ job' = [job EXCEPT ![t] = NoJob] /\ loaded
      /\ memory' = [memory EXCEPT ![s] = job[t].undo] /\ UNCHANGED <<backend, loaded>>
  BY DEF SaveFails, Undo, JInv, SavesLoaded
<1>2. \/ UNCHANGED <<disk, mayHold>>
      \/ /\ backend = "blob" /\ disk' = Document(memory)
         /\ mayHold' = [mayHold EXCEPT ![s] = mayHold[s] \cup {memory[s].version}]
  BY DEF SaveFails, Untold
<1>3. s \in All /\ \A u \in Threads : ~job'[u].busy /\ job'[u].slot \in All
  BY <1>1 DEF JInv, Shaped, OneSave, NoJob, All
<1>4. memory'[s] = job[t].undo /\ \A z \in All : z # s => memory'[z] = memory[z]
  BY <1>1, <1>3 DEF JInv, Shaped
<1>5. \A z \in All : mayHold[z] \subseteq mayHold'[z]
  BY <1>2, <1>3 DEF JInv, Shaped
<1>6. \A u \in Threads : job[u].busy => u = t
  BY <1>1 DEF JInv, OneSave
<1>7. \A z \in All : memory'[z].version \in mayHold'[z]
  BY <1>1, <1>3, <1>4, <1>5, <1>6 DEF JInv, Undoable, MemoryMayHold
<1>8. DiskMayHold'
  <2>1. CASE UNCHANGED <<disk, mayHold>>
    BY <2>1 DEF JInv, DiskMayHold
  <2>2. CASE disk' = Document(memory) /\ mayHold' = [mayHold EXCEPT ![s] = mayHold[s] \cup {memory[s].version}]
    <3>1. disk'.ledger = memory
      BY <2>2 DEF Document
    <3>2. \A z \in All : memory[z].version \in mayHold'[z]
      BY <1>1, <1>3, <1>6, <2>2 DEF JInv, Shaped, MemoryMayHold
    <3>3. QED
      BY <3>1, <3>2 DEF DiskMayHold
  <2>3. QED
    BY <1>2, <2>1, <2>2
<1>9. MemoryIsDisk'
  BY <1>1, <1>2, <1>3, <1>4, <1>6 DEF JInv, Undoable, MemoryIsDisk, All
<1>10. Shaped'
  BY <1>1, <1>2, <1>3 DEF JInv, Shaped, Document
<1>11. QED
  BY <1>1, <1>3, <1>7, <1>8, <1>9, <1>10 DEF JInv, OneSave, SavesLoaded, Undoable, MemoryMayHold

\* A crash, before or after a file that was being saved took its place.
LEMMA CrashHolds ==
  ASSUME JInv, Crash
  PROVE  JInv'
<1>1. memory' = EmptyLedger /\ loaded' = FALSE /\ job' = [t \in Threads |-> NoJob] /\ backend' = backend
  BY DEF Crash
<1>2. DOMAIN memory' = All
  BY <1>1 DEF EmptyLedger, All
<1>3. \A u \in Threads : ~job'[u].busy /\ job'[u].slot \in All
  BY <1>1 DEF NoJob, All
<1>4. CASE UNCHANGED <<disk, mayHold>>
  BY <1>1, <1>2, <1>3, <1>4 DEF JInv, Shaped, OneSave, SavesLoaded, Undoable, MemoryIsDisk, MemoryMayHold, DiskMayHold
<1>5. ASSUME NEW t \in Threads, job[t].busy, disk' \in {disk, Document(memory)}, Untold(t)
      PROVE  JInv'
  <2> DEFINE s == job[t].slot
  <2>1. s \in All /\ mayHold' = [mayHold EXCEPT ![s] = mayHold[s] \cup {memory[s].version}] /\ loaded
    BY <1>5 DEF Untold, JInv, Shaped, SavesLoaded
  <2>2. \A z \in All : mayHold[z] \subseteq mayHold'[z]
    BY <2>1 DEF JInv, Shaped
  <2>3. \A z \in All : memory[z].version \in mayHold'[z]
    BY <1>5, <2>1 DEF JInv, Shaped, MemoryMayHold, OneSave
  <2>4. DiskMayHold'
    <3>1. CASE disk' = disk
      BY <2>2, <3>1 DEF JInv, DiskMayHold
    <3>2. CASE disk' = Document(memory)
      BY <2>3, <3>2 DEF DiskMayHold, Document
    <3>3. QED
      BY <1>5, <3>1, <3>2
  <2>5. Shaped'
    <3>1. DOMAIN disk'.ledger = All /\ DOMAIN disk' = {"kind", "legacy", "ledger"}
      BY <1>5 DEF JInv, Shaped, Document
    <3>2. DOMAIN mayHold' = All /\ DOMAIN job' = Threads
      BY <1>1, <2>1 DEF JInv, Shaped
    <3>3. QED
      BY <1>1, <1>2, <1>3, <3>1, <3>2 DEF JInv, Shaped
  <2>6. QED
    BY <1>1, <1>3, <2>4, <2>5 DEF JInv, OneSave, SavesLoaded, Undoable, MemoryIsDisk, MemoryMayHold
<1>6. QED
  BY <1>4, <1>5 DEF Crash

\* An object that is stored, a file that is damaged while the process is down, a stutter.
LEMMA OutsideHolds ==
  ASSUME JInv, PutEvidence \/ DamageFile \/ UNCHANGED jsVars
  PROVE  JInv'
<1>1. CASE PutEvidence \/ UNCHANGED jsVars
  BY <1>1 DEF PutEvidence, jsVars, JInv, Shaped, OneSave, SavesLoaded, Undoable, MemoryIsDisk, MemoryMayHold, DiskMayHold
<1>2. CASE DamageFile
  <2>1. DOMAIN EmptyLedger = All
    BY DEF EmptyLedger, All
  <2>2. QED
    BY <1>2, <2>1 DEF DamageFile, Damaged, JInv, Shaped, OneSave, SavesLoaded, Undoable, MemoryIsDisk, MemoryMayHold, DiskMayHold
<1>3. QED
  BY <1>1, <1>2

\* Whatever mutations, failed saves, ambiguous commits, crashes and restarts there are: what a
\* reader without the lock is given is what the file holds, but for the one slot whose save is under
\* way; and the file holds of every record the version last acknowledged, or one nobody was told of.
THEOREM FileIsTheLedger == JsSpec => []DiskIsTheLedger
<1>1. JsInit => JInv
  BY StartHolds
<1>2. JInv /\ [JsNext]_jsVars => JInv'
  <2>1. ASSUME JInv, NEW t \in Threads, CreateMemory(t) \/ UpdateMemory(t) \/ DeleteMemory(t) \/ SwapBoard(t)
        PROVE  JInv'
    <3>1. \E s \in All : \E r : Mutate(t, s, r)
      BY <2>1 DEF CreateMemory, UpdateMemory, DeleteMemory, SwapBoard, All
    <3>2. QED
      BY <2>1, <3>1, MutateHolds
  <2>2. QED
    BY <2>1, LoadHolds, SuccessHolds, FailureHolds, CrashHolds, OutsideHolds DEF JsNext
<1>3. JInv => DiskIsTheLedger
  BY DEF JInv, DiskIsTheLedger, AckedSurvives, DiskMayHold, All
<1>4. QED
  BY <1>1, <1>2, <1>3, PTL DEF JsSpec

-----------------------------------------------------------------------------
(* Rows in the order of their keys *)

Written == [id : Ids, at : Times, archived : BOOLEAN, twin : BOOLEAN, supersedes : Ids \cup {NoId}]
RowKeys == Nat \X Nat

\* What a row is, and its key.
LEMMA RowKey ==
  ASSUME NEW r \in Written
  PROVE  /\ r.id \in Nat /\ r.id # NoId /\ r.at \in Nat /\ r.supersedes \in Nat
         /\ Key(r) \in RowKeys /\ Key(r)[1] = r.at /\ Key(r)[2] = r.id /\ Key(r) # FromTop
<1>1. r.id \in Nat /\ r.id # NoId /\ r.at \in Nat /\ r.supersedes \in Nat
  <2>1. r.id \in Ids /\ r.at \in Times /\ r.supersedes \in Ids \cup {NoId}
    BY DEF Written
  <2>2. Ids \subseteq Nat \ {0} /\ Times \subseteq Nat
    BY LrConstantsOK
  <2>3. NoId = 0
    BY DEF NoId
  <2>4. r.id \in Nat \ {0} /\ r.at \in Nat
    BY <2>1, <2>2
  <2>5. r.supersedes \in Nat
    <3>1. \A i \in Ids : i \in Nat
      BY <2>2
    <3>2. 0 \in Nat
      OBVIOUS
    <3>3. QED
      BY <2>1, <2>3, <3>1, <3>2
  <2>6. QED
    BY <2>3, <2>4, <2>5
<1>2. Key(r) \in RowKeys /\ Key(r)[1] = r.at /\ Key(r)[2] = r.id /\ Key(r) # FromTop
  BY <1>1 DEF Key, RowKeys, FromTop
<1>3. QED
  BY <1>1, <1>2

\* RowKeys are in a strict total order.
LEMMA KeysInOrder ==
  ASSUME NEW j \in RowKeys, NEW k \in RowKeys, NEW l \in RowKeys
  PROVE  /\ ~Before(j, j)
         /\ Before(j, k) /\ Before(k, l) => Before(j, l)
         /\ ~Before(k, j) /\ Before(k, l) => Before(j, l)
         /\ Before(j, k) /\ ~Before(l, k) => Before(j, l) /\ ~Before(l, j)
         /\ ~Before(k, j) /\ ~Before(l, k) => ~Before(l, j)
         /\ Before(j, k) \/ Before(k, j) \/ (j[1] = k[1] /\ j[2] = k[2])
         /\ Before(j, k) => ~Before(k, j)
<1>1. /\ j[1] \in Nat /\ j[2] \in Nat /\ k[1] \in Nat /\ k[2] \in Nat /\ l[1] \in Nat /\ l[2] \in Nat
  BY DEF RowKeys
<1>2. QED
  BY <1>1 DEF Before

\* A set of naturals that is not empty has a least number.
LEMMA LeastNumber ==
  ASSUME NEW S, S \subseteq Nat, S # {}
  PROVE  \E x \in S : \A y \in S : x <= y
<1>1. PICK x \in S : \A y \in S : <<y, x>> \notin OpToRel(<, Nat)
  BY NatLessThanWellFounded, WFMin
<1>2. \A y \in S : ~(y < x)
  <2> SUFFICES ASSUME NEW y \in S PROVE ~(y < x)
    OBVIOUS
  <2>1. <<y, x>> \in Nat \X Nat /\ <<y, x>>[1] = y /\ <<y, x>>[2] = x
    OBVIOUS
  <2>2. QED
    BY <1>1, <2>1 DEF OpToRel
<1>3. QED
  BY <1>2, SMT

\* The newer rows are finitely many.
LEMMA NewerFinite ==
  ASSUME NEW S, IsFiniteSet(S)
  PROVE  \A r : /\ Newer(S, r) \in SUBSET S /\ IsFiniteSet(Newer(S, r))
                /\ Cardinality(Newer(S, r)) \in Nat
BY FS_Subset, FS_CardinalityType DEF Newer

\* Of finitely many rows one is the newest.
LEMMA NewestIs ==
  ASSUME NEW S, IsFiniteSet(S), S \subseteq Written, S # {}
  PROVE  \E r \in S : Newer(S, r) = {}
<1>1. PICK C : C = {Cardinality(Newer(S, r)) : r \in S}
  OBVIOUS
<1>2. C \subseteq Nat /\ C # {}
  BY <1>1, NewerFinite
<1>3. PICK c \in C : \A e \in C : c <= e
  BY <1>2, LeastNumber
<1>4. PICK r \in S : c = Cardinality(Newer(S, r))
  BY <1>1
<1>5. ASSUME NEW s \in Newer(S, r) PROVE FALSE
  <2>1. s \in S /\ Before(Key(r), Key(s))
    BY DEF Newer
  <2>2. \A x \in S : Key(x) \in RowKeys
    BY RowKey
  <2>3. \A x \in S : Before(Key(s), Key(x)) => Before(Key(r), Key(x))
    BY <2>1, <2>2, KeysInOrder
  <2>4. ~Before(Key(s), Key(s))
    BY <2>1, <2>2, KeysInOrder
  <2>5. PICK T \in SUBSET Newer(S, r) : T = Newer(S, s)
    BY <2>3 DEF Newer
  <2>6. s \notin T
    BY <2>4, <2>5 DEF Newer
  <2>7. /\ Cardinality(T) <= Cardinality(Newer(S, r))
        /\ Cardinality(Newer(S, r)) = Cardinality(T) => Newer(S, r) = T
    BY NewerFinite, FS_Subset
  <2>8. Cardinality(T) \in C /\ Cardinality(T) \in Nat
    BY <1>1, <2>1, <2>5, NewerFinite
  <2>9. c <= Cardinality(T) /\ c \in Nat
    BY <1>2, <1>3, <2>8
  <2>10. QED
    BY <1>4, <2>6, <2>7, <2>8, <2>9
<1>6. QED
  BY <1>5

\* Of some rows one is the oldest.
LEMMA OldestIs ==
  ASSUME NEW S, S \subseteq Written, S # {}
  PROVE  Oldest(S) \in S /\ \A s \in S : ~Before(Key(s), Key(Oldest(S)))
<1>1. \A r \in S : r.at \in Nat /\ r.id \in Nat
  BY RowKey
<1>2. PICK t \in {r.at : r \in S} : \A u \in {r.at : r \in S} : t <= u
  <2>1. {r.at : r \in S} \subseteq Nat /\ {r.at : r \in S} # {}
    BY <1>1
  <2>2. QED
    BY <2>1, LeastNumber
<1>3. PICK i \in {r.id : r \in {s \in S : s.at = t}} : \A j \in {r.id : r \in {s \in S : s.at = t}} : i <= j
  <2>1. {r.id : r \in {s \in S : s.at = t}} \subseteq Nat /\ {r.id : r \in {s \in S : s.at = t}} # {}
    BY <1>1, <1>2
  <2>2. QED
    BY <2>1, LeastNumber
<1>4. PICK r \in S : r.at = t /\ r.id = i
  BY <1>3
<1>5. ASSUME NEW s \in S PROVE ~Before(Key(s), Key(r))
  <2>1. s.at \in Nat /\ s.id \in Nat /\ r.at \in Nat /\ r.id \in Nat /\ r.at <= s.at
    BY <1>1, <1>2, <1>4
  <2>2. s.at = r.at => r.id <= s.id
    BY <1>3, <1>4
  <2>3. Key(s)[1] = s.at /\ Key(s)[2] = s.id /\ Key(r)[1] = r.at /\ Key(r)[2] = r.id
    BY RowKey
  <2>4. QED
    BY <2>1, <2>2, <2>3 DEF Before
<1>6. \E x \in S : \A s \in S : ~Before(Key(s), Key(x))
  BY <1>5
<1>7. QED
  BY <1>6 DEF Oldest

-----------------------------------------------------------------------------
(* The page of the newest rows *)

\* What is not older than a row of the page is in the page.
LEMMA TopIsUpper ==
  ASSUME NEW S, IsFiniteSet(S), S \subseteq Written, NEW k \in Nat,
         NEW r \in Top(S, k), NEW s \in S, ~Before(Key(s), Key(r))
  PROVE  s \in Top(S, k)
<1>1. r \in S /\ Cardinality(Newer(S, r)) < k
  BY DEF Top
<1>2. \A x \in S : Key(x) \in RowKeys
  BY RowKey
<1>3. \A x \in S : Before(Key(s), Key(x)) => Before(Key(r), Key(x))
  BY <1>1, <1>2, KeysInOrder
<1>4. PICK T \in SUBSET Newer(S, r) : T = Newer(S, s)
  BY <1>3 DEF Newer
<1>5. Cardinality(T) <= Cardinality(Newer(S, r))
  BY NewerFinite, FS_Subset
<1>6. Cardinality(Newer(S, s)) < k
  BY <1>1, <1>4, <1>5, NewerFinite
<1>7. QED
  BY <1>6 DEF Top

\* A page is not empty without a reason.
LEMMA TopHasOne ==
  ASSUME NEW S, IsFiniteSet(S), S \subseteq Written, S # {}, NEW k \in Nat \ {0}
  PROVE  Top(S, k) # {}
<1>1. PICK r \in S : Newer(S, r) = {}
  BY NewestIs
<1>2. Cardinality(Newer(S, r)) = 0
  BY <1>1, FS_EmptySet
<1>3. QED
  BY <1>2 DEF Top

\* A page that is not full has all there is, and so has one that is shorter by one.
LEMMA TopIsAll ==
  ASSUME NEW S, IsFiniteSet(S), S \subseteq Written, NEW k \in Nat,
         Cardinality(Top(S, k + 1)) <= k
  PROVE  Top(S, k + 1) = S /\ Top(S, k) = S
<1>1. PICK T \in SUBSET S : T = Top(S, k + 1)
  BY DEF Top
<1>2. IsFiniteSet(T) /\ Cardinality(T) \in Nat /\ Cardinality(T) <= k
  BY <1>1, FS_Subset, FS_CardinalityType
<1>3. ASSUME S \ T # {} PROVE FALSE
  <2>1. PICK R : R = S \ T
    OBVIOUS
  <2>2. IsFiniteSet(R) /\ R \subseteq Written /\ R # {}
    BY <1>3, <2>1, FS_Subset
  <2>3. PICK r \in R : Newer(R, r) = {}
    BY <2>2, NewestIs
  <2>4. PICK N \in SUBSET T : N = Newer(S, r)
    BY <2>1, <2>3 DEF Newer
  <2>5. Cardinality(N) <= Cardinality(T)
    BY <1>2, FS_Subset
  <2>6. Cardinality(Newer(S, r)) < k + 1
    BY <1>2, <2>4, <2>5, NewerFinite
  <2>7. r \in Top(S, k + 1)
    BY <2>1, <2>6 DEF Top
  <2>8. QED
    BY <1>1, <2>1, <2>7
<1>4. T = S
  BY <1>3
<1>5. ASSUME NEW r \in S PROVE r \in Top(S, k)
  <2>1. PICK N \in SUBSET S : N = Newer(S, r)
    BY NewerFinite
  <2>2. r \notin N
    <3>1. Key(r) \in RowKeys
      BY RowKey
    <3>2. QED
      BY <2>1, <3>1, KeysInOrder DEF Newer
  <2>3. Cardinality(N) <= Cardinality(S) /\ (Cardinality(S) = Cardinality(N) => S = N)
    BY FS_Subset
  <2>4. Cardinality(Newer(S, r)) < k
    BY <1>2, <1>4, <2>1, <2>2, <2>3, NewerFinite
  <2>5. QED
    BY <2>4 DEF Top
<1>6. QED
  BY <1>1, <1>4, <1>5 DEF Top

-----------------------------------------------------------------------------
(* The invariant of the scan *)

LrTyped ==
  /\ rows \in Seq(Written)
  /\ \A m, n \in DOMAIN rows : rows[m].id = rows[n].id => m = n
  /\ reader \in [filters : Filters, on : BOOLEAN, cursor : {FromTop} \cup RowKeys, seen : Seq(SUBSET Ids),
                 staying : SUBSET Ids, done : BOOLEAN]
Seen == UNION {reader.seen[n] : n \in DOMAIN reader.seen}
\* What was shown lies before the cursor; what is still to be shown behind it.
ShownFits ==
  /\ ~reader.on => reader.seen = <<>> /\ reader.cursor = FromTop /\ ~reader.done
  /\ \A m, n \in DOMAIN reader.seen : m # n => reader.seen[m] \cap reader.seen[n] = {}
  /\ Seen \subseteq RowIds
  /\ ~reader.done => \A r \in Rows : r.id \in Seen => ~Older(r, reader.cursor)
StayingFits ==
  /\ reader.staying \subseteq RowIds
  /\ \A r \in Rows : r.id \in reader.staying =>
       /\ r \in Matching(reader.filters)
       /\ r.id \in Seen \/ (~reader.done /\ Older(r, reader.cursor))
LrInv == LrTyped /\ ShownFits /\ StayingFits

\* The rows are finitely many, one of each id.
LEMMA RowsFinite ==
  ASSUME LrTyped
  PROVE  /\ IsFiniteSet(Rows) /\ Rows \subseteq Written
         /\ \A r, s \in Rows : r.id = s.id => r = s
<1>1. PICK n \in Nat : n = Len(rows) /\ DOMAIN rows = 1..n /\ \A i \in 1..n : rows[i] \in Written
  BY DEF LrTyped
<1>2. rows \in [1..n -> Rows]
  BY <1>1 DEF Rows, LrTyped
<1>3. rows \in Surjection(1..n, Rows)
  BY <1>1, <1>2 DEF Rows, Surjection
<1>4. IsFiniteSet(Rows)
  BY <1>3, FS_Interval, FS_Surjection
<1>5. QED
  BY <1>1, <1>4 DEF Rows, LrTyped

\* A new record was shown to nobody; what it supersedes no longer counts as staying.
LEMMA InsertKeepsScan ==
  ASSUME LrInv, InsertMemory
  PROVE  LrInv'
<1>1. PICK i \in Ids \ RowIds, at \in Times, target \in RowIds \cup {NoId} :
        /\ rows' = Append(rows, [id |-> i, at |-> at, archived |-> FALSE, twin |-> i \in TwinIds, supersedes |-> target])
        /\ reader' = [reader EXCEPT !.staying = IF reader.filters.superseded THEN @ ELSE @ \ {target}]
  BY DEF InsertMemory
<1>2. PICK new : new = [id |-> i, at |-> at, archived |-> FALSE, twin |-> i \in TwinIds, supersedes |-> target]
  OBVIOUS
<1>3. PICK len \in Nat : len = Len(rows) /\ DOMAIN rows = 1..len
  BY DEF LrInv, LrTyped
<1>4. new \in Written /\ new.id = i /\ new.supersedes = target
  <2>1. target \in Ids \cup {NoId}
    BY RowsFinite DEF LrInv, RowIds, Written
  <2>2. (i \in TwinIds) \in BOOLEAN
    OBVIOUS
  <2>3. QED
    BY <1>2, <2>1, <2>2 DEF Written
<1>5. /\ rows' \in Seq(Written) /\ DOMAIN rows' = 1..(len + 1)
      /\ rows'[len + 1] = new /\ \A n \in 1..len : rows'[n] = rows[n]
  BY <1>1, <1>2, <1>3, <1>4 DEF LrInv, LrTyped
<1>6. Rows' = Rows \cup {new}
  BY <1>3, <1>5 DEF Rows
<1>7. \A n \in DOMAIN rows : rows[n].id # i
  BY <1>1 DEF RowIds, Rows
<1>8. LrTyped'
  <2>1. \A m, n \in DOMAIN rows' : rows'[m].id = rows'[n].id => m = n
    <3> SUFFICES ASSUME NEW m \in DOMAIN rows', NEW n \in DOMAIN rows', rows'[m].id = rows'[n].id PROVE m = n
      OBVIOUS
    <3>1. m \in 1..len \/ m = len + 1
      BY <1>3, <1>5
    <3>2. n \in 1..len \/ n = len + 1
      BY <1>3, <1>5
    <3>3. QED
      BY <1>3, <1>4, <1>5, <1>7, <3>1, <3>2 DEF LrInv, LrTyped
  <2>2. QED
    BY <1>1, <1>5, <2>1 DEF LrInv, LrTyped
<1>9. /\ UNCHANGED <<reader.filters, reader.on, reader.cursor, reader.seen, reader.done>>
      /\ reader'.staying = IF reader.filters.superseded THEN reader.staying ELSE reader.staying \ {target}
  BY <1>1 DEF LrInv, LrTyped
<1>10. Seen' = Seen /\ RowIds' = RowIds \cup {i} /\ i \notin RowIds
  BY <1>1, <1>4, <1>6, <1>9 DEF Seen, RowIds
<1>11. ShownFits'
  <2>1. ASSUME NEW r \in Rows', r.id \in Seen PROVE r \in Rows
    BY <1>4, <1>6, <1>10, <2>1 DEF LrInv, ShownFits
  <2>2. QED
    BY <1>9, <1>10, <2>1 DEF LrInv, ShownFits, Older
<1>12. StayingFits'
  <2>1. reader'.staying \subseteq RowIds'
    BY <1>9, <1>10 DEF LrInv, StayingFits
  <2>2. ASSUME NEW r \in Rows', r.id \in reader'.staying
        PROVE  r \in Matching(reader.filters)' /\ (r.id \in Seen \/ (~reader.done /\ Older(r, reader.cursor)))
    <3>1. r \in Rows /\ r.id \in reader.staying
      BY <1>4, <1>6, <1>9, <1>10, <2>2 DEF LrInv, StayingFits
    <3>2. r \in Matching(reader.filters) /\ (r.id \in Seen \/ (~reader.done /\ Older(r, reader.cursor)))
      BY <3>1 DEF LrInv, StayingFits
    <3>3. reader.filters.superseded \/ Successors(r)' = {}
      <4>1. CASE ~reader.filters.superseded
        <5>1. target # r.id
          BY <1>9, <2>2, <4>1
        <5>2. Successors(r)' = Successors(r)
          BY <1>4, <1>6, <5>1 DEF Successors
        <5>3. QED
          BY <3>2, <4>1, <5>2 DEF Matching
      <4>2. QED
        BY <4>1
    <3>4. QED
      BY <1>6, <1>9, <3>1, <3>2, <3>3 DEF Matching
  <2>3. QED
    BY <1>9, <1>10, <2>1, <2>2 DEF StayingFits, Older
<1>13. QED
  BY <1>8, <1>11, <1>12 DEF LrInv

\* An archived row keeps its key and what it supersedes.
LEMMA ArchiveKeepsScan ==
  ASSUME LrInv, Archive
  PROVE  LrInv'
<1>1. PICK n \in DOMAIN rows :
        /\ rows' = [rows EXCEPT ![n].archived = TRUE]
        /\ reader' = [reader EXCEPT !.staying = IF reader.filters.archived THEN @ ELSE @ \ {rows[n].id}]
  BY DEF Archive
<1>2. PICK new : new = [rows[n] EXCEPT !.archived = TRUE]
  OBVIOUS
<1>3. rows \in Seq(Written) /\ rows[n] \in Written
  BY DEF LrInv, LrTyped
<1>4. /\ new \in Written /\ new.id = rows[n].id /\ new.at = rows[n].at /\ new.twin = rows[n].twin
      /\ new.supersedes = rows[n].supersedes /\ Key(new) = Key(rows[n])
  BY <1>2, <1>3 DEF Written, Key
<1>5. /\ rows' \in Seq(Written) /\ DOMAIN rows' = DOMAIN rows
      /\ rows'[n] = new /\ \A m \in DOMAIN rows : m # n => rows'[m] = rows[m]
  BY <1>1, <1>2, <1>3, <1>4
<1>6. LrTyped'
  <2>1. \A m \in DOMAIN rows : rows'[m].id = rows[m].id
    BY <1>4, <1>5
  <2>2. \A m, k \in DOMAIN rows' : rows'[m].id = rows'[k].id => m = k
    BY <1>5, <2>1 DEF LrInv, LrTyped
  <2>3. QED
    BY <1>1, <1>5, <2>2 DEF LrInv, LrTyped
<1>7. /\ UNCHANGED <<reader.filters, reader.on, reader.cursor, reader.seen, reader.done>>
      /\ reader'.staying = IF reader.filters.archived THEN reader.staying ELSE reader.staying \ {rows[n].id}
  BY <1>1 DEF LrInv, LrTyped
<1>8. \A r \in Rows' : \E s \in Rows :
        /\ r.id = s.id /\ r.at = s.at /\ r.twin = s.twin /\ r.supersedes = s.supersedes /\ Key(r) = Key(s)
        /\ r = s \/ s = rows[n]
  <2> SUFFICES ASSUME NEW m \in DOMAIN rows
               PROVE  \E s \in Rows : /\ rows'[m].id = s.id /\ rows'[m].at = s.at /\ rows'[m].twin = s.twin
                                      /\ rows'[m].supersedes = s.supersedes /\ Key(rows'[m]) = Key(s)
                                      /\ rows'[m] = s \/ s = rows[n]
    BY <1>5 DEF Rows
  <2>1. rows[m] \in Rows
    BY DEF Rows
  <2>2. CASE m = n
    BY <1>4, <1>5, <2>1, <2>2
  <2>3. CASE m # n
    BY <1>5, <2>1, <2>3
  <2>4. QED
    BY <2>2, <2>3
<1>9. \A s \in Rows : \E r \in Rows' : r.id = s.id /\ r.supersedes = s.supersedes
  <2> SUFFICES ASSUME NEW m \in DOMAIN rows
               PROVE  \E r \in Rows' : r.id = rows[m].id /\ r.supersedes = rows[m].supersedes
    BY DEF Rows
  <2>1. rows'[m] \in Rows'
    BY <1>5 DEF Rows
  <2>2. rows'[m].id = rows[m].id /\ rows'[m].supersedes = rows[m].supersedes
    BY <1>4, <1>5
  <2>3. QED
    BY <2>1, <2>2
<1>10. Seen' = Seen /\ RowIds' = RowIds
  BY <1>7, <1>8, <1>9 DEF Seen, RowIds
<1>11. ShownFits'
  BY <1>7, <1>8, <1>10 DEF LrInv, ShownFits, Older
<1>12. StayingFits'
  <2>1. ASSUME NEW r \in Rows', r.id \in reader'.staying
        PROVE  r \in Matching(reader.filters)' /\ (r.id \in Seen \/ (~reader.done /\ Older(r, reader.cursor)))
    <3>1. PICK s \in Rows : /\ r.id = s.id /\ r.twin = s.twin /\ Key(r) = Key(s)
                            /\ r = s \/ s = rows[n]
      BY <1>8
    <3>2. s \in Matching(reader.filters) /\ (s.id \in Seen \/ (~reader.done /\ Older(s, reader.cursor)))
      BY <1>7, <2>1, <3>1 DEF LrInv, StayingFits
    <3>3. reader.filters.archived \/ ~r.archived
      BY <1>7, <2>1, <3>1, <3>2 DEF Matching
    <3>4. Successors(s) = {} => Successors(r)' = {}
      BY <1>8, <3>1 DEF Successors
    <3>5. QED
      BY <1>7, <3>1, <3>2, <3>3, <3>4 DEF Matching, Older
  <2>2. QED
    BY <1>7, <1>10, <2>1 DEF LrInv, StayingFits, Older
<1>13. QED
  BY <1>6, <1>11, <1>12 DEF LrInv

\* A scan begins with what is listed then.
LEMMA BeginKeepsScan ==
  ASSUME LrInv, BeginScan
  PROVE  LrInv'
<1>1. /\ UNCHANGED <<rows, reader.filters, reader.cursor, reader.seen, reader.done>>
      /\ reader' = [reader EXCEPT !.on = TRUE, !.staying = {r.id : r \in Matching(reader.filters)}]
      /\ reader'.staying = {r.id : r \in Matching(reader.filters)}
      /\ reader.cursor = FromTop /\ ~reader.done
  BY DEF BeginScan, LrInv, LrTyped, ShownFits
<1>2. UNCHANGED <<Seen, RowIds, Rows>> /\ Matching(reader.filters)' = Matching(reader.filters)
  BY <1>1 DEF Seen, RowIds, Rows, Matching, Successors
<1>3. reader'.staying \subseteq RowIds /\ reader'.staying \subseteq Ids
  <2>1. Matching(reader.filters) \subseteq Rows
    BY DEF Matching
  <2>2. QED
    BY <1>1, <2>1, RowsFinite DEF RowIds, Written, LrInv
<1>4. LrTyped'
  BY <1>1, <1>3 DEF LrInv, LrTyped
<1>5. ASSUME NEW r \in Rows, r.id \in reader'.staying PROVE r \in Matching(reader.filters)
  <2>1. PICK s \in Matching(reader.filters) : s.id = r.id
    BY <1>1, <1>5
  <2>2. s \in Rows
    BY <2>1 DEF Matching
  <2>3. QED
    BY <2>1, <2>2, RowsFinite DEF LrInv
<1>6. ShownFits'
  BY <1>1, <1>2 DEF LrInv, ShownFits, Older
<1>7. StayingFits'
  BY <1>1, <1>2, <1>3, <1>5 DEF StayingFits, Older
<1>8. QED
  BY <1>4, <1>6, <1>7 DEF LrInv

\* The next page shows what was not shown, and passes over nothing.
LEMMA PageKeepsScan ==
  ASSUME LrInv, NextPage
  PROVE  LrInv'
<1>1. PICK S : S = {r \in Matching(reader.filters) : Older(r, reader.cursor)}
  OBVIOUS
<1>2. PICK found : found = Top(S, Limit + 1)
  OBVIOUS
<1>3. PICK page : page = Top(found, Limit)
  OBVIOUS
<1>4. PICK next : next = IF Cardinality(found) > Limit /\ page # {} THEN Key(Oldest(page)) ELSE FromTop
  OBVIOUS
<1>5. LatestMemories(reader.filters, reader.cursor) = [ids |-> {r.id : r \in page}, next |-> next]
  BY <1>1, <1>2, <1>3, <1>4 DEF LatestMemories, PgListLatest
<1>6. /\ UNCHANGED <<rows, reader.filters, reader.on, reader.staying>>
      /\ reader' = [reader EXCEPT !.seen = Append(reader.seen, {r.id : r \in page}), !.cursor = next, !.done = (next = FromTop)]
      /\ reader'.seen = Append(reader.seen, {r.id : r \in page}) /\ reader'.cursor = next
      /\ reader'.done = (next = FromTop) /\ reader.on /\ ~reader.done
  <2>1. PICK out : out = LatestMemories(reader.filters, reader.cursor)
    OBVIOUS
  <2>2. out.ids = {r.id : r \in page} /\ out.next = next
    BY <1>5, <2>1
  <2>3. /\ reader' = [reader EXCEPT !.seen = Append(reader.seen, out.ids), !.cursor = out.next, !.done = (out.next = FromTop)]
        /\ UNCHANGED rows /\ reader.on /\ ~reader.done
    BY <2>1 DEF NextPage
  <2>4. QED
    BY <2>2, <2>3 DEF LrInv, LrTyped
<1>7. Limit \in Nat /\ Limit \in Nat \ {0} /\ Limit + 1 \in Nat
  BY LrConstantsOK
<1>8. /\ IsFiniteSet(S) /\ S \subseteq Rows /\ S \subseteq Written
      /\ found \subseteq S /\ IsFiniteSet(found) /\ page \subseteq found
      /\ found \subseteq Written /\ page \subseteq Written
  BY <1>1, <1>2, <1>3, RowsFinite, FS_Subset DEF LrInv, Matching, Top
<1>9. \A r \in Rows : Key(r) \in RowKeys /\ Key(r) # FromTop /\ r.id \in Ids
  BY RowsFinite, RowKey DEF LrInv, Written
<1>10. ASSUME next # FromTop
       PROVE  /\ next \in RowKeys
              /\ \A r \in Rows : ~Older(r, reader.cursor) \/ r \in page => ~Before(Key(r), next)
              /\ \A r \in S : r \in page \/ Before(Key(r), next)
  <2>1. page # {} /\ next = Key(Oldest(page)) /\ Oldest(page) \in page
        /\ \A s \in page : ~Before(Key(s), next)
    BY <1>4, <1>8, <1>10, OldestIs
  <2>2. Oldest(page) \in S /\ next \in RowKeys
    BY <1>8, <1>9, <2>1
  <2>3. ASSUME NEW r \in Rows, ~Older(r, reader.cursor) PROVE ~Before(Key(r), next)
    <3>1. reader.cursor \in RowKeys /\ ~Before(Key(r), reader.cursor) /\ Before(next, reader.cursor)
      BY <1>1, <2>1, <2>2, <2>3 DEF Older, LrInv, LrTyped
    <3>2. QED
      BY <1>9, <2>2, <3>1, KeysInOrder
  <2>4. ASSUME NEW r \in S, ~Before(Key(r), next) PROVE r \in page
    <3>1. Oldest(page) \in Top(S, Limit + 1) /\ Oldest(page) \in Top(found, Limit)
      BY <1>2, <1>3, <1>8, <2>1
    <3>2. ~Before(Key(r), Key(Oldest(page)))
      BY <2>1, <2>4
    <3>3. r \in found
      BY <1>2, <1>7, <1>8, <3>1, <3>2, TopIsUpper
    <3>4. QED
      BY <1>3, <1>7, <1>8, <3>1, <3>2, <3>3, TopIsUpper
  <2>5. QED
    BY <2>1, <2>2, <2>3, <2>4
<1>11. ASSUME next = FromTop PROVE page = S
  <2>1. Cardinality(found) \in Nat
    BY <1>8, FS_CardinalityType
  <2>2. CASE Cardinality(found) <= Limit
    <3>1. found = S /\ Top(S, Limit) = S
      BY <1>2, <1>7, <1>8, <2>2, TopIsAll
    <3>2. QED
      BY <1>3, <3>1
  <2>3. CASE Cardinality(found) > Limit
    <3>1. found # {}
      BY <1>7, <2>1, <2>3, FS_EmptySet
    <3>2. page # {}
      BY <1>3, <1>7, <1>8, <3>1, TopHasOne
    <3>3. Oldest(page) \in page
      BY <1>8, <3>2, OldestIs
    <3>4. next = Key(Oldest(page)) /\ Oldest(page) \in Rows
      BY <1>4, <1>8, <2>3, <3>2, <3>3
    <3>5. QED
      BY <1>9, <1>11, <3>4
  <2>4. QED
    BY <1>7, <2>1, <2>2, <2>3
<1>12. UNCHANGED <<RowIds, Rows>> /\ Matching(reader.filters)' = Matching(reader.filters)
  BY <1>6 DEF RowIds, Rows, Matching, Successors
<1>13. PICK ids : ids = {r.id : r \in page}
  OBVIOUS
<1>14. ids \subseteq Ids /\ ids \subseteq RowIds
  BY <1>8, <1>9, <1>13 DEF RowIds
<1>15. PICK len \in Nat : len = Len(reader.seen) /\ DOMAIN reader.seen = 1..len
  BY DEF LrInv, LrTyped
<1>16. /\ reader'.seen \in Seq(SUBSET Ids) /\ DOMAIN reader'.seen = 1..(len + 1)
       /\ reader'.seen[len + 1] = ids /\ \A n \in 1..len : reader'.seen[n] = reader.seen[n]
  BY <1>6, <1>13, <1>14, <1>15 DEF LrInv, LrTyped
<1>17. Seen' = Seen \cup ids
  BY <1>15, <1>16 DEF Seen
<1>18. \A r \in Rows : r.id \in ids => r \in page
  BY <1>8, <1>13, RowsFinite DEF LrInv
<1>19. LrTyped'
  <2>1. reader'.cursor \in {FromTop} \cup RowKeys
    BY <1>6, <1>10
  <2>2. QED
    BY <1>6, <1>16, <2>1 DEF LrInv, LrTyped
<1>20. ids \cap Seen = {}
  <2> SUFFICES ASSUME NEW i \in ids, i \in Seen PROVE FALSE
    OBVIOUS
  <2>1. PICK r \in page : r.id = i
    BY <1>13
  <2>2. r \in Rows /\ Older(r, reader.cursor)
    BY <1>1, <1>8
  <2>3. QED
    BY <1>6, <2>1, <2>2 DEF LrInv, ShownFits
<1>21. ShownFits'
  <2>1. ASSUME NEW m \in DOMAIN reader'.seen, NEW n \in DOMAIN reader'.seen, m # n
        PROVE  reader'.seen[m] \cap reader'.seen[n] = {}
    <3>1. \A k \in 1..len : reader.seen[k] \cap ids = {}
      BY <1>15, <1>20 DEF Seen
    <3>2. m \in 1..len \/ m = len + 1
      BY <1>16
    <3>3. n \in 1..len \/ n = len + 1
      BY <1>16
    <3>4. QED
      BY <1>15, <1>16, <2>1, <3>1, <3>2, <3>3 DEF LrInv, ShownFits
  <2>2. ASSUME next # FromTop, NEW r \in Rows, r.id \in Seen' PROVE ~Older(r, next)
    <3>1. ~Older(r, reader.cursor) \/ r \in page
      BY <1>6, <1>17, <1>18, <2>2 DEF LrInv, ShownFits
    <3>2. QED
      BY <1>10, <2>2, <3>1 DEF Older
  <2>3. Seen' \subseteq RowIds
    BY <1>14, <1>17 DEF LrInv, ShownFits
  <2>4. QED
    BY <1>6, <1>12, <2>1, <2>2, <2>3 DEF ShownFits, Older
<1>22. StayingFits'
  <2>1. ASSUME NEW r \in Rows, r.id \in reader.staying
        PROVE  r \in Matching(reader.filters) /\ (r.id \in Seen' \/ (next # FromTop /\ Older(r, next)))
    <3>1. r \in Matching(reader.filters) /\ (r.id \in Seen \/ Older(r, reader.cursor))
      BY <2>1 DEF LrInv, StayingFits
    <3>2. CASE r \in S
      <4>1. r \in page \/ (next # FromTop /\ Before(Key(r), next))
        BY <1>10, <1>11, <3>2
      <4>2. QED
        BY <1>13, <1>17, <3>1, <4>1 DEF Older
    <3>3. QED
      BY <1>1, <1>17, <3>1, <3>2
  <2>2. QED
    BY <1>6, <1>12, <2>1 DEF LrInv, StayingFits, Older
<1>23. QED
  BY <1>19, <1>21, <1>22 DEF LrInv

-----------------------------------------------------------------------------
(* The loop of the JSON store *)

\* A set of naturals that holds zero and the successor of each of its numbers holds them all.
LEMMA EveryNumber ==
  ASSUME NEW S \in SUBSET Nat, 0 \in S, \A n \in S : n + 1 \in S
  PROVE  \A n \in Nat : n \in S
<1>1. SUFFICES ASSUME Nat \ S # {} PROVE FALSE
  OBVIOUS
<1>2. PICK m \in Nat \ S : \A y \in Nat \ S : m <= y
  BY <1>1, LeastNumber
<1>3. m \in Nat /\ m # 0
  BY <1>2
<1>4. m - 1 \in Nat /\ ~(m <= m - 1) /\ (m - 1) + 1 = m
  BY <1>3
<1>5. m - 1 \in S
  BY <1>2, <1>4
<1>6. QED
  BY <1>2, <1>4, <1>5

\* What the loop holds after each of the first n rows.
IsLoop(g, s, n) == g = [m \in 0..n |-> IF m = 0 THEN <<>> ELSE Met(g[m - 1], s[m])]

\* The loop has such a run.
LEMMA LoopExists ==
  ASSUME NEW s
  PROVE  \A n \in Nat : \E g : IsLoop(g, s, n)
<1> DEFINE S == {n \in Nat : \E g : IsLoop(g, s, n)}
<1>1. 0 \in S
  <2>1. IsLoop([m \in 0..0 |-> <<>>], s, 0)
    BY DEF IsLoop
  <2>2. QED
    BY <2>1
<1>2. ASSUME NEW n \in S PROVE n + 1 \in S
  <2>1. PICK g : IsLoop(g, s, n)
    OBVIOUS
  <2>2. PICK h : h = [m \in 0..(n + 1) |-> IF m <= n THEN g[m] ELSE Met(g[n], s[n + 1])]
    OBVIOUS
  <2>3. ASSUME NEW m \in 0..(n + 1) PROVE h[m] = IF m = 0 THEN <<>> ELSE Met(h[m - 1], s[m])
    <3>1. n \in Nat
      OBVIOUS
    <3>2. CASE m <= n
      <4>1. m \in 0..n /\ (m # 0 => m - 1 \in 0..(n + 1) /\ m - 1 <= n)
        BY <3>1, <3>2
      <4>2. h[m] = g[m] /\ (m # 0 => h[m - 1] = g[m - 1])
        BY <2>2, <3>2, <4>1
      <4>3. g[m] = IF m = 0 THEN <<>> ELSE Met(g[m - 1], s[m])
        BY <2>1, <4>1 DEF IsLoop
      <4>4. QED
        BY <4>2, <4>3
    <3>3. CASE ~(m <= n)
      <4>1. m = n + 1 /\ m # 0 /\ m - 1 = n /\ n \in 0..(n + 1) /\ n <= n
        BY <3>1, <3>3
      <4>2. h[m] = Met(g[n], s[n + 1]) /\ h[n] = g[n]
        BY <2>2, <3>3, <4>1
      <4>3. QED
        BY <4>1, <4>2
    <3>4. QED
      BY <3>2, <3>3
  <2>4. IsLoop(h, s, n + 1)
    <3>1. h = [m \in 0..(n + 1) |-> h[m]]
      BY <2>2
    <3>2. QED
      BY <2>3, <3>1 DEF IsLoop
  <2>5. QED
    BY <2>4
<1>3. \A n \in Nat : n \in S
  BY <1>1, <1>2, EveryNumber
<1>4. QED
  BY <1>3

\* NewestSuccessor is what such a run ends with.
LEMMA LoopIs ==
  ASSUME NEW n \in Nat, Len(rows) = n
  PROVE  \E g : IsLoop(g, rows, n) /\ NewestSuccessor = g[n]
<1>1. NewestSuccessor = (CHOOSE g : IsLoop(g, rows, n))[n]
  BY DEF NewestSuccessor, IsLoop
<1>2. \E g : IsLoop(g, rows, n)
  BY LoopExists
<1>3. PICK g : g = CHOOSE h : IsLoop(h, rows, n)
  OBVIOUS
<1>4. IsLoop(g, rows, n)
  BY <1>2, <1>3
<1>5. NewestSuccessor = g[n]
  BY <1>1, <1>3
<1>6. QED
  BY <1>4, <1>5

\* After n rows: for each record that one of them supersedes, the key of the newest of these.
NewestSoFar(succ, n) ==
  /\ DOMAIN succ = {rows[m].supersedes : m \in 1..n} \ {NoId}
  /\ \A u \in DOMAIN succ : \E m \in 1..n :
       /\ rows[m].supersedes = u /\ succ[u] = Key(rows[m])
       /\ \A k \in 1..n : rows[k].supersedes = u => ~Before(succ[u], Key(rows[k]))

\* One more row keeps that.
LEMMA MetIsNewest ==
  ASSUME LrTyped, NEW n \in Nat, n + 1 <= Len(rows), NEW succ, NewestSoFar(succ, n)
  PROVE  NewestSoFar(Met(succ, rows[n + 1]), n + 1)
<1>1. PICK r : r = rows[n + 1]
  OBVIOUS
<1>2. PICK new : new = Met(succ, r)
  OBVIOUS
<1>3. /\ \A m \in 1..(n + 1) : rows[m] \in Written /\ Key(rows[m]) \in RowKeys
      /\ \A m \in 1..(n + 1) : m \in 1..n \/ m = n + 1
      /\ n + 1 \in 1..(n + 1) /\ 1..n \subseteq 1..(n + 1)
  <2>1. \A m \in 1..(n + 1) : rows[m] \in Written
    BY DEF LrTyped
  <2>2. QED
    BY <2>1, RowKey
<1>4. CASE r.supersedes # NoId /\ (r.supersedes \notin DOMAIN succ \/ Before(succ[r.supersedes], Key(r)))
  <2>1. new = [u \in DOMAIN succ \cup {r.supersedes} |-> IF u = r.supersedes THEN Key(r) ELSE succ[u]]
    BY <1>2, <1>4 DEF Met
  <2>2. DOMAIN new = {rows[m].supersedes : m \in 1..(n + 1)} \ {NoId}
    BY <1>1, <1>3, <1>4, <2>1 DEF NewestSoFar
  <2>3. ASSUME NEW u \in DOMAIN new
        PROVE  \E m \in 1..(n + 1) :
                 /\ rows[m].supersedes = u /\ new[u] = Key(rows[m])
                 /\ \A k \in 1..(n + 1) : rows[k].supersedes = u => ~Before(new[u], Key(rows[k]))
    <3>1. CASE u = r.supersedes
      <4>1. new[u] = Key(rows[n + 1]) /\ rows[n + 1].supersedes = u
        BY <1>1, <2>1, <2>3, <3>1
      <4>2. ASSUME NEW k \in 1..n, rows[k].supersedes = u PROVE ~Before(new[u], Key(rows[k]))
        <5>1. u \in DOMAIN succ
          BY <1>4, <3>1, <4>2 DEF NewestSoFar
        <5>2. PICK m \in 1..n : succ[u] = Key(rows[m]) /\ ~Before(succ[u], Key(rows[k]))
          BY <4>2, <5>1 DEF NewestSoFar
        <5>3. Before(succ[u], Key(r))
          BY <1>4, <3>1, <5>1
        <5>4. QED
          BY <1>1, <1>3, <4>1, <5>2, <5>3, KeysInOrder
      <4>3. ~Before(new[u], Key(rows[n + 1]))
        BY <1>3, <4>1, KeysInOrder
      <4>4. QED
        BY <1>3, <4>1, <4>2, <4>3
    <3>2. CASE u # r.supersedes
      <4>1. u \in DOMAIN succ /\ new[u] = succ[u]
        BY <2>1, <2>3, <3>2
      <4>2. QED
        BY <1>1, <1>3, <3>2, <4>1 DEF NewestSoFar
    <3>3. QED
      BY <3>1, <3>2
  <2>4. QED
    BY <1>1, <1>2, <2>2, <2>3 DEF NewestSoFar
<1>5. CASE ~(r.supersedes # NoId /\ (r.supersedes \notin DOMAIN succ \/ Before(succ[r.supersedes], Key(r))))
  <2>1. new = succ
    BY <1>2, <1>5 DEF Met
  <2>2. DOMAIN succ = {rows[m].supersedes : m \in 1..(n + 1)} \ {NoId}
    BY <1>1, <1>3, <1>5 DEF NewestSoFar
  <2>3. ASSUME NEW u \in DOMAIN succ
        PROVE  \E m \in 1..(n + 1) :
                 /\ rows[m].supersedes = u /\ succ[u] = Key(rows[m])
                 /\ \A k \in 1..(n + 1) : rows[k].supersedes = u => ~Before(succ[u], Key(rows[k]))
    <3>1. PICK m \in 1..n : /\ rows[m].supersedes = u /\ succ[u] = Key(rows[m])
                            /\ \A k \in 1..n : rows[k].supersedes = u => ~Before(succ[u], Key(rows[k]))
      BY <2>3 DEF NewestSoFar
    <3>2. u = r.supersedes => ~Before(succ[u], Key(r))
      BY <1>5, <2>2, <2>3
    <3>3. QED
      BY <1>1, <1>3, <3>1, <3>2
  <2>4. QED
    BY <1>1, <1>2, <2>1, <2>2, <2>3 DEF NewestSoFar
<1>6. QED
  BY <1>4, <1>5

\* So it holds when the loop ends.
LEMMA LoopIsNewest ==
  ASSUME LrTyped
  PROVE  NewestSoFar(NewestSuccessor, Len(rows))
<1>1. PICK len \in Nat : len = Len(rows)
  BY DEF LrTyped
<1>2. PICK g : IsLoop(g, rows, len) /\ NewestSuccessor = g[len]
  BY <1>1, LoopIs
<1> DEFINE S == {n \in Nat : n <= len => NewestSoFar(g[n], n)}
<1>3. 0 \in S
  <2>1. g[0] = <<>> /\ DOMAIN <<>> = {} /\ 1..0 = {}
    BY <1>2 DEF IsLoop
  <2>2. QED
    BY <2>1 DEF NewestSoFar
<1>4. ASSUME NEW n \in S PROVE n + 1 \in S
  <2>1. CASE n + 1 <= len
    <3>1. n \in Nat /\ n <= len /\ n + 1 \in 0..len /\ n + 1 # 0 /\ (n + 1) - 1 = n
      BY <2>1
    <3>2. g[n + 1] = Met(g[n], rows[n + 1])
      <4>1. PICK m \in 0..len : m = n + 1
        BY <3>1
      <4>2. g[m] = Met(g[m - 1], rows[m])
        BY <1>2, <3>1, <4>1 DEF IsLoop
      <4>3. QED
        BY <3>1, <4>1, <4>2
    <3>3. NewestSoFar(g[n], n)
      BY <3>1
    <3>4. QED
      BY <1>1, <2>1, <3>1, <3>2, <3>3, MetIsNewest
  <2>2. QED
    BY <2>1
<1>5. \A n \in Nat : n \in S
  BY <1>3, <1>4, EveryNumber
<1>6. QED
  BY <1>1, <1>2, <1>5

\* The loop finds a successor where there is one, and the newest.
LEMMA LoopAgrees ==
  ASSUME LrTyped, NEW r \in Rows
  PROVE  /\ r.id \in DOMAIN NewestSuccessor <=> Successors(r) # {}
         /\ SupersededBy(r) = IF r.id \in DOMAIN NewestSuccessor THEN NewestSuccessor[r.id][2] ELSE NoId
<1>1. PICK succ : succ = NewestSuccessor
  OBVIOUS
<1>2. PICK len \in Nat : len = Len(rows) /\ DOMAIN rows = 1..len
  BY DEF LrTyped
<1>3. NewestSoFar(succ, len)
  BY <1>1, <1>2, LoopIsNewest
<1>4. r \in Written /\ r.id # NoId
  BY RowsFinite, RowKey
<1>5. r.id \in DOMAIN succ <=> Successors(r) # {}
  BY <1>2, <1>3, <1>4 DEF NewestSoFar, Successors, Rows
<1>6. ASSUME r.id \in DOMAIN succ PROVE SupersededBy(r) = succ[r.id][2]
  <2>1. PICK m \in 1..len : /\ rows[m].supersedes = r.id /\ succ[r.id] = Key(rows[m])
                            /\ \A k \in 1..len : rows[k].supersedes = r.id => ~Before(succ[r.id], Key(rows[k]))
    BY <1>3, <1>6 DEF NewestSoFar
  <2>2. Successors(r) \subseteq Rows /\ rows[m] \in Successors(r)
    BY <1>2, <2>1 DEF Successors, Rows
  <2>3. Newer(Successors(r), rows[m]) = {}
    BY <1>2, <2>1 DEF Newer, Successors, Rows
  <2>4. ASSUME NEW s \in Successors(r), Newer(Successors(r), s) = {} PROVE s.id = rows[m].id
    <3>1. ~Before(Key(s), Key(rows[m])) /\ ~Before(Key(rows[m]), Key(s))
      BY <2>2, <2>3, <2>4 DEF Newer
    <3>2. s \in Written /\ rows[m] \in Written
      BY <2>2, RowsFinite
    <3>3. Key(s)[2] = Key(rows[m])[2]
      BY <3>1, <3>2, RowKey, KeysInOrder
    <3>4. QED
      BY <3>2, <3>3, RowKey
  <2>5. PICK t : t = CHOOSE s \in Successors(r) : Newer(Successors(r), s) = {}
    OBVIOUS
  <2>6. t \in Successors(r) /\ Newer(Successors(r), t) = {}
    BY <2>2, <2>3, <2>5
  <2>7. SupersededBy(r) = t.id
    BY <2>2, <2>5 DEF SupersededBy
  <2>8. succ[r.id][2] = rows[m].id
    BY <2>1, <2>2, RowsFinite, RowKey
  <2>9. QED
    BY <2>4, <2>6, <2>7, <2>8
<1>7. ASSUME r.id \notin DOMAIN succ PROVE SupersededBy(r) = NoId
  BY <1>5, <1>7 DEF SupersededBy
<1>8. QED
  BY <1>1, <1>5, <1>6, <1>7

\* Both stores give the same rows with the same successors, for any filter, cursor and limit.
LEMMA StoresListTheSame ==
  ASSUME LrTyped, NEW f \in Filters, NEW after, NEW limit
  PROVE  PgListLatest(f, after, limit) = JsonListLatest(f, after, limit)
<1>1. PICK succ : succ = NewestSuccessor
  OBVIOUS
<1>2. PICK S : S = {r \in Matching(f) : Older(r, after)}
  OBVIOUS
<1>3. PICK skipped : skipped = {r \in Rows :
        \/ r.twin /\ ~f.twin
        \/ r.archived /\ ~f.archived
        \/ r.id \in DOMAIN succ /\ ~f.superseded
        \/ after # FromTop /\ ~Before(Key(r), after)}
  OBVIOUS
<1>4. \A r \in Rows : /\ r.id \in DOMAIN succ <=> Successors(r) # {}
                      /\ SupersededBy(r) = IF r.id \in DOMAIN succ THEN succ[r.id][2] ELSE NoId
  BY <1>1, LoopAgrees
<1>5. S = Rows \ skipped
  BY <1>2, <1>3, <1>4 DEF Matching, Older
<1>6. JsonListLatest(f, after, limit)
        = [r \in Top(Rows \ skipped, limit) |-> IF r.id \in DOMAIN succ THEN succ[r.id][2] ELSE NoId]
  BY <1>1, <1>3 DEF JsonListLatest
<1>7. PgListLatest(f, after, limit) = [r \in Top(S, limit) |-> SupersededBy(r)]
  BY <1>2 DEF PgListLatest
<1>8. \A r \in Top(S, limit) : r \in Rows
  BY <1>5 DEF Top
<1>9. QED
  BY <1>4, <1>5, <1>6, <1>7, <1>8

\* Every step keeps the invariant of the scan.
LEMMA ScanStep == LrInv /\ [LrNext]_lrVars => LrInv'
<1> SUFFICES ASSUME LrInv, [LrNext]_lrVars PROVE LrInv'
  OBVIOUS
<1>1. CASE UNCHANGED lrVars
  BY <1>1 DEF lrVars, LrInv, LrTyped, ShownFits, StayingFits, Seen, Rows, RowIds, Matching, Successors, Older
<1>2. CASE InsertMemory
  BY <1>2, InsertKeepsScan
<1>3. CASE Archive
  BY <1>3, ArchiveKeepsScan
<1>4. CASE BeginScan
  BY <1>4, BeginKeepsScan
<1>5. CASE NextPage
  BY <1>5, PageKeepsScan
<1>6. QED
  BY <1>1, <1>2, <1>3, <1>4, <1>5 DEF LrNext

\* Before anything was written or read it holds.
LEMMA ScanStart == LrInit => LrInv
<1> SUFFICES ASSUME LrInit PROVE LrInv
  OBVIOUS
<1>1. PICK f \in ScanFilters : /\ rows = <<>>
        /\ reader = [filters |-> f, on |-> FALSE, cursor |-> FromTop, seen |-> <<>>, staying |-> {}, done |-> FALSE]
  BY DEF LrInit
<1>2. f \in Filters
  BY LrConstantsOK
<1>3. LrTyped /\ Rows = {} /\ RowIds = {} /\ Seen = {}
  BY <1>1, <1>2 DEF LrTyped, Rows, RowIds, Seen
<1>4. QED
  BY <1>1, <1>3 DEF LrInv, ShownFits, StayingFits

\* The pages of a scan, whatever is created, archived or superseded between them, show no
\* record twice and in the end every record that was listed all along; and the two stores
\* list the same records with the same successors.
THEOREM ListingsAreSound == LrSpec => []ListingIsSound
<1>1. LrInit => LrInv
  BY ScanStart
<1>2. LrInv /\ [LrNext]_lrVars => LrInv'
  BY ScanStep
<1>3. LrInv => ListingIsSound
  <2> SUFFICES ASSUME LrInv PROVE ListingIsSound
    OBVIOUS
  <2>1. ASSUME reader.done, NEW i \in reader.staying PROVE i \in Seen
    <3>1. PICK r \in Rows : r.id = i
      BY <2>1 DEF LrInv, StayingFits, RowIds
    <3>2. QED
      BY <2>1, <3>1 DEF LrInv, StayingFits
  <2>2. PagedOnce
    BY <2>1 DEF PagedOnce, LrInv, ShownFits, Seen
  <2>3. StoresAgree
    BY StoresListTheSame DEF StoresAgree, LrInv
  <2>4. QED
    BY <2>2, <2>3 DEF ListingIsSound
<1>4. QED
  BY <1>1, <1>2, <1>3, PTL DEF LrSpec

-----------------------------------------------------------------------------
(* What a bond is worth, and what it gives *)

LEMMA Products ==
  /\ \A a, b \in Nat : a * b \in Nat
  /\ \A a, b, k \in Nat : a <= b => a * k <= b * k
OBVIOUS

\* Hundredths of a number, rounded down.
LEMMA Hundredths ==
  /\ \A a \in Nat : a \div 100 \in Nat
  /\ \A a, b \in Nat : a <= b => a \div 100 <= b \div 100
OBVIOUS

LEMMA Decays ==
  /\ \A a \in Nat : (a * HopDecay) \div 100 \in Nat /\ (a * HopDecay) \div 100 <= a
  /\ \A a, b \in Nat : a <= b => (a * HopDecay) \div 100 <= (b * HopDecay) \div 100
BY DEF HopDecay

\* What is followed later, or from a weaker way, gives no more.
LEMMA HopIs ==
  ASSUME NEW s \in Nat, NEW e \in Nat, NEW d \in Nat
  PROVE  Hop(s, e, d) \in Nat /\ (s = 0 => Hop(s, e, d) = 0)
<1>1. s * e \in Nat
  BY Products
<1>2. (s * e) \div 100 \in Nat
  BY <1>1, Hundredths
<1>3. PICK x \in Nat : x = (s * e) \div 100
  BY <1>2
<1>4. Hop(s, e, d) = IF d > 1 THEN (x * HopDecay) \div 100 ELSE x
  BY <1>3 DEF Hop
<1>5. (x * HopDecay) \div 100 \in Nat /\ (x * HopDecay) \div 100 <= x
  BY Decays
<1>6. s = 0 => x = 0
  <2>1. ASSUME s = 0 PROVE s * e = 0
    BY <2>1
  <2>2. QED
    BY <1>3, <2>1
<1>7. QED
  BY <1>4, <1>5, <1>6

LEMMA HopOrder ==
  ASSUME NEW s \in Nat, NEW t \in Nat, s <= t, NEW e \in Nat, NEW d \in Nat, NEW n \in Nat, n <= d
  PROVE  Hop(s, e, d) <= Hop(t, e, n)
<1>1. s * e \in Nat /\ t * e \in Nat /\ s * e <= t * e
  BY Products
<1>2. PICK x \in Nat, y \in Nat : x = (s * e) \div 100 /\ y = (t * e) \div 100 /\ x <= y
  BY <1>1, Hundredths
<1>3. /\ Hop(s, e, d) = IF d > 1 THEN (x * HopDecay) \div 100 ELSE x
      /\ Hop(t, e, n) = IF n > 1 THEN (y * HopDecay) \div 100 ELSE y
  BY <1>2 DEF Hop
<1>4. /\ (x * HopDecay) \div 100 \in Nat /\ (x * HopDecay) \div 100 <= x
      /\ (y * HopDecay) \div 100 \in Nat /\ (x * HopDecay) \div 100 <= (y * HopDecay) \div 100
  BY <1>2, Decays
<1>5. QED
  BY <1>2, <1>3, <1>4

LEMMA BoostOrder ==
  ASSUME NEW base \in Nat, NEW s \in Nat, NEW t \in Nat, s <= t
  PROVE  Boost(base, s) \in Nat /\ Boost(base, t) \in Nat /\ Boost(base, s) <= Boost(base, t)
<1>1. base * s \in Nat /\ base * t \in Nat /\ base * s <= base * t
  <2>1. s * base \in Nat /\ t * base \in Nat /\ s * base <= t * base
    BY Products
  <2>2. s * base = base * s /\ t * base = base * t
    OBVIOUS
  <2>3. QED
    BY <2>1, <2>2
<1>2. PICK x \in Nat, y \in Nat : x = base * s /\ y = base * t /\ x <= y
  BY <1>1
<1>3. x * GraphWeight \in Nat /\ y * GraphWeight \in Nat /\ x * GraphWeight <= y * GraphWeight
  BY <1>2 DEF GraphWeight
<1>4. Boost(base, s) = (x * GraphWeight) \div 100 /\ Boost(base, t) = (y * GraphWeight) \div 100
  BY <1>2 DEF Boost
<1>5. QED
  BY <1>3, <1>4, Hundredths

LEMMA BoostIs ==
  ASSUME NEW base \in Nat, NEW s \in Nat
  PROVE  Boost(base, s) \in Nat
<1>1. s <= s
  OBVIOUS
<1>2. QED
  BY <1>1, BoostOrder

LEMMA NoBoost == \A base \in Nat : Boost(base, 0) = 0
<1> SUFFICES ASSUME NEW base \in Nat PROVE Boost(base, 0) = 0
  OBVIOUS
<1>1. base * 0 = 0
  OBVIOUS
<1>2. QED
  BY <1>1 DEF Boost, GraphWeight

LEMMA EdgeIs ==
  ASSUME NEW m \in Corpora, NEW a \in DOMAIN m, NEW b \in DOMAIN m
  PROVE  Edge(m, a, b) \in Nat
<1>1. Explicit(m, a, b) \in Nat
  BY DEF Explicit
<1>2. Bond(m, a, b) \in Nat
  <2>1. IsFiniteSet(m[a].tags) /\ IsFiniteSet(m[b].tags)
    BY EbConstantsOK
  <2>2. IsFiniteSet(m[a].tags \cap m[b].tags) /\ IsFiniteSet(m[a].tags \cup m[b].tags)
    BY <2>1, FS_Subset, FS_Union
  <2>3. PICK shared \in Nat, all \in Nat : /\ shared = Cardinality(m[a].tags \cap m[b].tags)
                                           /\ all = Cardinality(m[a].tags \cup m[b].tags)
    BY <2>2, FS_CardinalityType
  <2>4. Bond(m, a, b) = IF a = b THEN 0
                        ELSE (IF SameSubject(m, a, b) THEN 60 ELSE 0) + (IF all = 0 THEN 0 ELSE (40 * shared) \div all)
    BY <2>3 DEF Bond
  <2>5. all # 0 => (40 * shared) \div all \in Nat
    <3>1. \A x \in Nat, y \in Nat \ {0} : x \div y \in Nat
      OBVIOUS
    <3>2. 40 * shared \in Nat
      OBVIOUS
    <3>3. QED
      BY <3>1, <3>2
  <2>6. QED
    BY <2>4, <2>5
<1>3. QED
  BY <1>1, <1>2 DEF Edge

-----------------------------------------------------------------------------
(* The ways *)

StepEnds(m, ends, d) ==
  UNION {{[at |-> b, strength |-> Hop(w.strength, Edge(m, w.at, b), d)] : b \in Neighbors(m, w.at)} : w \in ends}

\* The ends of the ways of up to n edges.
IsEnds(g, m, seed, n) ==
  g = [d \in 0..n |-> IF d = 0 THEN {[at |-> seed, strength |-> Unit]} ELSE StepEnds(m, g[d - 1], d)]

LEMMA EndsExist ==
  ASSUME NEW m, NEW seed
  PROVE  \A n \in Nat : \E g : IsEnds(g, m, seed, n)
<1> DEFINE S == {n \in Nat : \E g : IsEnds(g, m, seed, n)}
           Start == {[at |-> seed, strength |-> Unit]}
<1>1. 0 \in S
  <2>1. IsEnds([d \in 0..0 |-> Start], m, seed, 0)
    BY DEF IsEnds
  <2>2. QED
    BY <2>1
<1>2. ASSUME NEW n \in S PROVE n + 1 \in S
  <2>1. PICK g : IsEnds(g, m, seed, n)
    OBVIOUS
  <2>2. PICK h : h = [d \in 0..(n + 1) |-> IF d <= n THEN g[d] ELSE StepEnds(m, g[n], n + 1)]
    OBVIOUS
  <2>3. ASSUME NEW d \in 0..(n + 1) PROVE h[d] = IF d = 0 THEN Start ELSE StepEnds(m, h[d - 1], d)
    <3>1. n \in Nat
      OBVIOUS
    <3>2. CASE d <= n
      <4>1. d \in 0..n /\ (d # 0 => d - 1 \in 0..(n + 1) /\ d - 1 <= n)
        BY <3>1, <3>2
      <4>2. h[d] = g[d] /\ (d # 0 => h[d - 1] = g[d - 1])
        BY <2>2, <3>2, <4>1
      <4>3. g[d] = IF d = 0 THEN Start ELSE StepEnds(m, g[d - 1], d)
        BY <2>1, <4>1 DEF IsEnds
      <4>4. QED
        BY <4>2, <4>3
    <3>3. CASE ~(d <= n)
      <4>1. d = n + 1 /\ d # 0 /\ d - 1 = n /\ n \in 0..(n + 1) /\ n <= n
        BY <3>1, <3>3
      <4>2. h[d] = StepEnds(m, g[n], n + 1) /\ h[n] = g[n]
        BY <2>2, <3>3, <4>1
      <4>3. QED
        BY <4>1, <4>2
    <3>4. QED
      BY <3>2, <3>3
  <2>4. IsEnds(h, m, seed, n + 1)
    <3>1. h = [d \in 0..(n + 1) |-> h[d]]
      BY <2>2
    <3>2. QED
      BY <2>3, <3>1 DEF IsEnds
  <2>5. QED
    BY <2>4
<1>3. \A n \in Nat : n \in S
  BY <1>1, <1>2, EveryNumber
<1>4. QED
  BY <1>3

LEMMA WaysAre ==
  ASSUME NEW m, NEW seed
  PROVE  /\ Ways(m, seed)[0] = {[at |-> seed, strength |-> Unit]}
         /\ \A d \in 1..MaxDepth : Ways(m, seed)[d] = StepEnds(m, Ways(m, seed)[d - 1], d)
<1>1. MaxDepth \in Nat
  BY EbConstantsOK
<1>2. Ways(m, seed) = CHOOSE g : IsEnds(g, m, seed, MaxDepth)
  BY DEF Ways, IsEnds, StepEnds
<1>3. \E g : IsEnds(g, m, seed, MaxDepth)
  BY <1>1, EndsExist
<1>4. PICK g : g = CHOOSE h : IsEnds(h, m, seed, MaxDepth)
  OBVIOUS
<1>5. IsEnds(g, m, seed, MaxDepth)
  BY <1>3, <1>4
<1>6. g[0] = {[at |-> seed, strength |-> Unit]}
  BY <1>1, <1>5 DEF IsEnds
<1>7. ASSUME NEW d \in 1..MaxDepth PROVE g[d] = StepEnds(m, g[d - 1], d)
  <2>1. d \in 0..MaxDepth /\ d # 0
    BY <1>1
  <2>2. QED
    BY <1>5, <2>1 DEF IsEnds
<1>8. QED
  BY <1>2, <1>4, <1>6, <1>7

\* One more edge makes a longer way.
LEMMA WayGoesOn ==
  ASSUME NEW m, NEW seed, NEW d \in Nat, d < MaxDepth, NEW w \in Ways(m, seed)[d], NEW b \in Neighbors(m, w.at)
  PROVE  [at |-> b, strength |-> Hop(w.strength, Edge(m, w.at, b), d + 1)] \in Ways(m, seed)[d + 1]
<1>1. MaxDepth \in Nat
  BY EbConstantsOK
<1>2. d + 1 \in 1..MaxDepth /\ (d + 1) - 1 = d
  BY <1>1
<1>3. Ways(m, seed)[d + 1] = StepEnds(m, Ways(m, seed)[d], d + 1)
  BY <1>2, WaysAre
<1>4. QED
  BY <1>3 DEF StepEnds

\* A way ends at a record.
LEMMA WaysEnd ==
  ASSUME NEW m \in Corpora, NEW seed \in DOMAIN m
  PROVE  \A d \in 0..MaxDepth : \A w \in Ways(m, seed)[d] :
           w.at \in DOMAIN m /\ w.strength \in Nat /\ w = [at |-> w.at, strength |-> w.strength]
<1> DEFINE Ends(d) == \A w \in Ways(m, seed)[d] :
             w.at \in DOMAIN m /\ w.strength \in Nat /\ w = [at |-> w.at, strength |-> w.strength]
           S == {d \in Nat : d <= MaxDepth => Ends(d)}
<1>1. MaxDepth \in Nat
  BY EbConstantsOK
<1>2. Ends(0)
  BY WaysAre DEF Unit
<1>3. ASSUME NEW d \in Nat, d + 1 <= MaxDepth, Ends(d) PROVE Ends(d + 1)
  <2>1. d + 1 \in 1..MaxDepth /\ (d + 1) - 1 = d
    BY <1>1, <1>3
  <2>2. Ways(m, seed)[d + 1] = StepEnds(m, Ways(m, seed)[d], d + 1)
    BY <2>1, WaysAre
  <2>3. ASSUME NEW v \in Ways(m, seed)[d + 1]
        PROVE  v.at \in DOMAIN m /\ v.strength \in Nat /\ v = [at |-> v.at, strength |-> v.strength]
    <3>1. PICK w \in Ways(m, seed)[d] :
            \E b \in Neighbors(m, w.at) : v = [at |-> b, strength |-> Hop(w.strength, Edge(m, w.at, b), d + 1)]
      BY <2>2, <2>3 DEF StepEnds
    <3>2. PICK b \in Neighbors(m, w.at) : v = [at |-> b, strength |-> Hop(w.strength, Edge(m, w.at, b), d + 1)]
      BY <3>1
    <3>3. w.at \in DOMAIN m /\ w.strength \in Nat /\ b \in DOMAIN m
      BY <1>3, <3>1, <3>2 DEF Neighbors
    <3>4. Edge(m, w.at, b) \in Nat /\ d + 1 \in Nat
      BY <3>3, EdgeIs
    <3> HIDE DEF Ends, S
    <3>5. Hop(w.strength, Edge(m, w.at, b), d + 1) \in Nat
      BY <3>3, <3>4, HopIs
    <3>6. QED
      BY <3>2, <3>3, <3>5
  <2>4. QED
    BY <2>3
<1>4. 0 \in S /\ S \in SUBSET Nat
  BY <1>2
<1>5. ASSUME NEW d \in S PROVE d + 1 \in S
  <2> SUFFICES ASSUME d + 1 <= MaxDepth PROVE Ends(d + 1)
    OBVIOUS
  <2>1. d \in Nat /\ d <= MaxDepth
    BY <1>1
  <2>2. Ends(d)
    BY <2>1
  <2> HIDE DEF Ends, S
  <2>3. QED
    BY <1>3, <2>1, <2>2
<1>6. \A d \in Nat : d \in S
  <2> HIDE DEF Ends, S
  <2>1. QED
    BY <1>4, <1>5, EveryNumber
<1>7. QED
  BY <1>1, <1>6

-----------------------------------------------------------------------------
(* The walk: what holds between its steps *)

Items(m) == [at : DOMAIN m, depth : 0..MaxDepth, strength : Nat]
EndOf(item) == [at |-> item.at, strength |-> item.strength]
InQueue(r, a) == \E n \in 1..Len(r.queue) : r.queue[n] = a

\* An item accepted stands for every way of at most its length to the neighbour b of a that is
\* no stronger: only a way of no strength has none.
Leads(m, acc, a, b) ==
  LET strength == Hop(a.strength, Edge(m, a.at, b), a.depth + 1)
  IN strength = 0 \/ \E x \in acc : x.at = b /\ x.depth <= a.depth + 1 /\ x.strength >= strength

\* The items the walk from a seed has accepted: they end ways, their boosts are in, the queue
\* holds those to go on from in the order of their depth, and from the others it went on.
Explored(r, acc) ==
  /\ acc \subseteq Items(r.m) /\ StartItem(r.seed) \in acc /\ r.item \in acc
  /\ r.queue \in Seq(acc)
  /\ \A n \in 1..Len(r.queue) : r.item.depth <= r.queue[n].depth /\ r.queue[n].depth <= r.item.depth + 1
  /\ \A k, n \in 1..Len(r.queue) : k <= n => r.queue[k].depth <= r.queue[n].depth
  /\ \A a \in acc :
       /\ a.depth <= r.item.depth + 1
       /\ EndOf(a) \in Ways(r.m, r.seed)[a.depth]
       /\ a.at = r.seed \/ (a.at \in DOMAIN r.boosts
                            /\ r.boosts[a.at] >= Boost(r.scores[r.seed].base, a.strength))
  /\ \A x \in DOMAIN r.best : \E a \in acc : a.at = x /\ a.strength = r.best[x]
  /\ r.todo \subseteq Neighbors(r.m, r.item.at) /\ (r.todo # {} => r.item.depth < MaxDepth)
  /\ NotCutOff(r) => \A a \in acc : a.depth < MaxDepth /\ ~InQueue(r, a) =>
       \A b \in Neighbors(r.m, a.at) : (a = r.item /\ b \in r.todo) \/ Leads(r.m, acc, a, b)

\* No way from s would have given more.
Weighed(r, s) == \A d \in 1..MaxDepth : \A w \in Ways(r.m, s)[d] :
  w.at = s \/ BoostOf(r, w.at) >= Boost(r.scores[s].base, w.strength)

\* What a record has, a way gave it.
Attained(r) == \A i \in DOMAIN r.boosts : \E s \in Seeds(r.m, r.scores) \ {i}, d \in 1..MaxDepth :
  \E w \in Ways(r.m, s)[d] : w.at = i /\ r.boosts[i] = Boost(r.scores[s].base, w.strength)

Excitation(r) ==
  /\ r = [pc |-> r.pc, prior |-> r.prior, m |-> r.m, scores |-> r.scores, ask |-> r.ask,
          left |-> r.left, seed |-> r.seed, item |-> r.item, todo |-> r.todo, queue |-> r.queue,
          best |-> r.best, boosts |-> r.boosts,
          eligible |-> r.eligible, remaining |-> r.remaining, bundle |-> r.bundle, used |-> r.used]
  /\ r.m \in Corpora /\ r.scores \in Scorings /\ r.ask \in Recalls
  /\ DOMAIN r.boosts \subseteq DOMAIN r.m /\ \A i \in DOMAIN r.boosts : r.boosts[i] \in Nat

WalkFits(r) ==
  /\ r.bundle = Nothing /\ r.used = 0
  /\ r.left \subseteq Seeds(r.m, r.scores)
  /\ Attained(r)
  /\ NotCutOff(r) => \A s \in Seeds(r.m, r.scores) \ (r.left \cup {r.seed}) : Weighed(r, s)
  /\ \/ r.seed = Nobody /\ r.todo = {} /\ r.queue = <<>>
     \/ r.seed \in Seeds(r.m, r.scores) \ r.left /\ \E acc : Explored(r, acc)

LEMMA SeedsAre ==
  ASSUME NEW m \in Corpora, NEW scores \in Scorings
  PROVE  /\ Seeds(m, scores) \subseteq DOMAIN m
         /\ \A i \in DOMAIN m : scores[i].base \in Nat /\ i # Nobody /\ i \in Nat
BY EbConstantsOK DEF Seeds, Nobody

\* As long as nothing was cut off there is room.
LEMMA RoomIsLeft ==
  ASSUME NEW r, Excitation(r), NotCutOff(r), NEW b \in DOMAIN r.m
  PROVE  HasRoom(r, b)
<1> SUFFICES ASSUME b \notin DOMAIN r.boosts PROVE Cardinality(DOMAIN r.boosts) < MaxNodes
  BY DEF HasRoom
<1>1. IsFiniteSet(DOMAIN r.m) /\ MaxNodes \in Nat
  BY EbConstantsOK DEF Excitation
<1>2. IsFiniteSet(DOMAIN r.boosts) /\ Cardinality(DOMAIN r.boosts) \in Nat /\ Cardinality(DOMAIN r.m) \in Nat
  BY <1>1, FS_Subset, FS_CardinalityType DEF Excitation
<1>3. Cardinality(DOMAIN r.boosts) <= Cardinality(DOMAIN r.m)
  BY <1>1, FS_Subset DEF Excitation
<1>4. Cardinality(DOMAIN r.boosts) # Cardinality(DOMAIN r.m)
  <2>1. DOMAIN r.boosts \in SUBSET DOMAIN r.m /\ DOMAIN r.boosts # DOMAIN r.m
    BY DEF Excitation
  <2>2. QED
    BY <1>1, <2>1, FS_Subset
<1>5. QED
  BY <1>1, <1>2, <1>3, <1>4 DEF NotCutOff

\* More boosts do not undo a cut.
LEMMA CutStays ==
  ASSUME NEW r, NEW q, q.m = r.m, IsFiniteSet(DOMAIN q.boosts), DOMAIN r.boosts \subseteq DOMAIN q.boosts, NotCutOff(q)
  PROVE  NotCutOff(r)
<1>1. /\ Cardinality(DOMAIN r.boosts) \in Nat /\ Cardinality(DOMAIN q.boosts) \in Nat
      /\ Cardinality(DOMAIN r.boosts) <= Cardinality(DOMAIN q.boosts)
  BY FS_Subset, FS_CardinalityType
<1>2. MaxNodes \in Nat
  BY EbConstantsOK
<1>3. QED
  BY <1>1, <1>2 DEF NotCutOff

\* When the queue is empty every way is covered by an item accepted.
LEMMA EveryWayIsCovered ==
  ASSUME NEW r, Excitation(r), r.seed \in DOMAIN r.m, NotCutOff(r), r.queue = <<>>, r.todo = {},
         NEW acc, Explored(r, acc)
  PROVE  \A d \in 0..MaxDepth : \A w \in Ways(r.m, r.seed)[d] :
           w.strength = 0 \/ \E a \in acc : a.at = w.at /\ a.depth <= d /\ a.strength >= w.strength
<1> DEFINE Covered(d) == \A w \in Ways(r.m, r.seed)[d] :
             w.strength = 0 \/ \E a \in acc : a.at = w.at /\ a.depth <= d /\ a.strength >= w.strength
           S == {d \in Nat : d <= MaxDepth => Covered(d)}
<1>1. MaxDepth \in Nat /\ r.m \in Corpora
  BY EbConstantsOK DEF Excitation
<1>2. Covered(0)
  <2>1. Ways(r.m, r.seed)[0] = {[at |-> r.seed, strength |-> Unit]} /\ StartItem(r.seed) \in acc
    BY WaysAre DEF Explored
  <2>2. /\ StartItem(r.seed).at = r.seed /\ StartItem(r.seed).depth = 0 /\ StartItem(r.seed).strength = Unit
        /\ Unit >= Unit /\ 0 <= 0
    BY DEF StartItem, Unit
  <2>3. QED
    BY <2>1, <2>2
<1>3. ASSUME NEW d \in Nat, d + 1 <= MaxDepth, Covered(d) PROVE Covered(d + 1)
  <2> SUFFICES ASSUME NEW v \in Ways(r.m, r.seed)[d + 1], v.strength # 0
               PROVE  \E a \in acc : a.at = v.at /\ a.depth <= d + 1 /\ a.strength >= v.strength
    OBVIOUS
  <2>1. d + 1 \in 1..MaxDepth /\ (d + 1) - 1 = d /\ d \in 0..MaxDepth /\ d < MaxDepth
    BY <1>1, <1>3
  <2>2. Ways(r.m, r.seed)[d + 1] = StepEnds(r.m, Ways(r.m, r.seed)[d], d + 1)
    BY <2>1, WaysAre
  <2>3. PICK w \in Ways(r.m, r.seed)[d] :
          \E b \in Neighbors(r.m, w.at) : v = [at |-> b, strength |-> Hop(w.strength, Edge(r.m, w.at, b), d + 1)]
    BY <2>2 DEF StepEnds
  <2>4. PICK b \in Neighbors(r.m, w.at) :
          v = [at |-> b, strength |-> Hop(w.strength, Edge(r.m, w.at, b), d + 1)]
    BY <2>3
  <2>5. w.at \in DOMAIN r.m /\ w.strength \in Nat /\ b \in DOMAIN r.m
    BY <1>1, <2>1, <2>4, WaysEnd DEF Neighbors
  <2>6. PICK e \in Nat : e = Edge(r.m, w.at, b)
    BY <1>1, <2>5, EdgeIs
  <2>7. v.at = b /\ v.strength = Hop(w.strength, e, d + 1)
    BY <2>4, <2>6
  <2>8. w.strength # 0
    <3>1. d + 1 \in Nat
      OBVIOUS
    <3>2. w.strength = 0 => Hop(w.strength, e, d + 1) = 0
      BY <2>5, <3>1, HopIs
    <3>3. QED
      BY <2>7, <3>2
  <2>9. PICK a \in acc : a.at = w.at /\ a.depth <= d /\ a.strength >= w.strength
    BY <1>3, <2>8
  <2>10. a.depth \in Nat /\ a.strength \in Nat /\ a.depth < MaxDepth
    BY <1>1, <2>1, <2>9 DEF Explored, Items
  <2>11. ~InQueue(r, a)
    BY DEF InQueue
  <2>12. Leads(r.m, acc, a, b)
    BY <2>4, <2>9, <2>10, <2>11 DEF Explored
  <2>13. Hop(w.strength, e, d + 1) <= Hop(a.strength, e, a.depth + 1)
    <3>1. d + 1 \in Nat /\ a.depth + 1 \in Nat /\ a.depth + 1 <= d + 1
      BY <2>9, <2>10
    <3>2. QED
      BY <2>5, <2>9, <2>10, <3>1, HopOrder, Zenon
  <2>14. Hop(w.strength, e, d + 1) \in Nat /\ Hop(a.strength, e, a.depth + 1) \in Nat
    <3>1. d + 1 \in Nat /\ a.depth + 1 \in Nat
      BY <2>10
    <3> HIDE DEF Covered, S
    <3>2. QED
      BY <2>5, <2>10, <3>1, HopIs
  <2>15. PICK x \in acc : x.at = b /\ x.depth <= a.depth + 1 /\ x.strength >= Hop(a.strength, e, a.depth + 1)
    BY <2>6, <2>7, <2>9, <2>12, <2>13, <2>14 DEF Leads
  <2>16. x.depth \in Nat /\ x.strength \in Nat
    BY <1>1, <2>15 DEF Explored, Items
  <2>17. x.depth <= d + 1 /\ x.strength >= v.strength
    BY <2>7, <2>9, <2>10, <2>13, <2>14, <2>15, <2>16
  <2>18. QED
    BY <2>7, <2>15, <2>17
<1>4. 0 \in S /\ S \in SUBSET Nat
  BY <1>2
<1>5. ASSUME NEW d \in S PROVE d + 1 \in S
  <2> SUFFICES ASSUME d + 1 <= MaxDepth PROVE Covered(d + 1)
    OBVIOUS
  <2>1. d \in Nat /\ d <= MaxDepth
    BY <1>1
  <2>2. Covered(d)
    BY <2>1
  <2> HIDE DEF Covered, S
  <2>3. QED
    BY <1>3, <2>1, <2>2
<1>6. \A d \in Nat : d \in S
  <2> HIDE DEF Covered, S
  <2>1. QED
    BY <1>4, <1>5, EveryNumber
<1>7. QED
  BY <1>1, <1>6

\* So when the queue is empty no way from the seed would have given more.
LEMMA WalkIsOver ==
  ASSUME NEW r, Excitation(r), WalkFits(r), r.queue = <<>>, r.todo = {}, NotCutOff(r)
  PROVE  \A s \in Seeds(r.m, r.scores) \ r.left : Weighed(r, s)
<1> SUFFICES ASSUME NEW s \in Seeds(r.m, r.scores) \ r.left PROVE Weighed(r, s)
  OBVIOUS
<1>1. CASE s # r.seed
  BY <1>1 DEF WalkFits
<1>2. CASE s = r.seed
  <2>1. /\ MaxDepth \in Nat /\ r.m \in Corpora /\ r.scores \in Scorings
        /\ s \in DOMAIN r.m /\ r.scores[s].base \in Nat /\ s # Nobody
    BY EbConstantsOK, SeedsAre DEF Excitation
  <2>2. PICK acc : Explored(r, acc)
    BY <1>2, <2>1 DEF WalkFits
  <2> SUFFICES ASSUME NEW d \in 1..MaxDepth, NEW w \in Ways(r.m, s)[d], w.at # s
               PROVE  BoostOf(r, w.at) >= Boost(r.scores[s].base, w.strength)
    BY DEF Weighed
  <2>3. PICK base \in Nat : base = r.scores[s].base
    BY <2>1
  <2>4. d \in 0..MaxDepth
    BY <2>1
  <2>5. w.strength \in Nat
    BY <2>1, <2>4, WaysEnd
  <2>6. BoostOf(r, w.at) \in Nat
    BY DEF BoostOf, Excitation
  <2>7. CASE w.strength = 0
    <3>1. Boost(base, w.strength) = 0
      BY <2>3, <2>7, NoBoost
    <3>2. QED
      BY <2>3, <2>6, <3>1
  <2>8. CASE w.strength # 0
    <3>1. PICK a \in acc : a.at = w.at /\ a.depth <= d /\ a.strength >= w.strength
      BY <1>2, <2>1, <2>2, <2>4, <2>8, EveryWayIsCovered
    <3>2. a.strength \in Nat
      BY <2>2, <3>1 DEF Explored, Items
    <3>3. a.at \in DOMAIN r.boosts /\ r.boosts[a.at] >= Boost(base, a.strength)
      BY <1>2, <2>2, <2>3, <3>1 DEF Explored
    <3>4. /\ Boost(base, w.strength) \in Nat /\ Boost(base, a.strength) \in Nat
          /\ Boost(base, w.strength) <= Boost(base, a.strength)
      BY <2>5, <3>1, <3>2, BoostOrder
    <3>5. BoostOf(r, w.at) = r.boosts[a.at]
      BY <3>1, <3>3 DEF BoostOf
    <3>6. QED
      BY <2>3, <2>6, <3>3, <3>4, <3>5
  <2>9. QED
    BY <2>7, <2>8
<1>3. QED
  BY <1>1, <1>2

-----------------------------------------------------------------------------
(* The steps of the walk *)

\* The seeds are still to be walked from.
LEMMA BeginFits ==
  ASSUME NEW m \in Corpora, NEW scores \in Scorings, NEW ask \in Recalls, NEW prior, NEW r,
         r = [pc |-> "walk", prior |-> prior, m |-> m, scores |-> scores, ask |-> ask,
              left |-> Seeds(m, scores), seed |-> Nobody, item |-> StartItem(Nobody), todo |-> {},
              queue |-> <<>>, best |-> Nothing, boosts |-> Nothing,
              eligible |-> {}, remaining |-> {}, bundle |-> Nothing, used |-> 0]
  PROVE  Excitation(r) /\ WalkFits(r)
<1>1. /\ r.m = m /\ r.scores = scores /\ r.ask = ask /\ r.left = Seeds(m, scores) /\ r.seed = Nobody
      /\ r.todo = {} /\ r.queue = <<>> /\ r.boosts = Nothing /\ r.bundle = Nothing /\ r.used = 0
  OBVIOUS
<1>2. DOMAIN r.boosts = {}
  BY <1>1 DEF Nothing
<1>3. Excitation(r)
  BY <1>1, <1>2 DEF Excitation
<1>4. WalkFits(r)
  BY <1>1, <1>2 DEF WalkFits, Attained
<1>5. QED
  BY <1>3, <1>4

\* The walk from one seed is over: the next one begins.
LEMMA NextSeedFits ==
  ASSUME NEW r, Excitation(r), WalkFits(r), r.queue = <<>>, r.todo = {}, NEW s \in r.left, NEW q,
         q = [r EXCEPT !.left = @ \ {s}, !.seed = s, !.item = StartItem(s), !.queue = <<StartItem(s)>>,
                       !.best = [x \in {s} |-> Unit]]
  PROVE  Excitation(q) /\ WalkFits(q) /\ q.pc = r.pc
<1>1. /\ q.pc = r.pc /\ q.m = r.m /\ q.scores = r.scores /\ q.ask = r.ask /\ q.left = r.left \ {s} /\ q.seed = s
      /\ q.item = StartItem(s) /\ q.todo = {} /\ q.queue = <<StartItem(s)>> /\ q.best = [x \in {s} |-> Unit]
      /\ q.boosts = r.boosts /\ q.bundle = r.bundle /\ q.used = r.used
  BY DEF Excitation
<1>2. Excitation(q)
  BY <1>1 DEF Excitation
<1>3. /\ r.m \in Corpora /\ r.scores \in Scorings /\ s \in Seeds(r.m, r.scores) /\ s \in DOMAIN r.m
      /\ MaxDepth \in Nat
  BY SeedsAre, EbConstantsOK DEF Excitation, WalkFits
<1>4. NotCutOff(q) => \A o \in Seeds(q.m, q.scores) \ (q.left \cup {q.seed}) : Weighed(q, o)
  <2> SUFFICES ASSUME NotCutOff(q), NEW o \in Seeds(r.m, r.scores) \ r.left PROVE Weighed(q, o)
    BY <1>1
  <2>1. NotCutOff(r)
    BY <1>1 DEF NotCutOff
  <2>2. Weighed(r, o)
    BY <2>1, WalkIsOver
  <2>3. QED
    BY <1>1, <2>2 DEF Weighed, BoostOf
<1>5. Explored(q, {StartItem(s)})
  <2>1. PICK start : start = StartItem(s)
    OBVIOUS
  <2>2. start = [at |-> s, depth |-> 0, strength |-> Unit] /\ start.depth = 0 /\ start.at = s /\ start.strength = Unit
    BY <2>1 DEF StartItem
  <2>3. start \in Items(r.m)
    BY <1>3, <2>2 DEF Items, Unit
  <2>4. /\ q.queue = <<start>> /\ q.queue \in Seq({start}) /\ Len(q.queue) = 1 /\ q.queue[1] = start
        /\ \A n \in 1..Len(q.queue) : n = 1
    BY <1>1, <2>1
  <2>5. EndOf(start) \in Ways(q.m, q.seed)[0]
    BY <1>1, <2>2, WaysAre DEF EndOf
  <2>6. InQueue(q, start)
    BY <2>4 DEF InQueue
  <2>7. \A x \in DOMAIN q.best : x = s /\ q.best[x] = Unit
    BY <1>1
  <2>8. Explored(q, {start})
    <3>1. {start} \subseteq Items(q.m) /\ StartItem(q.seed) \in {start} /\ q.item \in {start}
      BY <1>1, <2>1, <2>3
    <3>2. /\ \A n \in 1..Len(q.queue) : q.item.depth <= q.queue[n].depth /\ q.queue[n].depth <= q.item.depth + 1
          /\ \A k, n \in 1..Len(q.queue) : k <= n => q.queue[k].depth <= q.queue[n].depth
      BY <1>1, <2>1, <2>2, <2>4
    <3>3. \A a \in {start} :
            /\ a.depth <= q.item.depth + 1
            /\ EndOf(a) \in Ways(q.m, q.seed)[a.depth]
            /\ a.at = q.seed
      BY <1>1, <2>1, <2>2, <2>5
    <3>4. \A x \in DOMAIN q.best : \E a \in {start} : a.at = x /\ a.strength = q.best[x]
      BY <2>2, <2>7
    <3>5. QED
      BY <1>1, <2>4, <2>6, <3>1, <3>2, <3>3, <3>4 DEF Explored
  <2>9. QED
    BY <2>1, <2>8
<1>6. Attained(q)
  BY <1>1 DEF Attained, WalkFits
<1>7. q.seed \in Seeds(q.m, q.scores) \ q.left /\ q.left \subseteq Seeds(q.m, q.scores)
  BY <1>1, <1>3 DEF WalkFits
<1>8. QED
  BY <1>1, <1>2, <1>4, <1>5, <1>6, <1>7 DEF WalkFits

\* The next item is taken from the queue: all its neighbours are to be looked at.
LEMMA TakeItemFits ==
  ASSUME NEW r, Excitation(r), WalkFits(r), r.queue # <<>>, r.todo = {}, NEW q, q = Taken(r), NEW item, item = Head(r.queue)
  PROVE  Excitation(q) /\ WalkFits(q) /\ q.pc = r.pc
<1>1. /\ q.pc = r.pc /\ q.m = r.m /\ q.scores = r.scores /\ q.ask = r.ask /\ q.left = r.left /\ q.seed = r.seed
      /\ q.item = item /\ q.queue = Tail(r.queue) /\ q.best = r.best
      /\ q.todo = (IF item.depth >= MaxDepth THEN {} ELSE Neighbors(r.m, item.at))
      /\ q.boosts = r.boosts /\ q.bundle = r.bundle /\ q.used = r.used
  BY DEF Excitation, Taken
<1>2. Excitation(q)
  BY <1>1 DEF Excitation, Taken
<1>3. PICK acc : Explored(r, acc)
  BY DEF WalkFits
<1>4. MaxDepth \in Nat
  BY EbConstantsOK
<1>5. PICK len \in Nat : len = Len(q.queue)
  <2>1. r.queue \in Seq(acc)
    BY <1>3 DEF Explored
  <2>2. Tail(r.queue) \in Seq(acc)
    BY <2>1
  <2>3. q.queue \in Seq(acc)
    BY <1>1, <2>2
  <2>4. QED
    BY <2>3
<1>6. /\ Len(r.queue) = len + 1 /\ item = r.queue[1] /\ item \in acc /\ q.queue \in Seq(acc)
      /\ \A n \in 1..len : q.queue[n] = r.queue[n + 1] /\ n + 1 \in 1..(len + 1) /\ 1 <= n + 1
      /\ 1 \in 1..(len + 1)
  BY <1>1, <1>3, <1>5 DEF Explored
<1>7. \A a \in acc : a.depth \in Nat
  BY <1>3, <1>4 DEF Explored, Items
<1>8. Explored(q, acc)
  <2>1. item.depth \in Nat /\ r.item.depth \in Nat /\ r.item.depth <= item.depth
    BY <1>3, <1>6, <1>7 DEF Explored
  <2>2. \A n \in 1..len : q.queue[n] \in acc
    BY <1>5, <1>6
  <2>3. \A n \in 1..len : item.depth <= q.queue[n].depth /\ q.queue[n].depth <= item.depth + 1
    <3> SUFFICES ASSUME NEW n \in 1..len
                 PROVE  item.depth <= q.queue[n].depth /\ q.queue[n].depth <= item.depth + 1
      OBVIOUS
    <3>1. PICK x : x = q.queue[n]
      OBVIOUS
    <3>2. x = r.queue[n + 1] /\ n + 1 \in 1..(len + 1) /\ 1 <= n + 1 /\ x.depth \in Nat
      BY <1>6, <1>7, <2>2, <3>1
    <3>3. item.depth <= x.depth /\ x.depth <= r.item.depth + 1
      BY <1>3, <1>6, <3>2 DEF Explored
    <3>4. x.depth <= item.depth + 1
      BY <2>1, <3>2, <3>3
    <3>5. QED
      BY <3>1, <3>3, <3>4
  <2>4. \A k, n \in 1..len : k <= n => q.queue[k].depth <= q.queue[n].depth
    <3> SUFFICES ASSUME NEW k \in 1..len, NEW n \in 1..len, k <= n
                 PROVE  q.queue[k].depth <= q.queue[n].depth
      OBVIOUS
    <3>1. k + 1 <= n + 1 /\ k + 1 \in 1..(len + 1) /\ n + 1 \in 1..(len + 1)
      OBVIOUS
    <3>2. r.queue[k + 1].depth <= r.queue[n + 1].depth
      BY <1>3, <1>6, <3>1 DEF Explored
    <3>3. QED
      BY <1>6, <3>2
  <2>5. \A a \in acc :
          /\ a.depth <= item.depth + 1
          /\ EndOf(a) \in Ways(q.m, q.seed)[a.depth]
          /\ a.at = q.seed \/ (a.at \in DOMAIN q.boosts
                               /\ q.boosts[a.at] >= Boost(q.scores[q.seed].base, a.strength))
    <3> SUFFICES ASSUME NEW a \in acc PROVE a.depth <= item.depth + 1
      BY <1>1, <1>3 DEF Explored
    <3>1. a.depth <= r.item.depth + 1
      BY <1>3 DEF Explored
    <3>2. QED
      BY <1>7, <2>1, <3>1
  <2>6. q.todo \subseteq Neighbors(q.m, item.at) /\ (q.todo # {} => item.depth < MaxDepth)
    BY <1>1, <1>4, <2>1
  <2>7. NotCutOff(q) => \A a \in acc : a.depth < MaxDepth /\ ~InQueue(q, a) =>
          \A b \in Neighbors(q.m, a.at) : (a = item /\ b \in q.todo) \/ Leads(q.m, acc, a, b)
    <3> SUFFICES ASSUME NotCutOff(q), NEW a \in acc, a.depth < MaxDepth, ~InQueue(q, a), a # item,
                        NEW b \in Neighbors(r.m, a.at)
                 PROVE  Leads(r.m, acc, a, b)
      BY <1>1, <1>4, <1>7
    <3>1. NotCutOff(r)
      BY <1>1 DEF NotCutOff
    <3>2. ~InQueue(r, a)
      <4> SUFFICES ASSUME NEW n \in 1..Len(r.queue), r.queue[n] = a PROVE FALSE
        BY DEF InQueue
      <4>1. n # 1 /\ n - 1 \in 1..len /\ (n - 1) + 1 = n
        BY <1>5, <1>6
      <4>2. q.queue[n - 1] = a
        BY <1>6, <4>1
      <4>3. QED
        BY <1>5, <4>1, <4>2 DEF InQueue
    <3>3. QED
      BY <1>3, <3>1, <3>2 DEF Explored
  <2>8. QED
    BY <1>1, <1>3, <1>5, <1>6, <2>3, <2>4, <2>5, <2>6, <2>7 DEF Explored
<1>9. NotCutOff(q) => \A s \in Seeds(q.m, q.scores) \ (q.left \cup {q.seed}) : Weighed(q, s)
  BY <1>1 DEF WalkFits, NotCutOff, Weighed, BoostOf
<1>10. Attained(q)
  BY <1>1 DEF WalkFits, Attained
<1>11. QED
  BY <1>1, <1>2, <1>8, <1>9, <1>10 DEF WalkFits

\* A neighbour that is no stronger than what it has is passed over.
LEMMA PassOverFits ==
  ASSUME NEW r, Excitation(r), WalkFits(r), NEW b \in r.todo, ~Improves(r, b) \/ ~HasRoom(r, b), NEW q,
         q = [r EXCEPT !.todo = @ \ {b}]
  PROVE  Excitation(q) /\ WalkFits(q) /\ q.pc = r.pc
<1>1. /\ q.pc = r.pc /\ q.m = r.m /\ q.scores = r.scores /\ q.ask = r.ask /\ q.left = r.left /\ q.seed = r.seed
      /\ q.item = r.item /\ q.queue = r.queue /\ q.best = r.best /\ q.todo = r.todo \ {b}
      /\ q.boosts = r.boosts /\ q.bundle = r.bundle /\ q.used = r.used
  BY DEF Excitation
<1>2. Excitation(q)
  BY <1>1 DEF Excitation
<1>3. PICK acc : Explored(r, acc)
  BY DEF WalkFits
<1>4. MaxDepth \in Nat /\ r.m \in Corpora
  BY EbConstantsOK DEF Excitation
<1>5. ASSUME NotCutOff(r) PROVE Leads(r.m, acc, r.item, b)
  <2>1. b \in DOMAIN r.m /\ r.item \in Items(r.m)
    BY <1>3 DEF Explored, Neighbors
  <2>2. ~Improves(r, b)
    BY <1>5, <2>1, RoomIsLeft
  <2>3. PICK strength : strength = Hop(r.item.strength, Edge(r.m, r.item.at, b), r.item.depth + 1)
    OBVIOUS
  <2>4. NextItem(r, b).strength = strength
    BY <2>3 DEF NextItem
  <2>5. ~(strength > (IF b \in DOMAIN r.best THEN r.best[b] ELSE 0))
    BY <2>2, <2>4 DEF Improves
  <2>6. r.item.at \in DOMAIN r.m /\ r.item.strength \in Nat /\ r.item.depth + 1 \in Nat
    BY <1>4, <2>1 DEF Items
  <2>7. PICK e \in Nat : e = Edge(r.m, r.item.at, b)
    BY <1>4, <2>1, <2>6, EdgeIs
  <2>8. strength \in Nat
    BY <2>3, <2>6, <2>7, HopIs
  <2>9. CASE b \in DOMAIN r.best
    <3>1. PICK x \in acc : x.at = b /\ x.strength = r.best[b]
      BY <1>3, <2>9 DEF Explored
    <3>2. x.strength \in Nat /\ x.depth <= r.item.depth + 1
      BY <1>3, <3>1 DEF Explored, Items
    <3>3. x.strength >= strength
      BY <2>5, <2>8, <2>9, <3>1, <3>2
    <3>4. QED
      BY <2>3, <3>1, <3>2, <3>3 DEF Leads
  <2>10. CASE b \notin DOMAIN r.best
    BY <2>3, <2>5, <2>8, <2>10 DEF Leads
  <2>11. QED
    BY <2>9, <2>10
<1>6. Explored(q, acc)
  <2>1. NotCutOff(q) => \A a \in acc : a.depth < MaxDepth /\ ~InQueue(q, a) =>
          \A n \in Neighbors(q.m, a.at) : (a = q.item /\ n \in q.todo) \/ Leads(q.m, acc, a, n)
    <3> SUFFICES ASSUME NotCutOff(q), NEW a \in acc, a.depth < MaxDepth, ~InQueue(q, a),
                        NEW n \in Neighbors(r.m, a.at)
                 PROVE  (a = r.item /\ n \in r.todo \ {b}) \/ Leads(r.m, acc, a, n)
      BY <1>1
    <3>1. NotCutOff(r) /\ ~InQueue(r, a)
      BY <1>1 DEF NotCutOff, InQueue
    <3>2. (a = r.item /\ n \in r.todo) \/ Leads(r.m, acc, a, n)
      BY <1>3, <3>1 DEF Explored
    <3>3. QED
      BY <1>5, <3>1, <3>2
  <2>2. q.todo \subseteq Neighbors(q.m, q.item.at) /\ (q.todo # {} => q.item.depth < MaxDepth)
    BY <1>1, <1>3 DEF Explored
  <2>3. /\ acc \subseteq Items(q.m) /\ StartItem(q.seed) \in acc /\ q.item \in acc
        /\ q.queue \in Seq(acc)
        /\ \A n \in 1..Len(q.queue) : q.item.depth <= q.queue[n].depth /\ q.queue[n].depth <= q.item.depth + 1
        /\ \A k, n \in 1..Len(q.queue) : k <= n => q.queue[k].depth <= q.queue[n].depth
    BY <1>1, <1>3 DEF Explored
  <2>4. /\ \A a \in acc :
             /\ a.depth <= q.item.depth + 1
             /\ EndOf(a) \in Ways(q.m, q.seed)[a.depth]
             /\ a.at = q.seed \/ (a.at \in DOMAIN q.boosts
                                  /\ q.boosts[a.at] >= Boost(q.scores[q.seed].base, a.strength))
        /\ \A x \in DOMAIN q.best : \E a \in acc : a.at = x /\ a.strength = q.best[x]
    BY <1>1, <1>3 DEF Explored
  <2>5. QED
    BY <2>1, <2>2, <2>3, <2>4 DEF Explored
<1>7. NotCutOff(q) => \A s \in Seeds(q.m, q.scores) \ (q.left \cup {q.seed}) : Weighed(q, s)
  BY <1>1 DEF WalkFits, NotCutOff, Weighed, BoostOf
<1>8. Attained(q)
  BY <1>1 DEF WalkFits, Attained
<1>9. QED
  BY <1>1, <1>2, <1>6, <1>7, <1>8 DEF WalkFits

LEMMA RaisedIs ==
  ASSUME NEW f, \A x \in DOMAIN f : f[x] \in Nat, NEW b, NEW v \in Nat
  PROVE  /\ DOMAIN Raised(f, b, v) = DOMAIN f \cup {b}
         /\ \A x \in DOMAIN f \cup {b} : Raised(f, b, v)[x] \in Nat
         /\ \A x \in DOMAIN f : Raised(f, b, v)[x] >= f[x] /\ (x # b => Raised(f, b, v)[x] = f[x])
         /\ Raised(f, b, v)[b] >= v
         /\ Raised(f, b, v)[b] = v \/ (b \in DOMAIN f /\ Raised(f, b, v)[b] = f[b])
BY DEF Raised

\* A stronger way to a neighbour is accepted, and followed on.
LEMMA FollowFits ==
  ASSUME NEW r, Excitation(r), WalkFits(r), NEW b \in r.todo, Improves(r, b), HasRoom(r, b),
         NEW next, next = NextItem(r, b), NEW q, q = Followed(r, b)
  PROVE  Excitation(q) /\ WalkFits(q) /\ q.pc = r.pc
<1>1. PICK boost : boost = Boost(r.scores[r.seed].base, next.strength)
  OBVIOUS
<1>2. /\ q.pc = r.pc /\ q.m = r.m /\ q.scores = r.scores /\ q.ask = r.ask /\ q.left = r.left /\ q.seed = r.seed
      /\ q.item = r.item /\ q.queue = Append(r.queue, next) /\ q.best = Raised(r.best, b, next.strength)
      /\ q.todo = r.todo \ {b} /\ q.bundle = r.bundle /\ q.used = r.used
      /\ q.boosts = (IF b = r.seed THEN r.boosts ELSE Raised(r.boosts, b, boost))
      /\ q = [pc |-> q.pc, prior |-> q.prior, m |-> q.m, scores |-> q.scores, ask |-> q.ask,
              left |-> q.left, seed |-> q.seed, item |-> q.item, todo |-> q.todo, queue |-> q.queue,
              best |-> q.best, boosts |-> q.boosts,
              eligible |-> q.eligible, remaining |-> q.remaining, bundle |-> q.bundle, used |-> q.used]
  BY <1>1 DEF Excitation, Followed
<1>3. PICK acc : Explored(r, acc)
  BY DEF WalkFits
<1>4. MaxDepth \in Nat /\ r.m \in Corpora /\ r.scores \in Scorings
  BY EbConstantsOK DEF Excitation
<1>5. r.seed \in Seeds(r.m, r.scores) \ r.left /\ r.seed \in DOMAIN r.m /\ r.scores[r.seed].base \in Nat
  <2>1. r.seed \in Seeds(r.m, r.scores) \ r.left
    BY DEF WalkFits
  <2>2. QED
    BY <1>4, <2>1, SeedsAre
<1>6. /\ r.item \in Items(r.m) /\ r.item.at \in DOMAIN r.m /\ r.item.strength \in Nat
      /\ r.item.depth \in Nat /\ r.item.depth < MaxDepth /\ b \in DOMAIN r.m /\ b \in Neighbors(r.m, r.item.at)
  BY <1>3, <1>4 DEF Explored, Items, Neighbors
<1>7. /\ next.at = b /\ next.depth = r.item.depth + 1
      /\ next.strength = Hop(r.item.strength, Edge(r.m, r.item.at, b), r.item.depth + 1)
      /\ next = [at |-> next.at, depth |-> next.depth, strength |-> next.strength]
  BY DEF NextItem
<1>8. next.strength \in Nat
  <2>1. PICK e \in Nat : e = Edge(r.m, r.item.at, b)
    BY <1>4, <1>6, EdgeIs
  <2>2. r.item.depth + 1 \in Nat
    BY <1>6
  <2>3. QED
    BY <1>6, <1>7, <2>1, <2>2, HopIs
<1>9. next \in Items(r.m)
  <2>1. next.depth \in 0..MaxDepth
    BY <1>4, <1>6, <1>7
  <2>2. QED
    BY <1>6, <1>7, <1>8, <2>1 DEF Items
<1>10. boost \in Nat
  BY <1>1, <1>5, <1>8, BoostIs
<1>11. /\ DOMAIN r.boosts \subseteq DOMAIN q.boosts /\ DOMAIN q.boosts \subseteq DOMAIN r.boosts \cup {b}
       /\ \A x \in DOMAIN q.boosts : q.boosts[x] \in Nat
       /\ \A x \in DOMAIN r.boosts : q.boosts[x] >= r.boosts[x]
       /\ b # r.seed => b \in DOMAIN q.boosts /\ q.boosts[b] >= boost
       /\ \A x \in DOMAIN q.boosts : \/ x \in DOMAIN r.boosts /\ q.boosts[x] = r.boosts[x]
                                     \/ x = b /\ b # r.seed /\ q.boosts[x] = boost
  <2>1. \A x \in DOMAIN r.boosts : r.boosts[x] \in Nat /\ r.boosts[x] >= r.boosts[x]
    BY DEF Excitation
  <2>2. CASE b = r.seed
    BY <1>2, <2>1, <2>2
  <2>3. CASE b # r.seed
    <3>1. PICK f, g : f = r.boosts /\ g = Raised(r.boosts, b, boost)
      OBVIOUS
    <3>2. \A x \in DOMAIN f : f[x] \in Nat
      BY <2>1, <3>1
    <3>3. /\ DOMAIN g = DOMAIN f \cup {b}
          /\ \A x \in DOMAIN f \cup {b} : g[x] \in Nat
          /\ \A x \in DOMAIN f : g[x] >= f[x] /\ (x # b => g[x] = f[x])
          /\ g[b] >= boost
          /\ g[b] = boost \/ (b \in DOMAIN f /\ g[b] = f[b])
      <4>1. g = Raised(f, b, boost)
        BY <3>1
      <4>2. QED
        BY <1>10, <3>2, <4>1 DEF Raised
    <3>4. q.boosts = g
      BY <1>2, <2>3, <3>1
    <3>5. QED
      BY <2>3, <3>1, <3>3, <3>4
  <2>4. QED
    BY <2>2, <2>3
<1>12. Excitation(q)
  BY <1>2, <1>6, <1>11 DEF Excitation
<1>13. EndOf(next) \in Ways(r.m, r.seed)[r.item.depth + 1]
  <2>1. EndOf(r.item) \in Ways(r.m, r.seed)[r.item.depth]
    BY <1>3 DEF Explored
  <2>2. EndOf(r.item).at = r.item.at /\ EndOf(r.item).strength = r.item.strength
    BY DEF EndOf
  <2>3. [at |-> b, strength |-> Hop(r.item.strength, Edge(r.m, r.item.at, b), r.item.depth + 1)]
          \in Ways(r.m, r.seed)[r.item.depth + 1]
    BY <1>6, <2>1, <2>2, WayGoesOn
  <2>4. QED
    BY <1>7, <2>3 DEF EndOf
<1>14. Explored(q, acc \cup {next})
  <2>1. PICK all : all = acc \cup {next}
    OBVIOUS
  <2>2. all \subseteq Items(q.m) /\ StartItem(q.seed) \in all /\ q.item \in all
    BY <1>2, <1>3, <1>9, <2>1 DEF Explored
  <2>3. PICK len \in Nat : len = Len(r.queue)
    BY <1>3 DEF Explored
  <2>4. /\ q.queue \in Seq(all) /\ Len(q.queue) = len + 1 /\ q.queue[len + 1] = next
        /\ \A n \in 1..len : q.queue[n] = r.queue[n] /\ r.queue[n] \in acc
        /\ \A n \in 1..(len + 1) : n \in 1..len \/ n = len + 1
        /\ len + 1 \in 1..(len + 1) /\ 1..len \subseteq 1..(len + 1)
    <3>1. r.queue \in Seq(acc) /\ r.queue \in Seq(all)
      BY <1>3, <2>1 DEF Explored
    <3>2. next \in all
      BY <2>1
    <3>3. QED
      BY <1>2, <2>3, <3>1, <3>2
  <2>5. \A a \in acc : a.depth \in Nat /\ a.depth <= r.item.depth + 1
    BY <1>3, <1>4 DEF Explored, Items
  <2>6. \A n \in 1..(len + 1) : r.item.depth <= q.queue[n].depth /\ q.queue[n].depth <= r.item.depth + 1
    <3> SUFFICES ASSUME NEW n \in 1..(len + 1)
                 PROVE  r.item.depth <= q.queue[n].depth /\ q.queue[n].depth <= r.item.depth + 1
      OBVIOUS
    <3>1. CASE n \in 1..len
      <4>1. r.item.depth <= r.queue[n].depth /\ r.queue[n].depth <= r.item.depth + 1
        BY <1>3, <2>3, <3>1 DEF Explored
      <4>2. q.queue[n] = r.queue[n]
        BY <2>4, <3>1
      <4>3. QED
        BY <4>1, <4>2, Zenon
    <3>2. CASE n = len + 1
      <4>1. PICK depth \in Nat : depth = r.item.depth
        BY <1>6
      <4>2. PICK one \in Nat : one = depth + 1
        OBVIOUS
      <4>3. q.queue[n].depth = one /\ r.item.depth + 1 = one
        BY <1>7, <2>4, <3>2, <4>1, <4>2
      <4>4. depth <= one /\ one <= one
        BY <4>2
      <4>5. QED
        BY <4>1, <4>3, <4>4, Zenon
    <3>3. QED
      BY <2>4, <3>1, <3>2
  <2>7. \A k, n \in 1..(len + 1) : k <= n => q.queue[k].depth <= q.queue[n].depth
    <3> SUFFICES ASSUME NEW k \in 1..(len + 1), NEW n \in 1..(len + 1), k <= n
                 PROVE  q.queue[k].depth <= q.queue[n].depth
      OBVIOUS
    <3>1. CASE n \in 1..len
      <4>1. k \in 1..len
        BY <3>1
      <4>2. r.queue[k].depth <= r.queue[n].depth
        BY <1>3, <2>3, <3>1, <4>1 DEF Explored
      <4>3. QED
        BY <2>4, <3>1, <4>1, <4>2
    <3>2. CASE n = len + 1
      <4>1. q.queue[n].depth = r.item.depth + 1
        BY <1>7, <2>4, <3>2
      <4>2. QED
        BY <2>6, <4>1
    <3>3. QED
      BY <2>4, <3>1, <3>2
  <2>8. ASSUME NEW a \in all
        PROVE  /\ a.depth <= q.item.depth + 1
               /\ EndOf(a) \in Ways(q.m, q.seed)[a.depth]
               /\ a.at = q.seed \/ (a.at \in DOMAIN q.boosts
                                    /\ q.boosts[a.at] >= Boost(q.scores[q.seed].base, a.strength))
    <3>1. CASE a = next
      <4>1. a.depth = r.item.depth + 1 /\ a.depth <= r.item.depth + 1
        BY <1>6, <1>7, <3>1
      <4>2. EndOf(a) \in Ways(q.m, q.seed)[a.depth]
        BY <1>2, <1>7, <1>13, <3>1
      <4>3. a.at = q.seed \/ (a.at \in DOMAIN q.boosts /\ q.boosts[a.at] >= boost)
        BY <1>2, <1>7, <1>11, <3>1
      <4>4. QED
        BY <1>1, <1>2, <3>1, <4>1, <4>2, <4>3
    <3>2. CASE a \in acc
      <4>1. a.depth <= r.item.depth + 1 /\ EndOf(a) \in Ways(r.m, r.seed)[a.depth]
        BY <1>3, <3>2 DEF Explored
      <4>2. CASE a.at = r.seed
        BY <1>2, <4>1, <4>2
      <4>3. CASE a.at # r.seed
        <5>1. PICK v : v = Boost(r.scores[r.seed].base, a.strength)
          OBVIOUS
        <5>2. a.at \in DOMAIN r.boosts /\ r.boosts[a.at] >= v
          BY <1>3, <3>2, <4>3, <5>1 DEF Explored
        <5>3. a.strength \in Nat
          BY <1>3, <3>2 DEF Explored, Items
        <5>4. v \in Nat
          BY <1>5, <5>1, <5>3, BoostIs
        <5>5. q.boosts[a.at] >= r.boosts[a.at] /\ q.boosts[a.at] \in Nat /\ r.boosts[a.at] \in Nat
              /\ a.at \in DOMAIN q.boosts
          BY <1>11, <5>2 DEF Excitation
        <5>6. q.boosts[a.at] >= v
          BY <5>2, <5>4, <5>5
        <5>7. QED
          BY <1>2, <4>1, <5>1, <5>5, <5>6
      <4>4. QED
        BY <4>2, <4>3
    <3>3. QED
      BY <2>1, <3>1, <3>2
  <2>9. \A x \in DOMAIN q.best : \E a \in all : a.at = x /\ a.strength = q.best[x]
    <3> SUFFICES ASSUME NEW x \in DOMAIN q.best PROVE \E a \in all : a.at = x /\ a.strength = q.best[x]
      OBVIOUS
    <3>1. CASE x = b
      <4>1. next.strength > (IF b \in DOMAIN r.best THEN r.best[b] ELSE 0)
        BY DEF Improves
      <4>2. q.best[b] = next.strength
        BY <1>2, <4>1 DEF Raised
      <4>3. QED
        BY <1>7, <2>1, <3>1, <4>2
    <3>2. CASE x # b
      <4>1. x \in DOMAIN r.best /\ q.best[x] = r.best[x]
        BY <1>2, <3>2 DEF Raised
      <4>2. QED
        BY <1>3, <2>1, <4>1 DEF Explored
    <3>3. QED
      BY <3>1, <3>2
  <2>10. q.todo \subseteq Neighbors(q.m, q.item.at) /\ (q.todo # {} => q.item.depth < MaxDepth)
    BY <1>2, <1>3, <1>6 DEF Explored
  <2>11. ASSUME NotCutOff(q), NEW a \in all, a.depth < MaxDepth, ~InQueue(q, a), NEW n \in Neighbors(r.m, a.at)
         PROVE  (a = r.item /\ n \in r.todo \ {b}) \/ Leads(r.m, all, a, n)
    <3>1. NotCutOff(r)
      <4>1. IsFiniteSet(DOMAIN q.boosts)
        <5>1. IsFiniteSet(DOMAIN r.m) /\ DOMAIN q.boosts \subseteq DOMAIN r.m
          BY <1>2, <1>4, <1>12, EbConstantsOK DEF Excitation
        <5>2. QED
          BY <5>1, FS_Subset
      <4>2. QED
        BY <1>2, <1>11, <2>11, <4>1, CutStays
    <3>2. a \in acc /\ ~InQueue(r, a)
      BY <2>1, <2>3, <2>4, <2>11 DEF InQueue
    <3>3. (a = r.item /\ n \in r.todo) \/ Leads(r.m, acc, a, n)
      BY <1>3, <2>11, <3>1, <3>2 DEF Explored
    <3>4. CASE Leads(r.m, acc, a, n)
      BY <2>1, <3>4 DEF Leads
    <3>5. CASE a = r.item /\ n = b
      <4>1. next.depth <= r.item.depth + 1 /\ next.strength >= next.strength /\ next \in all
        BY <1>6, <1>7, <1>8, <2>1
      <4>2. QED
        BY <1>7, <3>5, <4>1 DEF Leads
    <3>6. QED
      BY <3>3, <3>4, <3>5
  <2>12. Explored(q, all)
    <3>1. NotCutOff(q) => \A a \in all : a.depth < MaxDepth /\ ~InQueue(q, a) =>
            \A n \in Neighbors(q.m, a.at) : (a = q.item /\ n \in q.todo) \/ Leads(q.m, all, a, n)
      BY <1>2, <2>11
    <3>2. /\ \A n \in 1..Len(q.queue) : q.item.depth <= q.queue[n].depth /\ q.queue[n].depth <= q.item.depth + 1
          /\ \A k, n \in 1..Len(q.queue) : k <= n => q.queue[k].depth <= q.queue[n].depth
      BY <1>2, <2>4, <2>6, <2>7
    <3>3. QED
      BY <2>2, <2>4, <2>8, <2>9, <2>10, <3>1, <3>2 DEF Explored
  <2>13. QED
    BY <2>1, <2>12
<1>15. ASSUME NotCutOff(q), NEW s \in Seeds(q.m, q.scores) \ (q.left \cup {q.seed}) PROVE Weighed(q, s)
  <2>1. NotCutOff(r)
    <3>1. IsFiniteSet(DOMAIN r.m) /\ DOMAIN q.boosts \subseteq DOMAIN r.m
      BY <1>2, <1>4, <1>12, EbConstantsOK DEF Excitation
    <3>2. IsFiniteSet(DOMAIN q.boosts)
      BY <3>1, FS_Subset
    <3>3. QED
      BY <1>2, <1>11, <1>15, <3>2, CutStays
  <2>2. Weighed(r, s)
    BY <1>2, <1>15, <2>1 DEF WalkFits
  <2>3. s \in DOMAIN r.m /\ r.scores[s].base \in Nat
    BY <1>2, <1>4, <1>15, SeedsAre
  <2> SUFFICES ASSUME NEW d \in 1..MaxDepth, NEW w \in Ways(r.m, s)[d], w.at # s
               PROVE  BoostOf(q, w.at) >= Boost(r.scores[s].base, w.strength)
    BY <1>2 DEF Weighed
  <2>4. PICK v : v = Boost(r.scores[s].base, w.strength)
    OBVIOUS
  <2>5. BoostOf(r, w.at) >= v
    BY <2>2, <2>4 DEF Weighed
  <2>6. d \in 0..MaxDepth
    BY <1>4
  <2>7. w.strength \in Nat
    BY <1>4, <2>3, <2>6, WaysEnd
  <2>8. v \in Nat
    BY <2>3, <2>4, <2>7, BoostIs
  <2>9. BoostOf(q, w.at) \in Nat /\ BoostOf(r, w.at) \in Nat /\ BoostOf(q, w.at) >= BoostOf(r, w.at)
    BY <1>11 DEF BoostOf, Excitation
  <2>10. BoostOf(q, w.at) >= v
    BY <2>5, <2>8, <2>9
  <2>11. QED
    BY <2>4, <2>10
<1>16. Attained(q)
  <2> SUFFICES ASSUME NEW i \in DOMAIN q.boosts
               PROVE  \E s \in Seeds(r.m, r.scores) \ {i}, d \in 1..MaxDepth :
                        \E w \in Ways(r.m, s)[d] : w.at = i /\ q.boosts[i] = Boost(r.scores[s].base, w.strength)
    BY <1>2 DEF Attained
  <2>1. CASE i \in DOMAIN r.boosts /\ q.boosts[i] = r.boosts[i]
    <3>1. PICK s \in Seeds(r.m, r.scores) \ {i}, d \in 1..MaxDepth :
            \E w \in Ways(r.m, s)[d] : w.at = i /\ r.boosts[i] = Boost(r.scores[s].base, w.strength)
      BY <2>1 DEF WalkFits, Attained
    <3>2. QED
      BY <2>1, <3>1
  <2>2. CASE i = b /\ b # r.seed /\ q.boosts[i] = boost
    <3>1. r.item.depth + 1 \in 1..MaxDepth
      BY <1>4, <1>6
    <3>2. EndOf(next).at = b /\ EndOf(next).strength = next.strength
      BY <1>7 DEF EndOf
    <3>3. r.seed \in Seeds(r.m, r.scores) \ {i}
      BY <1>5, <2>2
    <3>4. EndOf(next).at = i /\ q.boosts[i] = Boost(r.scores[r.seed].base, EndOf(next).strength)
      BY <1>1, <2>2, <3>2
    <3>5. QED
      BY <1>13, <3>1, <3>3, <3>4
  <2>3. QED
    BY <1>11, <2>1, <2>2
<1>17. q.seed \in Seeds(q.m, q.scores) \ q.left /\ q.left \subseteq Seeds(q.m, q.scores)
  BY <1>2, <1>5 DEF WalkFits
<1>18. q.bundle = Nothing /\ q.used = 0
  BY <1>2 DEF WalkFits
<1>19. QED
  BY <1>2, <1>12, <1>14, <1>15, <1>16, <1>17, <1>18 DEF WalkFits

\* The choice so far: the boosts are right, what was looked at is in or contradicts what is, and
\* the tokens are counted.
ChoiceFits(r) ==
  /\ BoostIsBestPath(r)
  /\ r.eligible \subseteq DOMAIN r.m /\ r.remaining \subseteq r.eligible
  /\ DOMAIN r.bundle \subseteq r.eligible \ r.remaining
  /\ IsFiniteSet(Tokens(r.m, r.bundle))
  /\ r.used = Cardinality(Tokens(r.m, r.bundle)) /\ r.used <= r.ask.budget
  /\ r.ask.exclude => \A i, j \in DOMAIN r.bundle : ~Contradicts(r.m, i, j)
  /\ \A i \in (r.eligible \ r.remaining) \ DOMAIN r.bundle : r.ask.exclude /\ Disputes(r, i)

LEMMA SameBoosts ==
  ASSUME NEW r, NEW q, q.m = r.m, q.scores = r.scores, q.boosts = r.boosts, BoostIsBestPath(r)
  PROVE  BoostIsBestPath(q)
BY DEF BoostIsBestPath, NotCutOff, BoostOf

LEMMA RankFits ==
  ASSUME NEW r, Excitation(r), WalkFits(r), r.queue = <<>>, r.todo = {}, r.left = {},
         NEW eligible \in SUBSET DOMAIN r.m, NEW q,
         q = [r EXCEPT !.pc = "choose", !.eligible = eligible, !.remaining = eligible]
  PROVE  Excitation(q) /\ ChoiceFits(q) /\ q.pc = "choose"
<1>1. /\ q.pc = "choose" /\ q.m = r.m /\ q.scores = r.scores /\ q.ask = r.ask /\ q.boosts = r.boosts
      /\ q.eligible = eligible /\ q.remaining = eligible /\ q.bundle = r.bundle /\ q.used = r.used
  BY DEF Excitation
<1>2. Excitation(q)
  BY <1>1 DEF Excitation
<1>3. BoostIsBestPath(r)
  <2>1. NotCutOff(r) => \A s \in Seeds(r.m, r.scores) : Weighed(r, s)
    BY WalkIsOver
  <2>2. Attained(r)
    BY DEF WalkFits
  <2>3. QED
    BY <2>1, <2>2 DEF BoostIsBestPath, Weighed, Attained
<1>4. BoostIsBestPath(q)
  BY <1>1, <1>3, SameBoosts
<1>5. q.bundle = <<>> /\ DOMAIN q.bundle = {} /\ q.used = 0
  BY <1>1 DEF WalkFits, Nothing
<1>6. Tokens(q.m, q.bundle) = {}
  BY <1>5 DEF Tokens
<1>7. IsFiniteSet(Tokens(q.m, q.bundle)) /\ q.used = Cardinality(Tokens(q.m, q.bundle))
  BY <1>5, <1>6, FS_EmptySet
<1>8. q.used <= q.ask.budget
  BY <1>1, <1>5, EbConstantsOK DEF Excitation
<1>9. QED
  BY <1>1, <1>2, <1>4, <1>5, <1>7, <1>8 DEF ChoiceFits

\* A record that contradicts one chosen is passed over.
LEMMA SkipFits ==
  ASSUME NEW r, Excitation(r), ChoiceFits(r), NEW i \in Fits(r), r.ask.exclude, Disputes(r, i), NEW q,
         q = [r EXCEPT !.remaining = @ \ {i}]
  PROVE  Excitation(q) /\ ChoiceFits(q) /\ q.pc = r.pc
<1>1. /\ q.pc = r.pc /\ q.m = r.m /\ q.scores = r.scores /\ q.ask = r.ask /\ q.boosts = r.boosts
      /\ q.eligible = r.eligible /\ q.remaining = r.remaining \ {i} /\ q.bundle = r.bundle /\ q.used = r.used
  BY DEF Excitation
<1>2. Excitation(q)
  BY <1>1 DEF Excitation
<1>3. BoostIsBestPath(q)
  BY <1>1, SameBoosts DEF ChoiceFits
<1>4. \A j : Disputes(q, j) = Disputes(r, j)
  BY <1>1 DEF Disputes
<1>5. \A j \in (q.eligible \ q.remaining) \ DOMAIN q.bundle : q.ask.exclude /\ Disputes(q, j)
  BY <1>1, <1>4 DEF ChoiceFits
<1>6. QED
  BY <1>1, <1>2, <1>3, <1>5 DEF ChoiceFits

\* The tokens of one more record are those of its own and those there were.
LEMMA MoreTokens ==
  ASSUME NEW m, NEW bundle, NEW i, i \notin DOMAIN bundle, NEW detail, Cost(m, i, detail) \in Nat, NEW more,
         more = [x \in DOMAIN bundle \cup {i} |-> IF x = i THEN detail ELSE bundle[x]],
         IsFiniteSet(Tokens(m, bundle))
  PROVE  /\ IsFiniteSet(Tokens(m, more))
         /\ Cardinality(Tokens(m, more)) = Cardinality(Tokens(m, bundle)) + Cost(m, i, detail)
<1>1. PICK z \in Nat : z = Cost(m, i, detail)
  OBVIOUS
<1>2. PICK own : own = {i} \X (1..z)
  OBVIOUS
<1>3. PICK old : old = Tokens(m, bundle)
  OBVIOUS
<1>4. IsFiniteSet(own) /\ Cardinality(own) = z
  <2>1. IsFiniteSet({i}) /\ Cardinality({i}) = 1
    BY FS_Singleton
  <2>2. IsFiniteSet(1..z) /\ Cardinality(1..z) = z
    <3>1. IsFiniteSet(1..z) /\ Cardinality(1..z) = IF 1 > z THEN 0 ELSE z - 1 + 1
      BY FS_Interval
    <3>2. (IF 1 > z THEN 0 ELSE z - 1 + 1) = z
      OBVIOUS
    <3>3. QED
      BY <3>1, <3>2
  <2>3. IsFiniteSet(own) /\ Cardinality(own) = Cardinality({i}) * Cardinality(1..z)
    BY <1>2, <2>1, <2>2, FS_Product
  <2>4. QED
    BY <2>1, <2>2, <2>3
<1>5. own \cap old = {}
  BY <1>2, <1>3 DEF Tokens
<1>6. Tokens(m, more) = old \cup own
  <2>1. DOMAIN more = DOMAIN bundle \cup {i} /\ more[i] = detail /\ \A x \in DOMAIN bundle : more[x] = bundle[x]
    OBVIOUS
  <2>2. {i} \X (1..Cost(m, i, more[i])) = own
    BY <1>1, <1>2, <2>1
  <2>3. \A x \in DOMAIN bundle : {x} \X (1..Cost(m, x, more[x])) = {x} \X (1..Cost(m, x, bundle[x]))
    BY <2>1
  <2>4. PICK Part : Part = [x \in DOMAIN more |-> {x} \X (1..Cost(m, x, more[x]))]
    OBVIOUS
  <2>5. Tokens(m, more) = UNION {Part[x] : x \in DOMAIN more}
    BY <2>4 DEF Tokens
  <2>6. old = UNION {Part[x] : x \in DOMAIN bundle}
    BY <1>3, <2>1, <2>3, <2>4 DEF Tokens
  <2>7. Part[i] = own
    BY <2>1, <2>2, <2>4
  <2>8. QED
    BY <2>1, <2>5, <2>6, <2>7
<1>7. /\ IsFiniteSet(old \cup own)
      /\ Cardinality(old \cup own) = Cardinality(old) + Cardinality(own) - Cardinality(old \cap own)
  BY <1>3, <1>4, FS_Union
<1>8. Cardinality(old \cap own) = 0 /\ Cardinality(old) \in Nat
  BY <1>3, <1>5, FS_EmptySet, FS_CardinalityType
<1>9. Cardinality(old \cup own) = Cardinality(old) + z
  <2>1. Cardinality(old) + z - 0 = Cardinality(old) + z
    BY <1>8
  <2>2. QED
    BY <1>4, <1>7, <1>8, <2>1
<1>10. QED
  BY <1>1, <1>3, <1>6, <1>7, <1>9, Zenon

LEMMA ContradictBoth == \A m, a, b : Contradicts(m, a, b) => Contradicts(m, b, a) /\ a # b
BY DEF Contradicts, SameSubject

\* A record that fits is put in.
LEMMA AddFits ==
  ASSUME NEW r, Excitation(r), ChoiceFits(r), NEW i \in Fits(r), ~(r.ask.exclude /\ Disputes(r, i)),
         NEW q, q = Added(r, i)
  PROVE  Excitation(q) /\ ChoiceFits(q) /\ q.pc = r.pc
<1> PICK detail : detail = (i \in DOMAIN r.prior /\ r.prior[i] /\ r.used + r.m[i].long <= r.ask.budget)
  OBVIOUS
<1>1. PICK more : more = [x \in DOMAIN r.bundle \cup {i} |-> IF x = i THEN detail ELSE r.bundle[x]]
  OBVIOUS
<1>2. /\ q.pc = r.pc /\ q.m = r.m /\ q.scores = r.scores /\ q.ask = r.ask /\ q.boosts = r.boosts
      /\ q.eligible = r.eligible /\ q.remaining = r.remaining \ {i}
      /\ q.bundle = more /\ q.used = r.used + Cost(r.m, i, detail)
      /\ q = [pc |-> q.pc, prior |-> q.prior, m |-> q.m, scores |-> q.scores, ask |-> q.ask,
              left |-> q.left, seed |-> q.seed, item |-> q.item, todo |-> q.todo, queue |-> q.queue,
              best |-> q.best, boosts |-> q.boosts,
              eligible |-> q.eligible, remaining |-> q.remaining, bundle |-> q.bundle, used |-> q.used]
  BY <1>1 DEF Excitation, Added
<1>3. Excitation(q)
  BY <1>2 DEF Excitation
<1>4. BoostIsBestPath(q)
  BY <1>2, SameBoosts DEF ChoiceFits
<1>5. /\ i \in r.remaining /\ i \in r.eligible /\ i \in DOMAIN r.m /\ i \notin DOMAIN r.bundle
      /\ r.used + r.m[i].short <= r.ask.budget
  BY DEF Fits, ChoiceFits
<1>6. r.m[i].short \in Nat /\ r.m[i].long \in Nat /\ r.ask.budget \in Nat
  BY <1>5, EbConstantsOK DEF Excitation
<1>7. Cost(r.m, i, detail) \in Nat /\ r.used + Cost(r.m, i, detail) <= r.ask.budget
  <2>1. CASE detail
    <3>1. r.used + r.m[i].long <= r.ask.budget
      BY <2>1
    <3>2. Cost(r.m, i, detail) = r.m[i].long
      BY <2>1 DEF Cost
    <3>3. QED
      BY <1>6, <3>1, <3>2
  <2>2. CASE ~detail
    <3>1. Cost(r.m, i, detail) = r.m[i].short
      BY <2>2 DEF Cost
    <3>2. QED
      BY <1>5, <1>6, <3>1
  <2>3. QED
    BY <2>1, <2>2
<1>8. DOMAIN q.bundle = DOMAIN r.bundle \cup {i}
  BY <1>1, <1>2
<1>9. /\ IsFiniteSet(Tokens(q.m, q.bundle))
      /\ q.used = Cardinality(Tokens(q.m, q.bundle)) /\ q.used <= q.ask.budget
  <2>1. IsFiniteSet(Tokens(r.m, r.bundle)) /\ r.used = Cardinality(Tokens(r.m, r.bundle))
    BY DEF ChoiceFits
  <2>2. /\ IsFiniteSet(Tokens(r.m, more))
        /\ Cardinality(Tokens(r.m, more)) = Cardinality(Tokens(r.m, r.bundle)) + Cost(r.m, i, detail)
    BY <1>1, <1>5, <1>7, <2>1, MoreTokens
  <2>3. QED
    BY <1>2, <1>7, <2>1, <2>2
<1>10. q.ask.exclude => \A a, b \in DOMAIN q.bundle : ~Contradicts(q.m, a, b)
  <2> SUFFICES ASSUME r.ask.exclude, NEW a \in DOMAIN r.bundle \cup {i}, NEW b \in DOMAIN r.bundle \cup {i},
                      Contradicts(r.m, a, b)
               PROVE  FALSE
    BY <1>2, <1>8
  <2>1. ~Disputes(r, i)
    OBVIOUS
  <2>2. a # b /\ Contradicts(r.m, b, a)
    BY ContradictBoth
  <2>3. CASE a = i
    BY <2>1, <2>2, <2>3 DEF Disputes
  <2>4. CASE b = i
    BY <2>1, <2>2, <2>4 DEF Disputes
  <2>5. CASE a # i /\ b # i
    BY <2>5 DEF ChoiceFits
  <2>6. QED
    BY <2>3, <2>4, <2>5
<1>11. \A j \in (q.eligible \ q.remaining) \ DOMAIN q.bundle : q.ask.exclude /\ Disputes(q, j)
  <2> SUFFICES ASSUME NEW j \in (q.eligible \ q.remaining) \ DOMAIN q.bundle
               PROVE  q.ask.exclude /\ Disputes(q, j)
    OBVIOUS
  <2>1. j \in (r.eligible \ r.remaining) \ DOMAIN r.bundle
    BY <1>2, <1>8
  <2>2. r.ask.exclude /\ Disputes(r, j)
    BY <2>1 DEF ChoiceFits
  <2>3. QED
    BY <1>2, <1>8, <2>2 DEF Disputes
<1>12. q.eligible \subseteq DOMAIN q.m /\ q.remaining \subseteq q.eligible /\ DOMAIN q.bundle \subseteq q.eligible \ q.remaining
  BY <1>2, <1>5, <1>8 DEF ChoiceFits
<1>13. QED
  BY <1>2, <1>3, <1>4, <1>9, <1>10, <1>11, <1>12 DEF ChoiceFits

LEMMA ChosenIsSound ==
  ASSUME NEW r, Excitation(r), ChoiceFits(r), Fits(r) = {}
  PROVE  BundleIsSound(r)
<1>1. Cardinality(Tokens(r.m, r.bundle)) = r.used /\ r.used \in Nat /\ r.used <= r.ask.budget
  BY FS_CardinalityType DEF ChoiceFits
<1>2. ASSUME NEW i \in r.eligible \ DOMAIN r.bundle
      PROVE  r.used + r.m[i].short > r.ask.budget \/ (r.ask.exclude /\ Disputes(r, i))
  <2>1. CASE i \in r.remaining
    <3>1. i \in DOMAIN r.m /\ ~(r.used + r.m[i].short <= r.ask.budget)
      BY <1>2, <2>1 DEF Fits, ChoiceFits
    <3>2. r.m[i].short \in Nat /\ r.ask.budget \in Nat
      BY <3>1, EbConstantsOK DEF Excitation
    <3>3. PICK short \in Nat, budget \in Nat : short = r.m[i].short /\ budget = r.ask.budget
      BY <3>2
    <3>4. r.used + short > budget
      BY <1>1, <3>1, <3>3
    <3>5. QED
      BY <3>3, <3>4
  <2>2. CASE i \notin r.remaining
    BY <1>2, <2>2 DEF ChoiceFits
  <2>3. QED
    BY <2>1, <2>2
<1>3. QED
  BY <1>1, <1>2 DEF BundleIsSound, ChoiceFits

\* An excitation as it walks, chooses and is done.
JobFits(r) ==
  \/ r = Unasked
  \/ /\ Excitation(r)
     /\ \/ r.pc = "walk" /\ WalkFits(r)
        \/ r.pc = "choose" /\ ChoiceFits(r)
        \/ r.pc = "done" /\ ChoiceFits(r) /\ Fits(r) = {}
JobsFit == excited = [c \in Callers |-> excited[c]] /\ \A c \in Callers : JobFits(excited[c])

\* A step of one excitation leaves the others as they are.
LEMMA OneJob ==
  ASSUME JobsFit, NEW c \in Callers, NEW q, JobFits(q), excited' = [excited EXCEPT ![c] = q]
  PROVE  JobsFit'
<1>1. excited' = [x \in Callers |-> IF x = c THEN q ELSE excited[x]]
  BY DEF JobsFit
<1>2. excited' = [x \in Callers |-> excited'[x]]
  BY <1>1
<1>3. ASSUME NEW x \in Callers PROVE JobFits(excited'[x])
  <2>1. CASE x = c
    <3>1. excited'[x] = q
      BY <1>1, <2>1
    <3>2. QED
      BY <3>1
  <2>2. CASE x # c
    <3>1. excited'[x] = excited[x]
      BY <1>1, <2>2
    <3>2. JobFits(excited[x])
      BY DEF JobsFit
    <3>3. QED
      BY <3>1, <3>2
  <2>3. QED
    BY <2>1, <2>2
<1>4. QED
  BY <1>2, <1>3 DEF JobsFit

\* A step is a step of the phase it starts from.
LEMMA PhaseIs ==
  ASSUME JobsFit, NEW c \in Callers, NEW r, r = excited[c]
  PROVE  /\ r.pc = "walk" => Excitation(r) /\ WalkFits(r)
         /\ r.pc = "choose" => Excitation(r) /\ ChoiceFits(r)
         /\ r.pc = "done" => Excitation(r) /\ ChoiceFits(r) /\ Fits(r) = {}
<1>1. JobFits(r)
  BY DEF JobsFit
<1>2. r = Unasked => r.pc = "unasked"
  BY DEF Unasked
<1>3. QED
  BY <1>1, <1>2 DEF JobFits

LEMMA WalkStep ==
  ASSUME JobsFit, NEW c \in Callers, BeginExcite(c) \/ NextSeed(c) \/ TakeItem(c)
  PROVE  JobsFit'
<1>1. CASE BeginExcite(c)
  <2>1. PICK m \in Corpora, scores \in Scorings, ask \in Recalls :
          excited' = [excited EXCEPT ![c] =
            [pc |-> "walk", prior |-> stm, m |-> m, scores |-> scores, ask |-> ask,
             left |-> Seeds(m, scores), seed |-> Nobody, item |-> StartItem(Nobody), todo |-> {}, queue |-> <<>>,
             best |-> Nothing, boosts |-> Nothing,
             eligible |-> {}, remaining |-> {}, bundle |-> Nothing, used |-> 0]]
    BY <1>1 DEF BeginExcite
  <2>2. PICK q : q =
          [pc |-> "walk", prior |-> stm, m |-> m, scores |-> scores, ask |-> ask,
           left |-> Seeds(m, scores), seed |-> Nobody, item |-> StartItem(Nobody), todo |-> {}, queue |-> <<>>,
           best |-> Nothing, boosts |-> Nothing,
           eligible |-> {}, remaining |-> {}, bundle |-> Nothing, used |-> 0]
    OBVIOUS
  <2>3. Excitation(q) /\ WalkFits(q)
    BY <2>2, BeginFits
  <2>4. q.pc = "walk"
    BY <2>2
  <2>5. JobFits(q)
    BY <2>3, <2>4 DEF JobFits
  <2>6. excited' = [excited EXCEPT ![c] = q]
    BY <2>1, <2>2
  <2>7. QED
    BY <2>5, <2>6, OneJob
<1>2. CASE NextSeed(c)
  <2>1. PICK r : r = excited[c]
    OBVIOUS
  <2>2. /\ r.pc = "walk" /\ r.todo = {} /\ r.queue = <<>>
        /\ \E s \in r.left : excited' = [excited EXCEPT ![c] =
             [r EXCEPT !.left = @ \ {s}, !.seed = s, !.item = StartItem(s), !.queue = <<StartItem(s)>>,
                       !.best = [x \in {s} |-> Unit]]]
    BY <1>2, <2>1 DEF NextSeed
  <2>3. PICK s \in r.left : excited' = [excited EXCEPT ![c] =
          [r EXCEPT !.left = @ \ {s}, !.seed = s, !.item = StartItem(s), !.queue = <<StartItem(s)>>,
                    !.best = [x \in {s} |-> Unit]]]
    BY <2>2
  <2>4. PICK q : q = [r EXCEPT !.left = @ \ {s}, !.seed = s, !.item = StartItem(s), !.queue = <<StartItem(s)>>,
                               !.best = [x \in {s} |-> Unit]]
    OBVIOUS
  <2>5. Excitation(r) /\ WalkFits(r)
    BY <2>1, <2>2, PhaseIs
  <2>6. Excitation(q) /\ WalkFits(q) /\ q.pc = r.pc
    BY <2>2, <2>4, <2>5, NextSeedFits
  <2>7. JobFits(q)
    BY <2>2, <2>6 DEF JobFits
  <2>8. excited' = [excited EXCEPT ![c] = q]
    BY <2>3, <2>4
  <2>9. QED
    BY <2>7, <2>8, OneJob
<1>3. CASE TakeItem(c)
  <2>1. PICK r : r = excited[c]
    OBVIOUS
  <2>2. PICK q : q = Taken(r)
    OBVIOUS
  <2>3. r.pc = "walk" /\ r.todo = {} /\ r.queue # <<>> /\ excited' = [excited EXCEPT ![c] = q]
    BY <1>3, <2>1, <2>2 DEF TakeItem
  <2>4. Excitation(r) /\ WalkFits(r)
    BY <2>1, <2>3, PhaseIs
  <2>5. Excitation(q) /\ WalkFits(q) /\ q.pc = r.pc
    BY <2>2, <2>3, <2>4, TakeItemFits
  <2>6. JobFits(q)
    BY <2>3, <2>5 DEF JobFits
  <2>7. QED
    BY <2>3, <2>6, OneJob
<1>4. QED
  BY <1>1, <1>2, <1>3

LEMMA ReachStep ==
  ASSUME JobsFit, NEW c \in Callers, Reach(c)
  PROVE  JobsFit'
<1>1. PICK r : r = excited[c]
  OBVIOUS
<1>2. r.pc = "walk"
  BY <1>1 DEF Reach
<1>3. PICK b \in r.todo :
        excited' = [excited EXCEPT ![c] =
          IF Improves(r, b) /\ HasRoom(r, b) THEN Followed(r, b) ELSE [r EXCEPT !.todo = @ \ {b}]]
  BY <1>1 DEF Reach
<1>4. Excitation(r) /\ WalkFits(r)
  BY <1>1, <1>2, PhaseIs
<1>5. PICK rest : rest = [r EXCEPT !.todo = @ \ {b}]
  OBVIOUS
<1>6. CASE ~Improves(r, b) \/ ~HasRoom(r, b)
  <2>1. Excitation(rest) /\ WalkFits(rest) /\ rest.pc = r.pc
    BY <1>4, <1>5, <1>6, PassOverFits
  <2>2. JobFits(rest)
    BY <1>2, <2>1 DEF JobFits
  <2>3. excited' = [excited EXCEPT ![c] = rest]
    BY <1>3, <1>5, <1>6
  <2>4. QED
    BY <2>2, <2>3, OneJob
<1>7. CASE Improves(r, b) /\ HasRoom(r, b)
  <2>1. PICK q : q = Followed(r, b)
    OBVIOUS
  <2>2. PICK next : next = NextItem(r, b)
    OBVIOUS
  <2>3. Excitation(q) /\ WalkFits(q) /\ q.pc = r.pc
    BY <1>4, <1>7, <2>1, <2>2, FollowFits
  <2>4. JobFits(q)
    BY <1>2, <2>3 DEF JobFits
  <2>5. excited' = [excited EXCEPT ![c] = q]
    BY <1>3, <1>7, <2>1
  <2>6. QED
    BY <2>4, <2>5, OneJob
<1>8. QED
  BY <1>6, <1>7

LEMMA ChoiceStep ==
  ASSUME JobsFit, NEW c \in Callers, Rank(c) \/ Choose(c) \/ SetStm(c)
  PROVE  JobsFit'
<1>1. PICK r : r = excited[c]
  OBVIOUS
<1>2. CASE Rank(c)
  <2>1. PICK eligible : eligible = IF Answerable(r.m, r.scores) THEN {i \in DOMAIN r.m : Eligible(r, i)} ELSE {}
    OBVIOUS
  <2>2. PICK q : q = [r EXCEPT !.pc = "choose", !.eligible = eligible, !.remaining = eligible]
    OBVIOUS
  <2>3. /\ r.pc = "walk" /\ r.todo = {} /\ r.queue = <<>> /\ r.left = {}
        /\ excited' = [excited EXCEPT ![c] = q]
    BY <1>1, <1>2, <2>1, <2>2 DEF Rank
  <2>4. Excitation(r) /\ WalkFits(r)
    BY <1>1, <2>3, PhaseIs
  <2>5. eligible \in SUBSET DOMAIN r.m
    BY <2>1
  <2>6. Excitation(q) /\ ChoiceFits(q) /\ q.pc = "choose"
    BY <2>2, <2>3, <2>4, <2>5, RankFits
  <2>7. JobFits(q)
    BY <2>6 DEF JobFits
  <2>8. QED
    BY <2>3, <2>7, OneJob
<1>3. CASE Choose(c)
  <2>1. r.pc = "choose"
    BY <1>1, <1>3 DEF Choose
  <2>2. PICK i \in Fits(r) :
          excited' = [excited EXCEPT ![c] =
            IF r.ask.exclude /\ Disputes(r, i) THEN [r EXCEPT !.remaining = @ \ {i}] ELSE Added(r, i)]
    BY <1>1, <1>3 DEF Choose
  <2>3. Excitation(r) /\ ChoiceFits(r)
    BY <1>1, <2>1, PhaseIs
  <2>4. PICK rest : rest = [r EXCEPT !.remaining = @ \ {i}]
    OBVIOUS
  <2>5. CASE r.ask.exclude /\ Disputes(r, i)
    <3>1. Excitation(rest) /\ ChoiceFits(rest) /\ rest.pc = r.pc
      BY <2>3, <2>4, <2>5, SkipFits
    <3>2. JobFits(rest)
      BY <2>1, <3>1 DEF JobFits
    <3>3. excited' = [excited EXCEPT ![c] = rest]
      BY <2>2, <2>4, <2>5
    <3>4. QED
      BY <3>2, <3>3, OneJob
  <2>6. CASE ~(r.ask.exclude /\ Disputes(r, i))
    <3>1. PICK q : q = Added(r, i)
      OBVIOUS
    <3>2. q.pc = r.pc /\ Excitation(q) /\ ChoiceFits(q)
      BY <2>3, <2>6, <3>1, AddFits
    <3>3. excited' = [excited EXCEPT ![c] = q]
      BY <2>2, <2>6, <3>1
    <3>4. JobFits(q)
      BY <2>1, <3>2 DEF JobFits
    <3>5. QED
      BY <3>3, <3>4, OneJob
  <2>7. QED
    BY <2>5, <2>6
<1>4. CASE SetStm(c)
  <2>1. PICK q : q = [r EXCEPT !.pc = "done"]
    OBVIOUS
  <2>2. /\ r.pc = "choose" /\ Fits(r) = {}
        /\ excited' = [excited EXCEPT ![c] = q]
    BY <1>1, <1>4, <2>1 DEF SetStm
  <2>3. Excitation(r) /\ ChoiceFits(r)
    BY <1>1, <2>2, PhaseIs
  <2>4. /\ q.pc = "done" /\ q.m = r.m /\ q.scores = r.scores /\ q.ask = r.ask /\ q.boosts = r.boosts
        /\ q.eligible = r.eligible /\ q.remaining = r.remaining /\ q.bundle = r.bundle /\ q.used = r.used
    BY <2>1, <2>3 DEF Excitation
  <2>5. Excitation(q)
    BY <2>1, <2>3, <2>4 DEF Excitation
  <2>6. BoostIsBestPath(q)
    BY <2>3, <2>4, SameBoosts DEF ChoiceFits
  <2>7. ChoiceFits(q)
    BY <2>3, <2>4, <2>6 DEF ChoiceFits, Disputes
  <2>8. Fits(q) = {}
    BY <2>2, <2>4 DEF Fits
  <2>9. JobFits(q)
    BY <2>4, <2>5, <2>7, <2>8 DEF JobFits
  <2>10. QED
    BY <2>2, <2>9, OneJob
<1>5. QED
  BY <1>2, <1>3, <1>4

LEMMA RecallStep ==
  ASSUME JobsFit, [EbNext]_ebVars
  PROVE  JobsFit'
<1>1. CASE excited' = excited
  BY <1>1 DEF JobsFit
<1>2. ASSUME NEW c \in Callers,
             BeginExcite(c) \/ NextSeed(c) \/ TakeItem(c) \/ Reach(c) \/ Rank(c) \/ Choose(c) \/ SetStm(c)
      PROVE  JobsFit'
  BY <1>2, WalkStep, ReachStep, ChoiceStep
<1>3. CASE ReadExpand \/ WriteExpand \/ ClearStm
  BY <1>1, <1>3 DEF ReadExpand, WriteExpand, ClearStm
<1>4. CASE UNCHANGED ebVars
  BY <1>1, <1>4 DEF ebVars
<1>5. QED
  BY <1>2, <1>3, <1>4 DEF EbNext

\* Whatever the records, their bonds and their scores, and however excitations, expansions and
\* resets interleave: an excitation that is done has given every record the boost of the strongest
\* way to it and no other (unless MaxNodes cut the walk off), and its bundle keeps the budget, holds
\* no two records that contradict each other when they are to be excluded, and leaves out nothing
\* it had room for. (app/emr.py: apply_graph_expansion, select_stm)
THEOREM RecallHoldsUp == EbSpec => []RecallIsSound
<1>1. EbInit => JobsFit
  BY DEF EbInit, JobsFit, JobFits
<1>2. JobsFit /\ [EbNext]_ebVars => JobsFit'
  BY RecallStep
<1>3. JobsFit => RecallIsSound
  <2> SUFFICES ASSUME JobsFit, NEW c \in Callers, excited[c].pc = "done"
               PROVE  BoostIsBestPath(excited[c]) /\ BundleIsSound(excited[c])
    BY DEF RecallIsSound
  <2>1. PICK r : r = excited[c]
    OBVIOUS
  <2>2. Excitation(r) /\ ChoiceFits(r) /\ Fits(r) = {}
    BY <2>1, PhaseIs
  <2>3. BundleIsSound(r)
    BY <2>2, ChosenIsSound
  <2>4. BoostIsBestPath(r)
    BY <2>2 DEF ChoiceFits
  <2>5. QED
    BY <2>1, <2>3, <2>4
<1>4. QED
  BY <1>1, <1>2, <1>3, PTL DEF EbSpec
=============================================================================
