------------------------------ MODULE MCMemory ------------------------------
(*****************************************************************************)
(* The document ledger and what reads and writes memories through it, each a *)
(* part of its own: the JSON store, the Clause V gate, the EMR write         *)
(* gateway, list_latest, the EMR bundle, its reinforcement overlay, the AMUL *)
(* field and its retrieval layer.  A behaviour chooses its part in the first *)
(* state, so their state spaces add up.                                      *)
(*****************************************************************************)
EXTENDS JsonStore, ClauseV, EmrWrite, EmrDynamics, EmrBundle, LedgerReads, AmulField, AmulRag, TLC

CONSTANT Parts

VARIABLE part

\* Only the part chosen moves; the variables of the others stand still.
MCInit ==
  /\ part \in Parts
  /\ JsInit /\ CvInit /\ EwInit /\ LrInit /\ EdInit /\ EbInit /\ AfInit /\ RgInit
  /\ part # "json" => backend = "file" /\ disk = NoFile
  /\ part # "gate" => softMode = "off"
  /\ part # "overlay" => file = NoSidecar
  /\ part # "reads" => ~reader.filters.superseded

MCNext ==
  \/ part = "json" /\ JsNext /\ UNCHANGED <<part, cvVars, ewVars, lrVars, ebVars, edVars,
       afVars, rgVars>>
  \/ part = "gate" /\ CvNext /\ UNCHANGED <<part, jsVars, ewVars, lrVars, ebVars, edVars,
       afVars, rgVars>>
  \/ part = "write" /\ EwNext /\ UNCHANGED <<part, jsVars, cvVars, lrVars, ebVars, edVars,
       afVars, rgVars>>
  \/ part = "reads" /\ LrNext /\ UNCHANGED <<part, jsVars, cvVars, ewVars, ebVars, edVars,
       afVars, rgVars>>
  \/ part = "bundle" /\ EbNext /\ UNCHANGED <<part, jsVars, cvVars, ewVars, lrVars,
       edVars, afVars, rgVars>>
  \/ part = "overlay" /\ EdNext /\ UNCHANGED <<part, jsVars, cvVars, ewVars, lrVars,
       ebVars, afVars, rgVars>>
  \/ part = "field" /\ AfNext /\ UNCHANGED <<part, jsVars, cvVars, ewVars, lrVars, ebVars,
       edVars, rgVars>>
  \/ part = "rag" /\ RgNext /\ UNCHANGED <<part, jsVars, cvVars, ewVars, lrVars, ebVars,
       edVars, afVars>>

MCSpec == MCInit /\ [][MCNext]_<<part, jsVars, cvVars, ewVars, lrVars, ebVars, edVars,
            afVars, rgVars>>

-----------------------------------------------------------------------------
(* Values of the constants *)

MCScanFilters == {[superseded |-> b, archived |-> b, twin |-> b] : b \in BOOLEAN}

Rec(s, t, h, su, e, sh, lo) == [subject |-> s, tags |-> t, hash |-> h, supersedes |-> su,
                                evidence |-> e, short |-> sh, long |-> lo]

\* Two ledgers of four records: bonds by tags and subject, replacement, evidence.  A filter
\* may leave out the last record of the first.
Bonded ==
  (1 :> Rec(1, {"x"}, 1, 0, 0, 1, 3)) @@ (2 :> Rec(1, {"x"}, 2, 1, 0, 1, 2))
    @@ (3 :> Rec(0, {"x"}, 3, 0, 2, 2, 3)) @@ (4 :> Rec(0, {"y"}, 3, 0, 3, 1, 1))
Chained ==
  (1 :> Rec(1, {}, 1, 0, 0, 1, 3)) @@ (2 :> Rec(2, {}, 2, 1, 0, 2, 2))
    @@ (3 :> Rec(2, {}, 3, 2, 0, 1, 3)) @@ (4 :> Rec(1, {"y"}, 1, 3, 0, 1, 2))
MCCorpora == {Bonded, [i \in 1..3 |-> Bonded[i]], Chained}
Weak == [q |-> 5, p |-> 50, base |-> 3]
Fair == [q |-> 60, p |-> 50, base |-> 40]
Strong == [q |-> 70, p |-> 50, base |-> 50]
MCScorings == {<<Strong, Strong, Weak, Fair>>, <<Fair, Weak, Strong, Weak>>}
MCRecalls == {[budget |-> 4, exclude |-> TRUE], [budget |-> 2, exclude |-> FALSE]}

\* Documents of the retrieval layer: two bodies to ingest, one record of the ledger.
Body(l, t, c, s) == [live |-> l, trust |-> t, conflicts |-> c, size |-> s]
MCBodies == {Body(TRUE, 100, {}, 2), Body(FALSE, 55, {2}, 1)}
MCLedgerDocs == {{[id |-> 3, version |-> 1] @@ Body(TRUE, 75, {1}, 1)}}
MCQueries == {[vector |-> <<40, 40, 30>>, keyword |-> <<40, 20, 30>>, k |-> k,
               support |-> 3500, budget |-> k] : k \in {0, 2}}

\* The threads of every part, and two of the gateway's requests, are the same two model
\* values, and none of them matters more than another: one swap is
\* a symmetry of every part.
MCSymmetry == Permutations(Threads)
=============================================================================
