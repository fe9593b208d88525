------------------------------ MODULE AmulField ------------------------------
(***************************************************************************)
(* The AMUL field: immutable artifacts of the ledger's memories, one line  *)
(* each in a file that only grows (app/amul.py), and the chain of          *)
(* checkpoints that seals ranges of its lines (app/amul_gc.py).            *)
(*                                                                         *)
(* One server process keeps the artifacts it read or wrote in memory; its  *)
(* request threads anchor memories through them without a lock.  Checks    *)
(* and compactions are run beside it, each reading the files anew.  A      *)
(* write may stop half-way, with or without the process.                   *)
(***************************************************************************)
EXTENDS Integers, Sequences, FiniteSets, SequencesExt

CONSTANTS Anchors,        \* anchor requests, each one thread
          Particles,      \* ids of the ledger's memories, numbers; Particle n + 1 supersedes n
          Contents,       \* what a memory may say
          MaxFaults,      \* bound on crashes and failed writes
          MaxRuns         \* bound on compactions

VARIABLES lines,       \* the file
          order,       \* AmulField._order, the artifacts in it
          fieldLoaded,      \* _loaded: "no", "reading" until the lines read are in order, "yes"
          anchor,      \* per request
          chain,       \* the checkpoint file
          compactor,   \* the compaction that runs, one at a time
          durable,     \* artifacts acknowledged while the file had no damaged line (history)
          faults

afVars == <<lines, order, fieldLoaded, anchor, chain, compactor, durable, faults>>

\* The evidence rendering is anchored as the summary is, and by itself: one stands for both.
Resolutions == <<"detail", "summary">>
NoRun == [raw |-> <<>>]
\* A line cut off before its end; one that a later write was joined to.
Open == [end |-> FALSE]
Spoilt == [end |-> TRUE]
Whole(line) == line \notin {Open, Spoilt}

\* What of a content each resolution shows: two contents may have one summary.
Payload(text, resolution) == IF resolution = "summary" THEN "line" ELSE text

\* _ensure_loaded: the lines before the first one that cannot be parsed.
Loadable(log) ==
  IF \E i \in DOMAIN log : ~Whole(log[i])
  THEN SubSeq(log, 1, (CHOOSE i \in DOMAIN log : ~Whole(log[i]) /\ \A j \in 1..(i - 1) : Whole(log[j])) - 1)
  ELSE log

Slice(s, from, to) == SubSeq(s, from + 1, IF to < Len(s) THEN to ELSE Len(s))

\* mutant: the file is opened for writing, not for appending, once it was damaged
Rewritten(log, artifact) == IF log # <<>> /\ Last(log) = Open THEN <<artifact>> ELSE Append(log, artifact)
\* Opened for appending: a line that has no end swallows the next one.
Write(log, artifact) ==
  IF log # <<>> /\ Last(log) = Open THEN Append(Front(log), Spoilt) ELSE Append(log, artifact)

Latest(arts, m, resolution) ==
  LET versions == {i \in DOMAIN arts : arts[i].particle = m /\ arts[i].resolution = resolution}
  IN IF versions = {} THEN {} ELSE {arts[CHOOSE i \in versions : \A j \in versions : j <= i]}
Id(artifact) == <<artifact.payload, artifact.resolution, artifact.seq>>

\* The artifact anchor_memory makes of what it sees; its parents are the version before it, or
\* for a first detail the detail of the memory it supersedes.
ArtifactOf(m, text, resolution, detail, prev) ==
  [particle |-> m, resolution |-> resolution, payload |-> Payload(text, resolution), seq |-> Len(order),
   parents |-> IF prev = {} /\ resolution = "detail"
               THEN {Id(a) : a \in Latest(order, m - 1, "detail")} ELSE {Id(a) : a \in prev},
   derived |-> IF resolution = "detail" THEN {} ELSE detail]
-----------------------------------------------------------------------------
(* The server: amul_anchor, anchor_memory, AmulField.append *)

Waiting == [pc |-> "waiting", made |-> {}]
Over == [pc |-> "done", made |-> {}]

\* The route reads the memory, whatever it says by now, and then loads the field; _loaded is set before the file is read,
\* and a thread that finds it set goes on with what is there.
StartAnchor(t) == \E m \in Particles, text \in Contents :
  /\ anchor[t] = Waiting
  /\ anchor' = [anchor EXCEPT ![t] =
       [pc |-> IF fieldLoaded = "no" THEN "load" ELSE "look", particle |-> m, text |-> text, at |-> 1, detail |-> {}, made |-> {}]]
  /\ fieldLoaded' = IF fieldLoaded = "no" THEN "reading" ELSE fieldLoaded
  /\ UNCHANGED <<lines, order, chain, compactor, durable, faults>>

EnsureLoaded(t) ==
  /\ anchor[t].pc = "load"
  /\ order' = order \o Loadable(lines) /\ fieldLoaded' = "yes"
  /\ anchor' = [anchor EXCEPT ![t].pc = "look"]
  /\ UNCHANGED <<lines, chain, compactor, durable, faults>>

\* mutant: an artifact is kept in memory before it is written
KeptFirst(artifact) == Append(order, artifact)
Kept(artifact) == order

\* A resolution is anchored as ids; the summary is derived from the detail.
Onward(r, ids) ==
  [r EXCEPT !.detail = IF Resolutions[r.at] = "detail" THEN ids ELSE r.detail, !.made = {},
            !.at = r.at + 1, !.pc = IF r.at = Len(Resolutions) THEN "done" ELSE "look"]

\* One resolution: nothing to do if its latest artifact says the same.
Look(t) ==
  LET r == anchor[t]
      resolution == Resolutions[r.at]
      prev == Latest(order, r.particle, resolution)
      artifact == ArtifactOf(r.particle, r.text, resolution, r.detail, prev)
  IN
  /\ r.pc = "look"
  /\ IF \E a \in prev : a.payload = Payload(r.text, resolution)
     THEN /\ anchor' = [anchor EXCEPT ![t] = Onward(r, {Id(a) : a \in prev})]
          /\ UNCHANGED order
     ELSE /\ anchor' = [anchor EXCEPT ![t] = [r EXCEPT !.pc = "write", !.made = {artifact}]]
          /\ order' = Kept(artifact)
  /\ UNCHANGED <<lines, fieldLoaded, chain, compactor, durable, faults>>

WriteLine(t) == \E artifact \in anchor[t].made :
  /\ anchor[t].pc = "write"
  /\ lines' = Write(lines, artifact)
  /\ anchor' = [anchor EXCEPT ![t].pc = "keep"]
  /\ UNCHANGED <<order, fieldLoaded, chain, compactor, durable, faults>>

KeepArtifact(t) == \E artifact \in anchor[t].made :
  /\ anchor[t].pc = "keep"
  /\ order' = Append(order, artifact)
  /\ durable' = IF \A i \in DOMAIN lines : Whole(lines[i]) THEN durable \cup {artifact} ELSE durable
  /\ anchor' = [anchor EXCEPT ![t] = Onward(anchor[t], {Id(artifact)})]
  /\ UNCHANGED <<lines, fieldLoaded, chain, compactor, faults>>

\* The disk is full: the request fails, part of the line may be there.
WriteFails(t) ==
  /\ anchor[t].pc = "write"
  /\ faults < MaxFaults /\ faults' = faults + 1
  /\ anchor' = [anchor EXCEPT ![t] = Over]
  /\ lines' \in {lines, Write(lines, Open)}
  /\ UNCHANGED <<order, fieldLoaded, chain, compactor, durable>>

\* The process stops, in the middle of a line or not.
StopField ==
  /\ fieldLoaded # "no" /\ faults < MaxFaults /\ faults' = faults + 1
  /\ fieldLoaded' = "no" /\ order' = <<>>
  /\ anchor' = [t \in Anchors |-> IF anchor[t] = Waiting THEN Waiting ELSE Over]
  /\ \/ UNCHANGED lines
     \/ (\E t \in Anchors : anchor[t].pc = "write") /\ lines' = Write(lines, Open)
  /\ UNCHANGED <<chain, compactor, durable>>
-----------------------------------------------------------------------------
(* Compaction: amul_gc.compact *)

Checkpoint(from, bytes, arts, warm, prev) ==
  [from |-> from, bytes |-> bytes, prev |-> prev,
   count |-> Len(arts),
   hotIds |-> {arts[i].particle : i \in DOMAIN arts} \cap warm,
   coldIds |-> {arts[i].particle : i \in DOMAIN arts} \ warm]
End(cp) == cp.from + Len(cp.bytes)
Covered(cps) == IF cps = <<>> THEN 0 ELSE End(Last(cps))
ColdIn(cps) == UNION {cps[i].coldIds : i \in DOMAIN cps}

\* mutant: a particle that was cold may be hot again
ColdForgotten(cps, warm) == FALSE
Resurrected(cps, warm) == ColdIn(cps) \cap warm # {}

\* It reads the file and the chain and has classify_retention split the particles, which cool
\* down and are reinforced in any way; nothing new, or a cold particle that is hot again (G2),
\* ends it.  Then it loads the field and seals the lines it read.
BeginCompact == \E hot \in SUBSET Particles :
  /\ compactor = NoRun /\ Len(chain) < MaxRuns
  /\ Len(lines) > Covered(chain) /\ ~Resurrected(chain, hot)
  /\ compactor' = [raw |-> lines, warm |-> hot]
  /\ UNCHANGED <<lines, order, fieldLoaded, anchor, chain, durable, faults>>

\* mutant: the range runs to the end of the field as it is now
SealedToEnd(raw, field) == Len(field)
RangeEnd(raw, field) == Len(raw)

Seal ==
  /\ compactor # NoRun
  /\ LET r == compactor
         from == Covered(chain)
         field == Loadable(lines)
     IN chain' = Append(chain, Checkpoint(from, Slice(r.raw, from, Len(r.raw)),
          Slice(field, from, RangeEnd(r.raw, field)), r.warm, Len(chain)))
  /\ compactor' = NoRun
  /\ UNCHANGED <<lines, order, fieldLoaded, anchor, durable, faults>>

\* _verify_chain_structure and verify_gc over ranges: contiguous (G3), every artifact counted
\* and the bytes those that were sealed (G1), no cold particle hot later (G2).
VerifyGc(cps, log) == \A i \in DOMAIN cps :
  /\ cps[i].from = (IF i = 1 THEN 0 ELSE End(cps[i - 1]))
  /\ cps[i].prev = i - 1
  /\ cps[i].count = Len(cps[i].bytes)
  /\ Slice(log, cps[i].from, End(cps[i])) = cps[i].bytes
  /\ cps[i].hotIds \cap ColdIn(SubSeq(cps, 1, i - 1)) = {}
-----------------------------------------------------------------------------

AfInit ==
  /\ lines = <<>> /\ order = <<>> /\ fieldLoaded = "no"
  /\ anchor = [t \in Anchors |-> Waiting]
  /\ chain = <<>> /\ compactor = NoRun
  /\ durable = {} /\ faults = 0

AfNext ==
  \/ \E t \in Anchors : StartAnchor(t) \/ EnsureLoaded(t) \/ Look(t) \/ WriteLine(t) \/ KeepArtifact(t) \/ WriteFails(t)
  \/ StopField \/ BeginCompact \/ Seal

AfSpec == AfInit /\ [][AfNext]_afVars
-----------------------------------------------------------------------------

\* "Append-only guarantees prefix validity": whatever is torn, and wherever the process stops,
\* an artifact acknowledged before the first damaged line is in what every restart loads, and
\* what an artifact loaded then names as its parents and its detail is loaded before it.
AnchoredSurvives ==
  LET field == Loadable(lines) IN
  /\ durable \subseteq ToSet(field)
  /\ \A i \in DOMAIN field : \A ref \in field[i].parents \cup field[i].derived :
       \E j \in 1..(i - 1) : Id(field[j]) = ref

\* G1 to G3: a chain that compactions made one after another, over lines that are whole, is
\* found intact by verify_gc for good, whatever is anchored while they run and later.
SealedStaysTrue ==
  (\A i \in 1..Covered(chain) : Whole(lines[i])) => VerifyGc(chain, lines)

\* The field keeps what it acknowledged and what it compacted, across torn lines, crashes and
\* restarts.  (app/amul.py, app/amul_gc.py)
FieldIsKept == AnchoredSurvives /\ SealedStaysTrue
=============================================================================
