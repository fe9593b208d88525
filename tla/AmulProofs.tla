------------------------------ MODULE AmulProofs ------------------------------
(***************************************************************************)
(* AMUL.  The field (AmulField), for every set of anchor requests,         *)
(* memories and contents and every number of faults and compactions: what  *)
(* was acknowledged is loaded again, and what was sealed stays verifiable. *)
(* Governed generation (AmulLlm), for every set of requests, memories and  *)
(* prompts: an answer's record tells where the answer comes from.          *)
(* Retrieval (AmulRag), for every set of documents, queries and requests:  *)
(* the index is the log, and answers are backed and on record.             *)
(***************************************************************************)
EXTENDS AmulField, AmulLlm, AmulRag, SequenceTheorems, WellFoundedInduction, FiniteSetTheorems, TLAPS

-----------------------------------------------------------------------------
(* The inductive invariant of the field *)

Refs == (Contents \cup {"line"}) \X {"detail", "summary"} \X Nat
Artifacts == [particle : Particles, resolution : {"detail", "summary"}, payload : Contents \cup {"line"},
              seq : Nat, parents : SUBSET Refs, derived : SUBSET Refs]
Lines == Artifacts \cup {Open, Spoilt}
Running == [pc : {"load", "look", "write", "keep", "done"}, particle : Particles, text : Contents,
            at : 1..3, detail : SUBSET Refs, made : SUBSET Artifacts]
Checkpoints == [from : Nat, bytes : Seq(Lines), prev : Nat, count : Nat,
                hotIds : SUBSET Particles, coldIds : SUBSET Particles]
Runs == [raw : Seq(Lines), warm : SUBSET Particles]

\* A request that runs makes one artifact at a time, and a resolution is left until it is done.
Request(r) ==
  \/ r \in {Waiting, Over}
  \/ r \in Running /\ (r.pc # "done" => r.at \in 1..2) /\ \A a, b \in r.made : a = b

AfTyped ==
  /\ lines \in Seq(Lines) /\ order \in Seq(Artifacts)
  /\ DOMAIN anchor = Anchors /\ \A t \in Anchors : Request(anchor[t])
  /\ durable \subseteq Artifacts
  /\ chain \in Seq(Checkpoints) /\ (compactor = NoRun \/ compactor \in Runs)

AllWhole(log) == \A i \in DOMAIN log : Whole(log[i])
Ids(arts) == {Id(a) : a \in arts}

\* AnchoredSurvives, of any field.
Survives(field, acked) ==
  /\ acked \subseteq ToSet(field)
  /\ \A i \in DOMAIN field : \A ref \in field[i].parents \cup field[i].derived :
       \E j \in 1..(i - 1) : Id(field[j]) = ref

\* Until a line is damaged the server knows no more than the file, and a request names only
\* what is there.
RequestKnown(r, log) ==
  r.pc \in {"load", "look", "write", "keep"} =>
    /\ r.detail \subseteq Ids(ToSet(log))
    /\ \A a \in r.made : a.parents \cup a.derived \subseteq Ids(ToSet(log))
    /\ r.pc = "keep" => r.made \subseteq ToSet(log)
Known(arts, requests, log) ==
  AllWhole(log) => ToSet(arts) \subseteq ToSet(log) /\ \A t \in Anchors : RequestKnown(requests[t], log)

\* The lines a checkpoint or a compaction read are those of the file, the damaged ones aside.
Matches(bytes, from, log) ==
  /\ from + Len(bytes) <= Len(log)
  /\ \A k \in 1..Len(bytes) : bytes[k] = log[from + k] \/ ~Whole(log[from + k])
Counted(cp, log) == cp.count = Len(cp.bytes) \/ \E k \in 1..End(cp) : ~Whole(log[k])

\* A chain without its bytes: contiguous, linked, no cold particle hot later.
Linked(cps) == \A i \in DOMAIN cps :
  /\ cps[i].from = (IF i = 1 THEN 0 ELSE End(cps[i - 1]))
  /\ cps[i].prev = i - 1
  /\ cps[i].hotIds \cap ColdIn(SubSeq(cps, 1, i - 1)) = {}
  /\ End(cps[i]) <= Covered(cps)
Sealed(cps, log) == \A i \in DOMAIN cps : Matches(cps[i].bytes, cps[i].from, log) /\ Counted(cps[i], log)

\* What a compaction read goes on from the chain, and raises nothing that is cold.
RunFits(run, cps, log) ==
  run # NoRun => /\ Covered(cps) < Len(run.raw) /\ Matches(run.raw, 0, log)
                 /\ ColdIn(cps) \cap run.warm = {}

AfInv ==
  /\ AfTyped
  /\ Survives(Loadable(lines), durable)
  /\ Known(order, anchor, lines)
  /\ Linked(chain) /\ Sealed(chain, lines)
  /\ RunFits(compactor, chain, lines)

-----------------------------------------------------------------------------
(* Numbers and lines *)

\* Every nonempty set of naturals has a least element.
LEMMA LeastOf ==
  ASSUME NEW S, S \subseteq Nat, S # {}
  PROVE  \E x \in S : \A y \in S : x <= y
<1>1. PICK x \in S : \A y \in S : <<y, x>> \notin OpToRel(<, Nat)
  BY NatLessThanWellFounded, WFMin
<1>2. \A y \in S : ~(y < x)
  <2> SUFFICES ASSUME NEW y \in S PROVE ~(y < x)
    OBVIOUS
  <2>1. <<y, x>> \in Nat \X Nat
    OBVIOUS
  <2>2. <<y, x>>[1] = y /\ <<y, x>>[2] = x
    OBVIOUS
  <2>3. QED
    BY <1>1, <2>1, <2>2 DEF OpToRel
<1>3. QED
  BY <1>2, SMT

\* Every nonempty bounded set of naturals has a greatest element.
LEMMA GreatestOf ==
  ASSUME NEW n \in Nat, NEW S, S \subseteq 0..n, S # {}
  PROVE  \E x \in S : \A y \in S : y <= x
<1> DEFINE T == {z \in 0..n : n - z \in S}
<1>1. T # {}
  <2>1. PICK x \in S : TRUE
    OBVIOUS
  <2>2. n - x \in 0..n /\ n - (n - x) = x
    BY <2>1
  <2>3. QED
    BY <2>1, <2>2
<1>2. PICK z \in T : \A y \in T : z <= y
  <2>1. T \subseteq Nat
    OBVIOUS
  <2> HIDE DEF T
  <2>2. QED
    BY <1>1, <2>1, LeastOf
<1>3. ASSUME NEW y \in S PROVE y <= n - z
  <2>1. n - y \in 0..n /\ n - (n - y) = y
    OBVIOUS
  <2>2. z <= n - y
    BY <1>2, <2>1
  <2>3. QED
    BY <2>1, <2>2
<1>4. QED
  BY <1>2, <1>3

\* A set of naturals that holds zero and the successor of each of its numbers holds them all.
LEMMA AllNaturals ==
  ASSUME NEW S \in SUBSET Nat, 0 \in S, \A n \in S : n + 1 \in S
  PROVE  \A n \in Nat : n \in S
<1>1. SUFFICES ASSUME Nat \ S # {} PROVE FALSE
  OBVIOUS
<1>2. PICK m \in Nat \ S : \A y \in Nat \ S : m <= y
  BY <1>1, LeastOf
<1>3. m \in Nat /\ m # 0
  BY <1>2
<1>4. m - 1 \in Nat /\ ~(m <= m - 1) /\ (m - 1) + 1 = m
  BY <1>3
<1>5. m - 1 \in S
  BY <1>2, <1>4
<1>6. QED
  BY <1>2, <1>4, <1>5

\* What two sequences hold, one after the other.
LEMMA JoinHolds ==
  ASSUME NEW S, NEW s \in Seq(S), NEW t \in Seq(S)
  PROVE  ToSet(s \o t) = ToSet(s) \cup ToSet(t)
<1>1. PICK u \in Seq(S) : u = s \o t
  BY ConcatProperties
<1>2. PICK n \in Nat, m \in Nat : n = Len(s) /\ m = Len(t)
  OBVIOUS
<1>3. Len(u) = n + m /\ \A i \in 1..(n + m) : u[i] = IF i <= n THEN s[i] ELSE t[i - n]
  BY <1>1, <1>2, ConcatProperties
<1>4. DOMAIN s = 1..n /\ DOMAIN t = 1..m /\ DOMAIN u = 1..(n + m)
  BY <1>2, <1>3
<1>5. \A i \in 1..n : i \in 1..(n + m) /\ u[i] = s[i]
  BY <1>3
<1>6. \A i \in 1..m : n + i \in 1..(n + m) /\ u[n + i] = t[i]
  <2> SUFFICES ASSUME NEW i \in 1..m PROVE n + i \in 1..(n + m) /\ u[n + i] = t[i]
    OBVIOUS
  <2>1. n + i \in 1..(n + m) /\ ~(n + i <= n) /\ n + i - n = i
    OBVIOUS
  <2>2. QED
    BY <1>3, <2>1
<1>7. \A i \in 1..(n + m) : IF i <= n THEN i \in 1..n ELSE i - n \in 1..m
  OBVIOUS
<1>8. ToSet(u) \subseteq ToSet(s) \cup ToSet(t)
  BY <1>3, <1>4, <1>7 DEF ToSet
<1>9. ToSet(s) \cup ToSet(t) \subseteq ToSet(u)
  BY <1>4, <1>5, <1>6 DEF ToSet
<1>10. QED
  BY <1>1, <1>8, <1>9

LEMMA ArtifactIsWhole == \A a \in Artifacts : Whole(a)
<1> SUFFICES ASSUME NEW a \in Artifacts PROVE Whole(a)
  OBVIOUS
<1>1. "particle" \in DOMAIN a
  BY DEF Artifacts
<1>2. "particle" \notin DOMAIN Open /\ "particle" \notin DOMAIN Spoilt
  BY DEF Open, Spoilt
<1>3. QED
  BY <1>1, <1>2 DEF Whole

LEMMA WholeIsArtifact == \A line \in Lines : Whole(line) => line \in Artifacts
BY DEF Lines, Whole

\* What loads is the longest undamaged prefix of the file.
LEMMA LoadableIs ==
  ASSUME NEW log \in Seq(Lines)
  PROVE  /\ Loadable(log) \in Seq(Artifacts) /\ Len(Loadable(log)) <= Len(log)
         /\ \A i \in 1..Len(Loadable(log)) : Loadable(log)[i] = log[i]
         /\ AllWhole(log) => Loadable(log) = log
         /\ ~AllWhole(log) => Len(Loadable(log)) < Len(log) /\ ~Whole(log[Len(Loadable(log)) + 1])
<1> DEFINE S == {i \in DOMAIN log : ~Whole(log[i])}
<1>1. CASE AllWhole(log)
  <2>1. Loadable(log) = log
    BY <1>1 DEF Loadable, AllWhole
  <2>2. \A i \in 1..Len(log) : log[i] \in Artifacts
    BY <1>1, WholeIsArtifact DEF AllWhole
  <2>3. log \in Seq(Artifacts)
    BY <2>2
  <2>4. QED
    BY <1>1, <2>1, <2>3
<1>2. CASE ~AllWhole(log)
  <2>1. S # {} /\ S \subseteq Nat
    BY <1>2 DEF AllWhole
  <2>2. PICK x \in S : \A y \in S : x <= y
    BY <2>1, LeastOf
  <2>3. \A j \in 1..(x - 1) : Whole(log[j])
    BY <2>2
  <2>4. PICK n : n = CHOOSE i \in DOMAIN log : ~Whole(log[i]) /\ \A j \in 1..(i - 1) : Whole(log[j])
    OBVIOUS
  <2>5. n \in DOMAIN log /\ ~Whole(log[n]) /\ \A j \in 1..(n - 1) : Whole(log[j])
    BY <2>2, <2>3, <2>4
  <2>6. Loadable(log) = SubSeq(log, 1, n - 1)
    BY <2>1, <2>4 DEF Loadable
  <2>7. \A i \in 1..(n - 1) : log[i] \in Artifacts
    BY <2>5, WholeIsArtifact
  <2>8. /\ SubSeq(log, 1, n - 1) \in Seq(Artifacts) /\ Len(SubSeq(log, 1, n - 1)) = n - 1
        /\ \A i \in 1..(n - 1) : SubSeq(log, 1, n - 1)[i] = log[i]
    BY <2>5, <2>7
  <2>9. QED
    BY <1>2, <2>5, <2>6, <2>8
<1>3. QED
  BY <1>1, <1>2

\* A file that was written to: what is whole stays, what is damaged stays damaged.
Later(old, new) ==
  /\ Len(old) <= Len(new)
  /\ \A k \in 1..Len(old) : IF Whole(old[k]) THEN new[k] = old[k] ELSE ~Whole(new[k])

LEMMA WriteIsLater ==
  ASSUME NEW log \in Seq(Lines), NEW x \in Artifacts \cup {Open}
  PROVE  /\ Write(log, x) \in Seq(Lines) /\ Later(log, Write(log, x))
         /\ AllWhole(Write(log, x)) => AllWhole(log)
         /\ AllWhole(log) => Write(log, x) = Append(log, x)
<1>1. x \in Lines /\ Spoilt \in Lines /\ ~Whole(Open) /\ ~Whole(Spoilt)
  BY DEF Lines, Whole
<1>2. CASE log # <<>> /\ Last(log) = Open
  <2>1. Write(log, x) = Append(Front(log), Spoilt)
    BY <1>2 DEF Write
  <2>2. PICK n \in Nat : n = Len(log) /\ n > 0 /\ log[n] = Open
    BY <1>2 DEF Last
  <2>3. Front(log) \in Seq(Lines) /\ Len(Front(log)) = n - 1 /\ \A k \in 1..(n - 1) : Front(log)[k] = log[k]
    BY <2>2 DEF Front
  <2>4. PICK f \in Seq(Lines) : f = Front(log)
    BY <2>3
  <2>5. /\ Append(f, Spoilt) \in Seq(Lines) /\ Len(Append(f, Spoilt)) = n
        /\ \A k \in 1..(n - 1) : Append(f, Spoilt)[k] = log[k]
        /\ Append(f, Spoilt)[n] = Spoilt
    BY <1>1, <2>2, <2>3, <2>4
  <2>6. Later(log, Append(f, Spoilt))
    BY <1>1, <2>2, <2>5 DEF Later
  <2>7. ~AllWhole(Append(f, Spoilt)) /\ ~AllWhole(log)
    BY <1>1, <2>2, <2>5 DEF AllWhole
  <2>8. QED
    BY <2>1, <2>4, <2>5, <2>6, <2>7
<1>3. CASE ~(log # <<>> /\ Last(log) = Open)
  <2>1. Write(log, x) = Append(log, x)
    BY <1>3 DEF Write
  <2>2. /\ Append(log, x) \in Seq(Lines) /\ Len(Append(log, x)) = Len(log) + 1
        /\ \A k \in 1..Len(log) : Append(log, x)[k] = log[k]
    BY <1>1
  <2>3. Later(log, Append(log, x))
    <3>1. PICK new : new = Append(log, x)
      OBVIOUS
    <3>2. \A k \in 1..Len(log) : IF Whole(log[k]) THEN new[k] = log[k] ELSE ~Whole(new[k])
      BY <2>2, <3>1
    <3>3. QED
      BY <2>2, <3>1, <3>2 DEF Later
  <2>4. AllWhole(Append(log, x)) => AllWhole(log)
    <3>1. PICK new : new = Append(log, x)
      OBVIOUS
    <3>2. DOMAIN log \subseteq DOMAIN new /\ \A k \in DOMAIN log : new[k] = log[k]
      BY <2>2, <3>1
    <3>3. QED
      BY <3>1, <3>2 DEF AllWhole
  <2>5. QED
    BY <2>1, <2>2, <2>3, <2>4
<1>4. QED
  BY <1>2, <1>3

\* A damaged file loads the same for good.
LEMMA DamagedLoadsSame ==
  ASSUME NEW log \in Seq(Lines), NEW new \in Seq(Lines), Later(log, new), ~AllWhole(log)
  PROVE  Loadable(new) = Loadable(log)
<1>1. PICK f \in Seq(Artifacts) : f = Loadable(log)
  BY LoadableIs
<1>2. PICK g \in Seq(Artifacts) : g = Loadable(new)
  BY LoadableIs
<1>3. PICK n \in Nat : n = Len(f)
  OBVIOUS
<1>4. PICK m \in Nat : m = Len(g)
  OBVIOUS
<1>5. n < Len(log) /\ ~Whole(log[n + 1]) /\ \A i \in 1..n : f[i] = log[i] /\ Whole(log[i])
  BY <1>1, <1>3, LoadableIs, ArtifactIsWhole
<1>6. ~Whole(new[n + 1]) /\ n + 1 \in 1..Len(new) /\ \A i \in 1..n : new[i] = f[i]
  BY <1>5 DEF Later
<1>7. ~AllWhole(new)
  BY <1>6 DEF AllWhole
<1>8. m < Len(new) /\ ~Whole(new[m + 1]) /\ \A i \in 1..m : g[i] = new[i] /\ Whole(new[i])
  BY <1>2, <1>4, <1>7, LoadableIs, ArtifactIsWhole
<1>9. m <= n
  BY <1>6, <1>8
<1>10. n <= m
  <2>1. \A i \in 1..n : Whole(new[i])
    BY <1>3, <1>6, ArtifactIsWhole
  <2>2. QED
    BY <1>8, <2>1
<1>11. QED
  BY <1>1, <1>2, <1>3, <1>4, <1>6, <1>8, <1>9, <1>10

\* A write to the file adds the artifact to what loads, or nothing.
LEMMA WriteLoads ==
  ASSUME NEW log \in Seq(Lines), NEW x \in Artifacts \cup {Open}
  PROVE  \/ Loadable(Write(log, x)) = Loadable(log)
         \/ /\ AllWhole(log) /\ x \in Artifacts
            /\ Loadable(Write(log, x)) = Append(log, x)
            /\ Loadable(log) = log
<1>1. CASE ~AllWhole(log)
  BY <1>1, WriteIsLater, DamagedLoadsSame
<1>2. CASE AllWhole(log)
  <2>1. Write(log, x) = Append(log, x) /\ Loadable(log) = log /\ log \in Seq(Artifacts)
    BY <1>2, WriteIsLater, LoadableIs
  <2>2. PICK new \in Seq(Lines) : new = Append(log, x)
    BY <2>1, WriteIsLater
  <2>3. Len(new) = Len(log) + 1 /\ new[Len(log) + 1] = x /\ \A k \in 1..Len(log) : new[k] = log[k]
    BY <2>2
  <2>4. CASE x \in Artifacts
    <3>1. AllWhole(new)
      BY <1>2, <2>3, <2>4, ArtifactIsWhole DEF AllWhole
    <3>2. Loadable(new) = new
      BY <3>1, LoadableIs
    <3>3. QED
      BY <1>2, <2>1, <2>2, <2>4, <3>2
  <2>5. CASE x = Open
    <3>1. ~AllWhole(new) /\ ~Whole(new[Len(log) + 1])
      BY <2>3, <2>5 DEF AllWhole, Whole
    <3>2. PICK g \in Seq(Artifacts) : g = Loadable(new)
      BY LoadableIs
    <3>3. PICK m \in Nat : m = Len(g)
      OBVIOUS
    <3>4. m < Len(new) /\ ~Whole(new[m + 1]) /\ \A i \in 1..m : g[i] = new[i]
      BY <3>1, <3>2, <3>3, LoadableIs
    <3>5. m = Len(log)
      BY <1>2, <2>3, <3>4 DEF AllWhole
    <3>6. \A i \in 1..Len(log) : g[i] = log[i]
      BY <2>3, <3>4, <3>5
    <3>7. g = log
      BY <2>1, <3>3, <3>5, <3>6, SeqEqual
    <3>8. QED
      BY <2>1, <2>2, <3>2, <3>7
  <2>6. QED
    BY <2>4, <2>5
<1>3. QED
  BY <1>1, <1>2

-----------------------------------------------------------------------------
(* What the steps keep *)

\* The latest version of an artifact is one of those kept.
LEMMA LatestIsKept ==
  ASSUME NEW arts \in Seq(Artifacts), NEW m, NEW resolution
  PROVE  Latest(arts, m, resolution) \subseteq ToSet(arts)
<1> DEFINE V == {i \in DOMAIN arts : arts[i].particle = m /\ arts[i].resolution = resolution}
<1>1. CASE V = {}
  BY <1>1 DEF Latest
<1>2. CASE V # {}
  <2>1. Len(arts) \in Nat /\ V \subseteq 0..Len(arts)
    OBVIOUS
  <2>2. \E x \in V : \A y \in V : y <= x
    <3> HIDE DEF V
    <3>1. QED
      BY <1>2, <2>1, GreatestOf
  <2>3. PICK n : n = CHOOSE i \in V : \A j \in V : j <= i
    OBVIOUS
  <2>4. n \in V
    BY <2>2, <2>3
  <2>5. Latest(arts, m, resolution) = {arts[n]}
    BY <1>2, <2>3 DEF Latest
  <2>6. QED
    BY <2>4, <2>5 DEF ToSet
<1>3. QED
  BY <1>1, <1>2

\* An artifact that names only what is there can be added.
LEMMA SurvivesAppend ==
  ASSUME NEW log \in Seq(Artifacts), NEW x \in Artifacts, NEW acked, Survives(log, acked),
         x.parents \cup x.derived \subseteq Ids(ToSet(log))
  PROVE  Survives(Append(log, x), acked)
<1>1. PICK new \in Seq(Artifacts) : new = Append(log, x)
  BY AppendProperties
<1>2. PICK n \in Nat : n = Len(log)
  OBVIOUS
<1>3. Len(new) = n + 1 /\ new[n + 1] = x /\ \A k \in 1..n : new[k] = log[k]
  BY <1>1, <1>2
<1>4. ToSet(log) \subseteq ToSet(new)
  BY <1>2, <1>3 DEF ToSet
<1>5. ASSUME NEW i \in 1..(n + 1), NEW ref \in new[i].parents \cup new[i].derived
      PROVE  \E j \in 1..(i - 1) : Id(new[j]) = ref
  <2>1. CASE i = n + 1
    <3>1. PICK a \in ToSet(log) : Id(a) = ref
      BY <1>3, <1>5, <2>1 DEF Ids
    <3>2. PICK j \in 1..n : log[j] = a
      BY <1>2, <3>1 DEF ToSet
    <3>3. QED
      BY <1>3, <2>1, <3>1, <3>2
  <2>2. CASE i \in 1..n
    <3>1. ref \in log[i].parents \cup log[i].derived
      BY <1>3, <1>5, <2>2
    <3>2. PICK j \in 1..(i - 1) : Id(log[j]) = ref
      BY <1>2, <2>2, <3>1 DEF Survives
    <3>3. QED
      BY <1>3, <2>2, <3>2
  <2>3. QED
    BY <2>1, <2>2
<1>6. QED
  BY <1>1, <1>3, <1>4, <1>5 DEF Survives

\* More lines: what a request names is still there.
LEMMA KnownInMore ==
  ASSUME NEW r, NEW log, NEW new, RequestKnown(r, log), ToSet(log) \subseteq ToSet(new)
  PROVE  RequestKnown(r, new)
<1>1. Ids(ToSet(log)) \subseteq Ids(ToSet(new))
  BY DEF Ids
<1>2. QED
  BY <1>1 DEF RequestKnown

LEMMA KnownAfterWrite ==
  ASSUME NEW log \in Seq(Lines), NEW x \in Artifacts \cup {Open}, NEW arts, NEW requests,
         Known(arts, requests, log)
  PROVE  Known(arts, requests, Write(log, x))
<1> SUFFICES ASSUME AllWhole(Write(log, x))
             PROVE  ToSet(arts) \subseteq ToSet(Write(log, x)) /\ \A t \in Anchors : RequestKnown(requests[t], Write(log, x))
  BY DEF Known
<1>1. AllWhole(log) /\ Write(log, x) = Append(log, x) /\ Write(log, x) \in Seq(Lines)
  BY WriteIsLater
<1>2. PICK new \in Seq(Lines) : new = Write(log, x)
  BY <1>1
<1>3. Len(new) = Len(log) + 1 /\ \A k \in 1..Len(log) : new[k] = log[k]
  <2>1. x \in Lines
    BY DEF Lines
  <2>2. QED
    BY <1>1, <1>2, <2>1
<1>4. ToSet(log) \subseteq ToSet(new)
  BY <1>3 DEF ToSet
<1>5. QED
  BY <1>1, <1>2, <1>4, KnownInMore DEF Known

LEMMA MatchesLater ==
  ASSUME NEW bytes \in Seq(Lines), NEW from \in Nat, NEW log \in Seq(Lines), NEW new \in Seq(Lines),
         Matches(bytes, from, log), Later(log, new)
  PROVE  Matches(bytes, from, new)
<1>1. PICK n \in Nat : n = Len(bytes)
  OBVIOUS
<1>2. from + n <= Len(log) /\ Len(log) <= Len(new)
  BY <1>1 DEF Matches, Later
<1>3. ASSUME NEW k \in 1..n PROVE bytes[k] = new[from + k] \/ ~Whole(new[from + k])
  <2>1. from + k \in 1..Len(log)
    BY <1>2, <1>3
  <2>2. bytes[k] = log[from + k] \/ ~Whole(log[from + k])
    BY <1>1, <1>3 DEF Matches
  <2>3. QED
    BY <2>1, <2>2 DEF Later
<1>4. QED
  BY <1>1, <1>2, <1>3 DEF Matches

LEMMA SealedLater ==
  ASSUME NEW cps \in Seq(Checkpoints), NEW log \in Seq(Lines), NEW new \in Seq(Lines),
         Sealed(cps, log), Later(log, new)
  PROVE  Sealed(cps, new)
<1> SUFFICES ASSUME NEW i \in DOMAIN cps
             PROVE  Matches(cps[i].bytes, cps[i].from, new) /\ Counted(cps[i], new)
  BY DEF Sealed
<1>1. PICK cp \in Checkpoints : cp = cps[i]
  OBVIOUS
<1>2. cp.bytes \in Seq(Lines) /\ cp.from \in Nat /\ Matches(cp.bytes, cp.from, log) /\ Counted(cp, log)
  BY <1>1 DEF Sealed, Checkpoints
<1>3. Matches(cp.bytes, cp.from, new)
  BY <1>2, MatchesLater
<1>4. Counted(cp, new)
  <2>1. \A k \in 1..End(cp) : k \in 1..Len(log)
    BY <1>2 DEF End, Matches
  <2>2. QED
    BY <1>2, <2>1 DEF Counted, Later
<1>5. QED
  BY <1>1, <1>3, <1>4

LEMMA RunLater ==
  ASSUME NEW r \in {NoRun} \cup Runs, NEW cps, NEW log \in Seq(Lines), NEW new \in Seq(Lines),
         RunFits(r, cps, log), Later(log, new)
  PROVE  RunFits(r, cps, new)
<1> SUFFICES ASSUME r # NoRun PROVE Matches(r.raw, 0, new)
  BY DEF RunFits
<1>1. r.raw \in Seq(Lines) /\ Matches(r.raw, 0, log)
  BY DEF Runs, RunFits
<1>2. QED
  BY <1>1, MatchesLater

\* A step that only changes what one request holds.
LEMMA RequestStep ==
  ASSUME AfInv, NEW t \in Anchors, NEW r, Request(r), AllWhole(lines) => RequestKnown(r, lines),
         anchor' = [anchor EXCEPT ![t] = r], UNCHANGED <<lines, order, chain, compactor, durable>>
  PROVE  AfInv'
<1>1. AfTyped'
  BY DEF AfInv, AfTyped
<1>2. Known(order, anchor, lines)'
  <2>1. \A u \in Anchors : anchor'[u] = IF u = t THEN r ELSE anchor[u]
    BY DEF AfInv, AfTyped
  <2>2. QED
    BY <2>1 DEF AfInv, Known
<1>3. QED
  BY <1>1, <1>2 DEF AfInv

\* A step that writes to the file.
LEMMA LinesStep ==
  ASSUME AfTyped, Survives(Loadable(lines), durable), Sealed(chain, lines), Linked(chain),
         RunFits(compactor, chain, lines),
         NEW x \in Artifacts \cup {Open}, lines' = Write(lines, x),
         AllWhole(lines) /\ x \in Artifacts => x.parents \cup x.derived \subseteq Ids(ToSet(lines)),
         UNCHANGED <<chain, compactor, durable>>
  PROVE  /\ lines' \in Seq(Lines) /\ Survives(Loadable(lines), durable)'
         /\ Sealed(chain, lines)' /\ Linked(chain)' /\ RunFits(compactor, chain, lines)'
<1>1. lines \in Seq(Lines) /\ chain \in Seq(Checkpoints) /\ compactor \in {NoRun} \cup Runs
  BY DEF AfTyped
<1>2. PICK new \in Seq(Lines) : new = Write(lines, x) /\ Later(lines, new)
  BY <1>1, WriteIsLater
<1>3. Sealed(chain, new) /\ RunFits(compactor, chain, new)
  BY <1>1, <1>2, SealedLater, RunLater
<1>4. Survives(Loadable(new), durable)
  <2>1. CASE Loadable(new) = Loadable(lines)
    BY <2>1
  <2>2. CASE AllWhole(lines) /\ x \in Artifacts /\ Loadable(new) = Append(lines, x) /\ Loadable(lines) = lines
    <3>1. lines \in Seq(Artifacts)
      BY <1>1, <2>2, LoadableIs
    <3>2. QED
      BY <2>2, <3>1, SurvivesAppend
  <2>3. QED
    BY <1>1, <1>2, <2>1, <2>2, WriteLoads
<1>5. QED
  BY <1>2, <1>3, <1>4

-----------------------------------------------------------------------------
(* The steps of the field *)

LEMMA RequestKinds ==
  ASSUME NEW r, Request(r), r.pc \in {"load", "look", "write", "keep"}
  PROVE  r \in Running /\ r.at \in 1..2 /\ \A a, b \in r.made : a = b
BY DEF Request, Waiting, Over

LEMMA NoneRunning ==
  \A r \in {Waiting, Over} : Request(r) /\ \A log : RequestKnown(r, log)
BY DEF Request, Waiting, Over, RequestKnown

LEMMA StartAnchorKeeps ==
  ASSUME AfInv, NEW t \in Anchors, StartAnchor(t)
  PROVE  AfInv'
<1>1. PICK m \in Particles, text \in Contents, pc \in {"load", "look"} :
        anchor' = [anchor EXCEPT ![t] = [pc |-> pc, particle |-> m, text |-> text, at |-> 1, detail |-> {}, made |-> {}]]
  BY DEF StartAnchor
<1>2. PICK r : r = [pc |-> pc, particle |-> m, text |-> text, at |-> 1, detail |-> {}, made |-> {}]
  OBVIOUS
<1>3. Request(r) /\ RequestKnown(r, lines)
  BY <1>2 DEF Request, Running, RequestKnown
<1>4. UNCHANGED <<lines, order, chain, compactor, durable>>
  BY DEF StartAnchor
<1>5. QED
  BY <1>1, <1>2, <1>3, <1>4, RequestStep

LEMMA LoadKeeps ==
  ASSUME AfInv, NEW t \in Anchors, EnsureLoaded(t)
  PROVE  AfInv'
<1>1. PICK r \in Running : r = anchor[t] /\ r.pc = "load" /\ r.at \in 1..2 /\ \A a, b \in r.made : a = b
  BY RequestKinds DEF AfInv, AfTyped, EnsureLoaded
<1>2. PICK c : c = [r EXCEPT !.pc = "look"]
  OBVIOUS
<1>3. anchor' = [anchor EXCEPT ![t] = c]
  BY <1>1, <1>2 DEF EnsureLoaded
<1>4. Request(c) /\ c.detail = r.detail /\ c.made = r.made /\ c.pc = "look"
  <2>1. c \in Running /\ c.pc = "look" /\ c.detail = r.detail /\ c.made = r.made /\ c.at = r.at
    BY <1>2 DEF Running
  <2>2. QED
    BY <1>1, <2>1 DEF Request
<1>5. PICK field \in Seq(Artifacts) : field = Loadable(lines)
  BY LoadableIs DEF AfInv, AfTyped
<1>6. order \in Seq(Artifacts) /\ order' = order \o field
  BY <1>5 DEF AfInv, AfTyped, EnsureLoaded
<1>7. order' \in Seq(Artifacts) /\ ToSet(order') \subseteq ToSet(order) \cup ToSet(field)
  <2>1. order \o field \in Seq(Artifacts) /\ ToSet(order \o field) = ToSet(order) \cup ToSet(field)
    BY <1>6, ConcatProperties, JoinHolds
  <2>2. QED
    BY <1>6, <2>1
<1>8. UNCHANGED <<lines, chain, compactor, durable>>
  BY DEF EnsureLoaded
<1>9. AfTyped'
  BY <1>3, <1>4, <1>7, <1>8 DEF AfInv, AfTyped
<1>10. Known(order, anchor, lines)'
  <2>1. AllWhole(lines) => ToSet(field) = ToSet(lines)
    BY <1>5, LoadableIs DEF AfInv, AfTyped
  <2>2. AllWhole(lines) => RequestKnown(r, lines)
    BY <1>1 DEF AfInv, Known
  <2>3. AllWhole(lines) => RequestKnown(c, lines)
    BY <1>1, <1>4, <2>2 DEF RequestKnown
  <2>4. \A u \in Anchors : anchor'[u] = IF u = t THEN c ELSE anchor[u]
    BY <1>3 DEF AfInv, AfTyped
  <2>5. QED
    BY <1>7, <1>8, <2>1, <2>3, <2>4 DEF AfInv, Known
<1>11. QED
  BY <1>8, <1>9, <1>10 DEF AfInv

LEMMA IdsAreRefs ==
  ASSUME NEW arts \in Seq(Artifacts)
  PROVE  Ids(ToSet(arts)) \subseteq Refs
<1>1. \A a \in ToSet(arts) : a \in Artifacts
  BY DEF ToSet
<1>2. \A a \in Artifacts : Id(a) \in Refs
  BY DEF Artifacts, Id, Refs
<1>3. QED
  BY <1>1, <1>2 DEF Ids

\* After a resolution the next one is looked at, or the request is done.
LEMMA OnwardIs ==
  ASSUME NEW r \in Running, r.at \in 1..2, NEW ids \in SUBSET Refs, NEW log,
         AllWhole(log) => ids \subseteq Ids(ToSet(log)) /\ r.detail \subseteq Ids(ToSet(log))
  PROVE  Request(Onward(r, ids)) /\ (AllWhole(log) => RequestKnown(Onward(r, ids), log))
<1>1. PICK pc : pc = IF r.at = Len(Resolutions) THEN "done" ELSE "look"
  OBVIOUS
<1>2. PICK detail : detail = IF Resolutions[r.at] = "detail" THEN ids ELSE r.detail
  OBVIOUS
<1>3. PICK n \in 2..3 : n = r.at + 1
  OBVIOUS
<1>4. pc \in {"done", "look"} /\ (pc # "done" => n \in 1..2)
  BY <1>1, <1>3 DEF Resolutions
<1>5. detail \in SUBSET Refs /\ (AllWhole(log) => detail \subseteq Ids(ToSet(log)))
  BY <1>2 DEF Running
<1>6. PICK c : c = [r EXCEPT !.detail = detail, !.made = {}, !.at = n, !.pc = pc]
  OBVIOUS
<1>7. Onward(r, ids) = c
  BY <1>1, <1>2, <1>3, <1>6 DEF Onward
<1>8. c \in Running /\ c.pc = pc /\ c.detail = detail /\ c.made = {} /\ c.at = n
  <2>1. c.pc = pc /\ c.detail = detail /\ c.made = {} /\ c.at = n
    BY <1>6 DEF Running
  <2>2. detail \in SUBSET Refs /\ n \in 1..3 /\ pc \in {"load", "look", "write", "keep", "done"}
    BY <1>4, <1>5
  <2>3. {} \in SUBSET Artifacts
    OBVIOUS
  <2>4. c \in Running
    BY <1>6, <2>2, <2>3 DEF Running
  <2>5. QED
    BY <2>1, <2>4
<1>9. QED
  BY <1>4, <1>5, <1>7, <1>8 DEF Request, RequestKnown

\* What is made of what the server keeps names only that.
LEMMA ArtifactNames ==
  ASSUME order \in Seq(Artifacts), NEW r \in Running, NEW resolution \in {"detail", "summary"},
         NEW prev, prev = Latest(order, r.particle, resolution)
  PROVE  LET a == ArtifactOf(r.particle, r.text, resolution, r.detail, prev)
         IN a \in Artifacts /\ a.parents \cup a.derived \subseteq Ids(ToSet(order)) \cup r.detail
<1>1. prev \subseteq ToSet(order) /\ Latest(order, r.particle - 1, "detail") \subseteq ToSet(order)
  BY LatestIsKept
<1>2. PICK parents : parents = IF prev = {} /\ resolution = "detail"
                               THEN {Id(a) : a \in Latest(order, r.particle - 1, "detail")} ELSE {Id(a) : a \in prev}
  OBVIOUS
<1>3. parents \subseteq Ids(ToSet(order))
  BY <1>1, <1>2 DEF Ids
<1>4. Ids(ToSet(order)) \subseteq Refs
  BY IdsAreRefs
<1>5. PICK derived : derived = IF resolution = "detail" THEN {} ELSE r.detail
  OBVIOUS
<1>6. derived \subseteq r.detail /\ r.detail \subseteq Refs /\ r.particle \in Particles /\ r.text \in Contents
  BY <1>5 DEF Running
<1>7. Payload(r.text, resolution) \in Contents \cup {"line"}
  BY <1>6 DEF Payload
<1>8. ArtifactOf(r.particle, r.text, resolution, r.detail, prev) =
        [particle |-> r.particle, resolution |-> resolution, payload |-> Payload(r.text, resolution), seq |-> Len(order),
         parents |-> parents, derived |-> derived]
  BY <1>2, <1>5 DEF ArtifactOf
<1>9. PICK a : a = ArtifactOf(r.particle, r.text, resolution, r.detail, prev)
  OBVIOUS
<1>10. Len(order) \in Nat /\ parents \subseteq Refs /\ derived \subseteq Refs
  BY <1>3, <1>4, <1>6
<1>11. a \in Artifacts /\ a.parents = parents /\ a.derived = derived
  BY <1>6, <1>7, <1>8, <1>9, <1>10 DEF Artifacts
<1>12. QED
  BY <1>3, <1>6, <1>9, <1>11

LEMMA LookKeeps ==
  ASSUME AfInv, NEW t \in Anchors, Look(t)
  PROVE  AfInv'
<1>1. PICK r \in Running : r = anchor[t] /\ r.pc = "look" /\ r.at \in 1..2
  BY RequestKinds DEF AfInv, AfTyped, Look
<1>2. PICK resolution \in {"detail", "summary"} : resolution = Resolutions[r.at]
  BY <1>1 DEF Resolutions
<1>3. PICK prev : prev = Latest(order, r.particle, resolution)
  OBVIOUS
<1>4. order \in Seq(Artifacts) /\ UNCHANGED <<lines, order, chain, compactor, durable>>
  BY DEF Look, Kept, AfInv, AfTyped
<1>5. AllWhole(lines) => RequestKnown(r, lines) /\ ToSet(order) \subseteq ToSet(lines)
  BY <1>1 DEF AfInv, Known
<1>6. AllWhole(lines) => r.detail \subseteq Ids(ToSet(lines)) /\ Ids(ToSet(order)) \subseteq Ids(ToSet(lines))
  BY <1>1, <1>5 DEF RequestKnown, Ids
<1>7. CASE \E a \in prev : a.payload = Payload(r.text, resolution)
  <2>1. PICK ids : ids = {Id(a) : a \in prev}
    OBVIOUS
  <2>2. ids \subseteq Ids(ToSet(order))
    BY <1>3, <1>4, <2>1, LatestIsKept DEF Ids
  <2>3. anchor' = [anchor EXCEPT ![t] = Onward(r, ids)]
    BY <1>1, <1>2, <1>3, <1>7, <2>1 DEF Look
  <2>4. Request(Onward(r, ids)) /\ (AllWhole(lines) => RequestKnown(Onward(r, ids), lines))
    BY <1>1, <1>4, <1>6, <2>2, IdsAreRefs, OnwardIs
  <2>5. QED
    BY <1>4, <2>3, <2>4, RequestStep
<1>8. CASE ~\E a \in prev : a.payload = Payload(r.text, resolution)
  <2>1. PICK a : a = ArtifactOf(r.particle, r.text, resolution, r.detail, prev)
    OBVIOUS
  <2>2. a \in Artifacts /\ a.parents \cup a.derived \subseteq Ids(ToSet(order)) \cup r.detail
    BY <1>2, <1>3, <1>4, <2>1, ArtifactNames
  <2>3. PICK c : c = [r EXCEPT !.pc = "write", !.made = {a}]
    OBVIOUS
  <2>4. anchor' = [anchor EXCEPT ![t] = c]
    BY <1>1, <1>2, <1>3, <1>8, <2>1, <2>3 DEF Look
  <2>5. c \in Running /\ c.pc = "write" /\ c.detail = r.detail /\ c.made = {a} /\ c.at = r.at
    BY <1>1, <2>2, <2>3 DEF Running
  <2>6. Request(c)
    BY <1>1, <2>5 DEF Request
  <2>7. AllWhole(lines) => RequestKnown(c, lines)
    BY <1>6, <2>2, <2>5 DEF RequestKnown
  <2>8. QED
    BY <1>4, <2>4, <2>6, <2>7, RequestStep
<1>9. QED
  BY <1>7, <1>8

\* An artifact is written, and is there unless a line is damaged.
LEMMA WriteLineKeeps ==
  ASSUME AfInv, NEW t \in Anchors, WriteLine(t)
  PROVE  AfInv'
<1>1. PICK r \in Running : r = anchor[t] /\ r.pc = "write" /\ r.at \in 1..2 /\ \A b, d \in r.made : b = d
  BY RequestKinds DEF AfInv, AfTyped, WriteLine
<1>2. PICK a \in r.made : lines' = Write(lines, a)
  BY <1>1 DEF WriteLine
<1>3. a \in Artifacts /\ r.made = {a}
  BY <1>1 DEF Running
<1>4. PICK c : c = [r EXCEPT !.pc = "keep"]
  OBVIOUS
<1>5. anchor' = [anchor EXCEPT ![t] = c] /\ UNCHANGED <<order, chain, compactor, durable>>
  BY <1>1, <1>4 DEF WriteLine
<1>6. c \in Running /\ c.pc = "keep" /\ c.detail = r.detail /\ c.made = r.made /\ c.at = r.at
  BY <1>1, <1>4 DEF Running
<1>7. Request(c)
  BY <1>1, <1>6 DEF Request
<1>8. AllWhole(lines) => RequestKnown(r, lines)
  BY <1>1 DEF AfInv, Known
<1>9. AllWhole(lines) => a.parents \cup a.derived \subseteq Ids(ToSet(lines))
  BY <1>1, <1>2, <1>8 DEF RequestKnown
<1>10. /\ lines' \in Seq(Lines) /\ Survives(Loadable(lines), durable)'
       /\ Sealed(chain, lines)' /\ Linked(chain)' /\ RunFits(compactor, chain, lines)'
  BY <1>2, <1>3, <1>5, <1>9, LinesStep DEF AfInv
<1>11. Known(order, anchor, lines)'
  <2>1. lines \in Seq(Lines) /\ Known(order, anchor, Write(lines, a))
    BY <1>3, KnownAfterWrite DEF AfInv, AfTyped
  <2>2. PICK new \in Seq(Lines) : new = lines' /\ new = Write(lines, a)
    BY <1>2, <1>10
  <2>3. AllWhole(new) => new = Append(lines, a)
    BY <1>3, <2>1, <2>2, WriteIsLater
  <2>4. AllWhole(new) => a \in ToSet(new)
    <3>1. a \in Lines
      BY <1>3 DEF Lines
    <3>2. AllWhole(new) => Len(new) = Len(lines) + 1 /\ new[Len(lines) + 1] = a
      BY <2>1, <2>3, <3>1
    <3>3. QED
      BY <2>1, <3>2 DEF ToSet
  <2>5. AllWhole(new) => RequestKnown(r, new)
    BY <1>1, <2>1, <2>2 DEF Known
  <2>6. AllWhole(new) => RequestKnown(c, new)
    BY <1>1, <1>3, <1>6, <2>4, <2>5 DEF RequestKnown
  <2>7. \A u \in Anchors : anchor'[u] = IF u = t THEN c ELSE anchor[u]
    BY <1>5 DEF AfInv, AfTyped
  <2>8. QED
    BY <1>5, <2>1, <2>2, <2>6, <2>7 DEF Known
<1>12. AfTyped'
  BY <1>5, <1>7, <1>10 DEF AfInv, AfTyped
<1>13. QED
  BY <1>10, <1>11, <1>12 DEF AfInv

LEMMA KeepArtifactKeeps ==
  ASSUME AfInv, NEW t \in Anchors, KeepArtifact(t)
  PROVE  AfInv'
<1>1. PICK r \in Running : r = anchor[t] /\ r.pc = "keep" /\ r.at \in 1..2
  BY RequestKinds DEF AfInv, AfTyped, KeepArtifact
<1>2. PICK a \in r.made : /\ order' = Append(order, a)
                          /\ durable' = IF AllWhole(lines) THEN durable \cup {a} ELSE durable
                          /\ anchor' = [anchor EXCEPT ![t] = Onward(r, {Id(a)})]
  BY <1>1 DEF KeepArtifact, AllWhole
<1>3. a \in Artifacts /\ UNCHANGED <<lines, chain, compactor>>
  BY DEF Running, KeepArtifact
<1>4. AllWhole(lines) => a \in ToSet(lines) /\ r.detail \subseteq Ids(ToSet(lines)) /\ ToSet(order) \subseteq ToSet(lines)
  BY <1>1 DEF AfInv, Known, RequestKnown
<1>5. {Id(a)} \in SUBSET Refs
  BY <1>3 DEF Artifacts, Id, Refs
<1>6. PICK c : c = Onward(r, {Id(a)})
  OBVIOUS
<1>7. Request(c) /\ (AllWhole(lines) => RequestKnown(c, lines))
  <2>1. AllWhole(lines) => {Id(a)} \subseteq Ids(ToSet(lines)) /\ r.detail \subseteq Ids(ToSet(lines))
    BY <1>4 DEF Ids
  <2>2. QED
    BY <1>1, <1>5, <1>6, <2>1, OnwardIs
<1>8. order' \in Seq(Artifacts) /\ ToSet(order') \subseteq ToSet(order) \cup {a}
  <2>1. order \in Seq(Artifacts)
    BY DEF AfInv, AfTyped
  <2>2. PICK new \in Seq(Artifacts) : new = Append(order, a)
    BY <1>3, <2>1, AppendProperties
  <2>3. Len(new) = Len(order) + 1 /\ \A i \in 1..(Len(order) + 1) : IF i <= Len(order) THEN new[i] = order[i] ELSE new[i] = a
    BY <1>3, <2>1, <2>2
  <2>4. QED
    BY <1>2, <2>1, <2>2, <2>3 DEF ToSet
<1>9. AfTyped'
  BY <1>2, <1>3, <1>6, <1>7, <1>8 DEF AfInv, AfTyped
<1>10. Survives(Loadable(lines), durable')
  <2>1. AllWhole(lines) => Loadable(lines) = lines
    BY LoadableIs DEF AfInv, AfTyped
  <2>2. QED
    BY <1>2, <1>4, <2>1 DEF AfInv, Survives
<1>11. Known(order, anchor, lines)'
  <2>1. \A u \in Anchors : anchor'[u] = IF u = t THEN c ELSE anchor[u]
    BY <1>2, <1>6 DEF AfInv, AfTyped
  <2>2. QED
    BY <1>3, <1>4, <1>7, <1>8, <2>1 DEF AfInv, Known
<1>12. QED
  BY <1>3, <1>9, <1>10, <1>11 DEF AfInv

\* Part of a line may be left behind, of a request that fails or of a process that stops.
LEMMA TornKeeps ==
  ASSUME AfInv, lines' \in {lines, Write(lines, Open)}, UNCHANGED <<chain, compactor, durable>>,
         order' \in Seq(Artifacts), ToSet(order') \subseteq ToSet(order), DOMAIN anchor' = Anchors,
         \A t \in Anchors : anchor'[t] \in {anchor[t], Waiting, Over}
  PROVE  AfInv'
<1>1. \A t \in Anchors : Request(anchor'[t])
  BY NoneRunning DEF AfInv, AfTyped
<1>2. lines \in Seq(Lines) /\ Known(order, anchor, lines)
  BY DEF AfInv, AfTyped
<1>3. CASE lines' = lines
  <2>1. AfTyped'
    BY <1>1, <1>3 DEF AfInv, AfTyped
  <2>2. Known(order, anchor, lines)'
    BY <1>2, <1>3, NoneRunning DEF Known
  <2>3. QED
    BY <1>3, <2>1, <2>2 DEF AfInv
<1>4. CASE lines' = Write(lines, Open)
  <2>1. Open \notin Artifacts
    BY ArtifactIsWhole DEF Whole
  <2>2. /\ lines' \in Seq(Lines) /\ Survives(Loadable(lines), durable)'
        /\ Sealed(chain, lines)' /\ Linked(chain)' /\ RunFits(compactor, chain, lines)'
    BY <1>4, <2>1, LinesStep DEF AfInv
  <2>3. Known(order, anchor, Write(lines, Open))
    BY <1>2, KnownAfterWrite
  <2>4. PICK new : new = lines' /\ new = Write(lines, Open)
    BY <1>4
  <2>5. Known(order, anchor, lines)'
    BY <2>3, <2>4, NoneRunning DEF Known
  <2>6. AfTyped'
    BY <1>1, <2>2 DEF AfInv, AfTyped
  <2>7. QED
    BY <2>2, <2>5, <2>6 DEF AfInv
<1>5. QED
  BY <1>3, <1>4

LEMMA FailKeeps ==
  ASSUME AfInv, NEW t \in Anchors, WriteFails(t)
  PROVE  AfInv'
<1>1. anchor' = [anchor EXCEPT ![t] = Over] /\ DOMAIN anchor = Anchors
  BY DEF WriteFails, AfInv, AfTyped
<1>2. UNCHANGED <<order, chain, compactor, durable>> /\ lines' \in {lines, Write(lines, Open)}
  BY DEF WriteFails
<1>3. order \in Seq(Artifacts)
  BY DEF AfInv, AfTyped
<1>4. DOMAIN anchor' = Anchors /\ \A u \in Anchors : anchor'[u] \in {anchor[u], Waiting, Over}
  BY <1>1
<1>5. QED
  BY <1>2, <1>3, <1>4, TornKeeps

LEMMA StopKeeps ==
  ASSUME AfInv, StopField
  PROVE  AfInv'
<1>1. order' = <<>> /\ lines' \in {lines, Write(lines, Open)} /\ UNCHANGED <<chain, compactor, durable>>
  BY DEF StopField
<1>2. order' \in Seq(Artifacts) /\ ToSet(order') \subseteq ToSet(order)
  BY <1>1 DEF ToSet
<1>3. DOMAIN anchor' = Anchors /\ \A u \in Anchors : anchor'[u] \in {anchor[u], Waiting, Over}
  BY DEF StopField
<1>4. QED
  BY <1>1, <1>2, <1>3, TornKeeps

-----------------------------------------------------------------------------
(* Compaction *)

\* The cold particles of a chain that grows, and where its last range ends.
LEMMA ChainGrows ==
  ASSUME NEW cps \in Seq(Checkpoints), NEW cp \in Checkpoints
  PROVE  /\ Append(cps, cp) \in Seq(Checkpoints) /\ Len(Append(cps, cp)) = Len(cps) + 1
         /\ \A i \in DOMAIN cps : Append(cps, cp)[i] = cps[i]
         /\ Append(cps, cp)[Len(cps) + 1] = cp
         /\ \A i \in 1..(Len(cps) + 1) : SubSeq(Append(cps, cp), 1, i - 1) = SubSeq(cps, 1, i - 1)
         /\ SubSeq(cps, 1, Len(cps)) = cps
         /\ Covered(Append(cps, cp)) = End(cp)
<1>1. PICK new \in Seq(Checkpoints) : new = Append(cps, cp)
  BY AppendProperties
<1>2. PICK n \in Nat : n = Len(cps)
  OBVIOUS
<1>3. Len(new) = n + 1 /\ new[n + 1] = cp /\ \A i \in 1..n : new[i] = cps[i]
  BY <1>1, <1>2, AppendProperties
<1>4. ASSUME NEW i \in 1..(n + 1) PROVE SubSeq(new, 1, i - 1) = SubSeq(cps, 1, i - 1)
  <2>1. \A k \in 1..(i - 1) : new[k] = cps[k] /\ cps[k] \in Checkpoints
    BY <1>2, <1>3
  <2>2. PICK m \in Nat : m = i - 1
    OBVIOUS
  <2>3. /\ SubSeq(new, 1, m) \in Seq(Checkpoints) /\ Len(SubSeq(new, 1, m)) = m
        /\ \A k \in 1..m : SubSeq(new, 1, m)[k] = new[k]
    BY <2>1, <2>2, SubSeqProperties
  <2>4. /\ SubSeq(cps, 1, m) \in Seq(Checkpoints) /\ Len(SubSeq(cps, 1, m)) = m
        /\ \A k \in 1..m : SubSeq(cps, 1, m)[k] = cps[k]
    BY <2>1, <2>2, SubSeqProperties
  <2>5. SubSeq(new, 1, m) = SubSeq(cps, 1, m)
    BY <2>1, <2>2, <2>3, <2>4, SeqEqual
  <2>6. QED
    BY <2>2, <2>5
<1>5. SubSeq(cps, 1, n) = cps
  BY <1>2, SubSeqFull
<1>6. Covered(new) = End(cp)
  BY <1>3 DEF Covered, Last
<1>7. QED
  BY <1>1, <1>2, <1>3, <1>4, <1>5, <1>6

LEMMA SliceIs ==
  ASSUME NEW S, NEW s \in Seq(S), NEW from \in Nat, NEW to \in Nat, from <= to
  PROVE  /\ Slice(s, from, to) \in Seq(S)
         /\ to <= Len(s) => /\ Len(Slice(s, from, to)) = to - from
                            /\ \A k \in 1..(to - from) : Slice(s, from, to)[k] = s[from + k]
<1>1. PICK m \in Nat : m = IF to < Len(s) THEN to ELSE Len(s)
  OBVIOUS
<1>2. Slice(s, from, to) = SubSeq(s, from + 1, m)
  BY <1>1 DEF Slice
<1>3. \A i \in (from + 1)..m : s[i] \in S
  BY <1>1
<1>4. /\ SubSeq(s, from + 1, m) \in Seq(S)
      /\ Len(SubSeq(s, from + 1, m)) = IF from + 1 <= m THEN m - (from + 1) + 1 ELSE 0
      /\ \A i \in 1..(m - (from + 1) + 1) : SubSeq(s, from + 1, m)[i] = s[from + 1 + i - 1]
  BY <1>3, SubSeqProperties
<1>5. PICK t \in Seq(S) : t = SubSeq(s, from + 1, m)
  BY <1>4
<1>6. ASSUME to <= Len(s)
      PROVE  Len(t) = to - from /\ \A k \in 1..(to - from) : t[k] = s[from + k]
  <2>1. m = to /\ m - (from + 1) + 1 = to - from
    BY <1>1, <1>6
  <2>2. Len(t) = to - from
    BY <1>4, <1>5, <2>1
  <2>3. ASSUME NEW k \in 1..(to - from) PROVE t[k] = s[from + k]
    <3>1. from + 1 + k - 1 = from + k
      OBVIOUS
    <3>2. QED
      BY <1>4, <1>5, <2>1, <2>3, <3>1
  <2>4. QED
    BY <2>2, <2>3
<1>7. QED
  BY <1>2, <1>4, <1>5, <1>6

LEMMA CoveredIsNat ==
  ASSUME NEW cps \in Seq(Checkpoints)
  PROVE  Covered(cps) \in Nat
<1>1. \A cp \in Checkpoints : End(cp) \in Nat
  BY DEF Checkpoints, End
<1>2. cps # <<>> => Last(cps) \in Checkpoints
  BY DEF Last
<1>3. QED
  BY <1>1, <1>2 DEF Covered

LEMMA BeginCompactKeeps ==
  ASSUME AfInv, BeginCompact
  PROVE  AfInv'
<1>1. PICK hot \in SUBSET Particles : ~Resurrected(chain, hot) /\ compactor' = [raw |-> lines, warm |-> hot]
  BY DEF BeginCompact
<1>2. UNCHANGED <<lines, order, anchor, chain, durable>> /\ Len(lines) > Covered(chain)
  BY DEF BeginCompact
<1>3. lines \in Seq(Lines)
  BY DEF AfInv, AfTyped
<1>4. PICK r : r = [raw |-> lines, warm |-> hot]
  OBVIOUS
<1>5. r \in Runs /\ r.raw = lines /\ r.warm = hot
  BY <1>3, <1>4 DEF Runs
<1>6. Matches(lines, 0, lines)
  <2>1. \A k \in 1..Len(lines) : 0 + k = k
    OBVIOUS
  <2>2. 0 + Len(lines) <= Len(lines)
    BY <1>3
  <2>3. QED
    BY <2>1, <2>2 DEF Matches
<1>7. RunFits(r, chain, lines)
  <2>1. Covered(chain) < Len(lines)
    BY <1>2, <1>3, CoveredIsNat DEF AfInv, AfTyped
  <2>2. QED
    BY <1>1, <1>5, <1>6, <2>1 DEF RunFits, Resurrected
<1>8. AfTyped'
  BY <1>1, <1>2, <1>4, <1>5 DEF AfInv, AfTyped
<1>9. QED
  BY <1>1, <1>2, <1>4, <1>7, <1>8 DEF AfInv

\* What a compaction seals goes on from the chain and is what the file says.
LEMMA SealedRange ==
  ASSUME NEW cps \in Seq(Checkpoints), NEW log \in Seq(Lines), NEW r \in Runs, RunFits(r, cps, log), r # NoRun,
         NEW cp, cp = Checkpoint(Covered(cps), Slice(r.raw, Covered(cps), Len(r.raw)),
                                 Slice(Loadable(log), Covered(cps), Len(r.raw)), r.warm, Len(cps))
  PROVE  /\ cp \in Checkpoints /\ cp.from = Covered(cps) /\ cp.prev = Len(cps)
         /\ cp.hotIds \cap ColdIn(cps) = {} /\ Covered(cps) <= End(cp)
         /\ Matches(cp.bytes, cp.from, log) /\ Counted(cp, log)
<1>1. PICK from \in Nat : from = Covered(cps)
  BY CoveredIsNat
<1>2. PICK raw \in Seq(Lines) : raw = r.raw
  BY DEF Runs
<1>3. PICK to \in Nat : to = Len(raw)
  OBVIOUS
<1>4. PICK field \in Seq(Artifacts) : field = Loadable(log)
  BY LoadableIs
<1>5. from < to /\ Matches(raw, 0, log) /\ ColdIn(cps) \cap r.warm = {}
  BY <1>1, <1>2, <1>3 DEF RunFits
<1>6. PICK bytes \in Seq(Lines) : /\ bytes = Slice(raw, from, to) /\ Len(bytes) = to - from
                                  /\ \A k \in 1..(to - from) : bytes[k] = raw[from + k]
  <2>1. from <= to /\ to <= Len(raw)
    BY <1>3, <1>5
  <2>2. /\ Slice(raw, from, to) \in Seq(Lines) /\ Len(Slice(raw, from, to)) = to - from
        /\ \A k \in 1..(to - from) : Slice(raw, from, to)[k] = raw[from + k]
    BY <2>1, SliceIs
  <2>3. QED
    BY <2>2
<1>7. PICK arts \in Seq(Artifacts) : /\ arts = Slice(field, from, to)
                                     /\ to <= Len(field) => Len(arts) = to - from
  <2>1. from <= to
    BY <1>5
  <2>2. Slice(field, from, to) \in Seq(Artifacts) /\ (to <= Len(field) => Len(Slice(field, from, to)) = to - from)
    BY <2>1, SliceIs
  <2>3. QED
    BY <2>2
<1>8. cp = [from |-> from, bytes |-> bytes, prev |-> Len(cps), count |-> Len(arts),
            hotIds |-> {arts[i].particle : i \in DOMAIN arts} \cap r.warm,
            coldIds |-> {arts[i].particle : i \in DOMAIN arts} \ r.warm]
  BY <1>1, <1>2, <1>3, <1>4, <1>6, <1>7 DEF Checkpoint
<1>9. {arts[i].particle : i \in DOMAIN arts} \subseteq Particles
  <2>1. \A i \in DOMAIN arts : arts[i] \in Artifacts
    OBVIOUS
  <2>2. QED
    BY <2>1 DEF Artifacts
<1>10. PICK hot \in SUBSET Particles : hot = {arts[i].particle : i \in DOMAIN arts} \cap r.warm
  BY <1>9
<1>11. PICK cold \in SUBSET Particles : cold = {arts[i].particle : i \in DOMAIN arts} \ r.warm
  BY <1>9
<1>12. PICK count \in Nat : count = Len(arts)
  OBVIOUS
<1>13. /\ cp \in Checkpoints /\ cp.from = from /\ cp.prev = Len(cps) /\ cp.bytes = bytes
       /\ cp.count = count /\ cp.hotIds = hot
  BY <1>8, <1>10, <1>11, <1>12 DEF Checkpoints
<1>14. cp.hotIds \cap ColdIn(cps) = {}
  BY <1>5, <1>10, <1>13
<1>15. End(cp) = to
  BY <1>5, <1>6, <1>13 DEF End
<1>16. to <= Len(log) /\ \A k \in 1..to : raw[k] = log[k] \/ ~Whole(log[k])
  <2>1. 0 + to <= Len(log) /\ \A k \in 1..to : raw[k] = log[0 + k] \/ ~Whole(log[0 + k])
    BY <1>3, <1>5 DEF Matches
  <2>2. \A k \in 1..to : 0 + k = k
    OBVIOUS
  <2>3. QED
    BY <2>1, <2>2
<1>17. Matches(cp.bytes, cp.from, log)
  <2>1. from + Len(bytes) <= Len(log)
    BY <1>5, <1>6, <1>16
  <2>2. \A k \in 1..Len(bytes) : from + k \in 1..to /\ k \in 1..(to - from)
    BY <1>5, <1>6
  <2>3. \A k \in 1..Len(bytes) : bytes[k] = log[from + k] \/ ~Whole(log[from + k])
    BY <1>6, <1>16, <2>2
  <2>4. QED
    BY <1>13, <2>1, <2>3 DEF Matches
<1>18. Counted(cp, log)
  <2>1. CASE to <= Len(field)
    BY <1>6, <1>7, <1>12, <1>13, <2>1 DEF Counted
  <2>2. CASE ~(to <= Len(field))
    <3>1. PICK n \in Nat : n = Len(field)
      OBVIOUS
    <3>2. ~AllWhole(log)
      BY <1>4, <1>16, <2>2, LoadableIs
    <3>3. ~Whole(log[n + 1])
      BY <1>4, <3>1, <3>2, LoadableIs
    <3>4. n + 1 \in 1..End(cp)
      BY <1>15, <2>2, <3>1
    <3>5. QED
      BY <3>3, <3>4 DEF Counted
  <2>3. QED
    BY <2>1, <2>2
<1>19. QED
  BY <1>1, <1>5, <1>13, <1>14, <1>15, <1>17, <1>18

LEMMA SealKeeps ==
  ASSUME AfInv, Seal
  PROVE  AfInv'
<1>1. PICK cps \in Seq(Checkpoints) : cps = chain
  BY DEF AfInv, AfTyped
<1>2. PICK log \in Seq(Lines) : log = lines
  BY DEF AfInv, AfTyped
<1>3. PICK r \in Runs : r = compactor /\ r # NoRun /\ RunFits(r, cps, log)
  BY <1>1, <1>2 DEF AfInv, AfTyped, Seal
<1>4. PICK cp : cp = Checkpoint(Covered(cps), Slice(r.raw, Covered(cps), Len(r.raw)),
                                Slice(Loadable(log), Covered(cps), Len(r.raw)), r.warm, Len(cps))
  OBVIOUS
<1>5. chain' = Append(cps, cp) /\ compactor' = NoRun /\ UNCHANGED <<lines, order, anchor, durable>>
  BY <1>1, <1>2, <1>3, <1>4 DEF Seal, RangeEnd
<1>6. /\ cp \in Checkpoints /\ cp.from = Covered(cps) /\ cp.prev = Len(cps)
      /\ cp.hotIds \cap ColdIn(cps) = {} /\ Covered(cps) <= End(cp)
      /\ Matches(cp.bytes, cp.from, log) /\ Counted(cp, log)
  BY <1>3, <1>4, SealedRange
<1>7. PICK n \in Nat : n = Len(cps)
  OBVIOUS
<1>8. PICK new \in Seq(Checkpoints) : new = Append(cps, cp)
  BY <1>6, ChainGrows
<1>9. /\ Len(new) = n + 1 /\ new[n + 1] = cp /\ \A i \in 1..n : new[i] = cps[i]
      /\ \A i \in 1..(n + 1) : SubSeq(new, 1, i - 1) = SubSeq(cps, 1, i - 1)
      /\ SubSeq(cps, 1, n) = cps /\ Covered(new) = End(cp)
  BY <1>6, <1>7, <1>8, ChainGrows
<1>10. Linked(cps) /\ Sealed(cps, log)
  BY <1>1, <1>2 DEF AfInv
<1>11. Linked(new)
  <2> SUFFICES ASSUME NEW i \in 1..(n + 1)
               PROVE  /\ new[i].from = (IF i = 1 THEN 0 ELSE End(new[i - 1]))
                      /\ new[i].prev = i - 1
                      /\ new[i].hotIds \cap ColdIn(SubSeq(new, 1, i - 1)) = {}
                      /\ End(new[i]) <= Covered(new)
    BY <1>9 DEF Linked
  <2>1. CASE i \in 1..n
    <3>1. new[i] = cps[i] /\ (i # 1 => new[i - 1] = cps[i - 1]) /\ i \in DOMAIN cps
      BY <1>7, <1>9, <2>1
    <3>2. End(cps[i]) <= Covered(cps) /\ End(cps[i]) \in Nat /\ Covered(cps) \in Nat /\ End(cp) \in Nat
      <4>1. \A c \in Checkpoints : End(c) \in Nat
        BY DEF Checkpoints, End
      <4>2. QED
        BY <1>6, <1>10, <3>1, <4>1, CoveredIsNat DEF Linked
    <3>3. End(new[i]) <= Covered(new)
      BY <1>6, <1>9, <3>1, <3>2
    <3>4. QED
      BY <1>9, <1>10, <3>1, <3>3 DEF Linked
  <2>2. CASE i = n + 1
    <3>1. new[i] = cp /\ SubSeq(new, 1, i - 1) = cps /\ i - 1 = n
      BY <1>9, <2>2
    <3>2. cp.from = (IF i = 1 THEN 0 ELSE End(new[i - 1]))
      <4>1. CASE n = 0
        <5>1. cps = <<>>
          BY <1>7, <4>1, EmptySeq
        <5>2. QED
          BY <1>6, <2>2, <4>1, <5>1 DEF Covered
      <4>2. CASE n # 0
        <5>1. cps # <<>> /\ Last(cps) = new[n]
          BY <1>7, <1>9, <4>2 DEF Last
        <5>2. QED
          BY <1>6, <2>2, <3>1, <4>2, <5>1 DEF Covered
      <4>3. QED
        BY <4>1, <4>2
    <3>3. End(cp) <= Covered(new)
      <4>1. End(cp) \in Nat
        BY <1>6 DEF Checkpoints, End
      <4>2. QED
        BY <1>9, <4>1
    <3>4. QED
      BY <1>6, <1>7, <3>1, <3>2, <3>3
  <2>3. QED
    BY <2>1, <2>2
<1>12. Sealed(new, log)
  <2> SUFFICES ASSUME NEW i \in 1..(n + 1)
               PROVE  Matches(new[i].bytes, new[i].from, log) /\ Counted(new[i], log)
    BY <1>9 DEF Sealed
  <2>1. CASE i \in 1..n
    BY <1>7, <1>9, <1>10, <2>1 DEF Sealed
  <2>2. CASE i = n + 1
    BY <1>6, <1>9, <2>2
  <2>3. QED
    BY <2>1, <2>2
<1>13. RunFits(NoRun, new, log)
  BY DEF RunFits
<1>14. AfTyped'
  BY <1>5, <1>8 DEF AfInv, AfTyped
<1>15. QED
  BY <1>2, <1>5, <1>8, <1>11, <1>12, <1>13, <1>14 DEF AfInv

-----------------------------------------------------------------------------
(* The field keeps what it acknowledged and what it compacted *)

LEMMA FieldStart == AfInit => AfInv
<1> SUFFICES ASSUME AfInit PROVE AfInv
  OBVIOUS
<1>1. lines = <<>> /\ order = <<>> /\ chain = <<>> /\ durable = {} /\ compactor = NoRun
  BY DEF AfInit
<1>2. DOMAIN anchor = Anchors /\ \A t \in Anchors : anchor[t] = Waiting
  BY DEF AfInit
<1>3. AfTyped
  BY <1>1, <1>2, NoneRunning DEF AfTyped
<1>4. Loadable(lines) = <<>>
  BY <1>1 DEF Loadable
<1>5. Survives(Loadable(lines), durable)
  BY <1>1, <1>4 DEF Survives
<1>6. Known(order, anchor, lines)
  BY <1>1, <1>2, NoneRunning DEF Known, ToSet
<1>7. Linked(chain) /\ Sealed(chain, lines) /\ RunFits(compactor, chain, lines)
  BY <1>1 DEF Linked, Sealed, RunFits
<1>8. QED
  BY <1>3, <1>5, <1>6, <1>7 DEF AfInv

LEMMA FieldStep == AfInv /\ [AfNext]_afVars => AfInv'
<1> SUFFICES ASSUME AfInv, [AfNext]_afVars PROVE AfInv'
  OBVIOUS
<1>1. CASE UNCHANGED afVars
  BY <1>1 DEF AfInv, AfTyped, afVars, Known
<1>2. ASSUME NEW t \in Anchors, StartAnchor(t) \/ EnsureLoaded(t) \/ Look(t)
      PROVE  AfInv'
  BY <1>2, StartAnchorKeeps, LoadKeeps, LookKeeps
<1>3. ASSUME NEW t \in Anchors, WriteLine(t) \/ KeepArtifact(t) \/ WriteFails(t)
      PROVE  AfInv'
  BY <1>3, WriteLineKeeps, KeepArtifactKeeps, FailKeeps
<1>4. CASE StopField \/ BeginCompact \/ Seal
  BY <1>4, StopKeeps, BeginCompactKeeps, SealKeeps
<1>5. QED
  BY <1>1, <1>2, <1>3, <1>4 DEF AfNext

\* A chain whose ranges are undamaged is found intact.
LEMMA SealedIsVerified ==
  ASSUME NEW cps \in Seq(Checkpoints), NEW log \in Seq(Lines), Linked(cps), Sealed(cps, log),
         \A i \in 1..Covered(cps) : Whole(log[i])
  PROVE  VerifyGc(cps, log)
<1> SUFFICES ASSUME NEW i \in DOMAIN cps
             PROVE  cps[i].count = Len(cps[i].bytes) /\ Slice(log, cps[i].from, End(cps[i])) = cps[i].bytes
  BY DEF VerifyGc, Linked
<1>1. PICK cp \in Checkpoints : cp = cps[i]
  OBVIOUS
<1>2. PICK from \in Nat : from = cp.from
  BY DEF Checkpoints
<1>3. PICK bytes \in Seq(Lines) : bytes = cp.bytes
  BY DEF Checkpoints
<1>4. PICK to \in Nat : to = from + Len(bytes)
  OBVIOUS
<1>5. End(cp) = to /\ to <= Covered(cps) /\ Covered(cps) \in Nat
  BY <1>1, <1>2, <1>3, <1>4, CoveredIsNat DEF End, Linked
<1>6. Matches(bytes, from, log) /\ Counted(cp, log)
  BY <1>1, <1>2, <1>3 DEF Sealed
<1>7. \A k \in 1..to : Whole(log[k])
  BY <1>5
<1>8. cp.count = Len(bytes)
  BY <1>3, <1>5, <1>6, <1>7 DEF Counted
<1>9. to <= Len(log) /\ Len(bytes) = to - from /\ from <= to
  BY <1>4, <1>6 DEF Matches
<1>10. \A k \in 1..(to - from) : bytes[k] = log[from + k]
  <2>1. \A k \in 1..(to - from) : k \in 1..Len(bytes) /\ from + k \in 1..to
    BY <1>9
  <2>2. QED
    BY <1>6, <1>7, <2>1 DEF Matches
<1>11. PICK s \in Seq(Lines) : /\ s = Slice(log, from, to) /\ Len(s) = to - from
                               /\ \A k \in 1..(to - from) : s[k] = log[from + k]
  <2>1. /\ Slice(log, from, to) \in Seq(Lines) /\ Len(Slice(log, from, to)) = to - from
        /\ \A k \in 1..(to - from) : Slice(log, from, to)[k] = log[from + k]
    BY <1>9, SliceIs
  <2>2. QED
    BY <2>1
<1>12. s = bytes
  BY <1>9, <1>10, <1>11, SeqEqual
<1>13. QED
  BY <1>1, <1>2, <1>3, <1>5, <1>8, <1>11, <1>12

\* "Append-only guarantees prefix validity" (app/amul.py) and G1 to G3 (app/amul_gc.py): across
\* torn lines, failed writes, crashes and restarts every artifact acknowledged before the first
\* damaged line is loaded again, after all it names, and a chain of compactions whose lines are
\* undamaged is found intact for good.
THEOREM FieldKeepsItsWord == AfSpec => []FieldIsKept
<1>1. AfInv => FieldIsKept
  <2> SUFFICES ASSUME AfInv PROVE FieldIsKept
    OBVIOUS
  <2>1. AnchoredSurvives
    BY DEF AfInv, Survives, AnchoredSurvives
  <2>2. SealedStaysTrue
    BY SealedIsVerified DEF AfInv, AfTyped, SealedStaysTrue
  <2>3. QED
    BY <2>1, <2>2 DEF FieldIsKept
<1>2. QED
  BY <1>1, FieldStart, FieldStep, PTL DEF AfSpec

-----------------------------------------------------------------------------
(* Governed generation *)

Words == Notes \cup OwnLines \cup {"lead", "conflicts"}

\* A request that has been asked; all that is recalled was in the ledger.
IsAsked(r) ==
  /\ r = [pc |-> r.pc, ask |-> r.ask, recall |-> r.recall, conflicts |-> r.conflicts, context |-> r.context,
          cut |-> r.cut, mode |-> r.mode, backend |-> r.backend, answer |-> r.answer]
  /\ r.ask \in Prompts /\ r.context \in Seq(Words)
  /\ IsFiniteSet(DOMAIN r.recall) /\ DOMAIN r.recall \subseteq Notes

\* What the context tells of the ledger is what was recalled; unless it was cut, all of it.
Told(r) ==
  /\ ToSet(r.context) \cap Notes \subseteq DOMAIN r.recall
  /\ ~r.cut => /\ DOMAIN r.recall \subseteq ToSet(r.context)
               /\ r.conflicts # {} => "conflicts" \in ToSet(r.context)

\* A request on its way to the model is not one for safety mode.
AskFits(r) ==
  /\ r.pc \in {"new", "refused", "answered", "conflicts", "merge", "route", "resolve", "discover", "send", "log"}
  /\ r.pc \notin {"new", "refused", "answered"} => IsAsked(r)
  /\ r.pc \in {"route", "resolve", "discover", "send", "log"} => Told(r)
  /\ r.pc \in {"resolve", "discover", "send"} => r.mode # "safety_mode"

\* The model has heard only the context of a request that is now to be logged.
HeardFits(q, r, sent) ==
  /\ q \in DOMAIN sent => r.pc = "log" /\ sent[q] = r.context /\ r.mode # "safety_mode"
  /\ r.pc = "log" /\ r.backend = "model" => q \in DOMAIN sent

LlInv ==
  /\ IsFiniteSet(DOMAIN notes) /\ DOMAIN notes \subseteq Notes
  /\ DOMAIN asking = Asking
  /\ \A q \in Asking : AskFits(asking[q]) /\ HeardFits(q, asking[q], heard)

\* SetToSeq lists the members of a finite set.
LEMMA SetToSeqLists ==
  ASSUME NEW S, IsFiniteSet(S)
  PROVE  SetToSeq(S) \in Seq(S) /\ ToSet(SetToSeq(S)) = S
<1>1. PICK n \in Nat : n = Cardinality(S)
  BY FS_CardinalityType
<1>2. ExistsBijection(1..n, S)
  BY <1>1, FS_CardinalityType
<1>3. PICK g : g \in Bijection(1..n, S)
  BY <1>2 DEF ExistsBijection
<1>4. g \in [1..n -> S] /\ IsInjective(g)
  BY <1>3 DEF Bijection, Injection, IsInjective
<1>5. PICK f : f = SetToSeq(S)
  OBVIOUS
<1>6. f \in [1..n -> S] /\ IsInjective(f)
  BY <1>1, <1>4, <1>5 DEF SetToSeq
<1>7. f \in Injection(1..n, S)
  BY <1>6 DEF Injection
<1>8. Cardinality(1..n) = n
  BY FS_Interval
<1>9. f \in Surjection(1..n, S)
  BY <1>1, <1>7, <1>8, FS_Injection
<1>10. \A x \in S : \E i \in 1..n : f[i] = x
  BY <1>9 DEF Surjection
<1>11. f \in Seq(S) /\ DOMAIN f = 1..n
  BY <1>6
<1>12. QED
  BY <1>5, <1>6, <1>10, <1>11 DEF ToSet

LEMMA RecalledTells ==
  ASSUME NEW r, IsAsked(r)
  PROVE  /\ Recalled(r) \in Seq(Words) /\ ToSet(Recalled(r)) \cap Notes = DOMAIN r.recall
         /\ r.conflicts # {} => "conflicts" \in ToSet(Recalled(r))
<1>1. PICK S : S = DOMAIN r.recall /\ IsFiniteSet(S) /\ S \subseteq Notes
  BY DEF IsAsked
<1>2. PICK listed \in Seq(Words) : listed = SetToSeq(S) /\ ToSet(listed) = S
  <2>1. SetToSeq(S) \in Seq(S) /\ ToSet(SetToSeq(S)) = S
    BY <1>1, SetToSeqLists
  <2>2. S \subseteq Words
    BY <1>1 DEF Words
  <2>3. QED
    BY <2>1, <2>2, SeqMonotonic
<1>3. "lead" \notin Notes /\ "conflicts" \notin Notes
  BY LlConstantsOK
<1>4. <<"lead">> \in Seq(Words) /\ ToSet(<<"lead">>) = {"lead"}
  BY DEF Words, ToSet
<1>5. <<"conflicts">> \in Seq(Words) /\ ToSet(<<"conflicts">>) = {"conflicts"} /\ <<>> \in Seq(Words) /\ ToSet(<<>>) = {}
  BY DEF Words, ToSet
<1>6. PICK first : first = IF S = {} THEN <<>> ELSE <<"lead">> \o listed
  OBVIOUS
<1>7. first \in Seq(Words) /\ ToSet(first) \cap Notes = S
  <2>1. CASE S = {}
    BY <1>5, <1>6, <2>1
  <2>2. CASE S # {}
    <3>1. PICK lead \in Seq(Words) : lead = <<"lead">> /\ ToSet(lead) = {"lead"}
      BY <1>4
    <3>2. first = lead \o listed
      BY <1>6, <2>2, <3>1
    <3>3. lead \o listed \in Seq(Words) /\ ToSet(lead \o listed) = ToSet(lead) \cup ToSet(listed)
      BY ConcatProperties, JoinHolds
    <3>4. QED
      BY <1>1, <1>2, <1>3, <3>1, <3>2, <3>3
  <2>3. QED
    BY <2>1, <2>2
<1>8. PICK second \in Seq(Words) : second = IF r.conflicts = {} THEN <<>> ELSE <<"conflicts">>
  BY <1>5
<1>9. ToSet(second) = IF r.conflicts = {} THEN {} ELSE {"conflicts"}
  BY <1>5, <1>8
<1>10. Recalled(r) = first \o second
  BY <1>1, <1>2, <1>6, <1>8 DEF Recalled
<1>11. first \o second \in Seq(Words) /\ ToSet(first \o second) = ToSet(first) \cup ToSet(second)
  BY <1>7, ConcatProperties, JoinHolds
<1>12. QED
  BY <1>1, <1>3, <1>7, <1>9, <1>10, <1>11

\* A step that only changes what one request holds.
LEMMA AskStep ==
  ASSUME LlInv, NEW q \in Asking, NEW r, AskFits(r), HeardFits(q, r, heard),
         asking' = [asking EXCEPT ![q] = r], UNCHANGED <<notes, heard>>
  PROVE  LlInv'
<1>1. \A p \in Asking : asking'[p] = IF p = q THEN r ELSE asking[p]
  BY DEF LlInv
<1>2. DOMAIN asking' = Asking
  BY DEF LlInv
<1>3. QED
  BY <1>1, <1>2 DEF LlInv

\* Nothing was sent for a request before it is to be logged.
LEMMA Unheard ==
  ASSUME NEW q, NEW r, NEW c, NEW sent, HeardFits(q, r, sent), r.pc # "log", c.pc # "log"
  PROVE  HeardFits(q, c, sent)
BY DEF HeardFits

LEMMA NotesChange ==
  ASSUME LlInv, Remembered \/ Forgotten
  PROVE  LlInv'
<1>1. CASE Remembered
  <2>1. PICK m \in Notes : DOMAIN notes' = DOMAIN notes \cup {m}
    BY <1>1 DEF Remembered
  <2>2. IsFiniteSet(DOMAIN notes')
    BY <2>1, FS_AddElement DEF LlInv
  <2>3. QED
    BY <1>1, <2>1, <2>2 DEF LlInv, Remembered
<1>2. CASE Forgotten
  <2>1. PICK m \in DOMAIN notes : DOMAIN notes' = DOMAIN notes \ {m}
    BY <1>2 DEF Forgotten
  <2>2. IsFiniteSet(DOMAIN notes')
    BY <2>1, FS_RemoveElement DEF LlInv
  <2>3. QED
    BY <1>2, <2>1, <2>2 DEF LlInv, Forgotten
<1>3. QED
  BY <1>1, <1>2

LEMMA RecallKeeps ==
  ASSUME LlInv, NEW q \in Asking, Recall(q)
  PROVE  LlInv'
<1>0. \E ask \in Prompts, pc \in {"route", "conflicts"} : \E recall :
        /\ asking' = [asking EXCEPT ![q] = Asked(ask, pc, recall)]
        /\ DOMAIN recall \subseteq DOMAIN notes
        /\ pc = "route" => DOMAIN recall = {}
  <2>1. PICK ask \in Prompts :
          \/ ~ask.recall /\ asking' = [asking EXCEPT ![q] = Asked(ask, "route", <<>>)]
          \/ \E bundle \in SUBSET DOMAIN notes :
               asking' = [asking EXCEPT ![q] = Asked(ask, "conflicts", [m \in bundle |-> notes[m].theme])]
    BY DEF Recall
  <2>2. CASE asking' = [asking EXCEPT ![q] = Asked(ask, "route", <<>>)]
    <3>1. DOMAIN <<>> = {}
      OBVIOUS
    <3>2. QED
      BY <2>2, <3>1
  <2>3. CASE \E bundle \in SUBSET DOMAIN notes :
               asking' = [asking EXCEPT ![q] = Asked(ask, "conflicts", [m \in bundle |-> notes[m].theme])]
    <3>1. PICK bundle \in SUBSET DOMAIN notes :
            asking' = [asking EXCEPT ![q] = Asked(ask, "conflicts", [m \in bundle |-> notes[m].theme])]
      BY <2>3
    <3>2. PICK recall : recall = [m \in bundle |-> notes[m].theme]
      OBVIOUS
    <3>3. asking' = [asking EXCEPT ![q] = Asked(ask, "conflicts", recall)]
      BY <3>1, <3>2
    <3>4. DOMAIN recall = bundle
      BY <3>2
    <3>5. QED
      BY <3>3, <3>4
  <2>4. QED
    BY <2>1, <2>2, <2>3
<1>00. PICK ask \in Prompts, pc \in {"route", "conflicts"} : \E recall :
        /\ asking' = [asking EXCEPT ![q] = Asked(ask, pc, recall)]
        /\ DOMAIN recall \subseteq DOMAIN notes
        /\ pc = "route" => DOMAIN recall = {}
  BY <1>0
<1>1. PICK recall :
        /\ asking' = [asking EXCEPT ![q] = Asked(ask, pc, recall)]
        /\ DOMAIN recall \subseteq DOMAIN notes
        /\ pc = "route" => DOMAIN recall = {}
  BY <1>00
<1>2. PICK r : r = Asked(ask, pc, recall)
  OBVIOUS
<1>3. /\ r.pc = pc /\ r.ask = ask /\ r.recall = recall /\ r.conflicts = {} /\ r.context = ask.own
      /\ r = [pc |-> r.pc, ask |-> r.ask, recall |-> r.recall, conflicts |-> r.conflicts, context |-> r.context,
              cut |-> r.cut, mode |-> r.mode, backend |-> r.backend, answer |-> r.answer]
  BY <1>2 DEF Asked
<1>4. ask.own \in Seq(Words) /\ ToSet(ask.own) \cap Notes = {}
  <2>1. ask.own \in Seq(OwnLines) /\ OwnLines \cap Notes = {}
    BY LlConstantsOK
  <2>2. ToSet(ask.own) \subseteq OwnLines
    BY <2>1 DEF ToSet
  <2>3. OwnLines \subseteq Words
    BY DEF Words
  <2>4. QED
    BY <2>1, <2>2, <2>3, SeqMonotonic
<1>5. IsFiniteSet(DOMAIN recall) /\ DOMAIN recall \subseteq Notes
  BY <1>1, FS_Subset DEF LlInv
<1>6. IsAsked(r)
  BY <1>3, <1>4, <1>5 DEF IsAsked
<1>7. pc = "route" => Told(r)
  BY <1>1, <1>3, <1>4 DEF Told
<1>8. AskFits(r)
  BY <1>1, <1>3, <1>6, <1>7 DEF AskFits
<1>9. HeardFits(q, r, heard)
  BY <1>1, <1>3, Unheard DEF LlInv, Recall
<1>10. UNCHANGED <<notes, heard>>
  BY DEF Recall
<1>11. QED
  BY <1>1, <1>2, <1>8, <1>9, <1>10, AskStep

LEMMA ConflictsAreRead ==
  ASSUME LlInv, NEW q \in Asking, ReadConflicts(q)
  PROVE  LlInv'
<1>1. PICK r : r = asking[q] /\ r.pc = "conflicts" /\ IsAsked(r)
  BY DEF LlInv, ReadConflicts, AskFits
<1>2. PICK c, met : c = [r EXCEPT !.pc = "merge", !.conflicts = met] /\ asking' = [asking EXCEPT ![q] = c]
  BY <1>1 DEF ReadConflicts
<1>3. c.pc = "merge" /\ IsAsked(c)
  BY <1>1, <1>2 DEF IsAsked
<1>4. AskFits(c)
  BY <1>3 DEF AskFits
<1>5. HeardFits(q, c, heard)
  BY <1>1, <1>3, Unheard DEF LlInv
<1>6. QED
  BY <1>2, <1>4, <1>5, AskStep DEF ReadConflicts

\* What is cut off at the end tells nothing that was not recalled, and all of it if nothing was cut.
LEMMA MergedTells ==
  ASSUME NEW r, IsAsked(r), NEW whole, whole = IF Worth(r) THEN Recalled(r) \o r.ask.own ELSE r.ask.own,
         NEW n, n = IF Len(whole) < Context THEN Len(whole) ELSE Context
  PROVE  /\ SubSeq(whole, 1, n) \in Seq(Words)
         /\ ToSet(SubSeq(whole, 1, n)) \cap Notes \subseteq DOMAIN r.recall
         /\ Len(whole) <= Context => /\ DOMAIN r.recall \subseteq ToSet(SubSeq(whole, 1, n))
                                     /\ r.conflicts # {} => "conflicts" \in ToSet(SubSeq(whole, 1, n))
<1>1. PICK own \in Seq(Words) : own = r.ask.own /\ ToSet(own) \cap Notes = {}
  <2>1. r.ask.own \in Seq(OwnLines) /\ OwnLines \cap Notes = {}
    BY LlConstantsOK DEF IsAsked
  <2>2. ToSet(r.ask.own) \subseteq OwnLines
    BY <2>1 DEF ToSet
  <2>3. OwnLines \subseteq Words
    BY DEF Words
  <2>4. QED
    BY <2>1, <2>2, <2>3, SeqMonotonic
<1>2. PICK recalled \in Seq(Words) :
        /\ recalled = Recalled(r) /\ ToSet(recalled) \cap Notes = DOMAIN r.recall
        /\ r.conflicts # {} => "conflicts" \in ToSet(recalled)
  BY RecalledTells
<1>3. /\ whole \in Seq(Words) /\ ToSet(whole) \cap Notes = DOMAIN r.recall
      /\ r.conflicts # {} => "conflicts" \in ToSet(whole)
  <2>1. CASE Worth(r)
    <3>1. recalled \o own \in Seq(Words) /\ ToSet(recalled \o own) = ToSet(recalled) \cup ToSet(own)
      BY ConcatProperties, JoinHolds
    <3>2. QED
      BY <1>1, <1>2, <2>1, <3>1
  <2>2. CASE ~Worth(r)
    BY <1>1, <2>2 DEF Worth
  <2>3. QED
    BY <2>1, <2>2
<1>4. n \in Nat /\ n <= Len(whole) /\ (Len(whole) <= Context => n = Len(whole))
  <2>1. PICK len \in Nat : len = Len(whole)
    BY <1>3
  <2>2. PICK room \in Nat : room = Context
    BY LlConstantsOK
  <2>3. n = IF len < room THEN len ELSE room
    BY <2>1, <2>2
  <2>4. QED
    BY <2>1, <2>2, <2>3
<1>5. \A i \in 1..n : whole[i] \in Words
  BY <1>3, <1>4
<1>6. PICK told : told = SubSeq(whole, 1, n)
  OBVIOUS
<1>7. told \in Seq(Words) /\ Len(told) = n /\ \A i \in 1..n : told[i] = whole[i]
  BY <1>3, <1>4, <1>5, <1>6, SubSeqProperties
<1>8. ToSet(told) \subseteq ToSet(whole)
  <2>1. DOMAIN told = 1..n /\ DOMAIN whole = 1..Len(whole) /\ 1..n \subseteq 1..Len(whole)
    BY <1>3, <1>4, <1>7
  <2>2. QED
    BY <1>7, <2>1 DEF ToSet
<1>9. Len(whole) <= Context => told = whole
  BY <1>3, <1>4, <1>7, SeqEqual
<1>10. QED
  BY <1>3, <1>6, <1>7, <1>8, <1>9

LEMMA MergeKeeps ==
  ASSUME LlInv, NEW q \in Asking, MergeContext(q)
  PROVE  LlInv'
<1>1. PICK r : r = asking[q] /\ r.pc = "merge" /\ IsAsked(r)
  BY DEF LlInv, MergeContext, AskFits
<1>2. PICK whole : whole = IF Worth(r) THEN Recalled(r) \o r.ask.own ELSE r.ask.own
  OBVIOUS
<1>3. PICK n : n = IF Len(whole) < Context THEN Len(whole) ELSE Context
  OBVIOUS
<1>4. PICK context \in Seq(Words) :
        /\ context = SubSeq(whole, 1, n)
        /\ ToSet(context) \cap Notes \subseteq DOMAIN r.recall
        /\ Len(whole) <= Context => /\ DOMAIN r.recall \subseteq ToSet(context)
                                    /\ r.conflicts # {} => "conflicts" \in ToSet(context)
  <2>1. IsAsked(r)
    BY <1>1
  <2>2. /\ SubSeq(whole, 1, n) \in Seq(Words)
        /\ ToSet(SubSeq(whole, 1, n)) \cap Notes \subseteq DOMAIN r.recall
        /\ Len(whole) <= Context => /\ DOMAIN r.recall \subseteq ToSet(SubSeq(whole, 1, n))
                                    /\ r.conflicts # {} => "conflicts" \in ToSet(SubSeq(whole, 1, n))
    BY <1>2, <1>3, <2>1, MergedTells, Zenon
  <2>3. QED
    BY <2>2
<1>5. PICK cut : cut = (Len(whole) > Context)
  OBVIOUS
<1>6. ~cut => Len(whole) <= Context
  <2>1. whole \in Seq(Words)
    <3>1. r.ask.own \in Seq(OwnLines) /\ OwnLines \subseteq Words
      BY <1>1, LlConstantsOK DEF IsAsked, Words
    <3>2. r.ask.own \in Seq(Words)
      BY <3>1, SeqMonotonic
    <3>3. QED
      BY <1>1, <1>2, <3>2, RecalledTells, ConcatProperties
  <2>2. PICK len \in Nat : len = Len(whole)
    BY <2>1
  <2>3. PICK room \in Nat : room = Context
    BY LlConstantsOK
  <2>4. cut = (len > room) /\ (~(len > room) => len <= room)
    BY <1>5, <2>2, <2>3
  <2>5. QED
    BY <2>2, <2>3, <2>4
<1>7. PICK c : c = [r EXCEPT !.pc = "route", !.cut = cut, !.context = context]
  OBVIOUS
<1>8. asking' = [asking EXCEPT ![q] = c] /\ UNCHANGED <<notes, heard>>
  BY <1>1, <1>2, <1>3, <1>4, <1>5, <1>7 DEF MergeContext
<1>9. c.pc = "route" /\ c.cut = cut /\ c.context = context /\ c.recall = r.recall /\ c.conflicts = r.conflicts /\ IsAsked(c)
  BY <1>1, <1>7 DEF IsAsked
<1>10. Told(c)
  BY <1>4, <1>6, <1>9 DEF Told
<1>11. AskFits(c)
  BY <1>9, <1>10 DEF AskFits
<1>12. HeardFits(q, c, heard)
  BY <1>1, <1>9, Unheard DEF LlInv
<1>13. QED
  BY <1>8, <1>11, <1>12, AskStep

LEMMA RouteKeeps ==
  ASSUME LlInv, NEW q \in Asking, Route(q)
  PROVE  LlInv'
<1>1. PICK r : r = asking[q] /\ r.pc = "route" /\ IsAsked(r) /\ Told(r)
  BY DEF LlInv, Route, AskFits
<1>2. PICK intent : intent = IF r.ask.mode = "none" THEN r.ask.intent ELSE FirstIntent(r.ask.mode)
  OBVIOUS
<1>3. CASE r.ask.mode = "unknown"
  <2>1. PICK c : c = [pc |-> "refused"]
    OBVIOUS
  <2>2. asking' = [asking EXCEPT ![q] = c] /\ UNCHANGED <<notes, heard>>
    BY <1>1, <1>3, <2>1 DEF Route
  <2>3. c.pc = "refused"
    BY <2>1
  <2>4. AskFits(c) /\ HeardFits(q, c, heard)
    BY <1>1, <2>3, Unheard DEF LlInv, AskFits
  <2>5. QED
    BY <2>2, <2>4, AskStep
<1>4. CASE r.ask.mode # "unknown"
  <2>1. PICK pc \in {"log", "resolve"} : pc = IF intent = "safety_sensitive" THEN "log" ELSE "resolve"
    OBVIOUS
  <2>2. PICK mode : mode = ModeOf(intent)
    OBVIOUS
  <2>3. PICK c : c = [r EXCEPT !.pc = pc, !.mode = mode, !.backend = "logical-layer", !.answer = "refusal"]
    OBVIOUS
  <2>4. asking' = [asking EXCEPT ![q] = c] /\ UNCHANGED <<notes, heard>>
    BY <1>1, <1>2, <1>4, <2>1, <2>2, <2>3 DEF Route
  <2>5. /\ c.pc = pc /\ c.mode = mode /\ c.backend = "logical-layer" /\ c.context = r.context
        /\ c.recall = r.recall /\ c.conflicts = r.conflicts /\ c.cut = r.cut /\ IsAsked(c)
    BY <1>1, <2>3 DEF IsAsked
  <2>6. Told(c)
    BY <1>1, <2>5 DEF Told
  <2>7. pc = "resolve" => mode # "safety_mode"
    BY <2>1, <2>2 DEF ModeOf
  <2>8. AskFits(c)
    BY <2>1, <2>5, <2>6, <2>7 DEF AskFits
  <2>9. q \notin DOMAIN heard
    BY <1>1 DEF LlInv, HeardFits
  <2>10. HeardFits(q, c, heard)
    BY <2>5, <2>9 DEF HeardFits
  <2>11. QED
    BY <2>4, <2>8, <2>10, AskStep
<1>5. QED
  BY <1>3, <1>4

\* On its way to the model a request only learns its name.
LEMMA OnItsWay ==
  ASSUME NEW r, AskFits(r), r.pc \in {"resolve", "discover"},
         NEW pc \in {"discover", "send"}, NEW c, c = [r EXCEPT !.pc = pc]
  PROVE  AskFits(c) /\ c.pc = pc
<1>1. /\ c.pc = pc /\ c.mode = r.mode /\ c.context = r.context /\ c.recall = r.recall
      /\ c.conflicts = r.conflicts /\ c.cut = r.cut /\ IsAsked(c)
  BY DEF IsAsked, AskFits
<1>2. Told(c)
  BY <1>1 DEF Told, AskFits
<1>3. QED
  BY <1>1, <1>2 DEF AskFits

LEMMA NamingKeeps ==
  ASSUME LlInv, NEW q \in Asking, Resolve(q) \/ Discover(q)
  PROVE  LlInv'
<1>1. PICK r : r = asking[q] /\ r.pc \in {"resolve", "discover"} /\ AskFits(r)
  BY DEF LlInv, Resolve, Discover
<1>2. PICK pc \in {"discover", "send"} : asking' = [asking EXCEPT ![q].pc = pc]
  BY DEF Resolve, Discover
<1>3. PICK c : c = [r EXCEPT !.pc = pc]
  OBVIOUS
<1>4. asking' = [asking EXCEPT ![q] = c] /\ UNCHANGED <<notes, heard>>
  BY <1>1, <1>2, <1>3 DEF Resolve, Discover
<1>5. AskFits(c) /\ c.pc = pc
  BY <1>1, <1>3, OnItsWay
<1>6. HeardFits(q, c, heard)
  BY <1>1, <1>5, Unheard DEF LlInv
<1>7. QED
  BY <1>4, <1>5, <1>6, AskStep

LEMMA SendKeeps ==
  ASSUME LlInv, NEW q \in Asking, Send(q)
  PROVE  LlInv'
<1>1. PICK r : r = asking[q] /\ r.pc = "send" /\ IsAsked(r) /\ Told(r) /\ r.mode # "safety_mode"
  BY DEF LlInv, Send, AskFits
<1>2. PICK backend, answer, sent :
        /\ asking' = [asking EXCEPT ![q] = [@ EXCEPT !.pc = "log", !.backend = backend, !.answer = answer]]
        /\ heard' = sent /\ sent \in {heard, Hears(q)}
        /\ backend = "model" => sent = Hears(q)
  BY DEF Send
<1>3. PICK c : c = [r EXCEPT !.pc = "log", !.backend = backend, !.answer = answer]
  OBVIOUS
<1>4. asking' = [asking EXCEPT ![q] = c]
  BY <1>1, <1>2, <1>3
<1>5. /\ c.pc = "log" /\ c.mode = r.mode /\ c.backend = backend /\ c.context = r.context /\ c.recall = r.recall
      /\ c.conflicts = r.conflicts /\ c.cut = r.cut /\ IsAsked(c)
  BY <1>1, <1>3 DEF IsAsked
<1>6. Told(c)
  BY <1>1, <1>5 DEF Told
<1>7. AskFits(c)
  BY <1>5, <1>6 DEF AskFits
<1>8. q \notin DOMAIN heard
  BY <1>1 DEF LlInv, HeardFits
<1>9. /\ q \in DOMAIN sent => sent[q] = c.context
      /\ backend = "model" => q \in DOMAIN sent
      /\ \A p \in Asking : p # q => (p \in DOMAIN sent <=> p \in DOMAIN heard) /\ (p \in DOMAIN heard => sent[p] = heard[p])
  <2>1. CASE sent = heard
    BY <1>2, <1>8, <2>1 DEF Hears
  <2>2. CASE sent = Hears(q)
    BY <1>1, <1>5, <2>2 DEF Hears
  <2>3. QED
    BY <1>2, <2>1, <2>2
<1>10. HeardFits(q, c, sent)
  BY <1>1, <1>5, <1>9 DEF HeardFits
<1>11. \A p \in Asking : p # q => HeardFits(p, asking[p], sent)
  BY <1>9 DEF LlInv, HeardFits
<1>12. \A p \in Asking : asking'[p] = IF p = q THEN c ELSE asking[p]
  BY <1>4 DEF LlInv
<1>13. \A p \in Asking : AskFits(asking'[p]) /\ HeardFits(p, asking'[p], sent)
  BY <1>7, <1>10, <1>11, <1>12 DEF LlInv
<1>14. QED
  BY <1>2, <1>4, <1>13 DEF LlInv, Send

LEMMA LogKeeps ==
  ASSUME LlInv, NEW q \in Asking, Log(q)
  PROVE  LlInv'
<1>1. PICK c : c = [pc |-> "answered"]
  OBVIOUS
<1>2. PICK sent : sent = [p \in DOMAIN heard \ {q} |-> heard[p]]
  OBVIOUS
<1>3. asking' = [asking EXCEPT ![q] = c] /\ heard' = sent /\ UNCHANGED notes
  BY <1>1, <1>2 DEF Log
<1>4. c.pc = "answered" /\ DOMAIN sent = DOMAIN heard \ {q} /\ \A p \in DOMAIN sent : sent[p] = heard[p]
  BY <1>1, <1>2
<1>5. AskFits(c) /\ HeardFits(q, c, sent)
  BY <1>4 DEF AskFits, HeardFits
<1>6. \A p \in Asking : p # q => HeardFits(p, asking[p], sent)
  BY <1>4 DEF LlInv, HeardFits
<1>7. \A p \in Asking : asking'[p] = IF p = q THEN c ELSE asking[p]
  BY <1>3 DEF LlInv
<1>8. \A p \in Asking : AskFits(asking'[p]) /\ HeardFits(p, asking'[p], sent)
  BY <1>5, <1>6, <1>7 DEF LlInv
<1>9. QED
  BY <1>3, <1>8 DEF LlInv

LEMMA LlStart == LlInit => LlInv
<1> SUFFICES ASSUME LlInit PROVE LlInv
  OBVIOUS
<1>1. DOMAIN notes = {} /\ DOMAIN heard = {} /\ DOMAIN asking = Asking /\ \A q \in Asking : asking[q].pc = "new"
  BY DEF LlInit, Unasked
<1>2. IsFiniteSet(DOMAIN notes)
  BY <1>1, FS_EmptySet
<1>3. QED
  BY <1>1, <1>2 DEF LlInv, AskFits, HeardFits

LEMMA LlStep == LlInv /\ [LlNext]_llVars => LlInv'
<1> SUFFICES ASSUME LlInv, [LlNext]_llVars PROVE LlInv'
  OBVIOUS
<1>1. CASE UNCHANGED llVars
  BY <1>1 DEF LlInv, llVars
<1>2. CASE Remembered \/ Forgotten
  BY <1>2, NotesChange
<1>3. ASSUME NEW q \in Asking, Recall(q) \/ ReadConflicts(q) \/ MergeContext(q) \/ Route(q)
      PROVE  LlInv'
  BY <1>3, RecallKeeps, ConflictsAreRead, MergeKeeps, RouteKeeps
<1>4. ASSUME NEW q \in Asking, Resolve(q) \/ Discover(q) \/ Send(q) \/ Log(q)
      PROVE  LlInv'
  BY <1>4, NamingKeeps, SendKeeps, LogKeeps
<1>5. QED
  BY <1>1, <1>2, <1>3, <1>4 DEF LlNext

\* Whatever is written to and forgotten from the ledger while a request is on its way, and
\* whether or not the model's answer arrives: the record that goes with an answer names a model
\* only if one was asked, names every memory the model saw, and unless the context was cut the
\* model saw all that it names, with the warning of conflicts.  (app/amul_llm.py: generate;
\* app/main.py: llm_generate)
THEOREM GenerationIsRecorded == LlSpec => []RecordIsHonest
<1>1. LlInv => RecordIsHonest
  <2> SUFFICES ASSUME LlInv PROVE RecordIsHonest
    OBVIOUS
  <2>1. ASSUME NEW q \in Asking, asking[q].pc = "log"
        PROVE  LET r == asking[q]
                   record == Record(r)
                   saw == IF q \in DOMAIN heard THEN ToSet(heard[q]) ELSE {}
               IN /\ record.backend = "model" => q \in DOMAIN heard
                  /\ q \in DOMAIN heard => record.mode # "safety_mode"
                  /\ saw \cap Notes \subseteq record.memories
                  /\ q \in DOMAIN heard /\ ~r.cut =>
                       record.memories \subseteq saw /\ (record.conflicts # {} => "conflicts" \in saw)
    <3>1. PICK r : r = asking[q] /\ r.pc = "log" /\ Told(r) /\ HeardFits(q, r, heard)
      BY <2>1 DEF LlInv, AskFits
    <3>2. PICK saw : saw = IF q \in DOMAIN heard THEN ToSet(heard[q]) ELSE {}
      OBVIOUS
    <3>3. q \in DOMAIN heard => saw = ToSet(r.context)
      BY <3>1, <3>2 DEF HeardFits
    <3>4. /\ Record(r).mode = r.mode /\ Record(r).backend = r.backend
          /\ Record(r).memories = DOMAIN r.recall /\ Record(r).conflicts = r.conflicts
      BY DEF Record
    <3>5. /\ r.backend = "model" => q \in DOMAIN heard
          /\ q \in DOMAIN heard => r.mode # "safety_mode"
          /\ saw \cap Notes \subseteq DOMAIN r.recall
      BY <3>1, <3>2, <3>3 DEF Told, HeardFits
    <3>6. q \in DOMAIN heard /\ ~r.cut => DOMAIN r.recall \subseteq saw /\ (r.conflicts # {} => "conflicts" \in saw)
      BY <3>1, <3>3 DEF Told
    <3>7. QED
      BY <3>1, <3>2, <3>4, <3>5, <3>6
  <2>2. QED
    BY <2>1 DEF RecordIsHonest
<1>2. QED
  BY <1>1, LlStart, LlStep, PTL DEF LlSpec

-----------------------------------------------------------------------------
(* Retrieval: what the gate lets out *)

DocLines == {doc \in Docs : doc.id \in DocIds}
Indexes == UNION {[D -> Docs] : D \in SUBSET AllIds}
Statuses == {"chatty", "insufficient_evidence", "conflicted_evidence", "answered"}
Records == [id : {1}, query : Queries, docs : Indexes, status : Statuses, used : SUBSET AllIds]

\* A map of documents, of which there are finitely many.
IsIndex(docs) == docs \in Indexes /\ IsFiniteSet(DOMAIN docs)

\* AnswersAreBacked, of the answer in one record.
Backed(r) ==
  r.status = "answered" =>
    /\ r.used # {}
    /\ \A d \in r.used : r.docs[d].live /\ r.docs[d].conflicts \cap (DOMAIN r.docs \ {d}) = {}
    /\ Cardinality(Characters(r.docs, r.used)) <= r.query.budget
    /\ \E d \in DOMAIN r.docs : r.docs[d].live /\ Support(r.query, r.docs, d) >= r.query.support

LEMMA IndexIs ==
  ASSUME NEW docs
  PROVE  docs \in Indexes <=> /\ docs = [d \in DOMAIN docs |-> docs[d]] /\ DOMAIN docs \subseteq AllIds
                              /\ \A d \in DOMAIN docs : docs[d] \in Docs
<1>1. ASSUME docs \in Indexes
      PROVE  /\ docs = [d \in DOMAIN docs |-> docs[d]] /\ DOMAIN docs \subseteq AllIds
             /\ \A d \in DOMAIN docs : docs[d] \in Docs
  <2>1. PICK D \in SUBSET AllIds : docs \in [D -> Docs]
    BY <1>1 DEF Indexes
  <2>2. QED
    BY <2>1
<1>2. ASSUME docs = [d \in DOMAIN docs |-> docs[d]], DOMAIN docs \subseteq AllIds,
             \A d \in DOMAIN docs : docs[d] \in Docs
      PROVE  docs \in Indexes
  <2>1. docs \in [DOMAIN docs -> Docs]
    BY <1>2
  <2>2. QED
    BY <1>2, <2>1 DEF Indexes
<1>3. QED
  BY <1>1, <1>2

LEMMA IdsAreNumbers == AllIds \subseteq Nat \ {0}
<1> SUFFICES ASSUME NEW d \in AllIds PROVE d \in Nat \ {0}
  OBVIOUS
<1>1. CASE d \in DocIds
  BY <1>1, RgConstantsOK DEF RgConstantsOK
<1>2. CASE d \notin DocIds
  <2>1. PICK D \in LedgerDocs : \E m \in D : d = m.id
    BY <1>2 DEF AllIds
  <2>2. PICK m \in D : d = m.id
    BY <2>1
  <2>3. m \in Docs
    BY <2>2, RgConstantsOK DEF RgConstantsOK
  <2>4. QED
    BY <2>2, <2>3 DEF Docs
<1>3. QED
  BY <1>1, <1>2

\* The scores of a query.
LEMMA QueryIs ==
  ASSUME NEW q \in Queries
  PROVE  /\ q.k \in Nat /\ q.support \in Nat /\ q.budget \in Nat
         /\ \A d \in AllIds : q.vector[d] \in Nat /\ q.keyword[d] \in Nat
BY RgConstantsOK DEF RgConstantsOK

\* Some document has no other one ahead of it.
LEMMA FirstIsOfThem ==
  ASSUME NEW S, IsFiniteSet(S), S # {}, S \subseteq Nat, NEW score, \A d \in S : score[d] \in Nat
  PROVE  First(S, score) \in S
<1> DEFINE Before(d) == {e \in S : Ahead(score, e, d)}
           Counts == {Cardinality(Before(d)) : d \in S}
<1>1. \A d \in S : IsFiniteSet(Before(d)) /\ Cardinality(Before(d)) \in Nat
  <2> TAKE d \in S
  <2>1. Before(d) \subseteq S
    OBVIOUS
  <2>2. QED
    BY <2>1, FS_Subset, FS_CardinalityType
<1>2. PICK c \in Counts : \A b \in Counts : c <= b
  <2>1. Counts \subseteq Nat /\ Counts # {}
    BY <1>1
  <2> HIDE DEF Counts
  <2>2. QED
    BY <2>1, LeastOf
<1>3. PICK d \in S : c = Cardinality(Before(d))
  OBVIOUS
<1>4. ASSUME NEW e \in S, Ahead(score, e, d) PROVE FALSE
  <2>1. Before(e) \subseteq Before(d)
    <3> SUFFICES ASSUME NEW f \in S, Ahead(score, f, e) PROVE Ahead(score, f, d)
      OBVIOUS
    <3>1. score[d] \in Nat /\ score[e] \in Nat /\ score[f] \in Nat /\ d \in Nat /\ e \in Nat /\ f \in Nat
      OBVIOUS
    <3>2. QED
      BY <1>4, <3>1 DEF Ahead
  <2>2. e \in Before(d) /\ e \notin Before(e)
    <3>1. score[e] \in Nat /\ e \in Nat
      OBVIOUS
    <3>2. ~Ahead(score, e, e)
      BY <3>1 DEF Ahead
    <3>3. QED
      BY <1>4, <3>2
  <2>3. Cardinality(Before(e)) < Cardinality(Before(d))
    <3>1. Before(e) # Before(d)
      BY <2>2
    <3> HIDE DEF Before
    <3>2. QED
      BY <1>1, <1>3, <2>1, <3>1, FS_Subset
  <2>4. c <= Cardinality(Before(e))
    BY <1>2
  <2>5. Cardinality(Before(e)) \in Nat /\ Cardinality(Before(d)) \in Nat
    BY <1>1, <1>3
  <2> HIDE DEF Before, Counts
  <2>6. QED
    BY <1>3, <2>3, <2>4, <2>5
<1>5. \E x \in S : \A e \in S : ~Ahead(score, e, x)
  BY <1>3, <1>4
<1>6. QED
  BY <1>5 DEF First

LEMMA FoundAreThere ==
  ASSUME NEW q, NEW docs
  PROVE  /\ Found(q, docs) \subseteq DOMAIN docs
         /\ \A d \in Hits(q, docs) : d \in DOMAIN docs /\ docs[d].live
<1>1. \A S, score, k : Best(S, score, k) \subseteq S
  BY DEF Best
<1>2. Found(q, docs) \subseteq DOMAIN docs
  BY <1>1, Zenon DEF Found
<1>3. ASSUME NEW d \in Hits(q, docs) PROVE d \in DOMAIN docs /\ docs[d].live
  <2>1. d \in Best({x \in Found(q, docs) : docs[x].live}, Supports(q, docs), q.k)
    BY <1>3 DEF Hits
  <2>2. d \in {x \in Found(q, docs) : docs[x].live}
    BY <1>1, <2>1, Zenon
  <2>3. QED
    BY <1>2, <2>2
<1>4. QED
  BY <1>2, <1>3

LEMMA ProductIsNat == \A a, b \in Nat : a * b \in Nat
OBVIOUS

LEMMA SupportIsNat ==
  ASSUME NEW q \in Queries, NEW docs \in Indexes, NEW d \in DOMAIN docs
  PROVE  Support(q, docs, d) \in Nat
<1>1. d \in AllIds /\ docs[d] \in Docs
  BY IndexIs
<1>2. docs[d].trust \in Nat
  BY <1>1 DEF Docs
<1>3. q.vector[d] \in Nat /\ q.keyword[d] \in Nat
  BY <1>1, QueryIs
<1>4. PICK w : w = (IF d \in Best(DOMAIN docs, q.vector, q.k) THEN q.vector[d] ELSE 0)
                   + (IF d \in Best(DOMAIN docs, q.keyword, q.k) THEN q.keyword[d] ELSE 0)
  OBVIOUS
<1>5. w \in Nat
  <2>1. PICK a : a = IF d \in Best(DOMAIN docs, q.vector, q.k) THEN q.vector[d] ELSE 0
    OBVIOUS
  <2>2. PICK b : b = IF d \in Best(DOMAIN docs, q.keyword, q.k) THEN q.keyword[d] ELSE 0
    OBVIOUS
  <2>3. a \in Nat /\ b \in Nat
    BY <1>3, <2>1, <2>2
  <2>4. w = a + b
    BY <1>4, <2>1, <2>2
  <2>5. QED
    BY <2>3, <2>4
<1>6. Support(q, docs, d) = docs[d].trust * w
  BY <1>4 DEF Support
<1>7. QED
  BY <1>2, <1>5, <1>6, ProductIsNat

\* The values the recursion of BuildContext takes, up to the n-th document.
Blocks(g, docs, hits, support, budget, n) ==
  g = [m \in 0..n |-> IF m = 0 THEN [left |-> hits, size |-> 0, used |-> {}]
                      ELSE NextBlock(docs, support, budget, g[m - 1])]

LEMMA BlocksExist ==
  ASSUME NEW docs, NEW hits, NEW support, NEW budget
  PROVE  \A n \in Nat : \E g : Blocks(g, docs, hits, support, budget, n)
<1> DEFINE S == {n \in Nat : \E g : Blocks(g, docs, hits, support, budget, n)}
           None == [left |-> hits, size |-> 0, used |-> {}]
<1>1. 0 \in S
  <2>1. Blocks([m \in 0..0 |-> None], docs, hits, support, budget, 0)
    BY DEF Blocks
  <2>2. QED
    BY <2>1
<1>2. ASSUME NEW n \in S PROVE n + 1 \in S
  <2>1. PICK g : Blocks(g, docs, hits, support, budget, n)
    BY <1>2
  <2>2. PICK h : h = [m \in 0..(n + 1) |-> IF m = n + 1 THEN NextBlock(docs, support, budget, g[n]) ELSE g[m]]
    OBVIOUS
  <2>3. \A m \in 0..(n + 1) : h[m] = IF m = 0 THEN None ELSE NextBlock(docs, support, budget, h[m - 1])
    <3> TAKE m \in 0..(n + 1)
    <3>1. CASE m = n + 1
      <4>1. h[m - 1] = g[n] /\ m # 0
        BY <1>2, <2>2, <3>1
      <4>2. QED
        BY <1>2, <2>2, <3>1, <4>1
    <3>2. CASE m # n + 1
      <4>1. m \in 0..n /\ h[m] = g[m]
        BY <1>2, <2>2, <3>2
      <4>2. g[m] = IF m = 0 THEN None ELSE NextBlock(docs, support, budget, g[m - 1])
        BY <2>1, <4>1 DEF Blocks
      <4>3. m # 0 => h[m - 1] = g[m - 1]
        BY <1>2, <2>2, <4>1
      <4>4. QED
        BY <4>1, <4>2, <4>3
    <3>3. QED
      BY <3>1, <3>2
  <2>4. Blocks(h, docs, hits, support, budget, n + 1)
    BY <2>2, <2>3 DEF Blocks
  <2>5. QED
    BY <1>2, <2>4
<1>3. \A n \in Nat : n \in S
  BY <1>1, <1>2, AllNaturals
<1>4. QED
  BY <1>3

\* The characters of one more document are those of its own and those there were.
LEMMA MoreCharacters ==
  ASSUME NEW docs \in Indexes, NEW used, used \subseteq DOMAIN docs, NEW d \in DOMAIN docs, d \notin used,
         IsFiniteSet(Characters(docs, used))
  PROVE  /\ IsFiniteSet(Characters(docs, used \cup {d}))
         /\ Cardinality(Characters(docs, used \cup {d})) = Cardinality(Characters(docs, used)) + docs[d].size
<1>1. docs[d].size \in Nat
  <2>1. docs[d] \in Docs
    BY IndexIs
  <2>2. QED
    BY <2>1 DEF Docs
<1>2. PICK own : own = {d} \X (1..docs[d].size)
  OBVIOUS
<1>3. PICK old : old = Characters(docs, used)
  OBVIOUS
<1>4. IsFiniteSet(own) /\ Cardinality(own) = docs[d].size
  <2>1. IsFiniteSet({d}) /\ Cardinality({d}) = 1
    BY FS_Singleton
  <2>2. IsFiniteSet(1..docs[d].size) /\ Cardinality(1..docs[d].size) = docs[d].size
    <3>1. PICK n \in Nat : n = docs[d].size
      BY <1>1
    <3>2. IsFiniteSet(1..n) /\ Cardinality(1..n) = IF 1 > n THEN 0 ELSE n - 1 + 1
      BY FS_Interval
    <3>3. (IF 1 > n THEN 0 ELSE n - 1 + 1) = n
      OBVIOUS
    <3>4. QED
      BY <3>1, <3>2, <3>3
  <2>3. IsFiniteSet(own) /\ Cardinality(own) = Cardinality({d}) * Cardinality(1..docs[d].size)
    BY <1>2, <2>1, <2>2, FS_Product
  <2>4. QED
    BY <1>1, <2>1, <2>2, <2>3
<1>5. own \cap old = {}
  BY <1>2, <1>3 DEF Characters
<1>6. Characters(docs, used \cup {d}) = old \cup own
  BY <1>2, <1>3 DEF Characters
<1>7. /\ IsFiniteSet(old \cup own)
      /\ Cardinality(old \cup own) = Cardinality(old) + Cardinality(own) - Cardinality(old \cap own)
  BY <1>3, <1>4, FS_Union
<1>8. Cardinality(old \cap own) = 0 /\ Cardinality(old) \in Nat
  BY <1>3, <1>5, FS_EmptySet, FS_CardinalityType
<1>9. PICK z : z = docs[d].size
  OBVIOUS
<1>10. Cardinality(old \cup own) = Cardinality(old) + z
  <2>1. z \in Nat /\ Cardinality(own) = z
    BY <1>1, <1>4, <1>9
  <2>2. Cardinality(old) + z - 0 = Cardinality(old) + z
    BY <1>8, <2>1
  <2>3. QED
    BY <1>7, <1>8, <2>1, <2>2
<1>11. QED
  BY <1>3, <1>6, <1>7, <1>9, <1>10, Zenon

\* After n documents: those left, and those used, which fit.
BlockFits(c, docs, hits, budget, n) ==
  /\ c = [left |-> c.left, size |-> c.size, used |-> c.used]
  /\ c.left \subseteq hits /\ c.used \subseteq hits \ c.left
  /\ Cardinality(c.left) = Cardinality(hits) - n
  /\ IsFiniteSet(Characters(docs, c.used))
  /\ c.size = Cardinality(Characters(docs, c.used)) /\ c.size <= budget

LEMMA NextFits ==
  ASSUME NEW docs \in Indexes, NEW hits, hits \subseteq DOMAIN docs, IsFiniteSet(hits), NEW budget \in Nat,
         NEW support, \A d \in hits : support[d] \in Nat, NEW n \in Nat, n < Cardinality(hits),
         NEW c, BlockFits(c, docs, hits, budget, n)
  PROVE  BlockFits(NextBlock(docs, support, budget, c), docs, hits, budget, n + 1)
<1>1. IsFiniteSet(c.left) /\ Cardinality(hits) \in Nat
  BY FS_Subset, FS_CardinalityType DEF BlockFits
<1>2. c.left # {}
  <2>1. Cardinality(c.left) # 0
    BY <1>1 DEF BlockFits
  <2>2. QED
    BY <2>1, FS_EmptySet
<1>3. hits \subseteq Nat
  BY IndexIs, IdsAreNumbers
<1>4. PICK d : d = First(c.left, support)
  OBVIOUS
<1>5. d \in c.left
  <2>1. c.left \subseteq Nat /\ \A e \in c.left : support[e] \in Nat
    BY <1>3 DEF BlockFits
  <2>2. QED
    BY <1>1, <1>2, <1>4, <2>1, FirstIsOfThem
<1>6. d \in DOMAIN docs /\ d \notin c.used /\ c.used \subseteq DOMAIN docs
  BY <1>5 DEF BlockFits
<1>7. Cardinality(c.left \ {d}) = Cardinality(hits) - (n + 1)
  <2>1. Cardinality(c.left \ {d}) = Cardinality(c.left) - 1
    BY <1>1, <1>5, FS_RemoveElement
  <2>2. QED
    BY <1>1, <2>1 DEF BlockFits
<1>8. PICK after : after = NextBlock(docs, support, budget, c)
  OBVIOUS
<1>9. c = [left |-> c.left, size |-> c.size, used |-> c.used]
  BY DEF BlockFits
<1>10. CASE c.size + docs[d].size > budget
  <2>1. after = [c EXCEPT !.left = @ \ {d}]
    BY <1>4, <1>8, <1>10 DEF NextBlock
  <2>2. after = [left |-> c.left \ {d}, size |-> c.size, used |-> c.used]
    BY <1>9, <2>1
  <2>3. after.left = c.left \ {d} /\ after.size = c.size /\ after.used = c.used
    BY <2>2
  <2>4. QED
    BY <1>7, <1>8, <2>2, <2>3 DEF BlockFits
<1>11. CASE ~(c.size + docs[d].size > budget)
  <2>1. after = [left |-> c.left \ {d}, size |-> c.size + docs[d].size, used |-> c.used \cup {d}]
    BY <1>4, <1>8, <1>11 DEF NextBlock
  <2>2. after.left = c.left \ {d} /\ after.size = c.size + docs[d].size /\ after.used = c.used \cup {d}
    BY <2>1
  <2>3. /\ IsFiniteSet(Characters(docs, c.used \cup {d}))
        /\ Cardinality(Characters(docs, c.used \cup {d})) = c.size + docs[d].size
    BY <1>6, MoreCharacters DEF BlockFits
  <2>4. c.size + docs[d].size <= budget
    <3>1. docs[d].size \in Nat
      <4>1. docs[d] \in Docs
        BY <1>6, IndexIs
      <4>2. QED
        BY <4>1 DEF Docs
    <3>2. c.size \in Nat
      BY FS_CardinalityType DEF BlockFits
    <3>3. QED
      BY <1>11, <3>1, <3>2
  <2>5. after.left \subseteq hits /\ after.used \subseteq hits \ after.left
    BY <1>5, <2>2 DEF BlockFits
  <2>6. QED
    BY <1>7, <1>8, <2>1, <2>2, <2>3, <2>4, <2>5 DEF BlockFits
<1>12. QED
  BY <1>10, <1>11

\* What the context holds was found, and fits.
LEMMA ContextFits ==
  ASSUME NEW docs \in Indexes, NEW hits, hits \subseteq DOMAIN docs, IsFiniteSet(hits), NEW budget \in Nat,
         NEW support, \A d \in hits : support[d] \in Nat
  PROVE  /\ BuildContext(docs, hits, support, budget) \subseteq hits
         /\ Cardinality(Characters(docs, BuildContext(docs, hits, support, budget))) <= budget
<1>1. PICK n \in Nat : n = Cardinality(hits)
  BY FS_CardinalityType
<1>2. PICK g : g = CHOOSE h : Blocks(h, docs, hits, support, budget, n)
  OBVIOUS
<1>3. Blocks(g, docs, hits, support, budget, n)
  <2>1. \E h : Blocks(h, docs, hits, support, budget, n)
    BY BlocksExist
  <2>2. QED
    BY <1>2, <2>1
<1>4. BuildContext(docs, hits, support, budget) = g[n].used
  BY <1>1, <1>2 DEF BuildContext, Blocks
<1> DEFINE S == {m \in Nat : m <= n => BlockFits(g[m], docs, hits, budget, m)}
<1>5. 0 \in S
  <2>1. g[0] = [left |-> hits, size |-> 0, used |-> {}]
    BY <1>3 DEF Blocks
  <2>2. Characters(docs, {}) = {}
    BY DEF Characters
  <2>3. IsFiniteSet({}) /\ Cardinality({}) = 0
    BY FS_EmptySet
  <2>4. BlockFits(g[0], docs, hits, budget, 0)
    <3>1. PICK c : c = g[0]
      OBVIOUS
    <3>2. c.left = hits /\ c.size = 0 /\ c.used = {}
      BY <2>1, <3>1
    <3>3. Cardinality(c.left) = Cardinality(hits) - 0
      BY <1>1, <3>2
    <3>4. /\ IsFiniteSet(Characters(docs, c.used)) /\ c.size = Cardinality(Characters(docs, c.used))
          /\ c.size <= budget
      BY <2>2, <2>3, <3>2
    <3> HIDE DEF S
    <3>5. QED
      BY <2>1, <3>1, <3>2, <3>3, <3>4 DEF BlockFits
  <2>5. QED
    BY <2>4
<1>6. ASSUME NEW m \in S PROVE m + 1 \in S
  <2> SUFFICES ASSUME m + 1 <= n PROVE BlockFits(g[m + 1], docs, hits, budget, m + 1)
    OBVIOUS
  <2>1. g[m + 1] = NextBlock(docs, support, budget, g[m])
    <3>1. m + 1 \in 0..n /\ m + 1 # 0 /\ (m + 1) - 1 = m
      OBVIOUS
    <3>2. QED
      BY <1>3, <3>1 DEF Blocks
  <2>2. BlockFits(g[m], docs, hits, budget, m) /\ m < Cardinality(hits)
    BY <1>1, <1>6
  <2>3. m \in Nat
    BY <1>6
  <2> HIDE DEF S
  <2>4. QED
    BY <2>1, <2>2, <2>3, NextFits
<1>7. \A m \in Nat : m \in S
  <2>1. S \in SUBSET Nat
    OBVIOUS
  <2> HIDE DEF S
  <2>2. QED
    BY <1>5, <1>6, <2>1, AllNaturals
<1>8. BlockFits(g[n], docs, hits, budget, n)
  BY <1>7
<1>9. QED
  BY <1>4, <1>8 DEF BlockFits

\* Where nothing is in conflict, no document declares one with another that is there.
LEMMA FreeOfConflicts ==
  ASSUME NEW docs, NEW hits, IsFiniteSet(DOMAIN docs), hits \subseteq DOMAIN docs,
         Conflicted(docs, hits) = {}, NEW d \in hits
  PROVE  docs[d].conflicts \cap (DOMAIN docs \ {d}) = {}
<1> SUFFICES ASSUME NEW e \in docs[d].conflicts \cap (DOMAIN docs \ {d}) PROVE FALSE
  OBVIOUS
<1> DEFINE groups == {(docs[x].conflicts \cap DOMAIN docs) \cup {x} : x \in hits}
<1>1. PICK g : g = (docs[d].conflicts \cap DOMAIN docs) \cup {d}
  OBVIOUS
<1>2. g \in groups /\ d \in g /\ e \in g /\ e # d
  BY <1>1
<1>3. IsFiniteSet(g)
  <2>1. g \subseteq DOMAIN docs
    BY <1>1
  <2>2. QED
    BY <2>1, FS_Subset
<1>4. Cardinality(g) > 1
  <2>1. IsFiniteSet({d}) /\ Cardinality({d}) = 1
    BY FS_Singleton
  <2>2. {d} \subseteq g /\ {d} # g
    BY <1>2
  <2>3. Cardinality({d}) < Cardinality(g)
    <3> HIDE DEF groups
    <3>1. PICK S : S = {d}
      OBVIOUS
    <3>2. S \in SUBSET g /\ S # g
      BY <2>2, <3>1
    <3>3. IsFiniteSet(S) /\ Cardinality(S) <= Cardinality(g) /\ Cardinality(S) # Cardinality(g)
      BY <1>3, <3>2, FS_Subset
    <3>4. QED
      BY <1>3, <3>1, <3>3, FS_CardinalityType
  <2>4. Cardinality(g) \in Nat
    BY <1>3, FS_CardinalityType
  <2>5. QED
    BY <2>1, <2>3, <2>4
<1>5. d \in hits \cap UNION {x \in groups : Cardinality(x) > 1}
  <2> HIDE DEF groups
  <2>1. QED
    BY <1>2, <1>4
<1>6. QED
  BY <1>5 DEF Conflicted

LEMMA AnswerIsBacked ==
  ASSUME NEW q \in Queries, NEW docs, IsIndex(docs)
  PROVE  Answer(q, docs) \in Records /\ Backed(Answer(q, docs))
<1>1. PICK hits : hits = Hits(q, docs)
  OBVIOUS
<1>2. PICK conflicted : conflicted = Conflicted(docs, hits)
  OBVIOUS
<1>3. PICK used : used = BuildContext(docs, hits, Supports(q, docs), q.budget)
  OBVIOUS
<1>4. PICK r : r = Answer(q, docs)
  OBVIOUS
<1>5. r = IF q.k = 0 THEN EvidenceRecord(q, docs, "chatty", {})
          ELSE IF \A d \in hits : Support(q, docs, d) < q.support
               THEN EvidenceRecord(q, docs, "insufficient_evidence", {})
          ELSE IF conflicted # {} THEN EvidenceRecord(q, docs, "conflicted_evidence", conflicted)
          ELSE IF used = {} THEN EvidenceRecord(q, docs, "insufficient_evidence", {})
          ELSE EvidenceRecord(q, docs, "answered", used)
  BY <1>1, <1>2, <1>3, <1>4 DEF Answer
<1>6. docs \in Indexes /\ IsFiniteSet(DOMAIN docs) /\ DOMAIN docs \subseteq AllIds
  BY IndexIs DEF IsIndex
<1>7. hits \subseteq DOMAIN docs /\ \A d \in hits : docs[d].live
  BY <1>1, FoundAreThere
<1>8. IsFiniteSet(hits)
  BY <1>6, <1>7, FS_Subset
<1>9. \A d \in hits : Supports(q, docs)[d] \in Nat
  BY <1>6, <1>7, SupportIsNat DEF Supports
<1>10. q.budget \in Nat /\ q.support \in Nat
  BY QueryIs
<1>11. used \subseteq hits /\ Cardinality(Characters(docs, used)) <= q.budget
  BY <1>3, <1>6, <1>7, <1>8, <1>9, <1>10, ContextFits
<1>12. conflicted \subseteq hits
  BY <1>2 DEF Conflicted
<1>13. \A status \in Statuses, some \in SUBSET AllIds : EvidenceRecord(q, docs, status, some) \in Records
  BY <1>6 DEF EvidenceRecord, Records
<1>14. r \in Records
  <2>1. {} \in SUBSET AllIds /\ conflicted \in SUBSET AllIds /\ used \in SUBSET AllIds
    BY <1>6, <1>7, <1>11, <1>12
  <2>2. {"chatty", "insufficient_evidence", "conflicted_evidence", "answered"} \subseteq Statuses
    BY DEF Statuses
  <2>3. QED
    BY <1>5, <1>13, <2>1, <2>2
<1>15. ASSUME r.status = "answered" PROVE Backed(r)
  <2>1. /\ r = EvidenceRecord(q, docs, "answered", used) /\ conflicted = {} /\ used # {}
        /\ ~\A d \in hits : Support(q, docs, d) < q.support
    BY <1>5, <1>15 DEF EvidenceRecord
  <2>2. r.docs = docs /\ r.query = q /\ r.used = used
    BY <2>1 DEF EvidenceRecord
  <2>3. \A d \in used : docs[d].live /\ docs[d].conflicts \cap (DOMAIN docs \ {d}) = {}
    BY <1>2, <1>6, <1>7, <1>11, <2>1, FreeOfConflicts
  <2>4. \E d \in DOMAIN docs : docs[d].live /\ Support(q, docs, d) >= q.support
    <3>1. PICK d \in hits : ~(Support(q, docs, d) < q.support)
      BY <2>1
    <3>2. Support(q, docs, d) \in Nat
      BY <1>6, <1>7, SupportIsNat
    <3>3. QED
      BY <1>7, <1>10, <3>1, <3>2
  <2>5. QED
    BY <1>11, <2>1, <2>2, <2>3, <2>4 DEF Backed
<1>16. Backed(r)
  BY <1>15 DEF Backed
<1>17. QED
  BY <1>4, <1>14, <1>16

-----------------------------------------------------------------------------
(* Retrieval: the log and the index *)

RagLines == DocLines \cup {CutOff, Garbled}

LEMMA LineIds ==
  /\ \A doc \in DocLines : doc.id \in Nat \ {0} /\ doc \in Docs /\ doc.id \in AllIds
  /\ \A line \in RagLines : line.id \notin {CutOff.id, Garbled.id} => line \in DocLines
  /\ \A doc \in DocLines : doc.id \notin {CutOff.id, Garbled.id}
<1>1. CutOff.id = 0 /\ Garbled.id = -1
  BY DEF CutOff, Garbled
<1>2. ASSUME NEW doc \in DocLines PROVE doc.id \in Nat \ {0} /\ doc \in Docs /\ doc.id \in AllIds
  BY RgConstantsOK DEF DocLines, RgConstantsOK, AllIds
<1>3. ASSUME NEW line \in RagLines, line.id \notin {CutOff.id, Garbled.id} PROVE line \in DocLines
  BY <1>3 DEF RagLines
<1>4. ASSUME NEW doc \in DocLines PROVE doc.id \notin {CutOff.id, Garbled.id}
  <2>1. PICK n \in Nat \ {0} : n = doc.id
    BY <1>2
  <2>2. QED
    BY <1>1, <2>1
<1>5. QED
  BY <1>2, <1>3, <1>4

\* The latest line of an id is one of them.
LEMMA LatestIs ==
  ASSUME NEW log \in Seq(RagLines), NEW d, \E i \in DOMAIN log : log[i].id = d
  PROVE  LET i == LatestLine(log, d)
         IN i \in DOMAIN log /\ log[i].id = d /\ \A j \in DOMAIN log : log[j].id = d => j <= i
<1>1. PICK n \in Nat : n = Len(log) /\ DOMAIN log = 1..n
  OBVIOUS
<1>2. PICK S : S = {i \in DOMAIN log : log[i].id = d}
  OBVIOUS
<1>3. S \subseteq 0..n /\ S # {}
  BY <1>1, <1>2
<1>4. PICK i \in S : \A j \in S : j <= i
  BY <1>3, GreatestOf
<1>5. \E k \in DOMAIN log : log[k].id = d /\ \A j \in DOMAIN log : log[j].id = d => j <= k
  BY <1>2, <1>4
<1>6. QED
  BY <1>5 DEF LatestLine

\* The ids of finitely many documents are finitely many.
LEMMA IdsAreFinite ==
  ASSUME NEW S, IsFiniteSet(S)
  PROVE  IsFiniteSet({m.id : m \in S})
<1> DEFINE T == {m.id : m \in S}
<1>1. PICK f : f = [m \in S |-> m.id]
  OBVIOUS
<1>2. f \in Surjection(S, T)
  <2>1. f \in [S -> T]
    BY <1>1
  <2>2. \A t \in T : \E m \in S : f[m] = t
    BY <1>1
  <2>3. QED
    BY <2>1, <2>2 DEF Surjection
<1> HIDE DEF T
<1>3. IsFiniteSet(T)
  BY <1>2, FS_Surjection
<1>4. QED
  BY <1>3 DEF T

\* What a log gives is an index.
LEMMA FoldIsIndex ==
  ASSUME NEW log \in Seq(RagLines)
  PROVE  /\ IsIndex(Fold(log))
         /\ \A d \in DOMAIN Fold(log) : Fold(log)[d].id = d
<1>1. PICK D : D = {log[i].id : i \in DOMAIN log} \ {CutOff.id, Garbled.id}
  OBVIOUS
<1>2. PICK docs : docs = [d \in D |-> log[LatestLine(log, d)]]
  OBVIOUS
<1>3. docs = Fold(log)
  BY <1>1, <1>2 DEF Fold
<1>4. ASSUME NEW d \in D
      PROVE  docs[d] \in Docs /\ docs[d].id = d /\ d \in AllIds
  <2>1. \E i \in DOMAIN log : log[i].id = d
    BY <1>1
  <2>2. PICK i \in DOMAIN log : i = LatestLine(log, d) /\ log[i].id = d
    BY <2>1, LatestIs
  <2>3. log[i] \in RagLines /\ log[i].id \notin {CutOff.id, Garbled.id}
    BY <1>1, <2>2
  <2>4. log[i] \in DocLines
    BY <2>3, LineIds
  <2>5. docs[d] = log[i]
    BY <1>2, <2>2
  <2>6. QED
    BY <2>2, <2>4, <2>5, LineIds
<1>5. docs \in Indexes
  BY <1>2, <1>4, IndexIs
<1>6. IsFiniteSet(D)
  <2>1. PICK n \in Nat : DOMAIN log = 1..n
    OBVIOUS
  <2>2. IsFiniteSet(1..n)
    BY FS_Interval
  <2>3. PICK S : S = {log[i] : i \in 1..n}
    OBVIOUS
  <2>4. IsFiniteSet(S)
    <3>1. PICK f : f = [i \in 1..n |-> log[i]]
      OBVIOUS
    <3>2. f \in Surjection(1..n, S)
      <4>1. f \in [1..n -> S]
        BY <2>3, <3>1
      <4>2. \A t \in S : \E i \in 1..n : f[i] = t
        BY <2>3, <3>1
      <4>3. QED
        BY <4>1, <4>2 DEF Surjection
    <3>3. QED
      BY <2>2, <3>2, FS_Surjection
  <2>5. PICK T : T = {m.id : m \in S} /\ IsFiniteSet(T)
    BY <2>4, IdsAreFinite
  <2>6. D \subseteq T
    BY <1>1, <2>1, <2>3, <2>5
  <2>7. QED
    BY <2>5, <2>6, FS_Subset
<1>7. DOMAIN docs = D
  BY <1>2
<1>8. QED
  BY <1>3, <1>4, <1>5, <1>6, <1>7 DEF IsIndex

LEMMA EmptyIsIndex == Fold(<<>>) \in Indexes /\ IsIndex(Fold(<<>>))
<1>1. <<>> \in Seq(RagLines)
  OBVIOUS
<1>2. IsIndex(Fold(<<>>))
  BY <1>1, FoldIsIndex
<1>3. QED
  BY <1>2 DEF IsIndex

\* More documents make an index of an index.
LEMMA JoinedIsIndex ==
  ASSUME NEW docs, IsIndex(docs), NEW more, IsFiniteSet(more), more \subseteq Docs,
         \A m \in more : m.id \in AllIds
  PROVE  IsIndex(Joined(docs, more))
<1>1. PICK D : D = DOMAIN docs \cup {m.id : m \in more}
  OBVIOUS
<1>2. PICK all : all = [d \in D |-> IF \E m \in more : m.id = d THEN CHOOSE m \in more : m.id = d ELSE docs[d]]
  OBVIOUS
<1>3. all = Joined(docs, more)
  BY <1>1, <1>2 DEF Joined
<1>4. DOMAIN docs \subseteq AllIds /\ \A d \in DOMAIN docs : docs[d] \in Docs
  BY IndexIs DEF IsIndex
<1>5. D \subseteq AllIds
  BY <1>1, <1>4
<1>6. \A d \in D : all[d] \in Docs
  <2> TAKE d \in D
  <2>1. CASE \E m \in more : m.id = d
    <3>1. (CHOOSE m \in more : m.id = d) \in more
      BY <2>1
    <3>2. QED
      BY <1>2, <2>1, <3>1
  <2>2. CASE ~\E m \in more : m.id = d
    BY <1>1, <1>2, <1>4, <2>2
  <2>3. QED
    BY <2>1, <2>2
<1>7. all \in Indexes
  <2>1. all = [d \in DOMAIN all |-> all[d]] /\ DOMAIN all = D
    BY <1>2
  <2>2. QED
    BY <1>5, <1>6, <2>1, IndexIs
<1>8. IsFiniteSet(D)
  <2>1. IsFiniteSet({m.id : m \in more})
    BY IdsAreFinite
  <2>2. IsFiniteSet(DOMAIN docs)
    BY DEF IsIndex
  <2>3. QED
    BY <1>1, <2>1, <2>2, FS_Union
<1>9. DOMAIN all = D
  BY <1>2
<1>10. QED
  BY <1>3, <1>7, <1>8, <1>9 DEF IsIndex

\* A line more in the log is a document more in the index.
LEMMA FoldGrows ==
  ASSUME NEW log \in Seq(RagLines), NEW doc \in DocLines
  PROVE  Fold(Append(log, doc)) = Joined(Fold(log), {doc})
<1>1. PICK n \in Nat : n = Len(log) /\ DOMAIN log = 1..n
  OBVIOUS
<1>2. PICK longer \in Seq(RagLines) : longer = Append(log, doc)
  <2>1. doc \in RagLines
    BY DEF RagLines
  <2>2. Append(log, doc) \in Seq(RagLines)
    BY <2>1
  <2>3. QED
    BY <2>2
<1>3. /\ DOMAIN longer = 1..(n + 1) /\ longer[n + 1] = doc
      /\ \A i \in 1..n : longer[i] = log[i]
  BY <1>1, <1>2
<1>4. PICK D : D = {log[i].id : i \in DOMAIN log} \ {CutOff.id, Garbled.id}
  OBVIOUS
<1>5. PICK E : E = {longer[i].id : i \in DOMAIN longer} \ {CutOff.id, Garbled.id}
  OBVIOUS
<1>6. PICK docs : docs = [d \in D |-> log[LatestLine(log, d)]] /\ docs = Fold(log)
  BY <1>4 DEF Fold
<1>7. PICK all : all = [d \in E |-> longer[LatestLine(longer, d)]] /\ all = Fold(longer)
  BY <1>5 DEF Fold
<1>8. E = D \cup {doc.id}
  <2>1. doc.id \notin {CutOff.id, Garbled.id}
    BY LineIds
  <2>2. {longer[i].id : i \in DOMAIN longer} = {log[i].id : i \in DOMAIN log} \cup {doc.id}
    <3>1. ASSUME NEW i \in 1..(n + 1) PROVE longer[i].id \in {log[j].id : j \in DOMAIN log} \cup {doc.id}
      <4>1. CASE i = n + 1
        BY <1>3, <4>1
      <4>2. CASE i # n + 1
        <5>1. i \in 1..n
          BY <4>2
        <5>2. QED
          BY <1>1, <1>3, <5>1
      <4>3. QED
        BY <4>1, <4>2
    <3>2. ASSUME NEW j \in 1..n PROVE log[j].id \in {longer[i].id : i \in DOMAIN longer}
      <4>1. j \in 1..(n + 1)
        OBVIOUS
      <4>2. QED
        BY <1>3, <4>1
    <3>3. doc.id \in {longer[i].id : i \in DOMAIN longer}
      <4>1. n + 1 \in 1..(n + 1)
        OBVIOUS
      <4>2. QED
        BY <1>3, <4>1
    <3>4. QED
      BY <1>1, <1>3, <3>1, <3>2, <3>3
  <2>3. QED
    BY <1>4, <1>5, <2>1, <2>2
<1>9. all[doc.id] = doc
  <2>1. n + 1 \in DOMAIN longer /\ longer[n + 1].id = doc.id
    BY <1>3
  <2>2. PICK i : i = LatestLine(longer, doc.id)
    OBVIOUS
  <2>3. i \in DOMAIN longer /\ n + 1 <= i
    BY <2>1, <2>2, LatestIs
  <2>4. i = n + 1
    BY <1>3, <2>3
  <2>5. doc.id \in E
    BY <1>8
  <2>6. all[doc.id] = longer[LatestLine(longer, doc.id)]
    BY <1>7, <2>5
  <2>7. QED
    BY <1>3, <2>2, <2>4, <2>6
<1>10. ASSUME NEW d \in D, d # doc.id PROVE all[d] = docs[d]
  <2>1. \E i \in DOMAIN log : log[i].id = d
    BY <1>4
  <2>2. PICK i : i = LatestLine(log, d)
    OBVIOUS
  <2>3. i \in 1..n /\ log[i].id = d /\ \A j \in 1..n : log[j].id = d => j <= i
    BY <1>1, <2>1, <2>2, LatestIs
  <2>4. i \in DOMAIN longer /\ longer[i].id = d
    BY <1>3, <2>3
  <2>5. PICK k : k = LatestLine(longer, d)
    OBVIOUS
  <2>6. k \in DOMAIN longer /\ longer[k].id = d /\ i <= k
    BY <2>4, <2>5, LatestIs
  <2>7. k \in 1..n
    BY <1>3, <1>10, <2>6
  <2>8. log[k].id = d
    BY <1>3, <2>6, <2>7
  <2>9. k = i
    BY <2>3, <2>6, <2>7, <2>8
  <2>10. all[d] = longer[k] /\ docs[d] = log[i]
    BY <1>6, <1>7, <1>8, <2>2, <2>5
  <2>11. QED
    BY <1>3, <2>3, <2>9, <2>10
<1>11. PICK joined : joined = Joined(docs, {doc})
  OBVIOUS
<1>12. joined = [d \in E |-> IF \E m \in {doc} : m.id = d THEN CHOOSE m \in {doc} : m.id = d ELSE docs[d]]
  <2>1. DOMAIN docs \cup {m.id : m \in {doc}} = E
    BY <1>6, <1>8
  <2>2. QED
    BY <1>11, <2>1 DEF Joined
<1>13. \A d \in E : joined[d] = all[d]
  <2> TAKE d \in E
  <2>1. CASE d = doc.id
    <3>1. (CHOOSE m \in {doc} : m.id = d) = doc
      BY <2>1
    <3>2. QED
      BY <1>9, <1>12, <2>1, <3>1
  <2>2. CASE d # doc.id
    <3>1. d \in D
      BY <1>8, <2>2
    <3>2. joined[d] = docs[d]
      BY <1>12, <2>2
    <3>3. QED
      BY <1>10, <2>2, <3>1, <3>2
  <2>3. QED
    BY <2>1, <2>2
<1>14. joined = all
  BY <1>7, <1>12, <1>13
<1>15. QED
  BY <1>2, <1>6, <1>7, <1>11, <1>14

\* What a line appended makes of a log.
LEMMA AppendedIs ==
  ASSUME NEW S, NEW log \in Seq(S), NEW line, log # NoLog
  PROVE  /\ Appended(log, line) \in Seq(S \cup {line, Garbled})
         /\ CutOff \notin ToSet(log) => Appended(log, line) = Append(log, line)
         /\ \A x \in ToSet(log) : x # CutOff => x \in ToSet(Appended(log, line))
         /\ Last(Appended(log, line)) # Garbled => line \in ToSet(Appended(log, line))
<1>1. CASE log # <<>> /\ Last(log) = CutOff
  <2>1. PICK n \in Nat : n = Len(log) /\ n > 0 /\ DOMAIN log = 1..n
    BY <1>1
  <2>2. log[n] = CutOff
    BY <1>1, <2>1 DEF Last
  <2>3. CutOff \in ToSet(log)
    BY <2>1, <2>2 DEF ToSet
  <2>4. PICK front : front = Front(log)
    OBVIOUS
  <2>5. front \in Seq(S) /\ Len(front) = n - 1 /\ \A i \in 1..(n - 1) : front[i] = log[i]
    BY <2>1, <2>4 DEF Front
  <2>6. PICK after : after = Append(front, Garbled) /\ after = Appended(log, line)
    BY <1>1, <2>4 DEF Appended
  <2>7. /\ after \in Seq(S \cup {line, Garbled}) /\ Len(after) = n /\ after[n] = Garbled
        /\ \A i \in 1..(n - 1) : after[i] = log[i]
    <3>1. PICK T : T = S \cup {line, Garbled}
      OBVIOUS
    <3>2. front \in Seq(T) /\ Garbled \in T
      BY <2>5, <3>1
    <3>3. after \in Seq(T) /\ Len(after) = n /\ after[n] = Garbled /\ \A i \in 1..(n - 1) : after[i] = front[i]
      <4>1. after = Append(front, Garbled) /\ Len(front) = n - 1
        BY <2>5, <2>6
      <4>2. after \in Seq(T) /\ Len(after) = Len(front) + 1
        BY <3>2, <4>1, AppendProperties
      <4>3. \A i \in 1..Len(front) : after[i] = front[i]
        BY <3>2, <4>1, AppendProperties
      <4>4. after[Len(front) + 1] = Garbled
        BY <3>2, <4>1, AppendProperties
      <4>5. Len(front) + 1 = n
        BY <2>1, <4>1
      <4>6. QED
        BY <4>1, <4>2, <4>3, <4>4, <4>5
    <3>4. QED
      BY <2>5, <3>1, <3>3
  <2>8. Last(after) = Garbled
    BY <2>7 DEF Last
  <2>9. ASSUME NEW x \in ToSet(log), x # CutOff PROVE x \in ToSet(after)
    <3>1. PICK i \in 1..n : x = log[i]
      BY <2>1, <2>9 DEF ToSet
    <3>2. i \in 1..(n - 1)
      BY <2>1, <2>2, <2>9, <3>1
    <3>3. after[i] = x /\ i \in DOMAIN after
      BY <2>7, <3>1, <3>2
    <3>4. QED
      BY <3>3 DEF ToSet
  <2>10. QED
    BY <2>3, <2>6, <2>7, <2>8, <2>9
<1>2. CASE ~(log # <<>> /\ Last(log) = CutOff)
  <2>1. PICK after : after = Append(log, line) /\ after = Appended(log, line)
    BY <1>2 DEF Appended
  <2>2. PICK n \in Nat : n = Len(log) /\ DOMAIN log = 1..n
    OBVIOUS
  <2>3. /\ after \in Seq(S \cup {line, Garbled}) /\ DOMAIN after = 1..(n + 1) /\ after[n + 1] = line
        /\ \A i \in 1..n : after[i] = log[i]
    <3>1. PICK T : T = S \cup {line, Garbled}
      OBVIOUS
    <3>2. log \in Seq(T) /\ line \in T
      BY <3>1
    <3>3. /\ after \in Seq(T) /\ DOMAIN after = 1..(n + 1) /\ after[n + 1] = line
          /\ \A i \in 1..n : after[i] = log[i]
      <4>1. after = Append(log, line) /\ Len(log) = n
        BY <2>1, <2>2
      <4>2. after \in Seq(T) /\ Len(after) = Len(log) + 1
        BY <3>2, <4>1, AppendProperties
      <4>3. \A i \in 1..Len(log) : after[i] = log[i]
        BY <3>2, <4>1, AppendProperties
      <4>4. after[Len(log) + 1] = line
        BY <3>2, <4>1, AppendProperties
      <4>5. QED
        BY <4>1, <4>2, <4>3, <4>4
    <3>4. QED
      BY <3>1, <3>3
  <2>4. line \in ToSet(after)
    <3>1. n + 1 \in DOMAIN after
      BY <2>3
    <3>2. QED
      BY <2>3, <3>1 DEF ToSet
  <2>5. ASSUME NEW x \in ToSet(log) PROVE x \in ToSet(after)
    <3>1. PICK i \in 1..n : x = log[i]
      BY <2>2, <2>5 DEF ToSet
    <3>2. i \in DOMAIN after /\ after[i] = x
      BY <2>3, <3>1
    <3>3. QED
      BY <3>2 DEF ToSet
  <2>6. QED
    BY <2>1, <2>3, <2>4, <2>5
<1>3. QED
  BY <1>1, <1>2

LEMMA AppendedToNone ==
  ASSUME NEW line
  PROVE  Appended(NoLog, line) = <<line>> /\ line \in ToSet(Appended(NoLog, line))
<1>1. Appended(NoLog, line) = <<line>>
  BY DEF Appended
<1>2. QED
  BY <1>1 DEF ToSet

-----------------------------------------------------------------------------
(* Retrieval: the inductive invariant *)

InFlight(r) == r.pc \in {"persist", "commit"}

AdderFits(r) ==
  /\ r.pc \in {"fresh", "done", "persist", "commit"}
  /\ InFlight(r) => /\ r = [pc |-> r.pc, seen |-> r.seen, doc |-> r.doc]
                    /\ IsIndex(r.seen) /\ r.doc \in DocLines

\* As long as nothing overlaps, one document at most is on its way, and the index is the log
\* but for the document that is in the log only.
IndexFits(log, docs, open, adds) ==
  /\ \A i \in DOMAIN log : log[i] \in DocLines
  /\ \A t, u \in Adders : InFlight(adds[t]) /\ InFlight(adds[u]) => t = u
  /\ \A t \in Adders : InFlight(adds[t]) => open = "yes"
  /\ open = "yes" /\ (\A t \in Adders : adds[t].pc # "commit") => docs = Fold(log)
  /\ \A t \in Adders : adds[t].pc = "persist" => adds[t].seen = Fold(log)
  /\ \A t \in Adders : adds[t].pc = "commit" => Joined(adds[t].seen, {adds[t].doc}) = Fold(log)

IndexInv ==
  /\ docsLog \in Seq(RagLines) /\ IsIndex(index) /\ opened \in {"no", "reading", "yes"}
  /\ mixed \in BOOLEAN
  /\ DOMAIN adder = Adders /\ \A t \in Adders : AdderFits(adder[t])
  /\ ~mixed => IndexFits(docsLog, index, opened, adder)

\* What maintenance has seen to be expired stays so.
AskerFits(r) ==
  /\ r.pc \in {"fresh", "done", "look", "maintain", "append"}
  /\ r.pc \in {"look", "maintain", "append"} => r.record \in Records /\ Backed(r.record)
  /\ r.pc = "maintain" => \A a \in r.expired : a.old

Held(r, log, rotated) == r \in ToSet(log) \/ \E a \in rotated : r \in ToSet(a.records)

AnswerInv ==
  /\ DOMAIN asker = Askers /\ \A t \in Askers : AskerFits(asker[t])
  /\ replayLog = NoLog \/ replayLog \in Seq(Records \cup {CutOff, Garbled})
  /\ \A a \in archives : a = [records |-> a.records, old |-> a.old]
  /\ answered \subseteq Records
  /\ \A r \in answered : Backed(r) /\ Held(r, replayLog, archives)

RgInv == IndexInv /\ AnswerInv

indexVars == <<docsLog, index, opened, adder, mixed>>
answerVars == <<asker, replayLog, archives, answered>>

LEMMA IndexSame == IndexInv /\ UNCHANGED indexVars => IndexInv'
<1> SUFFICES ASSUME IndexInv, UNCHANGED indexVars PROVE IndexInv'
  OBVIOUS
<1>1. /\ docsLog' = docsLog /\ index' = index /\ opened' = opened /\ adder' = adder /\ mixed' = mixed
  BY DEF indexVars
<1>2. QED
  BY <1>1 DEF IndexInv

LEMMA AnswerSame == AnswerInv /\ UNCHANGED answerVars => AnswerInv'
<1> SUFFICES ASSUME AnswerInv, UNCHANGED answerVars PROVE AnswerInv'
  OBVIOUS
<1>1. asker' = asker /\ replayLog' = replayLog /\ archives' = archives /\ answered' = answered
  BY DEF answerVars
<1>2. QED
  BY <1>1 DEF AnswerInv

\* A request that has begun nothing is not on its way.
LEMMA NotInFlight ==
  /\ AdderFits(Fresh) /\ AdderFits(Done) /\ ~InFlight(Fresh) /\ ~InFlight(Done)
  /\ Fresh.pc # "commit" /\ Done.pc # "commit" /\ Fresh.pc # "persist" /\ Done.pc # "persist"
BY DEF AdderFits, InFlight, Fresh, Done

LEMMA RgStart == RgInit => RgInv
<1> SUFFICES ASSUME RgInit PROVE RgInv
  OBVIOUS
<1>1. /\ docsLog = <<>> /\ index = Fold(<<>>) /\ opened = "no"
      /\ adder = [t \in Adders |-> Fresh] /\ asker = [t \in Askers |-> Fresh]
      /\ replayLog = NoLog /\ archives = {} /\ answered = {} /\ mixed = FALSE
  BY DEF RgInit
<1>2. IndexInv
  <2>1. docsLog \in Seq(RagLines) /\ DOMAIN docsLog = {}
    BY <1>1
  <2>2. IsIndex(index)
    BY <1>1, EmptyIsIndex
  <2>3. \A t \in Adders : adder[t] = Fresh
    BY <1>1
  <2>4. IndexFits(docsLog, index, opened, adder)
    BY <1>1, <2>1, <2>3, NotInFlight DEF IndexFits
  <2>5. QED
    BY <1>1, <2>1, <2>2, <2>3, <2>4, NotInFlight DEF IndexInv
<1>3. AnswerInv
  <2>1. AskerFits(Fresh)
    BY DEF AskerFits, Fresh
  <2>2. QED
    BY <1>1, <2>1 DEF AnswerInv
<1>4. QED
  BY <1>2, <1>3 DEF RgInv

LEMMA OpenIndexKeeps == IndexInv /\ OpenIndex => IndexInv'
<1> SUFFICES ASSUME IndexInv, OpenIndex PROVE IndexInv'
  OBVIOUS
<1>1. /\ opened = "no" /\ opened' = "reading" /\ index' = Fold(<<>>)
      /\ docsLog' = docsLog /\ adder' = adder /\ mixed' = mixed
  BY DEF OpenIndex
<1>2. ~mixed' => IndexFits(docsLog', index', opened', adder')
  BY <1>1 DEF IndexInv, IndexFits
<1>3. QED
  BY <1>1, <1>2, EmptyIsIndex DEF IndexInv

LEMMA ReadIndexKeeps == IndexInv /\ ReadIndex => IndexInv'
<1> SUFFICES ASSUME IndexInv, ReadIndex PROVE IndexInv'
  OBVIOUS
<1>1. /\ opened = "reading" /\ opened' = "yes" /\ index' = Fold(docsLog)
      /\ docsLog' = docsLog /\ adder' = adder /\ mixed' = mixed
  BY DEF ReadIndex
<1>2. ~mixed' => IndexFits(docsLog', index', opened', adder')
  BY <1>1 DEF IndexInv, IndexFits
<1>3. IsIndex(index')
  BY <1>1, FoldIsIndex DEF IndexInv
<1>4. QED
  BY <1>1, <1>2, <1>3 DEF IndexInv

LEMMA BeginAddKeeps == \A t \in Adders : IndexInv /\ BeginAdd(t) => IndexInv'
<1> SUFFICES ASSUME NEW t \in Adders, IndexInv, BeginAdd(t) PROVE IndexInv'
  OBVIOUS
<1>1. PICK d \in DocIds, body \in Bodies :
        /\ adder[t] = Fresh /\ opened # "no"
        /\ adder' = [adder EXCEPT ![t] =
             [pc |-> "persist", seen |-> index,
              doc |-> [id |-> d, version |-> IF d \in DOMAIN index THEN index[d].version + 1 ELSE 1,
                       live |-> body.live, trust |-> body.trust, conflicts |-> body.conflicts,
                       size |-> body.size]]]
        /\ mixed' = (mixed \/ opened = "reading" \/ \E o \in Adders : adder[o].pc \in {"persist", "commit"})
        /\ docsLog' = docsLog /\ index' = index /\ opened' = opened
  BY DEF BeginAdd
<1>2. PICK v : v = IF d \in DOMAIN index THEN index[d].version + 1 ELSE 1
  OBVIOUS
<1>3. PICK doc : doc = [id |-> d, version |-> v, live |-> body.live, trust |-> body.trust,
                        conflicts |-> body.conflicts, size |-> body.size]
  OBVIOUS
<1>4. PICK r : r = [pc |-> "persist", seen |-> index, doc |-> doc]
  OBVIOUS
<1>5. adder' = [adder EXCEPT ![t] = r]
  BY <1>1, <1>2, <1>3, <1>4
<1>6. v \in Nat
  <2>1. CASE d \in DOMAIN index
    <3>1. index[d] \in Docs
      BY <2>1, IndexIs DEF IndexInv, IsIndex
    <3>2. index[d].version \in Nat
      BY <3>1 DEF Docs
    <3>3. QED
      BY <1>2, <2>1, <3>2
  <2>2. CASE d \notin DOMAIN index
    BY <1>2, <2>2
  <2>3. QED
    BY <2>1, <2>2
<1>7. doc \in DocLines
  <2>1. d \in Nat \ {0} /\ body \in [live : BOOLEAN, trust : Nat, conflicts : SUBSET Nat, size : Nat]
    BY RgConstantsOK DEF RgConstantsOK
  <2>2. doc \in Docs /\ doc.id = d
    BY <1>3, <1>6, <2>1 DEF Docs
  <2>3. QED
    BY <2>2 DEF DocLines
<1>8. AdderFits(r)
  <2>1. r.pc = "persist" /\ r.seen = index /\ r.doc = doc
    BY <1>4
  <2>2. QED
    BY <1>4, <1>7, <2>1 DEF AdderFits, IndexInv
<1>9. DOMAIN adder' = Adders /\ adder'[t] = r /\ \A u \in Adders \ {t} : adder'[u] = adder[u]
  BY <1>5 DEF IndexInv
<1>10. ASSUME ~mixed' PROVE IndexFits(docsLog', index', opened', adder')
  <2>1. ~mixed /\ opened = "yes" /\ \A u \in Adders : ~InFlight(adder[u])
    BY <1>1, <1>10 DEF InFlight, IndexInv
  <2>2. IndexFits(docsLog, index, opened, adder)
    BY <2>1 DEF IndexInv
  <2>3. index = Fold(docsLog)
    BY <2>1, <2>2 DEF IndexFits, InFlight
  <2>4. r.pc = "persist" /\ r.seen = index
    BY <1>4
  <2>5. \A u \in Adders : InFlight(adder'[u]) => u = t
    BY <1>9, <2>1
  <2>6. \A u \in Adders : adder'[u].pc # "commit"
    BY <1>9, <2>1, <2>4 DEF InFlight
  <2>7. \A u \in Adders : adder'[u].pc = "persist" => adder'[u].seen = Fold(docsLog)
    BY <1>9, <2>3, <2>4, <2>5 DEF InFlight
  <2>8. QED
    BY <1>1, <2>1, <2>2, <2>3, <2>5, <2>6, <2>7 DEF IndexFits
<1>11. mixed' \in BOOLEAN
  BY <1>1
<1>12. QED
  BY <1>1, <1>8, <1>9, <1>10, <1>11 DEF IndexInv

LEMMA PersistKeeps == \A t \in Adders : IndexInv /\ Persist(t) => IndexInv'
<1> SUFFICES ASSUME NEW t \in Adders, IndexInv, Persist(t) PROVE IndexInv'
  OBVIOUS
<1>1. /\ adder[t].pc = "persist" /\ docsLog' = Appended(docsLog, adder[t].doc)
      /\ adder' = [adder EXCEPT ![t].pc = "commit"]
      /\ index' = index /\ opened' = opened /\ mixed' = mixed
  BY DEF Persist
<1>2. PICK seen, doc : /\ adder[t] = [pc |-> "persist", seen |-> seen, doc |-> doc]
                       /\ IsIndex(seen) /\ doc \in DocLines /\ adder[t].doc = doc /\ adder[t].seen = seen
  BY <1>1 DEF IndexInv, AdderFits, InFlight
<1>3. PICK r : r = [pc |-> "commit", seen |-> seen, doc |-> doc]
  OBVIOUS
<1>4. adder' = [adder EXCEPT ![t] = r]
  <2>1. adder' = [adder EXCEPT ![t] = [adder[t] EXCEPT !.pc = "commit"]]
    BY <1>1
  <2>2. [adder[t] EXCEPT !.pc = "commit"] = r
    BY <1>2, <1>3
  <2>3. QED
    BY <2>1, <2>2
<1>5. DOMAIN adder' = Adders /\ adder'[t] = r /\ \A u \in Adders \ {t} : adder'[u] = adder[u]
  BY <1>4 DEF IndexInv
<1>6. r.pc = "commit" /\ r.seen = seen /\ r.doc = doc
  BY <1>3
<1>7. AdderFits(r)
  BY <1>2, <1>3, <1>6 DEF AdderFits
<1>8. docsLog \in Seq(RagLines) /\ docsLog # NoLog
  <2>1. docsLog \in Seq(RagLines)
    BY DEF IndexInv
  <2>2. ASSUME docsLog = NoLog PROVE FALSE
    <3>1. docsLog[1] \in RagLines /\ docsLog[1].id = -2
      BY <2>1, <2>2 DEF NoLog
    <3>2. CutOff.id = 0 /\ Garbled.id = -1
      BY DEF CutOff, Garbled
    <3>3. docsLog[1] \in DocLines
      BY <3>1, <3>2, LineIds
    <3>4. docsLog[1].id \in Nat
      BY <3>3, LineIds
    <3>5. QED
      BY <3>1, <3>4
  <2>3. QED
    BY <2>1, <2>2
<1>9. docsLog' \in Seq(RagLines)
  <2>1. Appended(docsLog, doc) \in Seq(RagLines \cup {doc, Garbled})
    BY <1>8, AppendedIs
  <2>2. RagLines \cup {doc, Garbled} = RagLines
    BY <1>2 DEF RagLines
  <2>3. QED
    BY <1>1, <1>2, <2>1, <2>2
<1>10. ASSUME ~mixed' PROVE IndexFits(docsLog', index', opened', adder')
  <2>1. IndexFits(docsLog, index, opened, adder)
    BY <1>1, <1>10 DEF IndexInv
  <2>2. docsLog' = Append(docsLog, doc)
    <3>1. CutOff \notin ToSet(docsLog)
      <4>1. CutOff \notin DocLines
        BY LineIds
      <4>2. QED
        BY <2>1, <4>1 DEF IndexFits, ToSet
    <3>2. QED
      BY <1>1, <1>2, <1>8, <3>1, AppendedIs
  <2>3. Fold(docsLog') = Joined(Fold(docsLog), {doc})
    BY <1>2, <1>8, <2>2, FoldGrows
  <2>4. seen = Fold(docsLog)
    BY <1>1, <1>2, <2>1 DEF IndexFits
  <2>5. \A i \in DOMAIN docsLog' : docsLog'[i] \in DocLines
    <3> TAKE i \in DOMAIN docsLog'
    <3>1. docsLog' \in Seq(RagLines) /\ Len(docsLog') = Len(docsLog) + 1
      BY <1>8, <1>9, <2>2
    <3>2. i \in 1..(Len(docsLog) + 1)
      BY <3>1
    <3>3. CASE i = Len(docsLog) + 1
      BY <1>2, <1>8, <2>2, <3>3
    <3>4. CASE i # Len(docsLog) + 1
      <4>1. i \in DOMAIN docsLog /\ docsLog'[i] = docsLog[i]
        BY <1>8, <2>2, <3>2, <3>4
      <4>2. QED
        BY <2>1, <4>1 DEF IndexFits
    <3>5. QED
      BY <3>3, <3>4
  <2>6. opened = "yes" /\ \A u \in Adders : InFlight(adder[u]) => u = t
    BY <1>1, <2>1 DEF IndexFits, InFlight
  <2>7. \A u \in Adders : InFlight(adder'[u]) => u = t
    BY <1>5, <2>6
  <2>8. \A u \in Adders : adder'[u].pc # "persist"
    BY <1>5, <1>6, <2>7 DEF InFlight
  <2>9. \A u \in Adders : adder'[u].pc = "commit" =>
          Joined(adder'[u].seen, {adder'[u].doc}) = Fold(docsLog')
    BY <1>5, <1>6, <2>3, <2>4, <2>7 DEF InFlight
  <2>10. \E u \in Adders : adder'[u].pc = "commit"
    BY <1>5, <1>6
  <2>11. QED
    BY <1>1, <2>5, <2>6, <2>7, <2>8, <2>9, <2>10 DEF IndexFits
<1>11. QED
  BY <1>1, <1>5, <1>7, <1>9, <1>10 DEF IndexInv

LEMMA PersistFailsKeeps == \A t \in Adders : IndexInv /\ PersistFails(t) => IndexInv'
<1> SUFFICES ASSUME NEW t \in Adders, IndexInv, PersistFails(t) PROVE IndexInv'
  OBVIOUS
<1>1. /\ adder[t].pc = "persist" /\ adder' = [adder EXCEPT ![t] = Done]
      /\ index' = index /\ opened' = opened
      /\ \/ docsLog' = docsLog /\ mixed' = mixed
         \/ docsLog' = Appended(docsLog, CutOff) /\ mixed' = TRUE
  BY DEF PersistFails
<1>2. DOMAIN adder' = Adders /\ adder'[t] = Done /\ \A u \in Adders \ {t} : adder'[u] = adder[u]
  BY <1>1 DEF IndexInv
<1>3. \A u \in Adders : AdderFits(adder'[u])
  BY <1>2, NotInFlight DEF IndexInv
<1>4. docsLog \in Seq(RagLines)
  BY DEF IndexInv
<1>5. docsLog' \in Seq(RagLines)
  <2>1. CASE docsLog' = docsLog
    BY <1>4, <2>1
  <2>2. CASE docsLog' = Appended(docsLog, CutOff) /\ docsLog # NoLog
    <3>1. docsLog' \in Seq(RagLines \cup {CutOff, Garbled})
      BY <1>4, <2>2, AppendedIs
    <3>2. RagLines \cup {CutOff, Garbled} = RagLines
      BY DEF RagLines
    <3>3. QED
      BY <3>1, <3>2
  <2>3. CASE docsLog' = Appended(docsLog, CutOff) /\ docsLog = NoLog
    <3>1. docsLog' = <<CutOff>> /\ CutOff \in RagLines
      BY <2>3, AppendedToNone DEF RagLines
    <3>2. QED
      BY <3>1
  <2>4. QED
    BY <1>1, <2>1, <2>2, <2>3
<1>6. ASSUME ~mixed' PROVE IndexFits(docsLog', index', opened', adder')
  <2>1. docsLog' = docsLog /\ IndexFits(docsLog, index, opened, adder)
    BY <1>1, <1>6 DEF IndexInv
  <2>2. opened = "yes" /\ \A u \in Adders : InFlight(adder[u]) => u = t
    BY <1>1, <2>1 DEF IndexFits, InFlight
  <2>3. index = Fold(docsLog)
    BY <1>1, <2>1, <2>2 DEF IndexFits, InFlight
  <2>4. \A u \in Adders : ~InFlight(adder'[u])
    BY <1>2, <2>2, NotInFlight
  <2>5. QED
    BY <1>1, <2>1, <2>2, <2>3, <2>4 DEF IndexFits, InFlight
<1>7. mixed' \in BOOLEAN
  BY <1>1 DEF IndexInv
<1>8. QED
  BY <1>1, <1>2, <1>3, <1>5, <1>6, <1>7 DEF IndexInv

LEMMA CommitIndexKeeps == \A t \in Adders : IndexInv /\ CommitIndex(t) => IndexInv'
<1> SUFFICES ASSUME NEW t \in Adders, IndexInv, CommitIndex(t) PROVE IndexInv'
  OBVIOUS
<1>1. /\ adder[t].pc = "commit" /\ index' = Joined(adder[t].seen, {adder[t].doc})
      /\ adder' = [adder EXCEPT ![t] = Done]
      /\ docsLog' = docsLog /\ opened' = opened /\ mixed' = mixed
  BY DEF CommitIndex
<1>2. PICK seen, doc : /\ adder[t].seen = seen /\ adder[t].doc = doc
                       /\ IsIndex(seen) /\ doc \in DocLines
  BY <1>1 DEF IndexInv, AdderFits, InFlight
<1>3. DOMAIN adder' = Adders /\ adder'[t] = Done /\ \A u \in Adders \ {t} : adder'[u] = adder[u]
  BY <1>1 DEF IndexInv
<1>4. \A u \in Adders : AdderFits(adder'[u])
  BY <1>3, NotInFlight DEF IndexInv
<1>5. IsIndex(index')
  <2>1. PICK more : more = {doc}
    OBVIOUS
  <2>2. IsFiniteSet(more) /\ more \subseteq Docs /\ \A m \in more : m.id \in AllIds
    BY <1>2, <2>1, LineIds, FS_Singleton
  <2>3. IsIndex(Joined(seen, more))
    BY <1>2, <2>2, JoinedIsIndex
  <2>4. QED
    BY <1>1, <1>2, <2>1, <2>3
<1>6. ASSUME ~mixed' PROVE IndexFits(docsLog', index', opened', adder')
  <2>1. IndexFits(docsLog, index, opened, adder)
    BY <1>1, <1>6 DEF IndexInv
  <2>2. opened = "yes" /\ \A u \in Adders : InFlight(adder[u]) => u = t
    BY <1>1, <2>1 DEF IndexFits, InFlight
  <2>3. index' = Fold(docsLog)
    BY <1>1, <2>1 DEF IndexFits
  <2>4. \A u \in Adders : ~InFlight(adder'[u])
    BY <1>3, <2>2, NotInFlight
  <2>5. QED
    BY <1>1, <2>1, <2>2, <2>3, <2>4 DEF IndexFits, InFlight
<1>7. QED
  BY <1>1, <1>3, <1>4, <1>5, <1>6 DEF IndexInv

\* A restart forgets the index and what is on its way; the logs stay.
LEMMA RestartServerKeeps == RgInv /\ RestartServer => RgInv'
<1> SUFFICES ASSUME RgInv, RestartServer PROVE RgInv'
  OBVIOUS
<1>1. /\ opened' = "no" /\ index' = Fold(<<>>)
      /\ adder' = [t \in Adders |-> IF adder[t].pc \in {"persist", "commit"} THEN Done ELSE adder[t]]
      /\ asker' = [t \in Askers |-> IF asker[t] = Fresh THEN Fresh ELSE Done]
      /\ docsLog' = docsLog /\ mixed' = mixed
      /\ replayLog' = replayLog /\ archives' = archives /\ answered' = answered
  BY DEF RestartServer
<1>2. IndexInv'
  <2>1. DOMAIN adder' = Adders /\ \A t \in Adders : ~InFlight(adder'[t]) /\ AdderFits(adder'[t])
    BY <1>1, NotInFlight DEF RgInv, IndexInv, InFlight
  <2>2. ~mixed' => IndexFits(docsLog', index', opened', adder')
    BY <1>1, <2>1 DEF RgInv, IndexInv, IndexFits, InFlight
  <2>3. QED
    BY <1>1, <2>1, <2>2, EmptyIsIndex DEF RgInv, IndexInv
<1>3. AnswerInv'
  <2>1. AskerFits(Fresh) /\ AskerFits(Done)
    BY DEF AskerFits, Fresh, Done
  <2>2. DOMAIN asker' = Askers /\ \A t \in Askers : AskerFits(asker'[t])
    BY <1>1, <2>1
  <2>3. QED
    BY <1>1, <2>2 DEF RgInv, AnswerInv
<1>4. QED
  BY <1>2, <1>3 DEF RgInv

LEMMA AskKeeps == \A t \in Askers : RgInv /\ Ask(t) => AnswerInv'
<1> SUFFICES ASSUME NEW t \in Askers, RgInv, Ask(t) PROVE AnswerInv'
  OBVIOUS
<1>1. PICK q \in Queries, extra \in LedgerDocs :
        /\ LET record == Answer(q, Joined(index, extra))
           IN asker' \in {[asker EXCEPT ![t] = [pc |-> "look", record |-> record]]}
                         \cup (IF record.status # "chatty" THEN {[asker EXCEPT ![t] = Done]} ELSE {})
        /\ replayLog' = replayLog /\ archives' = archives /\ answered' = answered
  BY DEF Ask
<1>2. IsIndex(Joined(index, extra))
  <2>1. IsFiniteSet(extra) /\ extra \subseteq Docs
    BY RgConstantsOK DEF RgConstantsOK
  <2>2. \A m \in extra : m.id \in AllIds
    BY DEF AllIds
  <2>3. QED
    BY <2>1, <2>2, JoinedIsIndex DEF RgInv, IndexInv
<1>3. PICK record \in Records : record = Answer(q, Joined(index, extra)) /\ Backed(record)
  BY <1>2, AnswerIsBacked
<1>4. PICK r : r = [pc |-> "look", record |-> record]
  OBVIOUS
<1>5. AskerFits(r) /\ AskerFits(Done)
  <2>1. r.pc = "look" /\ r.record = record
    BY <1>4
  <2>2. AskerFits(r)
    BY <1>3, <2>1 DEF AskerFits
  <2>3. AskerFits(Done)
    BY DEF AskerFits, Done
  <2>4. QED
    BY <2>2, <2>3
<1>6. asker' = [asker EXCEPT ![t] = r] \/ asker' = [asker EXCEPT ![t] = Done]
  BY <1>1, <1>3, <1>4
<1>7. DOMAIN asker' = Askers /\ \A u \in Askers : AskerFits(asker'[u])
  BY <1>5, <1>6 DEF RgInv, AnswerInv
<1>8. QED
  BY <1>1, <1>7 DEF RgInv, AnswerInv

LEMMA LookAtLogKeeps == \A t \in Askers : AnswerInv /\ LookAtLog(t) => AnswerInv'
<1> SUFFICES ASSUME NEW t \in Askers, AnswerInv, LookAtLog(t) PROVE AnswerInv'
  OBVIOUS
<1>1. PICK r : r = [pc |-> "maintain", record |-> asker[t].record, rotate |-> TooBig,
                    expired |-> {a \in archives : a.old}]
  OBVIOUS
<1>2. /\ asker[t].pc = "look" /\ asker' = [asker EXCEPT ![t] = r]
      /\ replayLog' = replayLog /\ archives' = archives /\ answered' = answered
  BY <1>1 DEF LookAtLog, AnswerInv
<1>3. AskerFits(r)
  <2>1. r.pc = "maintain" /\ r.record = asker[t].record /\ r.expired = {a \in archives : a.old}
    BY <1>1
  <2>2. asker[t].record \in Records /\ Backed(asker[t].record)
    BY <1>2 DEF AnswerInv, AskerFits
  <2>3. QED
    BY <2>1, <2>2 DEF AskerFits
<1>4. DOMAIN asker' = Askers /\ \A u \in Askers : AskerFits(asker'[u])
  BY <1>2, <1>3 DEF AnswerInv
<1>5. QED
  BY <1>2, <1>4 DEF AnswerInv

LEMMA MaintainKeeps == \A t \in Askers : AnswerInv /\ Maintain(t) => AnswerInv'
<1> SUFFICES ASSUME NEW t \in Askers, AnswerInv, Maintain(t) PROVE AnswerInv'
  OBVIOUS
<1>1. PICK r : r = asker[t] /\ r.pc = "maintain" /\ AskerFits(r)
  BY DEF Maintain, AnswerInv
<1>2. CASE r.rotate /\ replayLog = NoLog
  <2>1. /\ asker' = [asker EXCEPT ![t] = Done]
        /\ replayLog' = replayLog /\ archives' = archives /\ answered' = answered
    BY <1>1, <1>2 DEF Maintain
  <2>2. AskerFits(Done)
    BY DEF AskerFits, Done
  <2>3. DOMAIN asker' = Askers /\ \A u \in Askers : AskerFits(asker'[u])
    BY <2>1, <2>2 DEF AnswerInv
  <2>4. QED
    BY <2>1, <2>3 DEF AnswerInv
<1>3. CASE ~(r.rotate /\ replayLog = NoLog)
  <2>1. PICK gone : gone = UNION {ToSet(a.records) : a \in r.expired}
    OBVIOUS
  <2>2. PICK s : s = [pc |-> "append", record |-> r.record]
    OBVIOUS
  <2>3. /\ replayLog' = IF r.rotate THEN NoLog ELSE replayLog
        /\ archives' = (IF r.rotate THEN Rotated(replayLog) ELSE archives) \ r.expired
        /\ answered' = answered \ gone
        /\ asker' = [asker EXCEPT ![t] = s]
    BY <1>1, <1>3, <2>1, <2>2 DEF Maintain
  <2>4. AskerFits(s)
    <3>1. s.pc = "append" /\ s.record = r.record
      BY <2>2
    <3>2. QED
      BY <1>1, <3>1 DEF AskerFits
  <2>5. DOMAIN asker' = Askers /\ \A u \in Askers : AskerFits(asker'[u])
    BY <2>3, <2>4 DEF AnswerInv
  <2>6. replayLog' = NoLog \/ replayLog' \in Seq(Records \cup {CutOff, Garbled})
    BY <2>3 DEF AnswerInv
  <2>7. \A a \in archives' : a = [records |-> a.records, old |-> a.old]
    BY <2>3 DEF AnswerInv, Rotated
  <2>8. ASSUME NEW x \in answered' PROVE Held(x, replayLog', archives')
    <3>1. x \in answered /\ x \notin gone
      BY <2>3
    <3>2. CASE \E a \in archives : x \in ToSet(a.records)
      <4>1. PICK a \in archives : x \in ToSet(a.records)
        BY <3>2
      <4>2. a \notin r.expired
        BY <2>1, <3>1, <4>1
      <4>3. a \in archives'
        BY <2>3, <4>2 DEF Rotated
      <4>4. QED
        BY <4>1, <4>3 DEF Held
    <3>3. CASE x \in ToSet(replayLog) /\ r.rotate
      <4>1. PICK a : a = [records |-> replayLog, old |-> FALSE]
        OBVIOUS
      <4>2. ~a.old /\ a.records = replayLog
        BY <4>1
      <4>3. a \notin r.expired
        BY <1>1, <4>2 DEF AskerFits
      <4>4. a \in archives'
        BY <2>3, <3>3, <4>1, <4>3 DEF Rotated
      <4>5. QED
        BY <3>3, <4>2, <4>4 DEF Held
    <3>4. CASE x \in ToSet(replayLog) /\ ~r.rotate
      BY <2>3, <3>4 DEF Held
    <3>5. QED
      BY <3>1, <3>2, <3>3, <3>4 DEF AnswerInv, Held
  <2>9. QED
    BY <2>3, <2>5, <2>6, <2>7, <2>8 DEF AnswerInv
<1>4. QED
  BY <1>2, <1>3

\* A line more in the replay log: what is on record stays on record.
LEMMA ReplayGrows ==
  ASSUME AnswerInv, NEW line, line \in Records \cup {CutOff}, NEW log, log = Appended(replayLog, line)
  PROVE  /\ log \in Seq(Records \cup {CutOff, Garbled})
         /\ \A r \in answered : Held(r, log, archives)
         /\ Last(log) # Garbled => line \in ToSet(log)
<1>1. PICK S : S = Records \cup {CutOff, Garbled}
  OBVIOUS
<1>2. line \in S /\ S \cup {line, Garbled} = S
  BY <1>1
<1>3. \A r \in Records : r.id = 1
  BY DEF Records
<1>4. CASE replayLog = NoLog
  <2>1. log = <<line>> /\ line \in ToSet(log)
    BY <1>4, AppendedToNone
  <2>2. log \in Seq(S)
    BY <1>2, <2>1
  <2>3. ASSUME NEW r \in answered PROVE r \notin ToSet(replayLog)
    <3>1. r.id = 1
      BY <1>3 DEF AnswerInv
    <3>2. ToSet(replayLog) = {[id |-> -2]}
      BY <1>4 DEF ToSet, NoLog
    <3>3. QED
      BY <3>1, <3>2
  <2>4. \A r \in answered : Held(r, log, archives)
    BY <2>3 DEF AnswerInv, Held
  <2>5. QED
    BY <1>1, <2>1, <2>2, <2>4
<1>5. CASE replayLog # NoLog
  <2>1. replayLog \in Seq(S)
    BY <1>1, <1>5 DEF AnswerInv
  <2>2. /\ log \in Seq(S) /\ \A x \in ToSet(replayLog) : x # CutOff => x \in ToSet(log)
        /\ Last(log) # Garbled => line \in ToSet(log)
    BY <1>2, <1>5, <2>1, AppendedIs
  <2>3. \A r \in answered : r # CutOff
    <3>1. CutOff.id = 0
      BY DEF CutOff
    <3>2. QED
      BY <1>3, <3>1 DEF AnswerInv
  <2>4. \A r \in answered : Held(r, log, archives)
    BY <2>2, <2>3 DEF AnswerInv, Held
  <2>5. QED
    BY <1>1, <2>2, <2>4
<1>6. QED
  BY <1>4, <1>5

LEMMA AppendRecordKeeps == \A t \in Askers : AnswerInv /\ AppendRecord(t) => AnswerInv'
<1> SUFFICES ASSUME NEW t \in Askers, AnswerInv, AppendRecord(t) PROVE AnswerInv'
  OBVIOUS
<1>1. PICK record : record = asker[t].record
  OBVIOUS
<1>2. PICK log : log = Appended(replayLog, record)
  OBVIOUS
<1>3. /\ asker[t].pc = "append" /\ replayLog' = log
      /\ answered' = IF Last(log) = Garbled THEN answered ELSE answered \cup {record}
      /\ asker' = [asker EXCEPT ![t] = Done] /\ archives' = archives
  BY <1>1, <1>2 DEF AppendRecord
<1>4. record \in Records /\ Backed(record)
  BY <1>1, <1>3 DEF AnswerInv, AskerFits
<1>5. /\ log \in Seq(Records \cup {CutOff, Garbled})
      /\ \A r \in answered : Held(r, log, archives)
      /\ Last(log) # Garbled => record \in ToSet(log)
  BY <1>2, <1>4, ReplayGrows
<1>6. AskerFits(Done)
  BY DEF AskerFits, Done
<1>7. DOMAIN asker' = Askers /\ \A u \in Askers : AskerFits(asker'[u])
  BY <1>3, <1>6 DEF AnswerInv
<1>8. \A r \in answered' : r \in Records /\ Backed(r) /\ Held(r, replayLog', archives')
  BY <1>3, <1>4, <1>5 DEF AnswerInv, Held
<1>9. QED
  BY <1>3, <1>5, <1>7, <1>8 DEF AnswerInv

LEMMA AppendFailsKeeps == \A t \in Askers : AnswerInv /\ AppendFails(t) => AnswerInv'
<1> SUFFICES ASSUME NEW t \in Askers, AnswerInv, AppendFails(t) PROVE AnswerInv'
  OBVIOUS
<1>1. PICK log : log = Appended(replayLog, CutOff)
  OBVIOUS
<1>2. /\ replayLog' = replayLog \/ replayLog' = log
      /\ asker' = [asker EXCEPT ![t] = Done] /\ archives' = archives /\ answered' = answered
  BY <1>1 DEF AppendFails
<1>3. /\ log \in Seq(Records \cup {CutOff, Garbled})
      /\ \A r \in answered : Held(r, log, archives)
  BY <1>1, ReplayGrows
<1>4. AskerFits(Done)
  BY DEF AskerFits, Done
<1>5. DOMAIN asker' = Askers /\ \A u \in Askers : AskerFits(asker'[u])
  BY <1>2, <1>4 DEF AnswerInv
<1>6. QED
  BY <1>2, <1>3, <1>5 DEF AnswerInv

LEMMA AgeKeeps == AnswerInv /\ Age => AnswerInv'
<1> SUFFICES ASSUME AnswerInv, Age PROVE AnswerInv'
  OBVIOUS
<1>1. PICK a \in archives :
        /\ archives' = (archives \ {a}) \cup {[a EXCEPT !.old = TRUE]}
        /\ asker' = asker /\ replayLog' = replayLog /\ answered' = answered
  BY DEF Age
<1>2. PICK b : b = [a EXCEPT !.old = TRUE]
  OBVIOUS
<1>3. b = [records |-> a.records, old |-> TRUE]
  <2>1. PICK log, o : a = [records |-> log, old |-> o]
    BY DEF AnswerInv
  <2>2. b = [records |-> log, old |-> TRUE]
    BY <1>2, <2>1
  <2>3. a.records = log
    BY <2>1
  <2>4. QED
    BY <2>2, <2>3
<1>4. b.records = a.records /\ b = [records |-> b.records, old |-> b.old]
  BY <1>3
<1>5. ASSUME NEW r \in answered PROVE Held(r, replayLog', archives')
  BY <1>1, <1>2, <1>4 DEF AnswerInv, Held
<1>6. QED
  BY <1>1, <1>2, <1>4, <1>5 DEF AnswerInv

LEMMA RgStep == RgInv /\ [RgNext]_rgVars => RgInv'
<1> SUFFICES ASSUME RgInv, [RgNext]_rgVars PROVE RgInv'
  OBVIOUS
<1>1. IndexInv /\ AnswerInv
  BY DEF RgInv
<1>2. ASSUME UNCHANGED answerVars, IndexInv' PROVE RgInv'
  BY <1>1, <1>2, AnswerSame DEF RgInv
<1>3. ASSUME UNCHANGED indexVars, AnswerInv' PROVE RgInv'
  BY <1>1, <1>3, IndexSame DEF RgInv
<1>4. CASE OpenIndex
  <2>1. UNCHANGED answerVars
    BY <1>4 DEF OpenIndex, answerVars
  <2>2. QED
    BY <1>1, <1>2, <1>4, <2>1, OpenIndexKeeps
<1>5. CASE ReadIndex
  <2>1. UNCHANGED answerVars
    BY <1>5 DEF ReadIndex, answerVars
  <2>2. QED
    BY <1>1, <1>2, <1>5, <2>1, ReadIndexKeeps
<1>6. ASSUME NEW t \in Adders, BeginAdd(t) PROVE RgInv'
  <2>1. UNCHANGED answerVars
    BY <1>6 DEF BeginAdd, answerVars
  <2>2. QED
    BY <1>1, <1>2, <1>6, <2>1, BeginAddKeeps
<1>7. ASSUME NEW t \in Adders, Persist(t) PROVE RgInv'
  <2>1. UNCHANGED answerVars
    BY <1>7 DEF Persist, answerVars
  <2>2. QED
    BY <1>1, <1>2, <1>7, <2>1, PersistKeeps
<1>8. ASSUME NEW t \in Adders, PersistFails(t) PROVE RgInv'
  <2>1. UNCHANGED answerVars
    BY <1>8 DEF PersistFails, answerVars
  <2>2. QED
    BY <1>1, <1>2, <1>8, <2>1, PersistFailsKeeps
<1>9. ASSUME NEW t \in Adders, CommitIndex(t) PROVE RgInv'
  <2>1. UNCHANGED answerVars
    BY <1>9 DEF CommitIndex, answerVars
  <2>2. QED
    BY <1>1, <1>2, <1>9, <2>1, CommitIndexKeeps
<1>10. ASSUME NEW t \in Askers, Ask(t) PROVE RgInv'
  <2>1. UNCHANGED indexVars
    BY <1>10 DEF Ask, indexVars
  <2>2. QED
    BY <1>3, <1>10, <2>1, AskKeeps
<1>11. ASSUME NEW t \in Askers, LookAtLog(t) PROVE RgInv'
  <2>1. UNCHANGED indexVars
    BY <1>11 DEF LookAtLog, indexVars
  <2>2. QED
    BY <1>1, <1>3, <1>11, <2>1, LookAtLogKeeps
<1>12. ASSUME NEW t \in Askers, Maintain(t) PROVE RgInv'
  <2>1. UNCHANGED indexVars
    BY <1>12 DEF Maintain, indexVars
  <2>2. QED
    BY <1>1, <1>3, <1>12, <2>1, MaintainKeeps
<1>13. ASSUME NEW t \in Askers, AppendRecord(t) PROVE RgInv'
  <2>1. UNCHANGED indexVars
    BY <1>13 DEF AppendRecord, indexVars
  <2>2. QED
    BY <1>1, <1>3, <1>13, <2>1, AppendRecordKeeps
<1>14. ASSUME NEW t \in Askers, AppendFails(t) PROVE RgInv'
  <2>1. UNCHANGED indexVars
    BY <1>14 DEF AppendFails, indexVars
  <2>2. QED
    BY <1>1, <1>3, <1>14, <2>1, AppendFailsKeeps
<1>15. CASE Age
  <2>1. UNCHANGED indexVars
    BY <1>15 DEF Age, indexVars
  <2>2. QED
    BY <1>1, <1>3, <1>15, <2>1, AgeKeeps
<1>16. CASE RestartServer
  BY <1>16, RestartServerKeeps
<1>17. CASE UNCHANGED rgVars
  <2>1. UNCHANGED indexVars /\ UNCHANGED answerVars
    BY <1>17 DEF rgVars, indexVars, answerVars
  <2>2. QED
    BY <1>1, <2>1, IndexSame, AnswerSame DEF RgInv
<1>18. QED
  BY <1>4, <1>5, <1>6, <1>7, <1>8, <1>9, <1>10, <1>11, <1>12, <1>13, <1>14, <1>15, <1>16, <1>17 DEF RgNext

\* What is searched is the log, as long as no ingestion overlaps another one or the first
\* reading and no line is cut off; and every answer rests on live documents without conflicts
\* that fit its context, and is on record until the record expires (app/amul_rag.py:
\* RagIndex.add, answer_query, build_context, maintain_replay_log).
THEOREM RetrievalHoldsUp == RgSpec => []RetrievalIsSound
<1>1. RgInv => RetrievalIsSound
  <2> SUFFICES ASSUME RgInv PROVE RetrievalIsSound
    OBVIOUS
  <2>1. AnswersAreBacked
    BY DEF RgInv, AnswerInv, Backed, Held, AnswersAreBacked
  <2>2. IndexMatchesLog
    BY DEF RgInv, IndexInv, IndexFits, IndexMatchesLog
  <2>3. QED
    BY <2>1, <2>2 DEF RetrievalIsSound
<1>2. QED
  BY <1>1, RgStart, RgStep, PTL DEF RgSpec
=============================================================================
