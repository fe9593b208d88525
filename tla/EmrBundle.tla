------------------------------- MODULE EmrBundle -------------------------------
(***************************************************************************)
(* Recall over the ledger (app/emr.py): an excitation reads the session's  *)
(* working set (the STM), filters the records, scores them, spreads        *)
(* activation over their bonds, decides whether there is evidence enough   *)
(* to answer, and fills the working set anew within a token budget.  The   *)
(* set is read and written without a lock, by excitations, expansions of   *)
(* one entry and resets.                                                   *)
(*                                                                         *)
(* How text is scored is left out: the scores of an excitation are input,  *)
(* from Scorings, and so are the records its filter lets through, from     *)
(* Corpora: the ledger may change between two excitations.  Scores are in  *)
(* hundredths, bonds too; activations are in millionths, path strengths in *)
(* ten-thousandths.                                                        *)
(***************************************************************************)
EXTENDS Integers, Sequences, FiniteSets, FiniteSetsExt

CONSTANTS Corpora,      \* what filter_records lets through: id -> record
          Scorings,     \* id -> [q, p, base]
          Recalls,      \* [budget, exclude]: token_budget, and contradiction_policy = "exclude"
          SeedLimit,    \* seed_limit of the graph expansion
          MaxDepth, MaxNodes,
          Callers       \* requests, each of one excitation of the session

ASSUME EbConstantsOK ==
  /\ \A m \in Corpora :
       /\ IsFiniteSet(DOMAIN m) /\ DOMAIN m \subseteq Nat \ {0}
       /\ \A i \in DOMAIN m : IsFiniteSet(m[i].tags) /\ m[i].short \in Nat /\ m[i].long \in Nat
       /\ \A scores \in Scorings, i \in DOMAIN m : scores[i].base \in Nat
  /\ \A ask \in Recalls : ask.budget \in Nat
  /\ MaxDepth \in Nat /\ MaxNodes \in Nat

VARIABLES stm,          \* the session's entries: id -> whether it is shown in detail
          expanding,    \* an expansion between its read and its write: what it will write
          excited       \* the excitations

ebVars == <<stm, expanding, excited>>

PromoteAt == 12
EvictBelow == 4
NoOverlap == 5
MinTopScore == 8
MinTopAlignment == 20
GraphWeight == 30
BondWeight == 15
MinEdge == 35
HopDecay == 80
Unit == 10000

Nobody == 0
Nothing == <<>>
-----------------------------------------------------------------------------
(* Bonds, and the ways along them *)

SameSubject(m, a, b) == m[a].subject # Nobody /\ m[a].subject = m[b].subject
Bond(m, a, b) ==
  LET shared == Cardinality(m[a].tags \cap m[b].tags)
      all == Cardinality(m[a].tags \cup m[b].tags)
  IN IF a = b THEN 0
     ELSE (IF SameSubject(m, a, b) THEN 60 ELSE 0) + (IF all = 0 THEN 0 ELSE (40 * shared) \div all)
Contradicts(m, a, b) == SameSubject(m, a, b) /\ m[a].hash # m[b].hash

\* supersedes and evidence references, both ways; the better of these and the derived bond.
Explicit(m, a, b) ==
  IF m[a].supersedes = b \/ m[b].supersedes = a THEN 100
  ELSE IF m[a].evidence = b \/ m[b].evidence = a THEN 90 ELSE 0
Edge(m, a, b) == IF Explicit(m, a, b) > Bond(m, a, b) THEN Explicit(m, a, b) ELSE Bond(m, a, b)
Neighbors(m, a) == {b \in DOMAIN m \ {a} : Edge(m, a, b) >= MinEdge}

\* The edge taken as the depth-th of a way; what a way from a seed gives its end.
Hop(strength, edge, depth) ==
  IF depth > 1 THEN (((strength * edge) \div 100) * HopDecay) \div 100 ELSE (strength * edge) \div 100
Boost(base, strength) == (base * strength * GraphWeight) \div 100

\* The records with the strongest base activations.
Stronger(scores, a, b) == scores[a].base > scores[b].base \/ (scores[a].base = scores[b].base /\ a < b)
Seeds(m, scores) ==
  LET able == {i \in DOMAIN m : scores[i].p > 0 /\ scores[i].base > 0}
  IN IF Cardinality(DOMAIN m) < 2 THEN {}
     ELSE {i \in able : Cardinality({j \in able : Stronger(scores, j, i)}) < SeedLimit}
-----------------------------------------------------------------------------
(* The graph expansion: excite, apply_graph_expansion *)

Unasked == [pc |-> "unasked"]
StartItem(seed) == [at |-> seed, depth |-> 0, strength |-> Unit]

\* The working set is read before anything else is looked at.
BeginExcite(c) == \E m \in Corpora, scores \in Scorings, ask \in Recalls :
  /\ excited[c] = Unasked
  /\ excited' = [excited EXCEPT ![c] =
       [pc |-> "walk", prior |-> stm, m |-> m, scores |-> scores, ask |-> ask,
        left |-> Seeds(m, scores), seed |-> Nobody, item |-> StartItem(Nobody), todo |-> {}, queue |-> <<>>,
        best |-> Nothing, boosts |-> Nothing,
        eligible |-> {}, remaining |-> {}, bundle |-> Nothing, used |-> 0]]
  /\ UNCHANGED <<stm, expanding>>

\* The walk from the next of the seeds.
NextSeed(c) ==
  LET r == excited[c]
  IN /\ r.pc = "walk" /\ r.todo = {} /\ r.queue = <<>>
     /\ \E s \in r.left :
          /\ \A o \in r.left \ {s} : Stronger(r.scores, s, o)
          /\ excited' = [excited EXCEPT ![c] =
               [r EXCEPT !.left = @ \ {s}, !.seed = s, !.item = StartItem(s), !.queue = <<StartItem(s)>>,
                         !.best = [x \in {s} |-> Unit]]]
     /\ UNCHANGED <<stm, expanding>>

Taken(r) ==
  LET item == Head(r.queue)
  IN [r EXCEPT !.queue = Tail(@), !.item = item,
               !.todo = IF item.depth >= MaxDepth THEN {} ELSE Neighbors(r.m, item.at)]
TakeItem(c) ==
  LET r == excited[c]
  IN /\ r.pc = "walk" /\ r.todo = {} /\ r.queue # <<>>
     /\ excited' = [excited EXCEPT ![c] = Taken(r)]
     /\ UNCHANGED <<stm, expanding>>

NextItem(r, b) ==
  [at |-> b, depth |-> r.item.depth + 1,
   strength |-> Hop(r.item.strength, Edge(r.m, r.item.at, b), r.item.depth + 1)]
\* A weaker way to a record is dropped, a stronger one is followed on.
FirstVisitOnly(r, b) == b \notin DOMAIN r.best   \* mutant: a plain breadth-first search
Improves(r, b) == NextItem(r, b).strength > (IF b \in DOMAIN r.best THEN r.best[b] ELSE 0)
HasRoom(r, b) == b \in DOMAIN r.boosts \/ Cardinality(DOMAIN r.boosts) < MaxNodes

\* f with at least v at b.
Raised(f, b, v) == [x \in DOMAIN f \cup {b} |-> IF x = b /\ (b \notin DOMAIN f \/ v > f[b]) THEN v ELSE f[x]]

Followed(r, b) ==
  LET next == NextItem(r, b)
  IN [r EXCEPT !.todo = @ \ {b}, !.queue = Append(@, next), !.best = Raised(@, b, next.strength),
               !.boosts = IF b = r.seed THEN @ ELSE Raised(@, b, Boost(r.scores[r.seed].base, next.strength))]

Reach(c) ==
  LET r == excited[c]
  IN /\ r.pc = "walk"
     /\ \E b \in r.todo :
          /\ \A o \in r.todo : b <= o
          /\ excited' = [excited EXCEPT ![c] =
               IF Improves(r, b) /\ HasRoom(r, b) THEN Followed(r, b) ELSE [r EXCEPT !.todo = @ \ {b}]]
     /\ UNCHANGED <<stm, expanding>>
-----------------------------------------------------------------------------
(* Abstention, and the choice of the bundle: excite, assess_abstention, select_stm *)

Gate(scores, i) == (scores[i].q * scores[i].p) \div 100

\* Of the records that say the same, the best one stands for all; one must be good enough,
\* and better than every other.
Answerable(m, scores) ==
  LET voices == {i \in DOMAIN m : \A j \in DOMAIN m : m[j].hash = m[i].hash =>
                   Gate(scores, i) > Gate(scores, j) \/ (Gate(scores, i) = Gate(scores, j) /\ i <= j)}
  IN \E i \in voices :
       /\ Gate(scores, i) >= MinTopScore /\ scores[i].q >= MinTopAlignment
       /\ \A j \in voices \ {i} : Gate(scores, i) > Gate(scores, j)

\* Activation with the graph's boost; an entry of the STM that did not fade below the
\* eviction line is lifted to the promotion line.
BoostOf(r, i) == IF i \in DOMAIN r.boosts THEN r.boosts[i] ELSE 0
Activation(r, i) ==
  LET a == r.scores[i].base * Unit + BoostOf(r, i)
  IN IF i \in DOMAIN r.prior /\ a >= EvictBelow * Unit THEN Max({a, PromoteAt * Unit}) ELSE a
Eligible(r, i) ==
  /\ Activation(r, i) >= PromoteAt * Unit
  /\ r.scores[i].p > 0
  /\ r.scores[i].q > NoOverlap \/ BoostOf(r, i) > 0 \/ i \in DOMAIN r.prior

\* Every record is reached: what may be chosen from.
Rank(c) ==
  LET r == excited[c]
      eligible == IF Answerable(r.m, r.scores) THEN {i \in DOMAIN r.m : Eligible(r, i)} ELSE {}
  IN /\ r.pc = "walk" /\ r.todo = {} /\ r.queue = <<>> /\ r.left = {}
     /\ excited' = [excited EXCEPT ![c] =
          [r EXCEPT !.pc = "choose", !.eligible = eligible, !.remaining = eligible]]
     /\ UNCHANGED <<stm, expanding>>

Cost(m, i, detail) == IF detail THEN m[i].long ELSE m[i].short
Disputes(r, i) == \E j \in DOMAIN r.bundle : Contradicts(r.m, i, j)
Fits(r) == {i \in r.remaining : r.used + r.m[i].short <= r.ask.budget}

\* The best activation and bonds per token.
Gain(r, i) == Activation(r, i) + MapThenSumSet(LAMBDA j : 100 * BondWeight * Bond(r.m, i, j), DOMAIN r.bundle)
Denser(r, i, j) ==
  LET mine == Gain(r, i) * r.m[j].short
      other == Gain(r, j) * r.m[i].short
  IN mine > other \/ (mine = other /\ i < j)

\* An entry shown in detail before stays so if that fits.
Added(r, i) ==
  LET detail == i \in DOMAIN r.prior /\ r.prior[i] /\ r.used + r.m[i].long <= r.ask.budget
  IN [r EXCEPT !.remaining = @ \ {i}, !.used = @ + Cost(r.m, i, detail),
               !.bundle = [x \in DOMAIN @ \cup {i} |-> IF x = i THEN detail ELSE r.bundle[x]]]
Choose(c) ==
  LET r == excited[c]
  IN /\ r.pc = "choose"
     /\ \E i \in Fits(r) :
          /\ \A j \in Fits(r) \ {i} : Denser(r, i, j)
          /\ excited' = [excited EXCEPT ![c] =
               IF r.ask.exclude /\ Disputes(r, i) THEN [r EXCEPT !.remaining = @ \ {i}] ELSE Added(r, i)]
     /\ UNCHANGED <<stm, expanding>>

SetStm(c) ==
  LET r == excited[c]
  IN /\ r.pc = "choose" /\ Fits(r) = {}
     /\ stm' = r.bundle
     /\ excited' = [excited EXCEPT ![c] = [r EXCEPT !.pc = "done"]]
     /\ UNCHANGED expanding
-----------------------------------------------------------------------------
\* expand_stm_entry copies the entries, and writes them back with one at more detail.
ReadExpand == \E i \in DOMAIN stm :
  /\ expanding = Nothing
  /\ expanding' = [stm EXCEPT ![i] = TRUE]
  /\ UNCHANGED <<stm, excited>>
WriteExpand ==
  /\ expanding # Nothing
  /\ stm' = expanding /\ expanding' = Nothing
  /\ UNCHANGED excited

ClearStm == stm # Nothing /\ stm' = Nothing /\ UNCHANGED <<expanding, excited>>

EbInit == stm = Nothing /\ expanding = Nothing /\ excited = [c \in Callers |-> Unasked]

EbNext ==
  \/ \E c \in Callers : BeginExcite(c) \/ NextSeed(c) \/ TakeItem(c) \/ Reach(c) \/ Rank(c) \/ Choose(c) \/ SetStm(c)
  \/ ReadExpand \/ WriteExpand \/ ClearStm

EbSpec == EbInit /\ [][EbNext]_ebVars
-----------------------------------------------------------------------------
(* What must hold *)

\* The ends of the ways of d edges from a seed, with their strengths.
Ways(m, seed) ==
  LET ends[d \in 0..MaxDepth] ==
        IF d = 0 THEN {[at |-> seed, strength |-> Unit]}
        ELSE UNION {{[at |-> b, strength |-> Hop(w.strength, Edge(m, w.at, b), d)] : b \in Neighbors(m, w.at)} :
                    w \in ends[d - 1]}
  IN ends

\* MaxNodes left no record out.
NotCutOff(r) == Cardinality(DOMAIN r.boosts) < MaxNodes \/ Cardinality(DOMAIN r.m) <= MaxNodes

\* "The strongest path wins": no way from a seed to a record would have given it more, whichever
\* the breadth-first walk met first (unless the walk was cut off), and one of them gave it what
\* it has.
BoostIsBestPath(r) ==
  /\ NotCutOff(r) =>
       \A s \in Seeds(r.m, r.scores), d \in 1..MaxDepth : \A w \in Ways(r.m, s)[d] :
         w.at = s \/ BoostOf(r, w.at) >= Boost(r.scores[s].base, w.strength)
  /\ \A i \in DOMAIN r.boosts : \E s \in Seeds(r.m, r.scores) \ {i}, d \in 1..MaxDepth :
       \E w \in Ways(r.m, s)[d] : w.at = i /\ r.boosts[i] = Boost(r.scores[s].base, w.strength)

\* The tokens of a bundle, each of its own.
Tokens(m, bundle) == UNION {{i} \X (1..Cost(m, i, bundle[i])) : i \in DOMAIN bundle}

\* What an excitation chose keeps the budget, though entries had grown to detail before;
\* never holds two records that contradict each other (unless the caller allows it); and
\* leaves out an eligible record only because it does not fit or contradicts one that is in.
BundleIsSound(r) ==
  /\ Cardinality(Tokens(r.m, r.bundle)) <= r.ask.budget
  /\ r.ask.exclude => \A i, j \in DOMAIN r.bundle : ~Contradicts(r.m, i, j)
  /\ \A i \in r.eligible \ DOMAIN r.bundle :
       \/ Cardinality(Tokens(r.m, r.bundle)) + r.m[i].short > r.ask.budget
       \/ r.ask.exclude /\ Disputes(r, i)

\* An excitation's answer is right in both halves: what the walk gave and what was chosen.
\* (app/emr.py: apply_graph_expansion, select_stm)
RecallIsSound == \A c \in Callers : excited[c].pc = "done" => BoostIsBestPath(excited[c]) /\ BundleIsSound(excited[c])
=============================================================================
