---------------------------- MODULE SigningProofs ----------------------------
(***************************************************************************)
(* Signatures (Signing), for every set of signers and roots and every      *)
(* number of rows, statements, backups and restores: what the API took is  *)
(* good until its key is revoked, and what is shown as cosigned was before *)
(* the root's holder when it cosigned.                                     *)
(***************************************************************************)
EXTENDS Signing, SequenceTheorems, FiniteSetTheorems, WellFoundedInduction, TLAPS

-----------------------------------------------------------------------------
(* The inductive invariant *)

StatementKinds == {"root_add", "key", "revoke", "void", "cosign"}
Statements == [kind : StatementKinds, key : SigningKeys \cup Roots, arg : Int, hash : Nat,
               by : Roots, good : BOOLEAN]
Keyed(s) == s.kind \in {"key", "revoke"} => s.key \in SigningKeys
TrustLog(statements) ==
  statements \in Seq(Statements) /\ \A n \in DOMAIN statements : Keyed(statements[n])
Rows == [kind : RowKinds, at : Int, head : Nat, key : SigningKeys, good : BOOLEAN, prev : Nat, hash : Nat]

(* A row counts under a trust if its key was authorized before it, and it is about something *)
(* that is there and that no other row that counts is about.                                 *)
Justified(trust, rows, i, height, issued) ==
  /\ trust.keys[rows[i].key].from \in 1..i
  /\ SubjectHolds(rows, i, height, issued)
  /\ ~Repeats(trust, rows, i)
VoidsName(trust, rows) ==
  \A v \in DOMAIN trust.voids : v \in DOMAIN rows /\ trust.voids[v] = rows[v].hash
Linked(rows) == \A i \in DOMAIN rows : rows[i].prev = LinkOf(rows, i)
Counting(trust, rows, height, issued) ==
  \A i \in DOMAIN rows :
    rows[i].good /\ ~Voided(trust, rows, i) => Justified(trust, rows, i, height, issued)

(* What is stored, now or in a backup. *)
StoreSound(b) ==
  /\ b.sealed \in Nat /\ b.receipts \subseteq Nat
  /\ TrustLog(b.stmts) /\ b.atts \in Seq(Rows) /\ Linked(b.atts)
  /\ VoidsName(EvaluateTrust(b.stmts), b.atts)
  /\ Counting(EvaluateTrust(b.stmts), b.atts, b.sealed, b.receipts)

(* No two rows ever made share a hash, so that a hash names a row and all that is before it; *)
(* and where a row that a root cosigned still is, the witness had it and those before it.    *)
MadeBy(rows, hash) == \A i \in DOMAIN rows : rows[i].hash \in 1..hash
SameRows(x, y) ==
  \A i \in DOMAIN x, j \in DOMAIN y : x[i].hash = y[j].hash => i = j /\ \A k \in 1..i : x[k] = y[k]
Cosigns(statements) == EvaluateTrust(statements).cosigns
Before(cosigns, hash) == \A c \in cosigns : c.hash \in 1..hash
WasSeen(cosigns, rows, had) ==
  \A c \in cosigns : CosignHolds(rows, c) => \A k \in 1..c.seq : rows[k] \in had

CopiesSound(copies, hash, had) ==
  /\ \A b \in copies : StoreSound(b) /\ MadeBy(b.atts, hash) /\ Before(Cosigns(b.stmts), hash)
  /\ \A b, c \in copies : SameRows(b.atts, c.atts) /\ WasSeen(Cosigns(b.stmts), c.atts, had)

Copy(height, issued, statements, rows) ==
  [sealed |-> height, receipts |-> issued, stmts |-> statements, atts |-> rows]
Now == Copy(sealed, receipts, stmts, atts)
Copies == {Now} \cup {backups[n] : n \in DOMAIN backups}

(* The store only grows, unless a backup is restored. *)
Ahead(b, c) == IsPrefix(b.atts, c.atts) /\ IsPrefix(b.stmts, c.stmts) /\ b.sealed <= c.sealed
Newest == IF backups = <<>> THEN Copy(0, {}, <<>>, <<>>) ELSE backups[Len(backups)]
SeenSound ==
  /\ seen.atts \in Seq(Rows) /\ seen.stmts \in Seq(Statements) /\ seen.sealed \in Nat
  /\ restored \/ (Ahead(seen, Newest) /\ Ahead(Newest, Now))
  /\ alarm => restored

IsPass(p) ==
  /\ p = [pc |-> p.pc, plan |-> p.plan, seq |-> p.seq, prev |-> p.prev, trusted |-> p.trusted, signed |-> p.signed]
  /\ p.trusted \in Nat
SgTyped ==
  /\ fresh \in Nat
  /\ DOMAIN pass = SigningKeys /\ \A k \in SigningKeys : IsPass(pass[k])
  /\ backups \in Seq([sealed : Nat, receipts : SUBSET Nat, stmts : Seq(Statements), atts : Seq(Rows)])
  /\ restored \in BOOLEAN /\ alarm \in BOOLEAN

SgInv == SgTyped /\ CopiesSound(Copies, fresh, witnessed) /\ SeenSound

-----------------------------------------------------------------------------
(* The trust a log of statements gives, one statement after the other *)

\* Every nonempty set of naturals has a least element.
LEMMA LeastOf ==
  ASSUME NEW S, S \subseteq Nat, S # {}
  PROVE  \E x \in S : \A y \in S : x <= y
<1>1. PICK x \in S : \A y \in S : <<y, x>> \notin OpToRel(<, Nat)
  BY NatLessThanWellFounded, WFMin
<1>2. \A y \in S : ~(y < x)
  <2> SUFFICES ASSUME NEW y \in S PROVE ~(y < x)
    OBVIOUS
  <2>1. <<y, x>> \in Nat \X Nat
    OBVIOUS
  <2>2. <<y, x>>[1] = y /\ <<y, x>>[2] = x
    OBVIOUS
  <2>3. QED
    BY <1>1, <2>1, <2>2 DEF OpToRel
<1>3. QED
  BY <1>2, SMT

\* A set of naturals that holds zero and the successor of each of its numbers holds them all.
LEMMA AllNaturals ==
  ASSUME NEW S \in SUBSET Nat, 0 \in S, \A n \in S : n + 1 \in S
  PROVE  \A n \in Nat : n \in S
<1>1. SUFFICES ASSUME Nat \ S # {} PROVE FALSE
  OBVIOUS
<1>2. PICK m \in Nat \ S : \A y \in Nat \ S : m <= y
  BY <1>1, LeastOf
<1>3. m \in Nat /\ m # 0
  BY <1>2
<1>4. m - 1 \in Nat /\ ~(m <= m - 1) /\ (m - 1) + 1 = m
  BY <1>3
<1>5. m - 1 \in S
  BY <1>2, <1>4
<1>6. QED
  BY <1>2, <1>4, <1>5

\* The values the recursion of EvaluateTrust takes, up to statement n.
IsTrustOf(g, statements, n) ==
  g = [m \in 0..n |-> IF m = 0 THEN Untrusting ELSE AfterStatement(g[m - 1], statements[m])]

LEMMA TrustExists ==
  ASSUME NEW statements
  PROVE  \A n \in Nat : \E g : IsTrustOf(g, statements, n)
<1> DEFINE S == {n \in Nat : \E g : IsTrustOf(g, statements, n)}
<1>1. 0 \in S
  <2>1. IsTrustOf([m \in 0..0 |-> Untrusting], statements, 0)
    BY DEF IsTrustOf
  <2>2. QED
    BY <2>1
<1>2. ASSUME NEW n \in S PROVE n + 1 \in S
  <2>1. PICK g : IsTrustOf(g, statements, n)
    BY <1>2
  <2>2. PICK h : h = [m \in 0..(n + 1) |-> IF m = n + 1 THEN AfterStatement(g[n], statements[n + 1]) ELSE g[m]]
    OBVIOUS
  <2>3. \A m \in 0..(n + 1) : h[m] = IF m = 0 THEN Untrusting ELSE AfterStatement(h[m - 1], statements[m])
    <3> TAKE m \in 0..(n + 1)
    <3>1. CASE m = n + 1
      <4>1. h[m - 1] = g[n] /\ m # 0
        BY <1>2, <2>2, <3>1
      <4>2. QED
        BY <1>2, <2>2, <3>1, <4>1
    <3>2. CASE m # n + 1
      <4>1. m \in 0..n /\ h[m] = g[m]
        BY <1>2, <2>2, <3>2
      <4>2. g[m] = IF m = 0 THEN Untrusting ELSE AfterStatement(g[m - 1], statements[m])
        BY <2>1, <4>1 DEF IsTrustOf
      <4>3. m # 0 => h[m - 1] = g[m - 1]
        BY <1>2, <2>2, <4>1
      <4>4. QED
        BY <4>1, <4>2, <4>3
    <3>3. QED
      BY <3>1, <3>2
  <2>4. IsTrustOf(h, statements, n + 1)
    BY <2>2, <2>3 DEF IsTrustOf
  <2>5. QED
    BY <1>2, <2>4
<1>3. \A n \in Nat : n \in S
  BY <1>1, <1>2, AllNaturals
<1>4. QED
  BY <1>3

\* As long as two logs agree, so do the trusts they give.
LEMMA TrustAgrees ==
  ASSUME NEW s, NEW r, NEW g, NEW h, NEW n \in Nat, NEW m \in Nat, NEW k \in Nat,
         IsTrustOf(g, s, n), IsTrustOf(h, r, m), k <= n, k <= m,
         \A i \in 1..k : s[i] = r[i]
  PROVE  g[k] = h[k]
<1> DEFINE S == {j \in Nat : j <= k => g[j] = h[j]}
<1>1. 0 \in S
  BY DEF IsTrustOf
<1>2. ASSUME NEW j \in S PROVE j + 1 \in S
  <2>1. CASE j + 1 <= k
    <3>1. g[j] = h[j] /\ s[j + 1] = r[j + 1]
      BY <1>2, <2>1
    <3>0. PICK i \in Nat : i = j + 1
      BY <1>2
    <3>i. i \in 0..n /\ i \in 0..m /\ i # 0 /\ i - 1 = j
      BY <1>2, <2>1, <3>0
    <3>2. g[i] = AfterStatement(g[j], s[i])
      BY <3>i DEF IsTrustOf
    <3>3. h[i] = AfterStatement(h[j], r[i])
      BY <3>i DEF IsTrustOf
    <3>4. QED
      BY <1>2, <3>0, <3>1, <3>2, <3>3
  <2>2. QED
    BY <1>2, <2>1
<1>3. \A j \in Nat : j \in S
  BY <1>1, <1>2, AllNaturals
<1>4. QED
  BY <1>3

LEMMA TrustIs ==
  ASSUME NEW statements, NEW n \in Nat, Len(statements) = n
  PROVE  \E g : IsTrustOf(g, statements, n) /\ EvaluateTrust(statements) = g[n]
<1>1. EvaluateTrust(statements) = (CHOOSE g : IsTrustOf(g, statements, n))[n]
  BY DEF EvaluateTrust, IsTrustOf
<1>2. \E g : IsTrustOf(g, statements, n)
  BY TrustExists
<1>3. PICK g : g = CHOOSE h : IsTrustOf(h, statements, n)
  OBVIOUS
<1>4. IsTrustOf(g, statements, n)
  BY <1>2, <1>3
<1>5. EvaluateTrust(statements) = g[n]
  BY <1>1, <1>3
<1>6. QED
  BY <1>4, <1>5

LEMMA TrustOfNone == EvaluateTrust(<<>>) = Untrusting
<1>1. PICK g : IsTrustOf(g, <<>>, 0) /\ EvaluateTrust(<<>>) = g[0]
  BY TrustIs
<1>2. QED
  BY <1>1 DEF IsTrustOf

LEMMA TrustOfMore ==
  ASSUME NEW S, NEW statements \in Seq(S), NEW s \in S
  PROVE  EvaluateTrust(Append(statements, s)) = AfterStatement(EvaluateTrust(statements), s)
<1>1. PICK n \in Nat : n = Len(statements)
  OBVIOUS
<1>2. PICK more : more = Append(statements, s)
  OBVIOUS
<1>3. Len(more) = n + 1 /\ more[n + 1] = s /\ \A i \in 1..n : more[i] = statements[i]
  BY <1>1, <1>2
<1>4. PICK g : IsTrustOf(g, statements, n) /\ EvaluateTrust(statements) = g[n]
  BY <1>1, TrustIs
<1>5. PICK h : IsTrustOf(h, more, n + 1) /\ EvaluateTrust(more) = h[n + 1]
  BY <1>3, TrustIs
<1>6. h[n] = g[n]
  BY <1>3, <1>4, <1>5, TrustAgrees
<1>7. h[n + 1] = AfterStatement(h[n], more[n + 1])
  BY <1>5 DEF IsTrustOf
<1>8. QED
  BY <1>2, <1>3, <1>4, <1>5, <1>6, <1>7

-----------------------------------------------------------------------------
(* What statements do to the trust *)

VoidMap(f) == f = [v \in DOMAIN f |-> f[v]] /\ DOMAIN f \subseteq Int
Trusted(t) ==
  /\ t = [roots |-> t.roots, keys |-> t.keys, cosigns |-> t.cosigns, voids |-> t.voids, problems |-> t.problems]
  /\ t.keys \in [SigningKeys -> [from : Nat, cutoff : Int]]
  /\ t.cosigns \subseteq [seq : Int, hash : Nat]
  /\ VoidMap(t.voids)

\* An authorization and a void stay: a key may only be revoked, for what comes after.
Grows(t, u) ==
  /\ DOMAIN t.voids \subseteq DOMAIN u.voids
  /\ \A k \in SigningKeys : t.keys[k].from > 0 => u.keys[k].from = t.keys[k].from

LEMMA UntrustingIs == Trusted(Untrusting) /\ DOMAIN Untrusting.voids = {} /\ Untrusting.cosigns = {}
<1>1. PICK u : u = Untrusting
  OBVIOUS
<1>2. /\ u = [roots |-> u.roots, keys |-> u.keys, cosigns |-> u.cosigns, voids |-> u.voids, problems |-> u.problems]
      /\ u.keys = [k \in SigningKeys |-> [from |-> 0, cutoff |-> Never]]
      /\ u.cosigns = {} /\ u.voids = <<>>
  BY <1>1 DEF Untrusting
<1>3. Never \in Int
  BY SgConstantsOK DEF Never
<1>4. u.keys \in [SigningKeys -> [from : Nat, cutoff : Int]]
  BY <1>2, <1>3
<1>5. <<>> = [v \in DOMAIN <<>> |-> <<>>[v]] /\ DOMAIN <<>> = {}
  OBVIOUS
<1>6. QED
  BY <1>1, <1>2, <1>4, <1>5 DEF Trusted, VoidMap

\* What a statement that counts changes, and nothing else.
\* The trust with one more statement that counts.
Counted(t, s, u) ==
  /\ u.cosigns = IF s.kind = "cosign" THEN t.cosigns \cup {[seq |-> s.arg, hash |-> s.hash]} ELSE t.cosigns
  /\ DOMAIN u.voids = IF s.kind = "void" THEN DOMAIN t.voids \cup {s.arg} ELSE DOMAIN t.voids
  /\ \A v \in DOMAIN u.voids : u.voids[v] = IF s.kind = "void" /\ v = s.arg THEN s.hash ELSE t.voids[v]
  /\ Grows(t, u)

LEMMA CountedStatement ==
  ASSUME NEW t, NEW s \in Statements, Trusted(t), Keyed(s), Counts(t, s), NEW u, u = AfterStatement(t, s)
  PROVE  Trusted(u) /\ Counted(t, s, u)
<1>1. u = ApplyStatement(t, s)
  BY DEF AfterStatement
<1>2. s.kind \in StatementKinds /\ s.arg \in Int /\ s.hash \in Nat
  BY DEF Statements
<1>3. Never \in Int
  BY SgConstantsOK DEF Never
<1>4. CASE s.kind = "root_add"
  <2>1. u = [t EXCEPT !.roots = t.roots \cup {s.key}]
    BY <1>1, <1>4 DEF ApplyStatement
  <2>2. /\ u = [roots |-> u.roots, keys |-> u.keys, cosigns |-> u.cosigns, voids |-> u.voids, problems |-> u.problems]
        /\ u.keys = t.keys /\ u.cosigns = t.cosigns /\ u.voids = t.voids
    BY <2>1 DEF Trusted
  <2>3. QED
    BY <1>4, <2>2 DEF Trusted, Grows, Counted
<1>5. CASE s.kind = "key"
  <2>1. u = [t EXCEPT !.keys[s.key] = [from |-> s.arg, cutoff |-> Never]]
    BY <1>1, <1>5 DEF ApplyStatement
  <2>2. /\ u = [roots |-> u.roots, keys |-> u.keys, cosigns |-> u.cosigns, voids |-> u.voids, problems |-> u.problems]
        /\ u.keys = [t.keys EXCEPT ![s.key] = [from |-> s.arg, cutoff |-> Never]]
        /\ u.cosigns = t.cosigns /\ u.voids = t.voids
    BY <2>1 DEF Trusted
  <2>3. s.key \in SigningKeys /\ t.keys[s.key].from = 0 /\ s.arg \in Nat
    BY <1>2, <1>5 DEF Counts, Keyed
  <2>4. [from |-> s.arg, cutoff |-> Never] \in [from : Nat, cutoff : Int]
    BY <1>3, <2>3
  <2>5. u.keys \in [SigningKeys -> [from : Nat, cutoff : Int]]
    BY <2>2, <2>4 DEF Trusted
  <2>6. \A k \in SigningKeys : t.keys[k].from > 0 => u.keys[k].from = t.keys[k].from
    BY <2>2, <2>3 DEF Trusted
  <2>7. QED
    BY <1>5, <2>2, <2>5, <2>6 DEF Trusted, Grows, Counted
<1>6. CASE s.kind = "revoke"
  <2>1. PICK cut : cut = Least(t.keys[s.key].cutoff, s.arg)
    OBVIOUS
  <2>2. u = [t EXCEPT !.keys[s.key].cutoff = cut]
    BY <1>1, <1>6, <2>1 DEF ApplyStatement
  <2>3. s.key \in SigningKeys
    BY <1>6 DEF Keyed
  <2>4. PICK auth \in [from : Nat, cutoff : Int] : auth = t.keys[s.key]
    BY <2>3 DEF Trusted
  <2>5. PICK rest : rest = [auth EXCEPT !.cutoff = cut]
    OBVIOUS
  <2>6. cut \in Int
    BY <1>2, <2>1, <2>4 DEF Least
  <2>7. rest \in [from : Nat, cutoff : Int] /\ rest.from = auth.from
    BY <2>4, <2>5, <2>6
  <2>8. /\ u = [roots |-> u.roots, keys |-> u.keys, cosigns |-> u.cosigns, voids |-> u.voids, problems |-> u.problems]
        /\ u.keys = [t.keys EXCEPT ![s.key] = rest]
        /\ u.cosigns = t.cosigns /\ u.voids = t.voids
    BY <2>2, <2>3, <2>4, <2>5 DEF Trusted
  <2>9. u.keys \in [SigningKeys -> [from : Nat, cutoff : Int]]
    BY <2>7, <2>8 DEF Trusted
  <2>10. \A k \in SigningKeys : t.keys[k].from > 0 => u.keys[k].from = t.keys[k].from
    BY <2>3, <2>4, <2>7, <2>8 DEF Trusted
  <2>11. QED
    BY <1>6, <2>8, <2>9, <2>10 DEF Trusted, Grows, Counted
<1>7. CASE s.kind = "void"
  <2>1. PICK more : more = [i \in DOMAIN t.voids \cup {s.arg} |-> IF i = s.arg THEN s.hash ELSE t.voids[i]]
    OBVIOUS
  <2>2. u = [t EXCEPT !.voids = more]
    BY <1>1, <1>7, <2>1 DEF ApplyStatement
  <2>3. /\ u = [roots |-> u.roots, keys |-> u.keys, cosigns |-> u.cosigns, voids |-> u.voids, problems |-> u.problems]
        /\ u.keys = t.keys /\ u.cosigns = t.cosigns /\ u.voids = more
    BY <2>2 DEF Trusted
  <2>4. DOMAIN more = DOMAIN t.voids \cup {s.arg} /\ more = [v \in DOMAIN more |-> more[v]]
    BY <2>1
  <2>5. \A v \in DOMAIN more : more[v] = IF v = s.arg THEN s.hash ELSE t.voids[v]
    BY <2>1
  <2>6. VoidMap(more)
    BY <1>2, <2>4 DEF VoidMap, Trusted
  <2>7. Trusted(u)
    BY <2>3, <2>6 DEF Trusted
  <2>8. QED
    BY <1>7, <2>3, <2>4, <2>5, <2>7 DEF Grows, Counted
<1>8. CASE s.kind = "cosign"
  <2>1. u = [t EXCEPT !.cosigns = t.cosigns \cup {[seq |-> s.arg, hash |-> s.hash]}]
    BY <1>1, <1>8 DEF ApplyStatement
  <2>2. /\ u = [roots |-> u.roots, keys |-> u.keys, cosigns |-> u.cosigns, voids |-> u.voids, problems |-> u.problems]
        /\ u.keys = t.keys /\ u.voids = t.voids
        /\ u.cosigns = t.cosigns \cup {[seq |-> s.arg, hash |-> s.hash]}
    BY <2>1 DEF Trusted
  <2>3. [seq |-> s.arg, hash |-> s.hash] \in [seq : Int, hash : Nat]
    BY <1>2
  <2>4. Trusted(u)
    BY <2>2, <2>3 DEF Trusted
  <2>5. QED
    BY <1>8, <2>2, <2>4 DEF Grows, Counted
<1>9. QED
  BY <1>2, <1>4, <1>5, <1>6, <1>7, <1>8 DEF StatementKinds

LEMMA UncountedStatement ==
  ASSUME NEW t, NEW s, Trusted(t), ~Counts(t, s), NEW u, u = AfterStatement(t, s)
  PROVE  Trusted(u) /\ Grows(t, u) /\ u.voids = t.voids /\ u.cosigns = t.cosigns
<1>1. u = [t EXCEPT !.problems = t.problems + 1]
  BY DEF AfterStatement
<1>2. /\ u = [roots |-> u.roots, keys |-> u.keys, cosigns |-> u.cosigns, voids |-> u.voids, problems |-> u.problems]
      /\ u.keys = t.keys /\ u.cosigns = t.cosigns /\ u.voids = t.voids
  BY <1>1 DEF Trusted
<1>3. QED
  BY <1>2 DEF Trusted, Grows

LEMMA StatementKeeps ==
  ASSUME NEW t, NEW s \in Statements, Trusted(t), Keyed(s)
  PROVE  Trusted(AfterStatement(t, s)) /\ Grows(t, AfterStatement(t, s))
<1>1. PICK u : u = AfterStatement(t, s)
  OBVIOUS
<1>2. CASE Counts(t, s)
  BY <1>1, <1>2, CountedStatement DEF Counted
<1>3. CASE ~Counts(t, s)
  BY <1>1, <1>3, UncountedStatement
<1>4. QED
  BY <1>2, <1>3

LEMMA GrowsOn ==
  ASSUME NEW t, NEW u, NEW w, Grows(t, u), Grows(u, w)
  PROVE  Grows(t, w)
<1>1. DOMAIN t.voids \subseteq DOMAIN w.voids
  BY DEF Grows
<1>2. \A k \in SigningKeys : t.keys[k].from > 0 => w.keys[k].from = t.keys[k].from
  BY DEF Grows
<1>3. QED
  BY <1>1, <1>2 DEF Grows

\* The trust of a log, and of what was in it before.
LEMMA TrustOfLog ==
  ASSUME NEW statements, TrustLog(statements)
  PROVE  Trusted(EvaluateTrust(statements))
<1>1. PICK n \in Nat : n = Len(statements)
  BY DEF TrustLog
<1>2. PICK g : IsTrustOf(g, statements, n) /\ EvaluateTrust(statements) = g[n]
  BY <1>1, TrustIs
<1> DEFINE S == {j \in Nat : j <= n => Trusted(g[j])}
<1>3. 0 \in S
  <2>1. g[0] = Untrusting
    BY <1>2 DEF IsTrustOf
  <2>2. QED
    BY <2>1, UntrustingIs
<1>4. ASSUME NEW j \in S PROVE j + 1 \in S
  <2>1. PICK i \in Nat : i = j + 1
    BY <1>4
  <2>2. CASE i <= n
    <3>1. i \in 0..n /\ i # 0 /\ i - 1 = j /\ i \in DOMAIN statements
      BY <1>1, <1>4, <2>1, <2>2 DEF TrustLog
    <3>2. g[i] = AfterStatement(g[j], statements[i])
      BY <1>2, <3>1 DEF IsTrustOf
    <3>3. Trusted(g[j])
      BY <1>4, <2>1, <2>2
    <3>4. statements[i] \in Statements /\ Keyed(statements[i])
      BY <3>1 DEF TrustLog
    <3>5. Trusted(g[i])
      BY <3>2, <3>3, <3>4, StatementKeeps
    <3>6. QED
      BY <2>1, <3>5
  <2>3. QED
    BY <2>1, <2>2
<1>5. \A j \in Nat : j \in S
  BY <1>3, <1>4, AllNaturals
<1>6. QED
  BY <1>2, <1>5

LEMMA TrustGrows ==
  ASSUME NEW statements, TrustLog(statements), NEW m \in Nat, m <= Len(statements)
  PROVE  Grows(EvaluateTrust(SubSeq(statements, 1, m)), EvaluateTrust(statements))
<1>1. PICK n \in Nat : n = Len(statements)
  BY DEF TrustLog
<1>2. PICK g : IsTrustOf(g, statements, n) /\ EvaluateTrust(statements) = g[n]
  BY <1>1, TrustIs
<1>3. PICK first : first = SubSeq(statements, 1, m)
  OBVIOUS
<1>4. Len(first) = m /\ \A i \in 1..m : first[i] = statements[i]
  BY <1>1, <1>3 DEF TrustLog
<1>5. PICK h : IsTrustOf(h, first, m) /\ EvaluateTrust(first) = h[m]
  BY <1>4, TrustIs
<1>6. h[m] = g[m]
  BY <1>1, <1>2, <1>4, <1>5, TrustAgrees
<1> DEFINE S == {j \in Nat : m + j <= n => Trusted(g[m + j]) /\ Grows(g[m], g[m + j])}
<1>7. 0 \in S
  <2>1. TrustLog(first)
    <3>1. first \in Seq(Statements)
      BY <1>1, <1>3 DEF TrustLog
    <3>2. \A i \in DOMAIN first : Keyed(first[i])
      BY <1>1, <1>4, <3>1 DEF TrustLog
    <3>3. QED
      BY <3>1, <3>2 DEF TrustLog
  <2>2. Trusted(g[m])
    BY <1>5, <1>6, <2>1, TrustOfLog
  <2>3. Grows(g[m], g[m])
    BY DEF Grows
  <2>4. QED
    BY <2>2, <2>3
<1>8. ASSUME NEW j \in S PROVE j + 1 \in S
  <2>1. PICK i \in Nat : i = m + (j + 1)
    BY <1>8
  <2>2. CASE i <= n
    <3>1. i \in 0..n /\ i # 0 /\ i - 1 = m + j /\ i \in DOMAIN statements /\ m + j <= n
      BY <1>1, <1>8, <2>1, <2>2 DEF TrustLog
    <3>2. g[i] = AfterStatement(g[m + j], statements[i])
      BY <1>2, <3>1 DEF IsTrustOf
    <3>3. Trusted(g[m + j]) /\ Grows(g[m], g[m + j])
      BY <1>8, <3>1
    <3>4. statements[i] \in Statements /\ Keyed(statements[i])
      BY <3>1 DEF TrustLog
    <3>5. Trusted(g[i]) /\ Grows(g[m + j], g[i])
      BY <3>2, <3>3, <3>4, StatementKeeps
    <3>6. Grows(g[m], g[i])
      BY <3>3, <3>5, GrowsOn
    <3>7. QED
      BY <2>1, <3>5, <3>6
  <2>3. QED
    BY <2>1, <2>2
<1>9. \A j \in Nat : j \in S
  BY <1>7, <1>8, AllNaturals
<1>10. n - m \in Nat /\ m + (n - m) = n
  BY <1>1
<1>11. Grows(g[m], g[m + (n - m)])
  BY <1>9, <1>10
<1>12. QED
  BY <1>2, <1>3, <1>5, <1>6, <1>10, <1>11

-----------------------------------------------------------------------------
(* What is stored *)

LEMMA NothingStored == StoreSound(Copy(0, {}, <<>>, <<>>))
<1>1. TrustLog(<<>>)
  BY DEF TrustLog
<1>2. EvaluateTrust(<<>>).voids = <<>> /\ DOMAIN EvaluateTrust(<<>>).voids = {}
  BY TrustOfNone, UntrustingIs DEF Untrusting
<1>3. PICK b : b = Copy(0, {}, <<>>, <<>>)
  OBVIOUS
<1>4. b.sealed = 0 /\ b.receipts = {} /\ b.stmts = <<>> /\ b.atts = <<>>
  BY <1>3 DEF Copy
<1>5. <<>> \in Seq(Rows) /\ DOMAIN <<>> = {}
  OBVIOUS
<1>6. Linked(<<>>) /\ VoidsName(EvaluateTrust(<<>>), <<>>) /\ Counting(EvaluateTrust(<<>>), <<>>, 0, {})
  BY <1>2, <1>5 DEF Linked, VoidsName, Counting
<1>7. b.sealed \in Nat /\ b.receipts \subseteq Nat /\ TrustLog(b.stmts) /\ b.atts \in Seq(Rows) /\ Linked(b.atts)
  BY <1>1, <1>4, <1>5, <1>6
<1>8. VoidsName(EvaluateTrust(b.stmts), b.atts) /\ Counting(EvaluateTrust(b.stmts), b.atts, b.sealed, b.receipts)
  BY <1>4, <1>6
<1>9. QED
  BY <1>3, <1>7, <1>8 DEF StoreSound

\* A row goes on being about something that is there, as the ledger only grows.
LEMMA LedgerGrows ==
  ASSUME NEW rows \in Seq(Rows), NEW h \in Nat, NEW g \in Nat, h <= g, NEW issued, NEW more, issued \subseteq more,
         NEW trust, Counting(trust, rows, h, issued)
  PROVE  Counting(trust, rows, g, more)
<1>1. SUFFICES ASSUME NEW i \in DOMAIN rows, rows[i].good, ~Voided(trust, rows, i)
               PROVE  Justified(trust, rows, i, g, more)
  BY DEF Counting
<1>2. Justified(trust, rows, i, h, issued)
  BY <1>1 DEF Counting
<1>3. SubjectHolds(rows, i, h, issued) => SubjectHolds(rows, i, g, more)
  <2>1. PICK a \in Rows : a = rows[i]
    BY <1>1
  <2>2. CASE a.kind = "block"
    <3>1. a.at \in 1..h => a.at \in 1..g
      OBVIOUS
    <3>2. QED
      BY <2>1, <2>2, <3>1 DEF SubjectHolds
  <2>3. CASE a.kind = "receipt"
    BY <2>1, <2>3 DEF SubjectHolds
  <2>4. CASE a.kind \notin {"block", "receipt"}
    BY <2>1, <2>4 DEF SubjectHolds
  <2>5. QED
    BY <2>2, <2>3, <2>4
<1>4. QED
  BY <1>2, <1>3 DEF Justified

\* A later trust voids more, and takes no authorization back.
LEMMA JustifiedLater ==
  ASSUME NEW rows \in Seq(Rows), NEW t, NEW u, Grows(t, u), VoidsName(u, rows),
         NEW i \in DOMAIN rows, NEW h, NEW issued, Justified(t, rows, i, h, issued)
  PROVE  Justified(u, rows, i, h, issued)
<1>1. rows[i].key \in SigningKeys /\ i \in Nat
  <2>1. PICK n \in Nat : n = Len(rows)
    OBVIOUS
  <2>2. i \in 1..n
    BY <2>1
  <2>3. rows[i] \in Rows
    BY <2>1, <2>2
  <2>4. QED
    BY <2>2, <2>3 DEF Rows
<1>2. u.keys[rows[i].key].from = t.keys[rows[i].key].from
  <2>1. t.keys[rows[i].key].from > 0
    BY <1>1 DEF Justified
  <2>2. QED
    BY <1>1, <2>1 DEF Grows
<1>3. ASSUME NEW j \in 1..(i - 1), ~Voided(u, rows, j) PROVE ~Voided(t, rows, j)
  <2>1. j \in DOMAIN t.voids => j \in DOMAIN u.voids /\ u.voids[j] = rows[j].hash
    BY DEF Grows, VoidsName
  <2>2. QED
    BY <1>3, <2>1 DEF Voided
<1>4. ~Repeats(u, rows, i)
  BY <1>3 DEF Repeats, Justified
<1>5. QED
  BY <1>2, <1>4 DEF Justified

LEMMA StatementStored ==
  ASSUME NEW rows \in Seq(Rows), NEW h, NEW issued, NEW t, NEW u, Grows(t, u),
         VoidsName(t, rows), VoidsName(u, rows), Counting(t, rows, h, issued)
  PROVE  Counting(u, rows, h, issued)
<1>1. SUFFICES ASSUME NEW i \in DOMAIN rows, rows[i].good, ~Voided(u, rows, i)
               PROVE  Justified(u, rows, i, h, issued)
  BY DEF Counting
<1>2. ~Voided(t, rows, i)
  <2>1. i \in DOMAIN t.voids => i \in DOMAIN u.voids /\ u.voids[i] = rows[i].hash
    BY DEF Grows, VoidsName
  <2>2. QED
    BY <1>1, <2>1 DEF Voided
<1>3. Justified(t, rows, i, h, issued)
  BY <1>1, <1>2 DEF Counting
<1>4. QED
  BY <1>3, JustifiedLater

\* A row more: what it says of itself, and what is said of the rows before it.
LEMMA RowMore ==
  ASSUME NEW rows \in Seq(Rows), NEW r \in Rows, NEW n \in Nat, n = Len(rows), NEW more, more = Append(rows, r)
  PROVE  /\ more \in Seq(Rows) /\ Len(more) = n + 1 /\ DOMAIN more = 1..(n + 1) /\ DOMAIN rows = 1..n
         /\ more[n + 1] = r /\ \A i \in 1..n : more[i] = rows[i]
OBVIOUS

LEMMA RowLinked ==
  ASSUME NEW rows \in Seq(Rows), NEW r \in Rows, Linked(rows), r.prev = HeadHash(rows), NEW more, more = Append(rows, r)
  PROVE  Linked(more)
<1>1. PICK n \in Nat : n = Len(rows)
  OBVIOUS
<1>2. /\ DOMAIN more = 1..(n + 1) /\ DOMAIN rows = 1..n
      /\ more[n + 1] = r /\ \A i \in 1..n : more[i] = rows[i]
  BY <1>1, RowMore
<1>3. SUFFICES ASSUME NEW i \in 1..(n + 1) PROVE more[i].prev = LinkOf(more, i)
  BY <1>2 DEF Linked
<1>4. LinkOf(more, i) = LinkOf(rows, i)
  <2>1. CASE i = 1
    BY <2>1 DEF LinkOf
  <2>2. CASE i # 1
    <3>1. i - 1 \in 1..n
      BY <2>2
    <3>2. QED
      BY <1>2, <2>2, <3>1 DEF LinkOf
  <2>3. QED
    BY <2>1, <2>2
<1>5. CASE i = n + 1
  BY <1>1, <1>2, <1>4, <1>5 DEF HeadHash
<1>6. CASE i # n + 1
  <2>1. i \in 1..n
    BY <1>6
  <2>2. rows[i].prev = LinkOf(rows, i)
    BY <1>2, <2>1 DEF Linked
  <2>3. QED
    BY <1>2, <1>4, <2>1, <2>2
<1>7. QED
  BY <1>5, <1>6

LEMMA RowCounts ==
  ASSUME NEW rows \in Seq(Rows), NEW r \in Rows, NEW n \in Nat, n = Len(rows), NEW more, more = Append(rows, r),
         NEW t, NEW h, NEW issued, Counting(t, rows, h, issued),
         r.good => Justified(t, more, n + 1, h, issued)
  PROVE  Counting(t, more, h, issued)
<1>1. /\ DOMAIN more = 1..(n + 1) /\ DOMAIN rows = 1..n
      /\ more[n + 1] = r /\ \A i \in 1..n : more[i] = rows[i]
  BY RowMore
<1>2. SUFFICES ASSUME NEW i \in 1..(n + 1), more[i].good, ~Voided(t, more, i)
               PROVE  Justified(t, more, i, h, issued)
  BY <1>1 DEF Counting
<1>3. CASE i = n + 1
  BY <1>1, <1>2, <1>3
<1>4. CASE i # n + 1
  <2>1. i \in 1..n /\ more[i] = rows[i]
    BY <1>1, <1>4
  <2>2. Justified(t, rows, i, h, issued)
    BY <1>1, <1>2, <2>1 DEF Counting, Voided
  <2>3. SubjectHolds(more, i, h, issued) = SubjectHolds(rows, i, h, issued)
    BY <2>1 DEF SubjectHolds
  <2>4. \A j \in 1..(i - 1) : more[j] = rows[j] /\ Voided(t, more, j) = Voided(t, rows, j)
    BY <1>1, <2>1 DEF Voided
  <2>5. ~Repeats(t, more, i)
    BY <2>1, <2>2, <2>4 DEF Repeats, Justified
  <2>6. QED
    BY <2>1, <2>2, <2>3, <2>5 DEF Justified
<1>5. QED
  BY <1>3, <1>4

\* A row that was judged good under the statements of a moment ago is good under those of now.
LEMMA JudgedRow ==
  ASSUME NEW rows \in Seq(Rows), NEW r \in Rows, NEW n \in Nat, n = Len(rows), NEW more, more = Append(rows, r),
         NEW t, NEW u, Grows(t, u), VoidsName(u, rows), NEW h, NEW issued,
         ~Bad(t, more, n + 1, h, issued)
  PROVE  Justified(u, more, n + 1, h, issued)
<1>1. /\ more \in Seq(Rows) /\ DOMAIN more = 1..(n + 1) /\ DOMAIN rows = 1..n
      /\ more[n + 1] = r /\ \A i \in 1..n : more[i] = rows[i]
  BY RowMore
<1>2. n + 1 \notin DOMAIN u.voids
  BY <1>1 DEF VoidsName
<1>3. ~Voided(t, more, n + 1)
  BY <1>2 DEF Voided, Grows
<1>4. Justified(t, more, n + 1, h, issued)
  BY <1>3 DEF Bad, Justified, KeyAllows
<1>5. VoidsName(u, more)
  BY <1>1 DEF VoidsName
<1>6. n + 1 \in DOMAIN more
  BY <1>1
<1>7. QED
  BY <1>1, <1>4, <1>5, <1>6, JustifiedLater

-----------------------------------------------------------------------------
(* Prefixes *)

LEMMA PrefixIs ==
  ASSUME NEW S, NEW s \in Seq(S), NEW t \in Seq(S)
  PROVE  IsPrefix(s, t) <=> Len(s) <= Len(t) /\ \A i \in 1..Len(s) : s[i] = t[i]
<1>1. PICK m \in Nat, n \in Nat : m = Len(s) /\ n = Len(t)
  OBVIOUS
<1>2. CASE m <= n
  <2>1. SubSeq(s, 1, m) = s
    BY <1>1
  <2>2. PICK first : first = SubSeq(t, 1, m)
    OBVIOUS
  <2>3. first \in Seq(S) /\ Len(first) = m /\ \A i \in 1..m : first[i] = t[i]
    BY <1>1, <1>2, <2>2
  <2>4. s = first <=> \A i \in 1..m : s[i] = first[i]
    <3>1. ASSUME \A i \in 1..m : s[i] = first[i] PROVE s = first
      BY <1>1, <2>3, <3>1, SeqEqual
    <3>2. QED
      BY <3>1
  <2>5. QED
    BY <1>1, <1>2, <2>1, <2>2, <2>3, <2>4 DEF IsPrefix
<1>3. CASE ~(m <= n)
  BY <1>1, <1>3 DEF IsPrefix
<1>4. QED
  BY <1>2, <1>3

LEMMA PrefixOn ==
  ASSUME NEW S, NEW s \in Seq(S), NEW t \in Seq(S), NEW u \in Seq(S), IsPrefix(s, t), IsPrefix(t, u)
  PROVE  IsPrefix(s, u)
<1>1. PICK l \in Nat, m \in Nat, n \in Nat : l = Len(s) /\ m = Len(t) /\ n = Len(u)
  OBVIOUS
<1>2. l <= m /\ \A i \in 1..l : s[i] = t[i]
  BY <1>1, PrefixIs
<1>3. m <= n /\ \A i \in 1..m : t[i] = u[i]
  BY <1>1, PrefixIs
<1>4. l <= n /\ \A i \in 1..l : s[i] = u[i]
  BY <1>2, <1>3
<1>5. QED
  BY <1>1, <1>4, PrefixIs

LEMMA PrefixWhen ==
  ASSUME NEW S
  PROVE  \A x, y \in Seq(S) : Len(x) <= Len(y) /\ (\A i \in 1..Len(x) : x[i] = y[i]) => IsPrefix(x, y)
<1>1. SUFFICES ASSUME NEW x \in Seq(S), NEW y \in Seq(S), Len(x) <= Len(y), \A i \in 1..Len(x) : x[i] = y[i]
               PROVE  IsPrefix(x, y)
  OBVIOUS
<1>2. QED
  BY <1>1, PrefixIs

LEMMA PrefixSelf ==
  ASSUME NEW S, NEW s \in Seq(S)
  PROVE  IsPrefix(s, s) /\ IsPrefix(<<>>, s)
<1>1. PICK n \in Nat : n = Len(s)
  OBVIOUS
<1>2. IsPrefix(s, s)
  BY <1>1, PrefixWhen
<1>3. <<>> \in Seq(S) /\ Len(<<>>) = 0
  OBVIOUS
<1>4. Len(<<>>) <= Len(s) /\ \A i \in 1..Len(<<>>) : <<>>[i] = s[i]
  BY <1>1, <1>3
<1>5. IsPrefix(<<>>, s)
  BY <1>3, <1>4, PrefixWhen, Zenon
<1>6. QED
  BY <1>2, <1>5

LEMMA PrefixMore ==
  ASSUME NEW S, NEW s \in Seq(S), NEW e \in S
  PROVE  IsPrefix(s, Append(s, e))
<1>1. PICK n \in Nat : n = Len(s)
  OBVIOUS
<1>2. /\ Append(s, e) \in Seq(S) /\ Len(Append(s, e)) = n + 1
      /\ \A i \in 1..n : Append(s, e)[i] = s[i]
  BY <1>1
<1>3. Len(s) <= Len(Append(s, e)) /\ \A i \in 1..Len(s) : s[i] = Append(s, e)[i]
  BY <1>1, <1>2
<1>4. QED
  BY <1>2, <1>3, PrefixWhen, Zenon

-----------------------------------------------------------------------------
(* Copies of the store *)

Logs(b) == b.atts \in Seq(Rows) /\ b.stmts \in Seq(Statements) /\ b.sealed \in Nat

LEMMA AheadOn ==
  ASSUME NEW b, NEW c, NEW d, Logs(b), Logs(c), Logs(d), Ahead(b, c), Ahead(c, d)
  PROVE  Ahead(b, d)
<1>1. IsPrefix(b.atts, d.atts)
  BY PrefixOn DEF Logs, Ahead
<1>2. IsPrefix(b.stmts, d.stmts)
  BY PrefixOn DEF Logs, Ahead
<1>3. b.sealed <= d.sealed
  BY DEF Logs, Ahead
<1>4. QED
  BY <1>1, <1>2, <1>3 DEF Ahead

LEMMA AheadItself ==
  ASSUME NEW b, Logs(b)
  PROVE  Ahead(b, b) /\ Ahead(Copy(0, {}, <<>>, <<>>), b)
<1>1. Ahead(b, b)
  BY PrefixSelf DEF Logs, Ahead
<1>2. PICK none : none = Copy(0, {}, <<>>, <<>>)
  OBVIOUS
<1>3. none.atts = <<>> /\ none.stmts = <<>> /\ none.sealed = 0
  BY <1>2 DEF Copy
<1>4. Ahead(none, b)
  BY <1>3, PrefixSelf DEF Logs, Ahead
<1>5. QED
  BY <1>1, <1>2, <1>4

LEMMA SoundLogs ==
  ASSUME NEW b, StoreSound(b)
  PROVE  Logs(b)
BY DEF StoreSound, TrustLog, Logs

LEMMA SameRowsBack ==
  ASSUME NEW x, NEW y, SameRows(x, y)
  PROVE  SameRows(y, x)
<1>1. SUFFICES ASSUME NEW i \in DOMAIN y, NEW j \in DOMAIN x, y[i].hash = x[j].hash
               PROVE  i = j /\ \A k \in 1..i : y[k] = x[k]
  BY DEF SameRows
<1>2. j = i /\ \A k \in 1..j : x[k] = y[k]
  BY <1>1 DEF SameRows
<1>3. QED
  BY <1>2

\* A new row shares its hash with none.
LEMMA RowIsNew ==
  ASSUME NEW rows \in Seq(Rows), NEW f \in Nat, NEW r \in Rows, r.hash = f + 1, MadeBy(rows, f),
         NEW more, more = Append(rows, r)
  PROVE  /\ MadeBy(more, f + 1)
         /\ \A y : MadeBy(y, f) /\ SameRows(rows, y) => SameRows(more, y)
         /\ SameRows(rows, rows) => SameRows(more, more)
         /\ \A cosigns, had : Before(cosigns, f) /\ WasSeen(cosigns, rows, had) => WasSeen(cosigns, more, had)
<1>1. PICK n \in Nat : n = Len(rows)
  OBVIOUS
<1>2. /\ DOMAIN more = 1..(n + 1) /\ DOMAIN rows = 1..n
      /\ more[n + 1] = r /\ \A i \in 1..n : more[i] = rows[i]
  BY <1>1, RowMore
<1>3. \A i \in 1..n : rows[i].hash \in 1..f
  BY <1>2 DEF MadeBy
<1>4. ASSUME NEW i \in 1..(n + 1) PROVE more[i].hash \in 1..(f + 1) /\ (i = n + 1 \/ (i \in 1..n /\ more[i].hash \in 1..f))
  <2>1. CASE i = n + 1
    BY <1>2, <2>1
  <2>2. CASE i # n + 1
    <3>1. i \in 1..n
      BY <2>2
    <3>2. QED
      BY <1>2, <1>3, <3>1
  <2>3. QED
    BY <2>1, <2>2
<1>5. MadeBy(more, f + 1)
  BY <1>2, <1>4 DEF MadeBy
<1>6. ASSUME NEW y, MadeBy(y, f), SameRows(rows, y) PROVE SameRows(more, y)
  <2>1. SUFFICES ASSUME NEW i \in 1..(n + 1), NEW j \in DOMAIN y, more[i].hash = y[j].hash
                 PROVE  i = j /\ \A k \in 1..i : more[k] = y[k]
    BY <1>2 DEF SameRows
  <2>2. y[j].hash \in 1..f
    BY <1>6 DEF MadeBy
  <2>3. i \in 1..n
    BY <1>2, <1>4, <2>1, <2>2
  <2>4. rows[i].hash = y[j].hash
    BY <1>2, <2>1, <2>3
  <2>5. i = j /\ \A k \in 1..i : rows[k] = y[k]
    BY <1>2, <1>6, <2>3, <2>4 DEF SameRows
  <2>6. \A k \in 1..i : k \in 1..n
    BY <2>3
  <2>7. QED
    BY <1>2, <2>5, <2>6
<1>7. ASSUME SameRows(rows, rows) PROVE SameRows(more, more)
  <2>1. SUFFICES ASSUME NEW i \in 1..(n + 1), NEW j \in 1..(n + 1), more[i].hash = more[j].hash
                 PROVE  i = j
    BY <1>2 DEF SameRows
  <2>2. CASE i = n + 1 /\ j # n + 1
    BY <1>2, <1>4, <2>1, <2>2
  <2>3. CASE j = n + 1 /\ i # n + 1
    BY <1>2, <1>4, <2>1, <2>3
  <2>4. CASE i # n + 1 /\ j # n + 1
    <3>1. i \in 1..n /\ j \in 1..n
      BY <2>4
    <3>2. QED
      BY <1>2, <1>7, <2>1, <3>1 DEF SameRows
  <2>5. QED
    BY <2>2, <2>3, <2>4
<1>8. ASSUME NEW cosigns, NEW had, Before(cosigns, f), WasSeen(cosigns, rows, had) PROVE WasSeen(cosigns, more, had)
  <2>1. SUFFICES ASSUME NEW c \in cosigns, CosignHolds(more, c), NEW k \in 1..c.seq
                 PROVE  more[k] \in had
    BY DEF WasSeen
  <2>2. c.seq \in 1..(n + 1) /\ more[c.seq].hash = c.hash /\ c.hash \in 1..f
    BY <1>2, <1>8, <2>1 DEF CosignHolds, Before
  <2>3. c.seq \in 1..n
    BY <1>2, <1>4, <2>2
  <2>4. CosignHolds(rows, c)
    BY <1>2, <2>1, <2>3 DEF CosignHolds
  <2>5. rows[k] \in had
    BY <1>8, <2>1, <2>4 DEF WasSeen
  <2>6. k \in 1..n
    BY <2>3
  <2>7. QED
    BY <1>2, <2>5, <2>6
<1>9. QED
  BY <1>5, <1>6, <1>7, <1>8

LEMMA CopiesWith ==
  ASSUME NEW copies, NEW hash \in Nat, NEW had, CopiesSound(copies, hash, had),
         NEW b, NEW g \in Nat, hash <= g, NEW more, had \subseteq more,
         StoreSound(b), MadeBy(b.atts, g), Before(Cosigns(b.stmts), g), SameRows(b.atts, b.atts),
         \A c \in copies : SameRows(b.atts, c.atts),
         WasSeen(Cosigns(b.stmts), b.atts, more),
         \A c \in copies : WasSeen(Cosigns(b.stmts), c.atts, more) /\ WasSeen(Cosigns(c.stmts), b.atts, more)
  PROVE  CopiesSound(copies \cup {b}, g, more)
<1>1. ASSUME NEW c \in copies PROVE StoreSound(c) /\ MadeBy(c.atts, g) /\ Before(Cosigns(c.stmts), g)
  <2>1. StoreSound(c) /\ MadeBy(c.atts, hash) /\ Before(Cosigns(c.stmts), hash)
    BY <1>1 DEF CopiesSound
  <2>2. 1..hash \subseteq 1..g
    OBVIOUS
  <2>3. QED
    BY <2>1, <2>2 DEF MadeBy, Before
<1>2. ASSUME NEW c \in copies, NEW d \in copies PROVE SameRows(c.atts, d.atts) /\ WasSeen(Cosigns(c.stmts), d.atts, more)
  <2>1. SameRows(c.atts, d.atts) /\ WasSeen(Cosigns(c.stmts), d.atts, had)
    BY <1>2 DEF CopiesSound
  <2>2. QED
    BY <2>1 DEF WasSeen
<1>3. \A c \in copies : SameRows(c.atts, b.atts)
  BY SameRowsBack
<1>4. \A c \in copies \cup {b} : StoreSound(c) /\ MadeBy(c.atts, g) /\ Before(Cosigns(c.stmts), g)
  BY <1>1
<1>5. \A c, d \in copies \cup {b} : SameRows(c.atts, d.atts) /\ WasSeen(Cosigns(c.stmts), d.atts, more)
  BY <1>2, <1>3
<1>6. QED
  BY <1>4, <1>5 DEF CopiesSound

LEMMA FewerCopies ==
  ASSUME NEW copies, NEW hash, NEW had, CopiesSound(copies, hash, had), NEW some, some \subseteq copies
  PROVE  CopiesSound(some, hash, had)
BY DEF CopiesSound

-----------------------------------------------------------------------------
(* What holds of the store as it is now *)

LEMMA OfNow ==
  /\ Now.sealed = sealed /\ Now.receipts = receipts /\ Now.stmts = stmts /\ Now.atts = atts
  /\ Now \in Copies /\ \A n \in DOMAIN backups : backups[n] \in Copies
BY DEF Now, Copy, Copies

LEMMA NowSound ==
  ASSUME SgInv
  PROVE  /\ sealed \in Nat /\ receipts \subseteq Nat /\ TrustLog(stmts) /\ atts \in Seq(Rows) /\ Linked(atts)
         /\ VoidsName(EvaluateTrust(stmts), atts)
         /\ Counting(EvaluateTrust(stmts), atts, sealed, receipts)
         /\ MadeBy(atts, fresh) /\ fresh \in Nat /\ Before(Cosigns(stmts), fresh)
         /\ SameRows(atts, atts) /\ Logs(Now)
<1>1. StoreSound(Now) /\ MadeBy(Now.atts, fresh) /\ Before(Cosigns(Now.stmts), fresh) /\ SameRows(Now.atts, Now.atts)
  BY OfNow DEF SgInv, CopiesSound
<1>2. fresh \in Nat
  BY DEF SgInv, SgTyped
<1>3. Logs(Now)
  BY <1>1, SoundLogs
<1>4. QED
  BY <1>1, <1>2, <1>3, OfNow DEF StoreSound

LEMMA WithNow ==
  ASSUME SgInv, NEW c \in Copies
  PROVE  /\ StoreSound(c) /\ MadeBy(c.atts, fresh) /\ SameRows(atts, c.atts) /\ SameRows(c.atts, atts)
         /\ WasSeen(Cosigns(stmts), c.atts, witnessed) /\ WasSeen(Cosigns(c.stmts), atts, witnessed)
BY OfNow DEF SgInv, CopiesSound

LEMMA NewestLogs ==
  ASSUME SgInv
  PROVE  Logs(Newest) /\ (backups # <<>> => Len(backups) \in DOMAIN backups /\ Newest = backups[Len(backups)])
<1>1. CASE backups = <<>>
  BY <1>1, NothingStored, SoundLogs DEF Newest
<1>2. CASE backups # <<>>
  <2>1. Len(backups) \in DOMAIN backups
    <3>1. PICK n \in Nat : n = Len(backups)
      BY DEF SgInv, SgTyped
    <3>2. n # 0 /\ DOMAIN backups = 1..n
      BY <1>2, <3>1 DEF SgInv, SgTyped
    <3>3. QED
      BY <3>1, <3>2
  <2>2. Newest = backups[Len(backups)]
    BY <1>2 DEF Newest
  <2>3. StoreSound(Newest)
    BY <2>1, <2>2, OfNow, WithNow
  <2>4. QED
    BY <2>1, <2>2, <2>3, SoundLogs
<1>3. QED
  BY <1>1, <1>2

LEMMA CopiesAfter ==
  ASSUME NEW copies, Copies' \subseteq copies, CopiesSound(copies, fresh', witnessed')
  PROVE  CopiesSound(Copies, fresh, witnessed)'
BY FewerCopies DEF CopiesSound

\* The store moves on by one step.
LEMMA NowMoves ==
  ASSUME SgInv, NEW b, b = Now', NEW g \in Nat, fresh <= g, NEW more, witnessed \subseteq more,
         fresh' = g, witnessed' = more, UNCHANGED backups,
         StoreSound(b), MadeBy(b.atts, g), Before(Cosigns(b.stmts), g), SameRows(b.atts, b.atts),
         \A c \in Copies : SameRows(b.atts, c.atts),
         WasSeen(Cosigns(b.stmts), b.atts, more),
         \A c \in Copies : WasSeen(Cosigns(b.stmts), c.atts, more) /\ WasSeen(Cosigns(c.stmts), b.atts, more)
  PROVE  CopiesSound(Copies, fresh, witnessed)'
<1>1. PICK copies : copies = Copies
  OBVIOUS
<1>2. CopiesSound(copies, fresh, witnessed) /\ fresh \in Nat
  BY <1>1 DEF SgInv, SgTyped
<1>3. CopiesSound(copies \cup {b}, g, more)
  BY <1>1, <1>2, CopiesWith
<1>4. Copies' \subseteq copies \cup {b}
  BY <1>1 DEF Copies
<1>5. QED
  BY <1>3, <1>4, CopiesAfter

\* What the witness has seen is still a beginning of what there is.
LEMMA SeenMoves ==
  ASSUME SgInv, UNCHANGED <<seen, alarm, restored, backups>>, Ahead(Now, Now'), Logs(Now')
  PROVE  SeenSound'
<1>1. PICK b : b = Now
  OBVIOUS
<1>2. PICK d : d = Now'
  OBVIOUS
<1>3. PICK last : last = Newest
  OBVIOUS
<1>4. Logs(last) /\ Logs(b) /\ Logs(d)
  BY <1>1, <1>2, <1>3, NewestLogs, NowSound
<1>5. restored \/ Ahead(last, d)
  <2>1. restored \/ Ahead(last, b)
    BY <1>1, <1>3 DEF SgInv, SeenSound
  <2>2. QED
    BY <1>1, <1>2, <1>4, <2>1, AheadOn
<1>6. Newest' = last
  BY <1>3 DEF Newest
<1>7. restored \/ Ahead(seen, last)
  BY <1>3 DEF SgInv, SeenSound
<1>8. QED
  BY <1>2, <1>5, <1>6, <1>7 DEF SgInv, SeenSound

-----------------------------------------------------------------------------
(* The ledger, the roots and the rows *)

\* More blocks or more receipts.
LEMMA LedgerMoves ==
  ASSUME SgInv, sealed' \in Nat, sealed <= sealed', receipts \subseteq receipts', receipts' \subseteq Nat,
         UNCHANGED <<stmts, atts, fresh, witnessed, backups>>, UNCHANGED <<seen, alarm, restored>>
  PROVE  CopiesSound(Copies, fresh, witnessed)' /\ SeenSound'
<1>1. PICK b : b = Now'
  OBVIOUS
<1>2. b.sealed = sealed' /\ b.receipts = receipts' /\ b.stmts = stmts /\ b.atts = atts
  BY <1>1 DEF Now, Copy
<1>3. StoreSound(b)
  <2>1. Counting(EvaluateTrust(stmts), atts, sealed', receipts')
    BY NowSound, LedgerGrows
  <2>2. QED
    BY <1>2, <2>1, NowSound DEF StoreSound
<1>4. WasSeen(Cosigns(stmts), atts, witnessed)
  BY OfNow, WithNow
<1>5. \A c \in Copies : SameRows(atts, c.atts) /\ WasSeen(Cosigns(stmts), c.atts, witnessed) /\ WasSeen(Cosigns(c.stmts), atts, witnessed)
  BY WithNow
<1>6. CopiesSound(Copies, fresh, witnessed)'
  BY <1>1, <1>2, <1>3, <1>4, <1>5, NowSound, NowMoves
<1>7. Ahead(Now, b)
  <2>1. IsPrefix(atts, atts) /\ IsPrefix(stmts, stmts)
    BY NowSound, OfNow, PrefixSelf DEF Logs
  <2>2. QED
    BY <1>2, <2>1, OfNow DEF Ahead
<1>8. Logs(b)
  BY <1>3, SoundLogs
<1>9. QED
  BY <1>1, <1>6, <1>7, <1>8, SeenMoves

LEMMA SealKeeps ==
  ASSUME SgInv, Seal
  PROVE  SgInv'
<1>1. sealed' \in Nat /\ sealed <= sealed'
  BY NowSound DEF Seal
<1>2. CopiesSound(Copies, fresh, witnessed)' /\ SeenSound'
  BY <1>1, NowSound, LedgerMoves DEF Seal, outside
<1>3. SgTyped'
  BY DEF SgInv, SgTyped, Seal, outside
<1>4. QED
  BY <1>2, <1>3 DEF SgInv

LEMMA IssueKeeps ==
  ASSUME SgInv, IssueReceipt
  PROVE  SgInv'
<1>1. PICK h \in 1..sealed : receipts' = receipts \cup {h}
  BY DEF IssueReceipt
<1>2. receipts' \subseteq Nat /\ receipts \subseteq receipts'
  BY <1>1, NowSound
<1>3. CopiesSound(Copies, fresh, witnessed)' /\ SeenSound'
  BY <1>2, NowSound, LedgerMoves DEF IssueReceipt, outside
<1>4. SgTyped'
  BY DEF SgInv, SgTyped, IssueReceipt, outside
<1>5. QED
  BY <1>3, <1>4 DEF SgInv

\* A statement stored by a root: what it voids or cosigns is a row that is there.
LEMMA TrustStored ==
  ASSUME SgInv, NEW s \in Statements, Keyed(s), Stored(s), NEW more, witnessed \subseteq more, witnessed' = more,
         UNCHANGED <<sealed, receipts, atts, fresh, backups>>,
         s.kind = "cosign" =>
           \A c \in Copies : CosignHolds(c.atts, [seq |-> s.arg, hash |-> s.hash]) =>
                               \A k \in 1..s.arg : c.atts[k] \in more
  PROVE  CopiesSound(Copies, fresh, witnessed)' /\ Ahead(Now, Now') /\ Logs(Now')
<1>1. PICK b : b = Now'
  OBVIOUS
<1>2. PICK new : new = Append(stmts, s)
  OBVIOUS
<1>3. b.sealed = sealed /\ b.receipts = receipts /\ b.stmts = new /\ b.atts = atts
  BY <1>1, <1>2 DEF Now, Copy, Stored
<1>4. PICK t : t = EvaluateTrust(stmts)
  OBVIOUS
<1>5. PICK u : u = EvaluateTrust(new)
  OBVIOUS
<1>6. stmts \in Seq(Statements) /\ Trusted(t)
  BY <1>4, NowSound, TrustOfLog DEF TrustLog
<1>7. u = AfterStatement(t, s)
  BY <1>2, <1>4, <1>5, <1>6, TrustOfMore
<1>8. Counts(t, s)
  BY <1>4 DEF Stored
<1>9. Counted(t, s, u)
  BY <1>6, <1>7, <1>8, CountedStatement
<1>10. VoidsName(t, atts) /\ Counting(t, atts, sealed, receipts)
  BY <1>4, NowSound
<1>11. VoidsName(u, atts)
  <2>1. s.kind = "void" => s.arg \in DOMAIN atts /\ atts[s.arg].hash = s.hash
    BY DEF Stored
  <2>2. QED
    BY <1>9, <1>10, <2>1 DEF VoidsName, Counted
<1>12. Counting(u, atts, sealed, receipts)
  BY <1>9, <1>10, <1>11, NowSound, StatementStored DEF Counted
<1>13. TrustLog(new) /\ IsPrefix(stmts, new)
  <2>1. PICK n \in Nat : n = Len(stmts)
    BY <1>6
  <2>2. /\ new \in Seq(Statements) /\ DOMAIN new = 1..(n + 1) /\ DOMAIN stmts = 1..n
        /\ new[n + 1] = s /\ \A i \in 1..n : new[i] = stmts[i]
    BY <1>2, <1>6, <2>1
  <2>3. \A i \in 1..n : Keyed(stmts[i])
    BY <2>2, NowSound DEF TrustLog
  <2>4. \A i \in 1..(n + 1) : i = n + 1 \/ i \in 1..n
    OBVIOUS
  <2>5. TrustLog(new)
    BY <2>2, <2>3, <2>4 DEF TrustLog
  <2>6. IsPrefix(stmts, new)
    BY <1>2, <1>6, PrefixMore
  <2>7. QED
    BY <2>5, <2>6
<1>14. StoreSound(b)
  BY <1>3, <1>5, <1>11, <1>12, <1>13, NowSound DEF StoreSound
<1>15. Before(u.cosigns, fresh)
  <2>1. s.kind = "cosign" => s.hash \in 1..fresh
    <3>1. s.kind = "cosign" => s.arg \in DOMAIN atts /\ atts[s.arg].hash = s.hash
      BY DEF Stored, CosignHolds
    <3>2. QED
      BY <3>1, NowSound DEF MadeBy
  <2>2. Before(t.cosigns, fresh)
    BY <1>4, NowSound DEF Cosigns
  <2>3. QED
    BY <1>9, <2>1, <2>2 DEF Before, Counted
<1>16. \A c \in Copies : WasSeen(u.cosigns, c.atts, more) /\ WasSeen(Cosigns(c.stmts), atts, more)
  <2>1. SUFFICES ASSUME NEW c \in Copies PROVE WasSeen(u.cosigns, c.atts, more) /\ WasSeen(Cosigns(c.stmts), atts, more)
    OBVIOUS
  <2>2. WasSeen(t.cosigns, c.atts, witnessed) /\ WasSeen(Cosigns(c.stmts), atts, witnessed)
    BY <1>4, <2>1, WithNow DEF Cosigns
  <2>3. WasSeen(t.cosigns, c.atts, more) /\ WasSeen(Cosigns(c.stmts), atts, more)
    BY <2>2 DEF WasSeen
  <2>4. s.kind = "cosign" => WasSeen({[seq |-> s.arg, hash |-> s.hash]}, c.atts, more)
    BY <2>1 DEF WasSeen
  <2>5. WasSeen(u.cosigns, c.atts, more)
    BY <1>9, <2>3, <2>4 DEF WasSeen, Counted
  <2>6. QED
    BY <2>3, <2>5
<1>17. WasSeen(u.cosigns, atts, more) /\ \A c \in Copies : SameRows(atts, c.atts)
  BY <1>16, OfNow, WithNow
<1>18. CopiesSound(Copies, fresh, witnessed)'
  <2>1. Cosigns(b.stmts) = u.cosigns
    BY <1>3, <1>5 DEF Cosigns
  <2>2. QED
    BY <1>1, <1>3, <1>14, <1>15, <1>16, <1>17, <2>1, NowSound, NowMoves
<1>19. Ahead(Now, b)
  <2>1. IsPrefix(atts, atts)
    BY NowSound, PrefixSelf
  <2>2. QED
    BY <1>3, <1>13, <2>1, OfNow, NowSound DEF Ahead
<1>20. QED
  BY <1>1, <1>14, <1>18, <1>19, SoundLogs

LEMMA RowAt ==
  ASSUME NEW rows \in Seq(Rows), NEW i \in DOMAIN rows
  PROVE  i \in Nat /\ rows[i] \in Rows /\ rows[i].hash \in Nat
<1>1. PICK n \in Nat : n = Len(rows)
  OBVIOUS
<1>2. i \in 1..n
  BY <1>1
<1>3. rows[i] \in Rows
  BY <1>1, <1>2
<1>4. QED
  BY <1>2, <1>3 DEF Rows

LEMMA RootStatementIs ==
  ASSUME SgInv, RootStatement
  PROVE  \E s \in Statements : Keyed(s) /\ Stored(s) /\ s.kind # "cosign"
<1>1. PICK by \in Roots :
        \/ \E k \in SigningKeys : Stored(Statement("key", k, Len(atts) + 1, Genesis, by))
        \/ \E k \in SigningKeys, n \in {Len(atts) - 1, Len(atts)} :
             Stored(Statement("revoke", k, n, Genesis, by))
        \/ \E r \in LaterRoots : Stored(Statement("root_add", r, 0, Genesis, by))
        \/ \E i \in DOMAIN atts : Stored(Statement("void", by, i, atts[i].hash, by))
  BY DEF RootStatement
<1>2. PICK m \in Nat : m = Len(atts)
  BY NowSound
<1>3. ASSUME NEW kind \in StatementKinds, NEW key \in SigningKeys \cup Roots, NEW arg \in Int, NEW hash \in Nat,
             Stored(Statement(kind, key, arg, hash, by)), kind # "cosign",
             kind \in {"key", "revoke"} => key \in SigningKeys
      PROVE  \E s \in Statements : Keyed(s) /\ Stored(s) /\ s.kind # "cosign"
  <2>1. PICK s : s = Statement(kind, key, arg, hash, by)
    OBVIOUS
  <2>2. s \in Statements /\ Keyed(s) /\ s.kind # "cosign"
    BY <1>1, <1>3, <2>1 DEF Statement, Statements, Keyed
  <2>3. QED
    BY <1>3, <2>1, <2>2
<1>4. ASSUME NEW k \in SigningKeys, Stored(Statement("key", k, Len(atts) + 1, Genesis, by))
      PROVE  \E s \in Statements : Keyed(s) /\ Stored(s) /\ s.kind # "cosign"
  BY <1>2, <1>3, <1>4 DEF StatementKinds, Genesis
<1>5. ASSUME NEW k \in SigningKeys, NEW n \in {Len(atts) - 1, Len(atts)}, Stored(Statement("revoke", k, n, Genesis, by))
      PROVE  \E s \in Statements : Keyed(s) /\ Stored(s) /\ s.kind # "cosign"
  BY <1>2, <1>3, <1>5 DEF StatementKinds, Genesis
<1>6. ASSUME NEW r \in LaterRoots, Stored(Statement("root_add", r, 0, Genesis, by))
      PROVE  \E s \in Statements : Keyed(s) /\ Stored(s) /\ s.kind # "cosign"
  BY <1>3, <1>6 DEF StatementKinds, Genesis, Roots
<1>7. ASSUME NEW i \in DOMAIN atts, Stored(Statement("void", by, i, atts[i].hash, by))
      PROVE  \E s \in Statements : Keyed(s) /\ Stored(s) /\ s.kind # "cosign"
  <2>1. i \in Int /\ atts[i].hash \in Nat
    BY <1>7, NowSound, RowAt
  <2>2. QED
    BY <1>1, <1>3, <1>7, <2>1 DEF StatementKinds
<1>8. QED
  BY <1>1, <1>4, <1>5, <1>6, <1>7

LEMMA RootKeeps ==
  ASSUME SgInv, RootStatement
  PROVE  SgInv'
<1>1. PICK s \in Statements : Keyed(s) /\ Stored(s) /\ s.kind # "cosign"
  BY RootStatementIs
<1>2. UNCHANGED <<sealed, receipts, atts, fresh, pass>> /\ UNCHANGED <<seen, alarm, restored, witnessed, backups>>
  BY DEF RootStatement, outside
<1>3. CopiesSound(Copies, fresh, witnessed)' /\ Ahead(Now, Now') /\ Logs(Now')
  BY <1>1, <1>2, TrustStored
<1>4. SeenSound'
  BY <1>2, <1>3, SeenMoves
<1>5. SgTyped'
  BY <1>2 DEF SgInv, SgTyped
<1>6. QED
  BY <1>3, <1>4, <1>5 DEF SgInv

\* One more row, the next, with a hash of its own; and if it is signed, it counts.
LEMMA RowAppended ==
  ASSUME SgInv, NEW r \in Rows, r.hash = fresh + 1, r.prev = HeadHash(atts),
         r.good => Justified(EvaluateTrust(stmts), Append(atts, r), Len(atts) + 1, sealed, receipts),
         atts' = Append(atts, r), fresh' = fresh + 1,
         UNCHANGED <<sealed, receipts, stmts, seen, alarm, restored, witnessed, backups>>
  PROVE  CopiesSound(Copies, fresh, witnessed)' /\ SeenSound'
<1>1. PICK b : b = Now'
  OBVIOUS
<1>2. PICK more : more = Append(atts, r)
  OBVIOUS
<1>3. b.sealed = sealed /\ b.receipts = receipts /\ b.stmts = stmts /\ b.atts = more
  BY <1>1, <1>2 DEF Now, Copy
<1>4. PICK n \in Nat : n = Len(atts)
  BY NowSound
<1>5. PICK t : t = EvaluateTrust(stmts)
  OBVIOUS
<1>6. /\ more \in Seq(Rows) /\ DOMAIN more = 1..(n + 1) /\ DOMAIN atts = 1..n
      /\ more[n + 1] = r /\ \A i \in 1..n : more[i] = atts[i]
  BY <1>2, <1>4, NowSound, RowMore
<1>7. StoreSound(b)
  <2>1. Linked(more)
    BY <1>2, NowSound, RowLinked
  <2>2. VoidsName(t, more)
    BY <1>5, <1>6, NowSound DEF VoidsName
  <2>3. Counting(t, more, sealed, receipts)
    <3>1. Counting(t, atts, sealed, receipts)
      BY <1>5, NowSound
    <3>2. r.good => Justified(t, more, n + 1, sealed, receipts)
      BY <1>2, <1>4, <1>5
    <3>3. QED
      BY <1>2, <1>4, <3>1, <3>2, NowSound, RowCounts
  <2>4. QED
    BY <1>3, <1>5, <1>6, <2>1, <2>2, <2>3, NowSound DEF StoreSound
<1>8. /\ MadeBy(more, fresh + 1)
      /\ \A y : MadeBy(y, fresh) /\ SameRows(atts, y) => SameRows(more, y)
      /\ SameRows(atts, atts) => SameRows(more, more)
      /\ \A cosigns, had : Before(cosigns, fresh) /\ WasSeen(cosigns, atts, had) => WasSeen(cosigns, more, had)
  BY <1>2, NowSound, RowIsNew
<1>9. SameRows(more, more) /\ Before(Cosigns(stmts), fresh + 1)
  <2>1. fresh \in Nat /\ 1..fresh \subseteq 1..(fresh + 1)
    BY NowSound
  <2>2. QED
    BY <1>8, <2>1, NowSound DEF Before
<1>10. ASSUME NEW c \in Copies
       PROVE  SameRows(more, c.atts) /\ WasSeen(Cosigns(stmts), c.atts, witnessed) /\ WasSeen(Cosigns(c.stmts), more, witnessed)
  <2>1. Before(Cosigns(c.stmts), fresh)
    BY <1>10 DEF SgInv, CopiesSound
  <2>2. QED
    BY <1>8, <1>10, <2>1, WithNow
<1>11. WasSeen(Cosigns(stmts), more, witnessed)
  BY <1>10, OfNow
<1>12. CopiesSound(Copies, fresh, witnessed)'
  <2>1. fresh \in Nat /\ fresh + 1 \in Nat /\ fresh <= fresh + 1
    BY NowSound
  <2>2. MadeBy(b.atts, fresh + 1) /\ Before(Cosigns(b.stmts), fresh + 1) /\ SameRows(b.atts, b.atts) /\ WasSeen(Cosigns(b.stmts), b.atts, witnessed)
    BY <1>3, <1>8, <1>9, <1>11
  <2>3. \A c \in Copies : SameRows(b.atts, c.atts) /\ WasSeen(Cosigns(b.stmts), c.atts, witnessed) /\ WasSeen(Cosigns(c.stmts), b.atts, witnessed)
    BY <1>3, <1>10
  <2>4. QED
    BY <1>1, <1>7, <2>1, <2>2, <2>3, NowMoves
<1>13. Ahead(Now, b)
  <2>1. IsPrefix(atts, more)
    BY <1>2, NowSound, PrefixMore
  <2>2. IsPrefix(stmts, stmts)
    BY NowSound, PrefixSelf DEF TrustLog
  <2>3. QED
    BY <1>3, <2>1, <2>2, OfNow, NowSound DEF Ahead
<1>14. SeenSound'
  BY <1>1, <1>7, <1>13, SoundLogs, SeenMoves
<1>15. QED
  BY <1>12, <1>14

LEMMA HeadIsNat ==
  ASSUME NEW rows \in Seq(Rows)
  PROVE  HeadHash(rows) \in Nat
<1>1. PICK n \in Nat : n = Len(rows)
  OBVIOUS
<1>2. CASE n = 0
  BY <1>1, <1>2 DEF HeadHash, LinkOf, Genesis
<1>3. CASE n # 0
  <2>1. n \in DOMAIN rows
    BY <1>1, <1>3
  <2>2. HeadHash(rows) = rows[n].hash
    BY <1>1, <1>3 DEF HeadHash, LinkOf
  <2>3. QED
    BY <2>1, <2>2, RowAt
<1>4. QED
  BY <1>2, <1>3

LEMMA ParkKeeps ==
  ASSUME SgInv, ParkRow
  PROVE  SgInv'
<1>1. PICK k \in SigningKeys, h \in 1..sealed :
        atts' = Append(atts, Row("block", h, Genesis, k, FALSE, HeadHash(atts), fresh + 1))
  BY DEF ParkRow
<1>2. UNCHANGED <<sealed, receipts, stmts, pass>> /\ UNCHANGED <<seen, alarm, restored, witnessed, backups>> /\ fresh' = fresh + 1
  BY DEF ParkRow, outside
<1>3. PICK r : r = Row("block", h, Genesis, k, FALSE, HeadHash(atts), fresh + 1)
  OBVIOUS
<1>4. r \in Rows /\ r.hash = fresh + 1 /\ r.prev = HeadHash(atts) /\ r.good = FALSE
  <2>1. h \in Int /\ fresh + 1 \in Nat /\ HeadHash(atts) \in Nat
    BY <1>1, NowSound, HeadIsNat
  <2>2. QED
    BY <1>3, <2>1 DEF Row, Rows, RowKinds, Genesis
<1>5. CopiesSound(Copies, fresh, witnessed)' /\ SeenSound'
  BY <1>1, <1>2, <1>3, <1>4, RowAppended
<1>6. SgTyped'
  BY <1>2, NowSound DEF SgInv, SgTyped
<1>7. QED
  BY <1>5, <1>6 DEF SgInv

-----------------------------------------------------------------------------
(* Backups and the witness *)

\* Backups are records of the four parts of the store.
LEMMA BackupIs ==
  ASSUME SgInv, NEW n \in DOMAIN backups
  PROVE  backups[n] = Copy(backups[n].sealed, backups[n].receipts, backups[n].stmts, backups[n].atts)
<1>1. PICK m \in Nat : m = Len(backups)
  BY DEF SgInv, SgTyped
<1>2. n \in 1..m
  BY <1>1 DEF SgInv, SgTyped
<1>3. PICK S : S = [sealed : Nat, receipts : SUBSET Nat, stmts : Seq(Statements), atts : Seq(Rows)]
  OBVIOUS
<1>4. backups \in Seq(S)
  BY <1>3 DEF SgInv, SgTyped
<1>5. backups[n] \in S
  BY <1>1, <1>2, <1>4
<1>6. QED
  BY <1>3, <1>5 DEF Copy

LEMMA BackupKeeps ==
  ASSUME SgInv, TakeBackup
  PROVE  SgInv'
<1>1. PICK b : b = Now
  OBVIOUS
<1>2. backups' = Append(backups, b) /\ UNCHANGED <<sealed, receipts, stmts, atts, fresh>> /\ UNCHANGED pass
      /\ UNCHANGED <<seen, alarm, restored, witnessed>>
  BY <1>1 DEF TakeBackup, store, Now, Copy
<1>3. PICK m \in Nat : m = Len(backups)
  BY DEF SgInv, SgTyped
<1>4. /\ DOMAIN backups = 1..m /\ DOMAIN backups' = 1..(m + 1) /\ Len(backups') = m + 1
      /\ backups'[m + 1] = b /\ \A n \in 1..m : backups'[n] = backups[n]
  BY <1>2, <1>3 DEF SgInv, SgTyped
<1>5. Now' = b
  BY <1>1, <1>2 DEF Now
<1>6. PICK copies : copies = Copies
  OBVIOUS
<1>7. Copies' \subseteq copies
  <2>1. \A n \in 1..(m + 1) : n = m + 1 \/ n \in 1..m
    OBVIOUS
  <2>2. b \in copies /\ \A n \in 1..m : backups[n] \in copies
    BY <1>1, <1>4, <1>6, OfNow
  <2>3. \A n \in DOMAIN backups' : backups'[n] \in copies
    BY <1>4, <2>1, <2>2
  <2>4. QED
    BY <1>5, <2>2, <2>3 DEF Copies
<1>8. CopiesSound(Copies, fresh, witnessed)'
  BY <1>2, <1>6, <1>7, CopiesAfter DEF SgInv
<1>9. SeenSound'
  <2>1. Newest' = b
    <3>1. backups' # <<>>
      BY <1>4
    <3>2. QED
      BY <1>4, <3>1 DEF Newest
  <2>2. PICK last : last = Newest
    OBVIOUS
  <2>3. Logs(last) /\ Logs(b) /\ seen.atts \in Seq(Rows) /\ seen.stmts \in Seq(Statements) /\ seen.sealed \in Nat
    BY <1>1, <2>2, NewestLogs, NowSound DEF SgInv, SeenSound
  <2>4. restored \/ (Ahead(seen, last) /\ Ahead(last, b))
    BY <1>1, <2>2 DEF SgInv, SeenSound
  <2>5. restored \/ Ahead(seen, b)
    BY <2>3, <2>4, AheadOn DEF Logs
  <2>6. Ahead(b, b)
    BY <2>3, AheadItself
  <2>7. QED
    BY <1>2, <1>5, <2>1, <2>5, <2>6 DEF SgInv, SeenSound
<1>10. SgTyped'
  <2>1. b \in [sealed : Nat, receipts : SUBSET Nat, stmts : Seq(Statements), atts : Seq(Rows)]
    BY <1>1, NowSound DEF Now, Copy, TrustLog
  <2>2. QED
    BY <1>2, <2>1, AppendProperties DEF SgInv, SgTyped
<1>11. QED
  BY <1>8, <1>9, <1>10 DEF SgInv

LEMMA RestoreKeeps ==
  ASSUME SgInv, RestoreBackup
  PROVE  SgInv'
<1>1. PICK n \in DOMAIN backups :
        /\ sealed' = backups[n].sealed /\ receipts' = backups[n].receipts
        /\ stmts' = backups[n].stmts /\ atts' = backups[n].atts
        /\ restored' = TRUE /\ UNCHANGED <<fresh, pass, seen, alarm, witnessed, backups>>
  BY DEF RestoreBackup
<1>2. Now' = backups[n]
  BY <1>1, BackupIs DEF Now
<1>3. PICK copies : copies = Copies
  OBVIOUS
<1>4. Copies' \subseteq copies
  BY <1>1, <1>2, <1>3, OfNow DEF Copies
<1>5. CopiesSound(Copies, fresh, witnessed)'
  BY <1>1, <1>3, <1>4, CopiesAfter DEF SgInv
<1>6. SeenSound'
  BY <1>1 DEF SgInv, SeenSound
<1>7. SgTyped'
  BY <1>1 DEF SgInv, SgTyped
<1>8. QED
  BY <1>5, <1>6, <1>7 DEF SgInv

LEMMA LastIsNewest ==
  ASSUME SgInv, backups # <<>>
  PROVE  Last(backups) = Newest
BY DEF Last, Newest

\* The snapshot of an export is a beginning of it.
LEMMA SnapshotIs ==
  ASSUME NEW b, Logs(b), NEW n, NEW s, s = Snapshot(b, n)
  PROVE  Logs(s) /\ Ahead(s, b)
<1>1. s.stmts = b.stmts /\ s.atts = b.atts /\ s.sealed = b.sealed
  BY DEF Snapshot
<1>2. Ahead(b, b)
  BY AheadItself
<1>3. QED
  BY <1>1, <1>2 DEF Logs, Ahead

LEMMA VerifiesKeeps ==
  ASSUME SgInv, WitnessVerifies
  PROVE  SgInv'
<1>1. PICK last : last = Newest
  OBVIOUS
<1>2. backups # <<>> /\ Last(backups) = last
  BY <1>1, LastIsNewest DEF WitnessVerifies
<1>3. UNCHANGED <<sealed, receipts, stmts, atts, fresh>> /\ UNCHANGED pass /\ UNCHANGED <<restored, witnessed, backups>>
  BY DEF WitnessVerifies, store
<1>4. Copies' = Copies /\ Newest' = last /\ Now' = Now
  BY <1>1, <1>3 DEF Copies, Newest, Now
<1>5. CopiesSound(Copies, fresh, witnessed)'
  BY <1>3, <1>4 DEF SgInv, CopiesSound
<1>6. SgTyped'
  BY <1>3 DEF SgInv, SgTyped, WitnessVerifies
<1>7. SeenSound'
  <2>1. CASE Clean(last)
    <3>1. seen' = Snapshot(last, Cosigned(last)) /\ UNCHANGED alarm
      BY <1>2, <2>1 DEF WitnessVerifies
    <3>2. Logs(seen') /\ Ahead(seen', last)
      BY <1>1, <3>1, NewestLogs, SnapshotIs
    <3>3. QED
      BY <1>1, <1>3, <1>4, <3>1, <3>2 DEF SgInv, SeenSound, Logs
  <2>2. CASE ~Clean(last)
    <3>1. alarm' = (alarm \/ ~Extends(last)) /\ UNCHANGED seen
      BY <1>2, <2>2 DEF WitnessVerifies
    <3>2. restored \/ Extends(last)
      BY <1>1 DEF SgInv, SeenSound, Ahead, Extends
    <3>3. alarm' => restored
      BY <3>1, <3>2 DEF SgInv, SeenSound
    <3>4. QED
      BY <1>1, <1>3, <1>4, <3>1, <3>3 DEF SgInv, SeenSound
  <2>3. QED
    BY <2>1, <2>2
<1>8. QED
  BY <1>5, <1>6, <1>7 DEF SgInv

LEMMA MaxIsOf ==
  ASSUME NEW n \in Nat, NEW S, S \subseteq 1..n, S # {}
  PROVE  Max(S) \in S
<1> DEFINE T == {z \in 0..n : n - z \in S}
<1>1. T # {}
  <2>1. PICK x \in S : TRUE
    OBVIOUS
  <2>2. n - x \in 0..n /\ n - (n - x) = x
    BY <2>1
  <2>3. QED
    BY <2>1, <2>2
<1>2. PICK z \in T : \A y \in T : z <= y
  <2>1. T \subseteq Nat
    OBVIOUS
  <2> HIDE DEF T
  <2>2. QED
    BY <1>1, <2>1, LeastOf
<1>3. ASSUME NEW y \in S PROVE n - z >= y
  <2>1. n - y \in 0..n /\ n - (n - y) = y
    OBVIOUS
  <2>2. z <= n - y
    BY <1>2, <2>1
  <2>3. QED
    BY <2>1, <2>2
<1>4. \E x \in S : \A y \in S : x >= y
  BY <1>2, <1>3
<1>5. QED
  BY <1>4 DEF Max

LEMMA CosignsKeeps ==
  ASSUME SgInv, WitnessCosigns
  PROVE  SgInv'
<1>1. PICK b : b = Newest
  OBVIOUS
<1>2. backups # <<>> /\ Last(backups) = b
  BY <1>1, LastIsNewest DEF WitnessCosigns
<1>3. b \in Copies /\ Logs(b)
  BY <1>1, <1>2, NewestLogs, OfNow
<1>4. PICK n : n = Max(Checkpoints(b.atts))
  OBVIOUS
<1>5. n \in DOMAIN b.atts
  <2>1. PICK m \in Nat : m = Len(b.atts)
    BY <1>3 DEF Logs
  <2>2. Checkpoints(b.atts) \subseteq 1..m /\ Checkpoints(b.atts) # {}
    BY <1>2, <1>3, <2>1 DEF WitnessCosigns, Checkpoints, Logs
  <2>3. n \in Checkpoints(b.atts)
    BY <1>4, <2>2, MaxIsOf
  <2>4. QED
    BY <2>3 DEF Checkpoints
<1>6. n \in Nat /\ b.atts[n].hash \in Nat
  BY <1>3, <1>5, RowAt DEF Logs
<1>7. PICK root \in Roots : Stored(Statement("cosign", root, n, b.atts[n].hash, root))
  BY <1>2, <1>4 DEF WitnessCosigns
<1>8. /\ seen' = Snapshot(b, n) /\ witnessed' = witnessed \cup {b.atts[i] : i \in 1..n}
      /\ UNCHANGED <<sealed, receipts, atts, fresh, pass, backups, alarm, restored>>
  BY <1>2, <1>4 DEF WitnessCosigns
<1>9. PICK s : s = Statement("cosign", root, n, b.atts[n].hash, root)
  OBVIOUS
<1>10. s \in Statements /\ Keyed(s) /\ s.kind = "cosign" /\ s.arg = n /\ s.hash = b.atts[n].hash
  BY <1>6, <1>7, <1>9 DEF Statement, Statements, Keyed, StatementKinds
<1>11. PICK more : more = witnessed \cup {b.atts[i] : i \in 1..n}
  OBVIOUS
<1>12. ASSUME NEW c \in Copies, CosignHolds(c.atts, [seq |-> n, hash |-> b.atts[n].hash]), NEW k \in 1..n
       PROVE  c.atts[k] \in more
  <2>1. n \in DOMAIN c.atts /\ c.atts[n].hash = b.atts[n].hash
    BY <1>12 DEF CosignHolds
  <2>2. SameRows(b.atts, c.atts)
    BY <1>3, <1>12 DEF SgInv, CopiesSound
  <2>3. b.atts[k] = c.atts[k]
    BY <1>5, <1>12, <2>1, <2>2 DEF SameRows
  <2>4. QED
    BY <1>11, <1>12, <2>3
<1>13. CopiesSound(Copies, fresh, witnessed)' /\ Ahead(Now, Now') /\ Logs(Now')
  <2>1. Stored(s) /\ witnessed' = more /\ witnessed \subseteq more
    BY <1>7, <1>8, <1>9, <1>11
  <2>2. \A c \in Copies : CosignHolds(c.atts, [seq |-> s.arg, hash |-> s.hash]) => \A k \in 1..s.arg : c.atts[k] \in more
    BY <1>10, <1>12
  <2>3. QED
    BY <1>8, <1>10, <2>1, <2>2, TrustStored
<1>14. SeenSound'
  <2>1. PICK d : d = Now'
    OBVIOUS
  <2>2. PICK o : o = Now
    OBVIOUS
  <2>3. Newest' = b
    BY <1>1, <1>8 DEF Newest
  <2>4. Logs(seen') /\ Ahead(seen', b)
    BY <1>3, <1>8, SnapshotIs
  <2>5. restored \/ Ahead(b, o)
    BY <1>1, <2>2 DEF SgInv, SeenSound
  <2>6. restored \/ Ahead(b, d)
    BY <1>3, <1>13, <2>1, <2>2, <2>5, NowSound, AheadOn
  <2>7. QED
    BY <1>8, <2>1, <2>3, <2>4, <2>6 DEF SgInv, SeenSound, Logs
<1>15. SgTyped'
  BY <1>8 DEF SgInv, SgTyped
<1>16. QED
  BY <1>13, <1>14, <1>15 DEF SgInv

-----------------------------------------------------------------------------
(* The signers *)

\* A step that touches one pass, and nothing else.
LEMMA PassMoves ==
  ASSUME SgInv, NEW k \in SigningKeys, NEW p, IsPass(p), pass' = [pass EXCEPT ![k] = p],
         UNCHANGED <<sealed, receipts, stmts, atts, fresh>>, UNCHANGED <<seen, alarm, restored, witnessed, backups>>
  PROVE  SgInv'
<1>1. Copies' = Copies /\ Newest' = Newest /\ Now' = Now
  BY DEF Copies, Newest, Now
<1>2. CopiesSound(Copies, fresh, witnessed)' /\ SeenSound'
  BY <1>1 DEF SgInv, CopiesSound, SeenSound
<1>3. DOMAIN pass' = SigningKeys /\ \A q \in SigningKeys : IsPass(pass'[q])
  BY DEF SgInv, SgTyped
<1>4. SgTyped'
  BY <1>3 DEF SgInv, SgTyped
<1>5. QED
  BY <1>2, <1>4 DEF SgInv

LEMMA RestingIs == IsPass(Resting)
<1>1. PICK p : p = Resting
  OBVIOUS
<1>2. /\ p = [pc |-> p.pc, plan |-> p.plan, seq |-> p.seq, prev |-> p.prev, trusted |-> p.trusted, signed |-> p.signed]
      /\ p.trusted = 0
  BY <1>1 DEF Resting
<1>3. QED
  BY <1>1, <1>2 DEF IsPass

LEMMA PassOf ==
  ASSUME SgInv, NEW k \in SigningKeys
  PROVE  IsPass(pass[k])
BY DEF SgInv, SgTyped

LEMMA PlanKeeps ==
  ASSUME SgInv, NEW k \in SigningKeys, PlanPass(k)
  PROVE  SgInv'
<1>1. PICK plan : pass' = [pass EXCEPT ![k] = [Resting EXCEPT !.pc = "read", !.plan = plan,
                                                 !.seq = Len(atts) + 1, !.prev = HeadHash(atts)]]
  BY DEF PlanPass
<1>2. PICK p : p = [Resting EXCEPT !.pc = "read", !.plan = plan, !.seq = Len(atts) + 1, !.prev = HeadHash(atts)]
  OBVIOUS
<1>3. /\ p = [pc |-> p.pc, plan |-> p.plan, seq |-> p.seq, prev |-> p.prev, trusted |-> p.trusted, signed |-> p.signed]
      /\ p.trusted = 0
  BY <1>2 DEF Resting
<1>4. IsPass(p)
  BY <1>3 DEF IsPass
<1>5. QED
  BY <1>1, <1>2, <1>4, PassMoves DEF PlanPass, store, outside

LEMMA EndsKeeps ==
  ASSUME SgInv, NEW k \in SigningKeys, PassEnds(k)
  PROVE  SgInv'
BY RestingIs, PassMoves DEF PassEnds, StopPass, store, outside

LEMMA RefuseKeeps ==
  ASSUME SgInv, NEW k \in SigningKeys, RefuseReceipt(k)
  PROVE  SgInv'
<1>1. CASE Len(pass[k].plan) = 1 /\ ~pass[k].signed
  BY <1>1, RestingIs, PassMoves DEF RefuseReceipt, StopPass, store, outside
<1>2. CASE ~(Len(pass[k].plan) = 1 /\ ~pass[k].signed)
  <2>1. PICK o : o = pass[k]
    OBVIOUS
  <2>2. PICK p : p = [o EXCEPT !.plan = Tail(o.plan)]
    OBVIOUS
  <2>3. o = [pc |-> o.pc, plan |-> o.plan, seq |-> o.seq, prev |-> o.prev, trusted |-> o.trusted, signed |-> o.signed]
        /\ o.trusted \in Nat
    BY <2>1, PassOf DEF IsPass
  <2>4. /\ p = [pc |-> p.pc, plan |-> p.plan, seq |-> p.seq, prev |-> p.prev, trusted |-> p.trusted, signed |-> p.signed]
        /\ p.trusted = o.trusted
    BY <2>2, <2>3
  <2>5. pass' = [pass EXCEPT ![k] = p]
    BY <1>2, <2>1, <2>2 DEF RefuseReceipt, SgInv, SgTyped
  <2>6. QED
    BY <2>3, <2>4, <2>5, PassMoves DEF IsPass, RefuseReceipt, store, outside
<1>3. QED
  BY <1>1, <1>2

LEMMA ReadKeeps ==
  ASSUME SgInv, NEW k \in SigningKeys, ReadTrust(k)
  PROVE  SgInv'
<1>1. PICK o : o = pass[k]
  OBVIOUS
<1>2. PICK p : p = [o EXCEPT !.pc = "append", !.trusted = Len(stmts)]
  OBVIOUS
<1>3. o = [pc |-> o.pc, plan |-> o.plan, seq |-> o.seq, prev |-> o.prev, trusted |-> o.trusted, signed |-> o.signed]
  BY <1>1, PassOf DEF IsPass
<1>4. /\ p = [pc |-> p.pc, plan |-> p.plan, seq |-> p.seq, prev |-> p.prev, trusted |-> p.trusted, signed |-> p.signed]
      /\ p.trusted = Len(stmts)
  BY <1>2, <1>3
<1>5. Len(stmts) \in Nat
  BY NowSound DEF TrustLog
<1>6. pass' = [pass EXCEPT ![k] = p]
  BY <1>1, <1>2 DEF ReadTrust, SgInv, SgTyped
<1>7. IsPass(p)
  BY <1>4, <1>5 DEF IsPass
<1>8. QED
  BY <1>6, <1>7, PassMoves DEF ReadTrust, store, outside

\* The row a pass posts is about what it says, or it is not taken.
LEMMA RowPosted ==
  ASSUME SgInv, NEW k \in SigningKeys, AppendAttestation(k)
  PROVE  /\ NextRow(k) \in Rows /\ NextRow(k).hash = fresh + 1 /\ NextRow(k).prev = HeadHash(atts)
         /\ Justified(EvaluateTrust(stmts), Append(atts, NextRow(k)), Len(atts) + 1, sealed, receipts)
<1>1. PICK r : r = NextRow(k)
  OBVIOUS
<1>2. PICK n \in Nat : n = Len(atts)
  BY NowSound
<1>3. PICK more : more = Append(atts, r)
  OBVIOUS
<1>4. Len(more) = n + 1 /\ more[n + 1] = r
  BY <1>2, <1>3, NowSound
<1>5. PICK m \in Nat : m = Least(pass[k].trusted, Len(stmts)) /\ m <= Len(stmts)
  <2>1. pass[k].trusted \in Nat
    BY PassOf DEF IsPass
  <2>2. Len(stmts) \in Nat
    BY NowSound DEF TrustLog
  <2>3. QED
    BY <2>1, <2>2 DEF Least
<1>6. PICK t : t = EvaluateTrust(SubSeq(stmts, 1, m))
  OBVIOUS
<1>7. r.kind \in RowKinds /\ ~Bad(t, more, n + 1, sealed, receipts)
  BY <1>1, <1>3, <1>4, <1>5, <1>6 DEF AppendAttestation, Accepted, Last
<1>8. PICK u : u = EvaluateTrust(stmts)
  OBVIOUS
<1>9. Grows(t, u) /\ VoidsName(u, atts)
  BY <1>5, <1>6, <1>8, NowSound, TrustGrows
<1>10. SubjectHolds(more, n + 1, sealed, receipts)
  <2>1. DOMAIN atts = 1..n
    BY <1>2, NowSound
  <2>2. n + 1 \notin DOMAIN u.voids
    BY <1>9, <2>1 DEF VoidsName
  <2>3. ~Voided(t, more, n + 1)
    BY <1>9, <2>2 DEF Voided, Grows
  <2>4. QED
    BY <1>7, <2>3 DEF Bad
<1>11. r.at \in Int
  BY <1>4, <1>10, NowSound DEF SubjectHolds
<1>12. r = Row(r.kind, r.at, r.head, k, TRUE, HeadHash(atts), fresh + 1) /\ r.head \in {Genesis, HeadHash(atts)}
  <2>1. pass[k].prev = HeadHash(atts)
    BY DEF AppendAttestation
  <2>2. CASE pass[k].plan # <<>>
    BY <1>1, <2>1, <2>2 DEF NextRow, Row
  <2>3. CASE pass[k].plan = <<>>
    BY <1>1, <2>1, <2>3 DEF NextRow, Row
  <2>4. QED
    BY <2>2, <2>3
<1>13. HeadHash(atts) \in Nat /\ fresh + 1 \in Nat
  BY NowSound, HeadIsNat
<1>14. r \in Rows /\ r.hash = fresh + 1 /\ r.prev = HeadHash(atts)
  <2>1. PICK kind \in RowKinds, at \in Int, head \in Nat, prev \in Nat, hash \in Nat :
          r = Row(kind, at, head, k, TRUE, prev, hash) /\ prev = HeadHash(atts) /\ hash = fresh + 1
    BY <1>7, <1>11, <1>12, <1>13 DEF Genesis
  <2>2. QED
    BY <2>1 DEF Row, Rows
<1>15. Justified(u, more, n + 1, sealed, receipts)
  BY <1>2, <1>3, <1>7, <1>9, <1>14, NowSound, JudgedRow
<1>16. QED
  BY <1>1, <1>2, <1>3, <1>8, <1>14, <1>15

LEMMA AppendKeeps ==
  ASSUME SgInv, NEW k \in SigningKeys, AppendAttestation(k)
  PROVE  SgInv'
<1>1. PICK r : r = NextRow(k)
  OBVIOUS
<1>2. /\ atts' = Append(atts, r) /\ fresh' = fresh + 1 /\ UNCHANGED <<sealed, receipts, stmts>>
      /\ UNCHANGED <<seen, alarm, restored, witnessed, backups>>
  BY <1>1 DEF AppendAttestation, outside
<1>3. r \in Rows /\ r.hash = fresh + 1 /\ r.prev = HeadHash(atts)
      /\ Justified(EvaluateTrust(stmts), Append(atts, r), Len(atts) + 1, sealed, receipts)
  BY <1>1, RowPosted
<1>4. CopiesSound(Copies, fresh, witnessed)' /\ SeenSound'
  BY <1>2, <1>3, RowAppended
<1>5. DOMAIN pass' = SigningKeys /\ \A q \in SigningKeys : IsPass(pass'[q])
  <2>1. CASE pass[k].plan = <<>>
    BY <2>1, RestingIs DEF AppendAttestation, StopPass, SgInv, SgTyped
  <2>2. CASE pass[k].plan # <<>>
    <3>1. PICK o : o = pass[k]
      OBVIOUS
    <3>2. PICK p : /\ pass' = [pass EXCEPT ![k] = p]
                   /\ p = [pass[k] EXCEPT !.pc = "read", !.plan = Tail(pass[k].plan), !.signed = TRUE,
                                          !.seq = pass[k].seq + 1, !.prev = fresh + 1]
      BY <2>2 DEF AppendAttestation
    <3>3. o = [pc |-> o.pc, plan |-> o.plan, seq |-> o.seq, prev |-> o.prev, trusted |-> o.trusted, signed |-> o.signed]
          /\ o.trusted \in Nat
      BY <3>1, PassOf DEF IsPass
    <3>4. p = [o EXCEPT !.pc = "read", !.plan = Tail(o.plan), !.signed = TRUE, !.seq = o.seq + 1, !.prev = fresh + 1]
      BY <3>1, <3>2
    <3>5. /\ p = [pc |-> p.pc, plan |-> p.plan, seq |-> p.seq, prev |-> p.prev, trusted |-> p.trusted, signed |-> p.signed]
          /\ p.trusted = o.trusted
      BY <3>3, <3>4
    <3>6. IsPass(p)
      BY <3>3, <3>5 DEF IsPass
    <3>7. DOMAIN pass' = SigningKeys /\ pass'[k] = p /\ \A q \in SigningKeys : q = k \/ pass'[q] = pass[q]
      BY <3>2 DEF SgInv, SgTyped
    <3>8. QED
      BY <3>6, <3>7, PassOf
  <2>3. QED
    BY <2>1, <2>2
<1>6. SgTyped'
  BY <1>2, <1>5, NowSound DEF SgInv, SgTyped
<1>7. QED
  BY <1>4, <1>6 DEF SgInv

-----------------------------------------------------------------------------
(* The theorems *)

LEMMA SgInitially ==
  ASSUME SgInit
  PROVE  SgInv
<1>1. PICK b : b = Copy(0, {}, <<>>, <<>>)
  OBVIOUS
<1>2. b.sealed = 0 /\ b.receipts = {} /\ b.stmts = <<>> /\ b.atts = <<>>
  BY <1>1 DEF Copy
<1>3. Now = b /\ Newest = b /\ Copies = {b}
  BY <1>1 DEF SgInit, Now, Newest, Copies
<1>4. StoreSound(b) /\ Logs(b)
  BY <1>1, NothingStored, SoundLogs
<1>5. Cosigns(b.stmts) = {}
  BY <1>2, TrustOfNone, UntrustingIs DEF Cosigns
<1>6. DOMAIN b.atts = {}
  BY <1>2
<1>7. MadeBy(b.atts, fresh) /\ SameRows(b.atts, b.atts)
  BY <1>6 DEF MadeBy, SameRows
<1>8. Before(Cosigns(b.stmts), fresh) /\ WasSeen(Cosigns(b.stmts), b.atts, witnessed)
  BY <1>5 DEF Before, WasSeen
<1>9. CopiesSound(Copies, fresh, witnessed)
  BY <1>3, <1>4, <1>7, <1>8 DEF CopiesSound
<1>10. Ahead(b, b)
  BY <1>4, AheadItself
<1>11. seen.atts = b.atts /\ seen.stmts = b.stmts /\ seen.sealed = b.sealed /\ alarm = FALSE
  BY <1>2 DEF SgInit, NothingSeen
<1>12. SeenSound
  BY <1>3, <1>4, <1>10, <1>11 DEF SeenSound, Logs, Ahead
<1>13. SgTyped
  <2>1. DOMAIN pass = SigningKeys /\ \A k \in SigningKeys : IsPass(pass[k])
    BY RestingIs DEF SgInit
  <2>2. backups \in Seq([sealed : Nat, receipts : SUBSET Nat, stmts : Seq(Statements), atts : Seq(Rows)])
    BY EmptySeq DEF SgInit
  <2>3. QED
    BY <2>1, <2>2 DEF SgInit, SgTyped, Genesis
<1>14. QED
  BY <1>9, <1>12, <1>13 DEF SgInv

LEMMA SgStutters ==
  ASSUME SgInv, UNCHANGED sgVars
  PROVE  SgInv'
<1>1. UNCHANGED <<sealed, receipts, stmts, atts, fresh>> /\ UNCHANGED <<seen, alarm, restored, witnessed, backups>> /\ UNCHANGED pass
  BY DEF sgVars, store, outside
<1>2. Copies' = Copies /\ Newest' = Newest /\ Now' = Now
  BY <1>1 DEF Copies, Newest, Now
<1>3. CopiesSound(Copies, fresh, witnessed)' /\ SeenSound'
  BY <1>1, <1>2 DEF SgInv, CopiesSound, SeenSound
<1>4. SgTyped'
  BY <1>1 DEF SgInv, SgTyped
<1>5. QED
  BY <1>3, <1>4 DEF SgInv

LEMMA SgStep ==
  ASSUME SgInv, [SgNext]_sgVars
  PROVE  SgInv'
<1>1. CASE Surroundings
  BY <1>1, SealKeeps, IssueKeeps, RootKeeps, ParkKeeps, BackupKeeps, RestoreKeeps, VerifiesKeeps, CosignsKeeps
     DEF Surroundings
<1>2. ASSUME NEW k \in SigningKeys, Signer(k) PROVE SgInv'
  BY <1>2, PlanKeeps, RefuseKeeps, ReadKeeps, AppendKeeps, EndsKeeps DEF Signer
<1>3. CASE UNCHANGED sgVars
  BY <1>3, SgStutters
<1>4. QED
  BY <1>1, <1>2, <1>3 DEF SgNext

LEMMA SgAlways == SgSpec => []SgInv
<1>1. SgInit => SgInv
  BY SgInitially
<1>2. SgInv /\ [SgNext]_sgVars => SgInv'
  BY SgStep
<1>3. QED
  BY <1>1, <1>2, PTL DEF SgSpec

\* A row that is signed and reported has the position its key was authorized before, is linked
\* and is about what it says, so it can only be its key's cutoff that it is reported for.
LEMMA GoodUntilRevoked ==
  ASSUME SgInv
  PROVE  TakenIsGood
<1>1. PICK t : t = EvaluateTrust(stmts)
  OBVIOUS
<1>2. SUFFICES ASSUME NEW i \in DOMAIN atts, atts[i].good, Bad(t, atts, i, sealed, receipts)
               PROVE  i > t.keys[atts[i].key].cutoff
  BY <1>1 DEF TakenIsGood
<1>3. i \in Nat /\ atts[i].key \in SigningKeys
  BY <1>2, NowSound, RowAt DEF Rows
<1>4. t.keys[atts[i].key].cutoff \in Int
  <2>1. t.keys \in [SigningKeys -> [from : Nat, cutoff : Int]]
    BY <1>1, NowSound, TrustOfLog DEF Trusted
  <2>2. t.keys[atts[i].key] \in [from : Nat, cutoff : Int]
    BY <1>3, <2>1
  <2>3. QED
    BY <2>2
<1>5. i \in DOMAIN t.voids => Voided(t, atts, i)
  BY <1>1, NowSound DEF VoidsName, Voided
<1>6. atts[i].prev = LinkOf(atts, i)
  BY <1>2, NowSound DEF Linked
<1>7. ~Voided(t, atts, i)
  BY <1>2, <1>5, <1>6 DEF Bad
<1>8. Justified(t, atts, i, sealed, receipts)
  BY <1>1, <1>2, <1>7, NowSound DEF Counting
<1>9. ~KeyAllows(t, atts[i].key, i)
  BY <1>2, <1>5, <1>6, <1>8 DEF Bad, Justified
<1>10. QED
  BY <1>3, <1>4, <1>8, <1>9 DEF KeyAllows, Justified

\* A valid checkpoint covers the rows before it, and those a root cosigned were seen.
LEMMA CosignedWasSeen ==
  ASSUME SgInv
  PROVE  WitnessIsRight
<1>1. PICK t : t = EvaluateTrust(stmts)
  OBVIOUS
<1>2. ASSUME NEW i \in DOMAIN atts, Level(stmts, atts, i, sealed, receipts) = 2 PROVE atts[i] \in witnessed
  <2>1. PICK c \in t.cosigns :
          /\ CosignHolds(atts, c) /\ Valid(t, atts, c.seq, sealed, receipts)
          /\ atts[c.seq].at >= i
    BY <1>1, <1>2 DEF Level
  <2>2. c.seq \in DOMAIN atts /\ atts[c.seq].kind = "checkpoint"
    BY <2>1 DEF CosignHolds
  <2>3. c.seq \in Nat /\ i \in 1..Len(atts) /\ Len(atts) \in Nat
    BY <1>2, <2>2, NowSound, RowAt
  <2>4. SubjectHolds(atts, c.seq, sealed, receipts)
    BY <2>1 DEF Valid, Bad
  <2>5. atts[c.seq].at = c.seq - 1
    BY <2>2, <2>4 DEF SubjectHolds
  <2>6. i \in 1..c.seq
    BY <2>1, <2>3, <2>5
  <2>7. WasSeen(t.cosigns, atts, witnessed)
    BY <1>1, OfNow, WithNow DEF Cosigns
  <2>8. QED
    BY <2>1, <2>6, <2>7 DEF WasSeen
<1>3. alarm => restored
  BY DEF SgInv, SeenSound
<1>4. QED
  BY <1>2, <1>3 DEF WitnessIsRight

(* A row that the API took is reported only because its key was revoked for its position.   *)
(* SgInv: what is stored, now and in every backup, is linked, its voids name its rows, and   *)
(* every row with a good signature that is not voided has the authorization and the subject *)
(* it was judged to have: statements only add to both.                                      *)
THEOREM TakenRowsAreGood == SgSpec => []TakenIsGood
<1>1. SgInv => TakenIsGood
  BY GoodUntilRevoked
<1>2. QED
  BY <1>1, SgAlways, PTL

(* A row is shown as cosigned only if the root's holder had it and all before it, and the    *)
(* witness reports something gone or changed only after a restore.  SgInv: no two rows ever *)
(* share a hash, so a row with the hash that a root cosigned has the same rows before it, in *)
(* the log and in every backup; and until a restore what the witness saw is a beginning of  *)
(* the newest backup, and that of the log.                                                  *)
THEOREM CosignedRowsWereSeen == SgSpec => []WitnessIsRight
<1>1. SgInv => WitnessIsRight
  BY CosignedWasSeen
<1>2. QED
  BY <1>1, SgAlways, PTL
=============================================================================
