----------------------------- MODULE FoldLemmas -----------------------------
(***************************************************************************)
(* Induction over the elements of a sequence, in a form that needs no      *)
(* operator as a parameter: what FoldLeft() of the community modules       *)
(* computes is the last state of a run over the sequence.                  *)
(***************************************************************************)
EXTENDS Naturals, Sequences, SequencesExt, TLAPS, WellFoundedInduction, SequenceTheorems

\* A set of numbers with 0 and the successor of each of its elements has all.
LEMMA AllNumbers ==
  ASSUME NEW I, 0 \in I, \A k \in Nat : k \in I => k + 1 \in I
  PROVE  Nat \subseteq I
<1> DEFINE T == Nat \ I
<1>1. SUFFICES ASSUME T # {} PROVE FALSE
  OBVIOUS
<1>2. T \subseteq Nat
  OBVIOUS
<1> HIDE DEF T
<1>3. PICK m \in T : \A j \in T : ~ (<<j, m>> \in OpToRel(<, Nat))
  BY <1>1, <1>2, WFMin, NatLessThanWellFounded
<1>4. m \in Nat /\ m # 0 /\ m \notin I
  BY <1>2 DEF T
<1>5. m - 1 \in Nat /\ m - 1 < m /\ (m - 1) + 1 = m
  BY <1>4
<1>6. m - 1 \notin T
  BY <1>2, <1>3, <1>4, <1>5 DEF OpToRel
<1>7. m - 1 \in I
  BY <1>5, <1>6 DEF T
<1> QED BY <1>4, <1>5, <1>7

\* The numbers up to k, and the greatest of them.
LEMMA Upto ==
  ASSUME NEW k \in Nat, k # 0
  PROVE  1 .. k # {} /\ Max(1 .. k) = k /\ (1 .. k) \ {k} = 1 .. (k - 1)
<1>1. \A x \in 1 .. k : (\A y \in 1 .. k : x >= y) <=> x = k
  OBVIOUS
<1>2. k \in 1 .. k
  OBVIOUS
<1>3. Max(1 .. k) = k
  BY <1>1, <1>2 DEF Max
<1>4. (1 .. k) \ {k} = 1 .. (k - 1)
  OBVIOUS
<1> QED BY <1>2, <1>3, <1>4

\* The greatest element of a set of numbers up to k + 1.
LEMMA Greatest ==
  ASSUME NEW k \in Nat, NEW t \in SUBSET (1 .. k + 1), k + 1 \in t
  PROVE  Max(t) = k + 1 /\ t \ {k + 1} \in SUBSET (1 .. k)
<1>1. \A x \in t : (\A y \in t : x >= y) <=> x = k + 1
  OBVIOUS
<1>2. Max(t) = k + 1
  BY <1>1 DEF Max
<1>3. t \ {k + 1} \in SUBSET (1 .. k)
  OBVIOUS
<1> QED BY <1>2, <1>3

\* h is the recursion on sets that FoldLeft() makes, from b, with the functions
\* step[i] for the elements i.
Folding(h, n, B, b, step) ==
  /\ h \in [SUBSET (1 .. n) -> B]
  /\ \A t \in SUBSET (1 .. n) :
       h[t] = IF t = {} THEN b ELSE step[Max(t)][h[t \ {Max(t)}]]

\* A non-empty set of numbers up to n has a greatest element.
LEMMA HasGreatest ==
  ASSUME NEW n \in Nat, NEW t \in SUBSET (1 .. n), t # {}
  PROVE  Max(t) \in t
<1> DEFINE I == {k \in Nat : \A u \in SUBSET (1 .. k) : u # {} => Max(u) \in u}
<1>1. 0 \in I
  <2>1. 1 .. 0 = {}
    OBVIOUS
  <2> QED BY <2>1
<1>2. ASSUME NEW k \in Nat, k \in I PROVE k + 1 \in I
  <2>1. SUFFICES ASSUME NEW u \in SUBSET (1 .. k + 1), u # {} PROVE Max(u) \in u
    OBVIOUS
  <2>2. CASE k + 1 \in u
    BY <2>2, Greatest
  <2>3. CASE k + 1 \notin u
    <3>1. u \in SUBSET (1 .. k)
      BY <2>3
    <3> QED BY <1>2, <2>1, <3>1
  <2> QED BY <2>2, <2>3
<1> HIDE DEF I
<1>3. n \in I
  BY <1>1, <1>2, AllNumbers
<1> QED BY <1>3 DEF I

\* The recursion is well defined.
LEMMA FoldingExists ==
  ASSUME NEW n \in Nat, NEW B, NEW b \in B, NEW step \in [1 .. n -> [B -> B]]
  PROVE  \E h : Folding(h, n, B, b, step)
<1> DEFINE I == {k \in Nat : k <= n => \E h : Folding(h, k, B, b, step)}
<1>1. 0 \in I
  <2> DEFINE h == [t \in SUBSET (1 .. 0) |-> b]
  <2>1. \A t \in SUBSET (1 .. 0) : t = {}
    OBVIOUS
  <2>2. Folding(h, 0, B, b, step)
    BY <2>1 DEF Folding
  <2> QED BY <2>2
<1>2. ASSUME NEW k \in Nat, k \in I PROVE k + 1 \in I
  <2>1. SUFFICES ASSUME k + 1 <= n PROVE \E h : Folding(h, k + 1, B, b, step)
    OBVIOUS
  <2>2. PICK h : Folding(h, k, B, b, step)
    BY <1>2, <2>1
  <2>3. step[k + 1] \in [B -> B] /\ k + 1 \in 1 .. n
    BY <2>1
  <2> DEFINE g == [t \in SUBSET (1 .. k + 1) |->
                     IF k + 1 \in t THEN step[k + 1][h[t \ {k + 1}]] ELSE h[t]]
  <2>4. ASSUME NEW t \in SUBSET (1 .. k + 1)
        PROVE  /\ k + 1 \in t => Max(t) = k + 1 /\ t \ {k + 1} \in SUBSET (1 .. k)
               /\ k + 1 \notin t => t \in SUBSET (1 .. k)
    <3>1. k + 1 \notin t => t \in SUBSET (1 .. k)
      OBVIOUS
    <3> QED BY <3>1, Greatest
  <2>5. g \in [SUBSET (1 .. k + 1) -> B]
    BY <2>2, <2>3, <2>4 DEF Folding
  <2>6. ASSUME NEW t \in SUBSET (1 .. k + 1)
        PROVE  g[t] = IF t = {} THEN b ELSE step[Max(t)][g[t \ {Max(t)}]]
    <3>1. CASE k + 1 \in t
      <4>1. Max(t) = k + 1 /\ t \ {k + 1} \in SUBSET (1 .. k) /\ t \ {k + 1} \in SUBSET (1 .. k + 1)
        BY <2>4, <3>1
      <4>2. g[t \ {k + 1}] = h[t \ {k + 1}]
        BY <4>1
      <4> QED BY <3>1, <4>1, <4>2
    <3>2. CASE k + 1 \notin t
      <4>1. t \in SUBSET (1 .. k) /\ g[t] = h[t]
        BY <2>4, <3>2
      <4>2. CASE t = {}
        BY <2>2, <4>1, <4>2 DEF Folding
      <4>3. CASE t # {}
        <5> DEFINE u == t \ {Max(t)}
        <5>1. u \in SUBSET (1 .. k) /\ u \in SUBSET (1 .. k + 1) /\ k + 1 \notin u
          BY <3>2, <4>1
        <5>2. g[u] = h[u]
          BY <5>1
        <5>3. h[t] = step[Max(t)][h[u]]
          BY <2>2, <4>1, <4>3 DEF Folding
        <5> QED BY <4>1, <4>3, <5>2, <5>3
      <4> QED BY <4>2, <4>3
    <3> QED BY <3>1, <3>2
  <2> HIDE DEF g
  <2> QED BY <2>5, <2>6 DEF Folding
<1> HIDE DEF I
<1>3. n \in I
  BY <1>1, <1>2, AllNumbers
<1> QED BY <1>3 DEF I

\* g is a run from b with the functions step[k]: g[k] is the state after k of them.
Run(g, n, B, b, step) ==
  g \in [0 .. n -> B] /\ g[0] = b /\ \A k \in 1 .. n : g[k] = step[k][g[k - 1]]

\* There is a run, and only one.
LEMMA RunExists ==
  ASSUME NEW n \in Nat, NEW B, NEW b \in B, NEW step \in [1 .. n -> [B -> B]]
  PROVE  \E g : Run(g, n, B, b, step)
<1>1. PICK h : Folding(h, n, B, b, step)
  BY FoldingExists
<1> DEFINE g == [k \in 0 .. n |-> h[1 .. k]]
<1>2. \A k \in 0 .. n : 1 .. k \in SUBSET (1 .. n)
  OBVIOUS
<1>3. g \in [0 .. n -> B]
  BY <1>1, <1>2 DEF Folding
<1>4. g[0] = b
  <2>1. 1 .. 0 = {} /\ 0 \in 0 .. n
    OBVIOUS
  <2>2. h[{}] = b
    BY <1>1 DEF Folding
  <2> QED BY <2>1, <2>2
<1>5. ASSUME NEW k \in 1 .. n PROVE g[k] = step[k][g[k - 1]]
  <2>1. k \in Nat /\ k # 0 /\ k \in 0 .. n /\ k - 1 \in 0 .. n
    OBVIOUS
  <2>2. 1 .. k # {} /\ Max(1 .. k) = k /\ (1 .. k) \ {k} = 1 .. (k - 1)
    BY <2>1, Upto
  <2>3. h[1 .. k] = step[k][h[1 .. (k - 1)]]
    BY <1>1, <1>2, <2>1, <2>2 DEF Folding
  <2> QED BY <2>1, <2>3
<1> HIDE DEF g
<1> QED BY <1>3, <1>4, <1>5 DEF Run

\* Two runs that begin alike and go on alike end alike.
GoAlike(f, g, n) == f[0] = g[0] /\ \A k \in 1 .. n : f[k - 1] = g[k - 1] => f[k] = g[k]
\* Two functions that go alike are the same at every number.
LEMMA SameRun ==
  ASSUME NEW n \in Nat, NEW f, NEW g, GoAlike(f, g, n)
  PROVE  \A k \in 0 .. n : f[k] = g[k]
<1> DEFINE I == {k \in Nat : k <= n => f[k] = g[k]}
<1>1. 0 \in I
  BY DEF GoAlike
<1>2. ASSUME NEW k \in Nat, k \in I PROVE k + 1 \in I
  <2>1. SUFFICES ASSUME k + 1 <= n PROVE f[k + 1] = g[k + 1]
    OBVIOUS
  <2>2. k <= n /\ k + 1 \in 1 .. n /\ (k + 1) - 1 = k
    BY <2>1
  <2>3. f[k] = g[k]
    BY <1>2, <2>2
  <2> QED BY <2>2, <2>3 DEF GoAlike
<1> HIDE DEF I
<1>3. Nat \subseteq I
  BY <1>1, <1>2, AllNumbers
<1>4. \A k \in 0 .. n : k \in Nat /\ k <= n
  OBVIOUS
<1> QED BY <1>3, <1>4 DEF I

\* it is the recursion on sets where its values are in B.
Unfolds(it, n, B, b, step) ==
  /\ it[{}] = b
  /\ \A t \in SUBSET (1 .. n) : t # {} /\ it[t \ {Max(t)}] \in B =>
                                  it[t] = step[Max(t)][it[t \ {Max(t)}]]

\* What FoldLeft() computes is where the run ends: it, the recursion that
\* FoldLeft() unfolds to, agrees with step on the states in B.
Arrives(it, n, B, b, step) == \E g : Run(g, n, B, b, step) /\ it[1 .. n] = g[n]
\* FoldLeft() returns the last state of the run.
LEMMA FoldIsRun ==
  ASSUME NEW n \in Nat, NEW B, NEW b \in B, NEW step \in [1 .. n -> [B -> B]],
         NEW it, Unfolds(it, n, B, b, step)
  PROVE  Arrives(it, n, B, b, step)
<1>1. PICK g : Run(g, n, B, b, step)
  BY RunExists
<1> DEFINE f == [k \in 0 .. n |-> it[1 .. k]]
<1>2. f[0] = g[0]
  <2>1. 0 \in 0 .. n /\ 1 .. 0 = {}
    OBVIOUS
  <2> QED BY <1>1, <2>1 DEF Run, Unfolds
<1>3. ASSUME NEW k \in 1 .. n, f[k - 1] = g[k - 1] PROVE f[k] = g[k]
  <2>1. k \in Nat /\ k # 0 /\ k - 1 \in 0 .. n /\ k \in 0 .. n /\ 1 .. k \in SUBSET (1 .. n)
    OBVIOUS
  <2>2. 1 .. k # {} /\ Max(1 .. k) = k /\ (1 .. k) \ {k} = 1 .. (k - 1)
    BY <2>1, Upto
  <2>3. it[1 .. (k - 1)] = g[k - 1] /\ g[k - 1] \in B
    BY <1>1, <1>3, <2>1 DEF Run
  <2>4. it[1 .. k] = step[k][it[1 .. (k - 1)]]
    BY <2>1, <2>2, <2>3 DEF Unfolds
  <2> QED BY <1>1, <2>1, <2>3, <2>4 DEF Run
<1> HIDE DEF f
<1>4. f[n] = g[n]
  <2>1. GoAlike(f, g, n)
    BY <1>2, <1>3 DEF GoAlike
  <2>2. \A k \in 0 .. n : f[k] = g[k]
    BY <2>1, SameRun
  <2>3. n \in 0 .. n
    OBVIOUS
  <2> QED BY <2>2, <2>3
<1>5. it[1 .. n] = g[n]
  BY <1>4 DEF f
<1> QED BY <1>1, <1>5 DEF Arrives

\* Sequences are joined in any order.  The name keeps the provers from joining more.
Join(x, y) == x \o y

\* Joining is associative.
LEMMA JoinAssoc ==
  ASSUME NEW B, NEW x \in Seq(B), NEW y \in Seq(B), NEW z \in Seq(B)
  PROVE  Join(Join(x, y), z) = Join(x, Join(y, z)) /\ Join(x, y) \in Seq(B)
<1>1. (x \o y) \o z = x \o (y \o z)
  BY ConcatAssociative
<1>2. x \o y \in Seq(B)
  OBVIOUS
<1> QED BY <1>1, <1>2 DEF Join

\* The first of two joined pieces moves to what is before them.
LEMMA JoinMove ==
  ASSUME NEW B, NEW o \in Seq(B), NEW k \in Seq(B), NEW a \in Seq(B), NEW q \in Seq(B)
  PROVE  Join(o, Join(Join(k, a), q)) = Join(Join(o, k), Join(a, q))
<1>1. Join(Join(k, a), q) = Join(k, Join(a, q)) /\ Join(a, q) \in Seq(B)
  BY JoinAssoc
<1>2. Join(Join(o, k), Join(a, q)) = Join(o, Join(k, Join(a, q)))
  BY <1>1, JoinAssoc
<1> QED BY <1>1, <1>2

\* g[k] is what FlattenSeq() has joined after the first k sequences of w.
Joining(g, w, B) ==
  /\ g \in [0 .. Len(w) -> Seq(B)] /\ g[0] = <<>>
  /\ \A k \in 1 .. Len(w) : g[k] = g[k - 1] \o w[k]

\* There is such a function.
LEMMA JoiningExists ==
  ASSUME NEW B, NEW w \in Seq(Seq(B))
  PROVE  \E g : Joining(g, w, B)
<1> DEFINE n == Len(w)
           step == [k \in 1 .. n |-> [x \in Seq(B) |-> x \o w[k]]]
<1>1. n \in Nat /\ <<>> \in Seq(B) /\ \A k \in 1 .. n : w[k] \in Seq(B)
  OBVIOUS
<1>2. step \in [1 .. n -> [Seq(B) -> Seq(B)]]
  <2>1. ASSUME NEW k \in 1 .. n, NEW x \in Seq(B) PROVE x \o w[k] \in Seq(B)
    BY <1>1
  <2> QED BY <2>1
<1> HIDE DEF n
<1>3. \A k \in 1 .. n : \A x \in Seq(B) : step[k][x] = x \o w[k]
  OBVIOUS
<1> HIDE DEF step
<1>4. PICK g : Run(g, n, Seq(B), <<>>, step)
  BY <1>1, <1>2, RunExists
<1>5. g \in [0 .. n -> Seq(B)] /\ g[0] = <<>> /\ \A k \in 1 .. n : g[k] = step[k][g[k - 1]]
  BY <1>4 DEF Run
<1>6. \A k \in 1 .. n : k - 1 \in 0 .. n
  BY <1>1
<1>7. \A k \in 1 .. n : g[k] = g[k - 1] \o w[k]
  BY <1>3, <1>5, <1>6
<1> QED BY <1>5, <1>7 DEF Joining, n

\* What FlattenSeq() returns.
LEMMA FlattenIsJoin ==
  ASSUME NEW B, NEW w \in Seq(Seq(B)), NEW g, Joining(g, w, B)
  PROVE  FlattenSeq(w) = g[Len(w)]
<1> DEFINE n == Len(w)
           flatten[i \in 1 .. Len(w)] == IF i = 1 THEN w[i] ELSE flatten[i - 1] \o w[i]
<1>1. n \in Nat /\ \A k \in 1 .. n : w[k] \in Seq(B)
  OBVIOUS
<1>2. FlattenSeq(w) = IF n = 0 THEN w ELSE flatten[n]
  BY DEF FlattenSeq
<1>3. n = 0 => w = <<>>
  OBVIOUS
<1>4. flatten = [i \in 1 .. n |-> IF i = 1 THEN w[i] ELSE flatten[i - 1] \o w[i]]
  <2> DEFINE h == [i \in 1 .. n |-> g[i]]
  <2>1. ASSUME NEW i \in 1 .. n PROVE h[i] = IF i = 1 THEN w[i] ELSE h[i - 1] \o w[i]
    <3>1. g[i] = g[i - 1] \o w[i]
      BY DEF Joining
    <3>2. i = 1 => g[i - 1] = <<>>
      BY DEF Joining
    <3>3. i # 1 => i - 1 \in 1 .. n
      BY <1>1
    <3>4. <<>> \o w[i] = w[i]
      BY <1>1
    <3> QED BY <3>1, <3>2, <3>3, <3>4
  <2>2. h = [i \in 1 .. n |-> IF i = 1 THEN w[i] ELSE h[i - 1] \o w[i]]
    <3>1. h = [i \in 1 .. n |-> h[i]]
      OBVIOUS
    <3> HIDE DEF h
    <3> QED BY <2>1, <3>1
  <2> HIDE DEF h
  <2> QED BY <2>2
<1> HIDE DEF flatten
<1> DEFINE f == [k \in 0 .. n |-> IF k = 0 THEN <<>> ELSE flatten[k]]
<1>5. GoAlike(f, g, n)
  <2>1. f[0] = g[0]
    BY <1>1 DEF Joining
  <2>2. ASSUME NEW k \in 1 .. n, f[k - 1] = g[k - 1] PROVE f[k] = g[k]
    <3>1. k \in 0 .. n /\ k - 1 \in 0 .. n /\ k # 0 /\ (k # 1 => k - 1 # 0 /\ k - 1 \in 1 .. n)
      BY <1>1
    <3>2. f[k] = IF k = 1 THEN w[k] ELSE flatten[k - 1] \o w[k]
      BY <1>4, <3>1
    <3>3. g[k] = g[k - 1] \o w[k]
      BY DEF Joining
    <3>4. CASE k = 1
      <4>1. g[k - 1] = <<>>
        BY <3>4 DEF Joining
      <4>2. <<>> \o w[k] = w[k]
        BY <1>1
      <4> QED BY <3>2, <3>3, <3>4, <4>1, <4>2
    <3>5. CASE k # 1
      BY <2>2, <3>1, <3>2, <3>3, <3>5
    <3> QED BY <3>4, <3>5
  <2> HIDE DEF f
  <2> QED BY <2>1, <2>2 DEF GoAlike
<1> HIDE DEF f
<1>6. f[n] = g[n]
  BY <1>1, <1>5, SameRun
<1>7. CASE n = 0
  <2>1. g[n] = <<>>
    BY <1>7 DEF Joining
  <2> QED BY <1>2, <1>3, <1>7, <2>1
<1>8. CASE n # 0
  <2>1. n \in 0 .. n
    BY <1>1
  <2>2. f[n] = flatten[n]
    BY <1>8, <2>1 DEF f
  <2> QED BY <1>2, <1>6, <1>8, <2>2
<1> QED BY <1>7, <1>8

\* The first sequence comes first.
LEMMA FlattenHead ==
  ASSUME NEW B, NEW w \in Seq(Seq(B)), w # <<>>
  PROVE  FlattenSeq(w) = Head(w) \o FlattenSeq(Tail(w))
<1> DEFINE n == Len(w)
           v == Tail(w)
           x == Head(w)
<1>1. /\ n \in Nat /\ n # 0 /\ v \in Seq(Seq(B)) /\ Len(v) = n - 1 /\ x \in Seq(B) /\ x = w[1]
      /\ \A k \in 1 .. n - 1 : v[k] = w[k + 1]
      /\ \A k \in 1 .. n : w[k] \in Seq(B)
  OBVIOUS
<1> HIDE DEF v, x
<1>2. PICK g : Joining(g, w, B)
  BY JoiningExists
<1>3. PICK h : Joining(h, v, B)
  BY <1>1, JoiningExists
<1>4. FlattenSeq(w) = g[n] /\ FlattenSeq(v) = h[n - 1]
  BY <1>1, <1>2, <1>3, FlattenIsJoin
<1>5. /\ \A k \in 0 .. n : g[k] \in Seq(B)
      /\ \A k \in 0 .. n - 1 : h[k] \in Seq(B)
      /\ g[0] = <<>> /\ h[0] = <<>>
      /\ \A k \in 1 .. n : g[k] = g[k - 1] \o w[k]
      /\ \A k \in 1 .. n - 1 : h[k] = h[k - 1] \o v[k]
  BY <1>1, <1>2, <1>3 DEF Joining
<1> HIDE DEF n
<1> DEFINE p == [k \in 0 .. n - 1 |-> g[k + 1]]
           q == [k \in 0 .. n - 1 |-> x \o h[k]]
<1>6. GoAlike(p, q, n - 1)
  <2>1. p[0] = q[0]
    <3>1. 0 \in 0 .. n - 1 /\ 1 \in 1 .. n
      BY <1>1
    <3>2. g[1] = g[0] \o w[1]
      <4>1. 1 - 1 = 0
        OBVIOUS
      <4> QED BY <1>5, <3>1, <4>1
    <3>3. <<>> \o x = x /\ x \o <<>> = x
      BY <1>1
    <3>4. p[0] = g[1] /\ q[0] = x \o h[0]
      BY <3>1
    <3> QED BY <1>1, <1>5, <3>2, <3>3, <3>4
  <2>2. ASSUME NEW k \in 1 .. n - 1, p[k - 1] = q[k - 1] PROVE p[k] = q[k]
    <3>1. k \in 0 .. n - 1 /\ k - 1 \in 0 .. n - 1 /\ k + 1 \in 1 .. n /\ (k + 1) - 1 = k /\ (k - 1) + 1 = k
      BY <1>1
    <3>2. g[k + 1] = g[k] \o w[k + 1]
      BY <1>5, <3>1
    <3>3. g[k] = x \o h[k - 1]
      BY <2>2, <3>1
    <3>4. h[k] = h[k - 1] \o w[k + 1]
      BY <1>1, <1>5, <3>1
    <3>5. (x \o h[k - 1]) \o w[k + 1] = x \o (h[k - 1] \o w[k + 1])
      <4>1. x \in Seq(B) /\ h[k - 1] \in Seq(B) /\ w[k + 1] \in Seq(B)
        BY <1>1, <1>5, <3>1
      <4> DEFINE y == h[k - 1]
                 z == w[k + 1]
      <4>2. x \in Seq(B) /\ y \in Seq(B) /\ z \in Seq(B)
        BY <4>1
      <4> HIDE DEF y, z, p, q
      <4>3. Join(Join(x, y), z) = Join(x, Join(y, z))
        BY <4>2, JoinAssoc
      <4> QED BY <4>3 DEF Join, y, z
    <3> QED BY <3>1, <3>2, <3>3, <3>4, <3>5
  <2> HIDE DEF p, q
  <2> QED BY <2>1, <2>2 DEF GoAlike
<1> HIDE DEF p, q
<1>7. n - 1 \in Nat /\ n - 1 \in 0 .. n - 1 /\ (n - 1) + 1 = n
  BY <1>1
<1>8. p[n - 1] = q[n - 1]
  BY <1>6, <1>7, SameRun
<1>9. g[n] = x \o h[n - 1]
  BY <1>7, <1>8 DEF p, q
<1> QED BY <1>4, <1>9 DEF x, v

\* Nothing joined is nothing.
LEMMA FlattenEmpty == FlattenSeq(<<>>) = <<>>
BY DEF FlattenSeq

\* The sequences joined are one sequence.
LEMMA FlattenSeqs == ASSUME NEW B, NEW w \in Seq(Seq(B)) PROVE FlattenSeq(w) \in Seq(B)
<1>1. PICK g : Joining(g, w, B)
  BY JoiningExists
<1>2. Len(w) \in 0 .. Len(w)
  OBVIOUS
<1>3. g[Len(w)] \in Seq(B)
  BY <1>1, <1>2 DEF Joining
<1> QED BY <1>1, <1>3, FlattenIsJoin
=============================================================================
