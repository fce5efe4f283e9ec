----------------------------- MODULE LibcProofs -----------------------------
(***************************************************************************)
(* What is proved of libc: the heap invariant of Malloc, for every size of  *)
(* the header, of the heap and of the requests, and the streams of Stdio,   *)
(* for every number of streams, size of buffer, text and file, and however  *)
(* much of each read and write the system does.                             *)
(***************************************************************************)
EXTENDS Malloc, Stdio, FoldLemmas, TLAPS

(***************************************************************************)
(* Arithmetic.                                                             *)
(***************************************************************************)

\* Rounding up to whole units loses no byte.
LEMMA RoundUp == ASSUME NEW n \in Nat, n # 0
                 PROVE  /\ (n + HDR - 1) \div HDR \in Nat
                        /\ (n + HDR - 1) \div HDR >= 1
                        /\ n <= ((n + HDR - 1) \div HDR) * HDR
<1> USE HDRAssumption
<1> DEFINE x == n + HDR - 1
           q == x \div HDR
<1>1. x \in Nat /\ HDR \in Nat /\ HDR > 0 /\ x >= HDR
  OBVIOUS
<1>2. q \in Int /\ x % HDR \in 0 .. HDR - 1 /\ x = HDR * q + (x % HDR)
  <2> HIDE DEF x
  <2> QED BY <1>1
<1> HIDE DEF x, q
<1>3. HDR * q > x - HDR
  BY <1>1, <1>2
<1>4. q >= 1
  <2>1. SUFFICES ASSUME q <= 0 PROVE FALSE
    BY <1>2
  <2>2. HDR * q <= 0
    BY <1>1, <1>2, <2>1
  <2> QED BY <1>1, <1>2, <1>3, <2>2
<1>5. q * HDR = HDR * q
  BY <1>1, <1>2
<1> QED BY <1>1, <1>2, <1>3, <1>4, <1>5 DEF x, q

\* The units of a request hold its bytes and a header.
LEMMA UnitsFit == ASSUME NEW n, Asked(n)
                  PROVE  /\ n \in 1 .. SIZE - 1
                         /\ Units(n) \in Nat /\ Units(n) >= 2
                         /\ n <= (Units(n) - 1) * HDR
<1> USE HDRAssumption, SizeAssumption, RequestAssumption
<1>1. n \in Nat
  BY DEF Asked, Amounts
<1>2. n + HDR - 1 \in 0 .. SIZE - 1
  BY <1>1 DEF Asked, TooBig
<1>3. (n + HDR - 1) % SIZE = n + HDR - 1
  BY <1>2
<1>4. Units(n) - 1 = (n + HDR - 1) \div HDR /\ Units(n) = (n + HDR - 1) \div HDR + 1
  BY <1>1, <1>3, RoundUp DEF Asked, Units
<1> QED BY <1>1, <1>2, <1>4, RoundUp DEF Asked

(***************************************************************************)
(* Heap shape.  Every change the library makes to the headers is a         *)
(* sequence of five surgeries: on the sizes, split a chunk, merge two      *)
(* neighbours or extend the heap; on the list, insert or unlink a chunk.   *)
(* The lemmas say that each one keeps the tiling or the order.             *)
(***************************************************************************)
HeadsOf(s) == {a \in Addr : s[a] > 0}
ListOf(n)  == {a \in Addr : n[a] # NULL}

Tiled(s, top) ==
  /\ s[base] = 0
  /\ top > 1 => 1 \in HeadsOf(s)
  /\ \A a \in HeadsOf(s) : a + s[a] = top \/ a + s[a] \in HeadsOf(s)
  /\ \A a, b \in HeadsOf(s) : a < b => a + s[a] <= b
  /\ \A a \in HeadsOf(s) : a + s[a] <= top

Ordered(n) ==
  /\ base \in ListOf(n)
  /\ \A a \in ListOf(n) :
       /\ n[a] \in ListOf(n)
       /\ n[a] = base => \A b \in ListOf(n) : b <= a
       /\ n[a] # base => a < n[a] /\ \A b \in ListOf(n) : b <= a \/ n[a] <= b

Sizes == [Addr -> Nat]
Links == [Addr -> Addr \cup {NULL}]

Split(s, x, k)  == [s EXCEPT ![x] = k, ![x + k] = s[x] - k]
Merge(s, x, y)  == [s EXCEPT ![x] = s[x] + s[y], ![y] = 0]
Extend(s, x, k) == [s EXCEPT ![x] = k]
Insert(n, q, x) == [n EXCEPT ![q] = x, ![x] = n[q]]
Unlink(n, q)    == [n EXCEPT ![q] = n[n[q]], ![n[q]] = NULL]

\* Addresses are natural numbers, and NULL is none of them.
LEMMA AddrFacts == /\ \A a \in Addr : a \in Nat /\ a # NULL /\ a <= Limit
                   /\ \A a \in Nat : a <= Limit => a \in Addr
                   /\ base = 0 /\ base \in Addr /\ NULL = -1
                   /\ Limit \in Nat /\ Limit > 0
BY LimitAssumption DEF Addr, base, NULL

\* Splitting the chunk at x after k units.
LEMMA SplitTiled ==
  ASSUME NEW s \in Sizes, NEW top \in Addr, Tiled(s, top),
         NEW x \in HeadsOf(s), NEW k \in Nat, k > 0, k < s[x]
  PROVE  /\ x + k \in Addr /\ x + k \notin HeadsOf(s)
         /\ Split(s, x, k) \in Sizes /\ Tiled(Split(s, x, k), top)
         /\ HeadsOf(Split(s, x, k)) = HeadsOf(s) \cup {x + k}
<1> DEFINE t == Split(s, x, k)
           y == x + k
<1>1. x \in Addr /\ s[x] \in Nat /\ x \in Nat /\ top \in Nat /\ top <= Limit /\ x + s[x] <= top /\ x # base
  BY AddrFacts DEF HeadsOf, Tiled, Sizes
<1>2. y \in Addr /\ y \in Nat /\ y > x /\ y < x + s[x] /\ y # base
  BY <1>1, AddrFacts
<1>3. y \notin HeadsOf(s)
  BY <1>1, <1>2, AddrFacts DEF Tiled
<1>4. \A a \in Addr : t[a] = IF a = y THEN s[x] - k ELSE IF a = x THEN k ELSE s[a]
  BY <1>1, <1>2 DEF Sizes, Split
<1>5. s[x] - k \in Nat /\ s[x] - k > 0 /\ y + (s[x] - k) = x + s[x]
  BY <1>1
<1>6. t \in Sizes
  BY <1>1, <1>2, <1>5 DEF Sizes, Split
<1> HIDE DEF y, t
<1>7. HeadsOf(t) = HeadsOf(s) \cup {y}
  BY <1>1, <1>2, <1>4, <1>5 DEF HeadsOf
<1>8. /\ \A a \in HeadsOf(s) : a \in Addr /\ a \in Nat /\ s[a] \in Nat
      /\ HeadsOf(s) \subseteq Addr
  BY AddrFacts DEF HeadsOf, Sizes
<1>9. /\ s[base] = 0
      /\ top > 1 => 1 \in HeadsOf(s)
      /\ \A a \in HeadsOf(s) : a + s[a] = top \/ a + s[a] \in HeadsOf(s)
      /\ \A a, b \in HeadsOf(s) : a < b => a + s[a] <= b
      /\ \A a \in HeadsOf(s) : a + s[a] <= top
  BY DEF Tiled
<1>10. t[y] = s[x] - k /\ t[x] = k /\ x + t[x] = y /\ \A a \in HeadsOf(s) : a # x => t[a] = s[a]
  BY <1>1, <1>2, <1>3, <1>4, <1>8 DEF y
<1>11. \A a \in HeadsOf(t) : a + t[a] = top \/ a + t[a] \in HeadsOf(t)
  BY <1>5, <1>7, <1>8, <1>9, <1>10
<1>12. \A a, b \in HeadsOf(t) : a < b => a + t[a] <= b
  <2> SUFFICES ASSUME NEW a \in HeadsOf(t), NEW b \in HeadsOf(t), a < b PROVE a + t[a] <= b
    OBVIOUS
  <2>1. CASE b = y
    BY <1>1, <1>2, <1>5, <1>7, <1>8, <1>9, <1>10, <2>1
  <2>2. CASE b # y /\ a = y
    BY <1>1, <1>2, <1>5, <1>7, <1>8, <1>9, <1>10, <2>2
  <2>3. CASE b # y /\ a # y
    BY <1>1, <1>2, <1>5, <1>7, <1>8, <1>9, <1>10, <2>3
  <2> QED BY <2>1, <2>2, <2>3
<1>13. \A a \in HeadsOf(t) : a + t[a] <= top
  BY <1>1, <1>2, <1>5, <1>7, <1>8, <1>9, <1>10
<1>14. t[base] = 0
  BY <1>1, <1>2, <1>4, <1>9, AddrFacts
<1>15. Tiled(t, top)
  BY <1>7, <1>9, <1>11, <1>12, <1>13, <1>14 DEF Tiled
<1> QED BY <1>2, <1>3, <1>6, <1>7, <1>15 DEF y, t

\* Merging the chunk at x with the one that starts where it ends.
LEMMA MergeTiled ==
  ASSUME NEW s \in Sizes, NEW top \in Addr, Tiled(s, top),
         NEW x \in HeadsOf(s), NEW y \in HeadsOf(s), x + s[x] = y
  PROVE  Merge(s, x, y) \in Sizes /\ Tiled(Merge(s, x, y), top) /\ HeadsOf(Merge(s, x, y)) = HeadsOf(s) \ {y}
<1> DEFINE t == Merge(s, x, y)
<1>1. /\ x \in Addr /\ s[x] \in Nat /\ x \in Nat /\ s[x] > 0 /\ x # base
      /\ y \in Addr /\ s[y] \in Nat /\ y \in Nat /\ s[y] > 0 /\ y # base
      /\ top \in Nat /\ y > x
  BY AddrFacts DEF HeadsOf, Tiled, Sizes
<1>2. \A a \in Addr : t[a] = IF a = y THEN 0 ELSE IF a = x THEN s[x] + s[y] ELSE s[a]
  BY <1>1 DEF Sizes, Merge
<1>3. t \in Sizes
  BY <1>1 DEF Sizes, Merge
<1> HIDE DEF t
<1>4. HeadsOf(t) = HeadsOf(s) \ {y}
  <2>1. \A a \in Addr : t[a] > 0 <=> (s[a] > 0 /\ a # y)
    BY <1>1, <1>2
  <2> QED BY <2>1 DEF HeadsOf
<1>8. /\ \A a \in HeadsOf(s) : a \in Addr /\ a \in Nat /\ s[a] \in Nat /\ s[a] > 0
      /\ HeadsOf(s) \subseteq Addr
  BY AddrFacts DEF HeadsOf, Sizes
<1>9. /\ s[base] = 0
      /\ top > 1 => 1 \in HeadsOf(s)
      /\ \A a \in HeadsOf(s) : a + s[a] = top \/ a + s[a] \in HeadsOf(s)
      /\ \A a, b \in HeadsOf(s) : a < b => a + s[a] <= b
      /\ \A a \in HeadsOf(s) : a + s[a] <= top
  BY DEF Tiled
<1>10. x + t[x] = y + s[y] /\ \A a \in HeadsOf(t) : a # x => t[a] = s[a]
  BY <1>1, <1>2, <1>4, <1>8
<1>11. \A a \in HeadsOf(t) : a + t[a] = top \/ a + t[a] \in HeadsOf(t)
  <2> SUFFICES ASSUME NEW a \in HeadsOf(t) PROVE a + t[a] = top \/ a + t[a] \in HeadsOf(t)
    OBVIOUS
  <2>1. CASE a = x
    BY <1>1, <1>4, <1>8, <1>9, <1>10, <2>1
  <2>2. CASE a # x
    <3>1. a + s[a] # y
      BY <1>1, <1>4, <1>8, <1>9, <2>2
    <3> QED BY <1>1, <1>4, <1>8, <1>9, <1>10, <2>2, <3>1
  <2> QED BY <2>1, <2>2
<1>12. \A a, b \in HeadsOf(t) : a < b => a + t[a] <= b
  <2> SUFFICES ASSUME NEW a \in HeadsOf(t), NEW b \in HeadsOf(t), a < b PROVE a + t[a] <= b
    OBVIOUS
  <2>1. CASE a = x
    BY <1>1, <1>4, <1>8, <1>9, <1>10, <2>1
  <2>2. CASE a # x
    BY <1>1, <1>4, <1>8, <1>9, <1>10, <2>2
  <2> QED BY <2>1, <2>2
<1>13. \A a \in HeadsOf(t) : a + t[a] <= top
  BY <1>1, <1>4, <1>8, <1>9, <1>10
<1>14. t[base] = 0 /\ (top > 1 => 1 \in HeadsOf(t))
  BY <1>1, <1>2, <1>4, <1>9, AddrFacts
<1>15. Tiled(t, top)
  BY <1>11, <1>12, <1>13, <1>14 DEF Tiled
<1> QED BY <1>3, <1>4, <1>15 DEF t

\* Extending the heap with one chunk of n units.
LEMMA ExtendTiled ==
  ASSUME NEW s \in Sizes, NEW top \in Addr, Tiled(s, top), top # base,
         NEW n \in Nat, n > 0, top + n <= Limit
  PROVE  /\ Extend(s, top, n) \in Sizes /\ Tiled(Extend(s, top, n), top + n) /\ top + n \in Addr
         /\ top \notin HeadsOf(s) /\ HeadsOf(Extend(s, top, n)) = HeadsOf(s) \cup {top}
<1> DEFINE t == Extend(s, top, n)
<1>1. top \in Nat /\ top > 0 /\ top + n \in Addr
  BY AddrFacts
<1>2. t \in Sizes /\ \A a \in Addr : t[a] = IF a = top THEN n ELSE s[a]
  BY DEF Sizes, Extend
<1> HIDE DEF t
<1>3. \A a \in HeadsOf(s) : a \in Addr /\ a \in Nat /\ s[a] \in Nat /\ s[a] > 0
  BY AddrFacts DEF HeadsOf, Sizes
<1>4. HeadsOf(t) = HeadsOf(s) \cup {top}
  BY <1>1, <1>2 DEF HeadsOf
<1>5. top \notin HeadsOf(s) /\ \A a \in HeadsOf(s) : a < top
  BY <1>1, <1>3 DEF Tiled
<1>6. \A a \in HeadsOf(s) : t[a] = s[a]
  BY <1>2, <1>3, <1>5
<1>7. t[base] = 0 /\ t[top] = n
  BY <1>1, <1>2, AddrFacts DEF Tiled
<1>8. 1 \in HeadsOf(t)
  BY <1>1, <1>4 DEF Tiled
<1>9. \A a \in HeadsOf(t) : a + t[a] = top + n \/ a + t[a] \in HeadsOf(t)
  BY <1>1, <1>3, <1>4, <1>6, <1>7 DEF Tiled
<1>10. \A a, b \in HeadsOf(t) : a < b => a + t[a] <= b
  BY <1>1, <1>3, <1>4, <1>5, <1>6, <1>7 DEF Tiled
<1>11. \A a \in HeadsOf(t) : a + t[a] <= top + n
  BY <1>1, <1>3, <1>4, <1>6, <1>7 DEF Tiled
<1>12. Tiled(t, top + n)
  BY <1>7, <1>8, <1>9, <1>10, <1>11 DEF Tiled
<1> QED BY <1>1, <1>2, <1>4, <1>5, <1>12 DEF t

\* Inserting x between q and the chunk after it.
LEMMA InsertOrdered ==
  ASSUME NEW n \in Links, Ordered(n), NEW q \in ListOf(n), NEW x \in Addr,
         x \notin ListOf(n), q < x, n[q] = base \/ x < n[q]
  PROVE  Insert(n, q, x) \in Links /\ Ordered(Insert(n, q, x)) /\ ListOf(Insert(n, q, x)) = ListOf(n) \cup {x}
<1> DEFINE m == Insert(n, q, x)
<1>1. q \in Addr /\ q \in Nat /\ x \in Nat /\ q # x /\ x # base /\ n[q] \in ListOf(n)
  BY AddrFacts DEF ListOf, Ordered
<1>2. \A a \in ListOf(n) : a \in Addr /\ a \in Nat /\ n[a] \in ListOf(n) /\ n[a] \in Nat
  BY AddrFacts DEF ListOf, Ordered
<1>3. m \in Links /\ \A a \in Addr : m[a] = IF a = x THEN n[q] ELSE IF a = q THEN x ELSE n[a]
  BY <1>1, <1>2 DEF Links, Insert
<1> HIDE DEF m
<1>4. ListOf(m) = ListOf(n) \cup {x}
  BY <1>1, <1>2, <1>3, AddrFacts DEF ListOf
<1>5. m[x] = n[q] /\ m[q] = x /\ \A a \in ListOf(n) : a # q => m[a] = n[a]
  BY <1>1, <1>2, <1>3
<1>6. \A b \in ListOf(n) : b <= q \/ (n[q] # base /\ n[q] <= b)
  BY <1>1, <1>2 DEF Ordered
<1>7. \A b \in ListOf(m) : b \in Nat /\ (b = x \/ b <= q \/ (n[q] # base /\ n[q] <= b))
  BY <1>1, <1>2, <1>4, <1>6
<1>8. ASSUME NEW a \in ListOf(m)
      PROVE  /\ m[a] \in ListOf(m)
             /\ m[a] = base => \A b \in ListOf(m) : b <= a
             /\ m[a] # base => a < m[a] /\ \A b \in ListOf(m) : b <= a \/ m[a] <= b
  <2>1. CASE a = x
    BY <1>1, <1>2, <1>4, <1>5, <1>7, <2>1
  <2>2. CASE a = q
    BY <1>1, <1>2, <1>4, <1>5, <1>7, <2>2
  <2>3. CASE a # x /\ a # q
    <3>1. a \in ListOf(n) /\ m[a] = n[a] /\ a \in Nat /\ n[a] \in Nat
      BY <1>2, <1>4, <1>5, <2>3
    <3>2. CASE n[a] = base
      <4>1. \A b \in ListOf(n) : b <= a
        BY <3>1, <3>2 DEF Ordered
      <4>2. x <= a
        BY <1>1, <1>2, <1>6, <2>3, <3>1, <4>1
      <4> QED BY <1>4, <3>1, <3>2, <4>1, <4>2, <1>2
    <3>3. CASE n[a] # base
      <4>1. a < n[a] /\ \A b \in ListOf(n) : b <= a \/ n[a] <= b
        BY <3>1, <3>3 DEF Ordered
      <4>2. x <= a \/ n[a] <= x
        BY <1>1, <1>2, <1>6, <2>3, <3>1, <4>1
      <4> QED BY <1>4, <3>1, <3>3, <4>1, <4>2, <1>2
    <3> QED BY <3>2, <3>3
  <2> QED BY <2>1, <2>2, <2>3
<1>9. Ordered(m)
  BY <1>4, <1>8 DEF Ordered
<1> QED BY <1>3, <1>4, <1>9 DEF m

\* Unlinking the chunk after q.
LEMMA UnlinkOrdered ==
  ASSUME NEW n \in Links, Ordered(n), NEW q \in ListOf(n), n[q] # base
  PROVE  /\ Unlink(n, q) \in Links /\ Ordered(Unlink(n, q)) /\ ListOf(Unlink(n, q)) = ListOf(n) \ {n[q]}
         /\ q \in ListOf(Unlink(n, q))
<1> DEFINE m == Unlink(n, q)
           y == n[q]
<1>1. /\ q \in Addr /\ q \in Nat /\ y \in ListOf(n) /\ y \in Addr /\ y \in Nat /\ q < y
      /\ n[y] \in ListOf(n) /\ n[y] \in Addr /\ n[y] \in Nat /\ y # base
      /\ \A b \in ListOf(n) : b <= q \/ y <= b
  BY AddrFacts DEF ListOf, Ordered
<1>2. \A a \in ListOf(n) : a \in Addr /\ a \in Nat /\ n[a] \in ListOf(n) /\ n[a] \in Nat
  BY AddrFacts DEF ListOf, Ordered
<1>3. n[y] # y
  BY <1>1, <1>2 DEF Ordered
<1>4. m \in Links /\ \A a \in Addr : m[a] = IF a = y THEN NULL ELSE IF a = q THEN n[y] ELSE n[a]
  BY <1>1, <1>2 DEF Links, Unlink
<1> HIDE DEF y, m
<1>5. ListOf(m) = ListOf(n) \ {y}
  BY <1>1, <1>2, <1>4, AddrFacts DEF ListOf
<1>6. m[q] = n[y] /\ \A a \in ListOf(m) : a # q => m[a] = n[a]
  BY <1>1, <1>2, <1>4, <1>5
<1>7. /\ n[y] = base => \A b \in ListOf(n) : b <= y
      /\ n[y] # base => y < n[y] /\ \A b \in ListOf(n) : b <= y \/ n[y] <= b
  BY <1>1 DEF Ordered
<1>8. ASSUME NEW a \in ListOf(m)
      PROVE  /\ m[a] \in ListOf(m)
             /\ m[a] = base => \A b \in ListOf(m) : b <= a
             /\ m[a] # base => a < m[a] /\ \A b \in ListOf(m) : b <= a \/ m[a] <= b
  <2>1. CASE a = q
    BY <1>1, <1>2, <1>3, <1>5, <1>6, <1>7, <2>1
  <2>2. CASE a # q
    <3>1. /\ a \in ListOf(n) /\ m[a] = n[a] /\ a \in Nat /\ n[a] \in Nat /\ a # y
          /\ n[a] \in ListOf(n)
      BY <1>2, <1>5, <1>6, <2>2
    <3>2. /\ n[a] = base => \A b \in ListOf(n) : b <= a
          /\ n[a] # base => a < n[a] /\ \A b \in ListOf(n) : b <= a \/ n[a] <= b
      BY <3>1 DEF Ordered
    <3>3. n[a] # y
      BY <1>1, <2>2, <3>1, <3>2
    <3> QED BY <1>5, <3>1, <3>2, <3>3
  <2> QED BY <2>1, <2>2
<1>9. Ordered(m)
  <2>1. base \in ListOf(m)
    BY <1>1, <1>5 DEF Ordered
  <2> QED BY <1>8, <2>1 DEF Ordered
<1>10. q \in ListOf(m)
  BY <1>1, <1>5
<1> QED BY <1>4, <1>5, <1>9, <1>10 DEF y, m

(***************************************************************************)
(* The surgeries applied to the state.                                     *)
(***************************************************************************)

\* The invariant in terms of the operators above.
LEMMA HeapFacts ==
  ASSUME Inv
  PROVE  /\ size \in Sizes /\ next \in Links /\ brk \in Addr /\ brk # base
         /\ Tiled(size, brk) /\ Ordered(next)
         /\ Heads = HeadsOf(size) /\ Frees = ListOf(next)
         /\ Heads \subseteq Addr /\ Frees \subseteq Addr
         /\ \A a \in Heads : a \in Nat /\ size[a] \in Nat /\ size[a] > 0 /\ a # base
         /\ \A a \in Frees : next[a] \in Frees /\ next[a] # NULL
         /\ \A a \in Frees \ {base} : a \in Heads
         /\ \A a \in Frees : a \in Nat
         /\ base \in Frees /\ freep \in Frees
<1>1. /\ size \in Sizes /\ next \in Links /\ brk \in Addr /\ brk # base
      /\ Heads = HeadsOf(size) /\ Frees = ListOf(next)
      /\ Heads \subseteq Addr /\ Frees \subseteq Addr
  BY DEF Inv, TypeOK, Sizes, Links, Heads, Frees, HeadsOf, ListOf
<1>2. Tiled(size, brk)
  BY <1>1 DEF Inv, HeapTiled, Tiled
<1>3. Ordered(next)
  BY <1>1 DEF Inv, FreeListOrdered, Ordered
<1>4. \A a \in Heads : a \in Nat /\ size[a] \in Nat /\ size[a] > 0 /\ a # base
  BY <1>1, AddrFacts DEF Heads, Sizes, Inv, HeapTiled
<1>5. \A a \in Frees : a \in Nat /\ next[a] \in Frees /\ next[a] # NULL
  BY <1>1, AddrFacts DEF Frees, Inv, FreeListOrdered
<1>6. /\ base \in Frees /\ freep \in Frees
      /\ \A a \in Frees \ {base} : a \in Heads
  BY DEF Inv, FreeListOrdered
<1> QED BY <1>1, <1>2, <1>3, <1>4, <1>5, <1>6

\* And back, for the state after a step.
LEMMA HeapBuilt ==
  ASSUME Tiled(size', brk'), Ordered(next'),
         freep' \in ListOf(next'), \A a \in ListOf(next') \ {base} : a \in HeadsOf(size')
  PROVE  /\ HeapTiled' /\ FreeListOrdered'
         /\ Heads' = HeadsOf(size') /\ Frees' = ListOf(next')
<1>1. Heads' = HeadsOf(size') /\ Frees' = ListOf(next')
  BY DEF Heads, Frees, HeadsOf, ListOf
<1>2. HeapTiled'
  BY <1>1 DEF HeapTiled, Tiled
<1>3. FreeListOrdered'
  BY <1>1 DEF FreeListOrdered, Ordered
<1> QED BY <1>1, <1>2, <1>3

\* A step that leaves the headers alone.
LEMMA SameHeap ==
  ASSUME Inv, UNCHANGED <<size, next, freep, brk>>
  PROVE  /\ HeapTiled' /\ FreeListOrdered' /\ Coalesced'
         /\ Heads' = Heads /\ Frees' = Frees
BY DEF Inv, HeapTiled, FreeListOrdered, Coalesced, Heads, Frees

\* The exit condition of _prevchunk gives the true neighbours of hp on the
\* free list.
LEMMA PrevIsNeighbour ==
  ASSUME Inv, pc = "prev", PrevFound
  PROVE  /\ p \in Frees /\ hp \in Heads /\ hp \notin Frees
         /\ p < hp
         /\ next[p] = base \/ hp < next[p]
         /\ \A b \in Frees : b <= p \/ (next[p] # base /\ next[p] <= b)
<1>1. p \in Frees /\ hp \in Heads /\ hp \notin Frees
  BY DEF Inv, ControlOK
<1>2. next[p] \in Addr /\ p \in Addr /\ hp \in Addr
  BY <1>1 DEF Inv, TypeOK, FreeListOrdered, Frees
<1>3. p < hp /\ (next[p] = base \/ hp < next[p])
  BY <1>1, <1>2, LimitAssumption DEF Inv, FreeListOrdered, PrevFound, Addr, base, NULL
<1> QED
  BY <1>1, <1>2, <1>3 DEF Inv, FreeListOrdered

\* Headers that join() turns into payload.
Gone == (IF JoinNext THEN {next[p]} ELSE {}) \cup (IF JoinPrev THEN {hp} ELSE {})

\* The three surgeries of free(): insert, merge with the next chunk, merge
\* with the previous one.
LEMMA JoinShape ==
  ASSUME Inv, pc = "prev", PrevFound, join, UNCHANGED brk
  PROVE  /\ size' \in Sizes /\ next' \in Links
         /\ Tiled(size', brk') /\ Ordered(next')
         /\ HeadsOf(size') = HeadsOf(size) \ Gone
         /\ ListOf(next') = (ListOf(next) \cup {hp}) \ Gone
         /\ p \in ListOf(next')
         /\ \A a \in Addr : a \notin {p, hp, next[p]} => size'[a] = size[a]
         /\ ~JoinPrev => size'[p] = size[p]
         /\ ~JoinNext => size'[next[p]] = size[next[p]] \/ next[p] = p
         /\ JoinPrev /\ JoinNext => p + size'[p] = next[p] + size[next[p]]
         /\ JoinPrev /\ ~JoinNext => p + size'[p] = hp + size[hp]
         /\ ~JoinPrev /\ JoinNext => hp + size'[hp] = next[p] + size[next[p]]
         /\ ~JoinPrev /\ ~JoinNext => size'[hp] = size[hp]
<1> DEFINE nx == next[p]
           s1 == IF JoinNext THEN Merge(size, hp, nx) ELSE size
           s2 == IF JoinPrev THEN Merge(s1, p, hp) ELSE s1
           n1 == Insert(next, p, hp)
           n2 == IF JoinNext THEN Unlink(n1, hp) ELSE n1
           n3 == IF JoinPrev THEN Unlink(n2, p) ELSE n2
<1>1. /\ p \in ListOf(next) /\ hp \in HeadsOf(size) /\ hp \notin ListOf(next)
      /\ p < hp
      /\ nx = base \/ hp < nx
  BY PrevIsNeighbour, HeapFacts
<1>2. /\ size \in Sizes /\ next \in Links /\ brk \in Addr
      /\ Tiled(size, brk) /\ Ordered(next)
      /\ p \in Addr /\ hp \in Addr /\ nx \in Addr /\ hp # base
      /\ p \in Nat /\ hp \in Nat /\ nx \in Nat
      /\ \A a \in ListOf(next) \ {base} : a \in HeadsOf(size)
      /\ nx \in ListOf(next)
      /\ size[hp] \in Nat /\ size[hp] > 0 /\ size[p] \in Nat /\ size[nx] \in Nat
      /\ size[base] = 0
  BY <1>1, HeapFacts, AddrFacts DEF Sizes, Tiled
<1>3. ASSUME JoinNext PROVE nx # base /\ nx \in HeadsOf(size) /\ hp + size[hp] = nx
  BY <1>1, <1>2, <1>3, AddrFacts DEF JoinNext
<1>4. ASSUME JoinPrev PROVE p # base /\ p \in HeadsOf(size) /\ p + size[p] = hp
  BY <1>1, <1>2, <1>4, AddrFacts DEF JoinPrev
<1>5. /\ n1 \in Links /\ Ordered(n1) /\ ListOf(n1) = ListOf(next) \cup {hp}
      /\ n1[hp] = nx /\ n1[p] = hp
  <2>1. n1 \in Links /\ Ordered(n1) /\ ListOf(n1) = ListOf(next) \cup {hp}
    BY <1>1, <1>2, InsertOrdered
  <2>2. n1[hp] = nx /\ n1[p] = hp
    BY <1>1, <1>2 DEF Insert, Links
  <2> QED BY <2>1, <2>2
<1>6. /\ s1 \in Sizes /\ Tiled(s1, brk)
      /\ HeadsOf(s1) = HeadsOf(size) \ (IF JoinNext THEN {nx} ELSE {})
  <2>1. CASE JoinNext
    BY <1>1, <1>2, <1>3, <2>1, MergeTiled
  <2>2. CASE ~JoinNext
    BY <1>2, <2>2
  <2> QED BY <2>1, <2>2
<1>7. /\ n2 \in Links /\ Ordered(n2)
      /\ ListOf(n2) = (ListOf(next) \cup {hp}) \ (IF JoinNext THEN {nx} ELSE {})
      /\ n2[p] = hp
  <2>1. CASE JoinNext
    <3> HIDE DEF n1
    <3>1. hp \in ListOf(n1) /\ n1[hp] # base
      BY <1>3, <1>5, <2>1
    <3>2. Unlink(n1, hp) \in Links /\ Ordered(Unlink(n1, hp)) /\ ListOf(Unlink(n1, hp)) = ListOf(n1) \ {n1[hp]}
      BY <1>5, <3>1, UnlinkOrdered
    <3>3. Unlink(n1, hp)[p] = hp
      BY <1>1, <1>2, <1>3, <1>5, <2>1 DEF Unlink, Links
    <3> QED BY <1>5, <2>1, <3>2, <3>3
  <2>2. CASE ~JoinNext
    BY <1>5, <2>2
  <2> QED BY <2>1, <2>2
<1>8. size' = s2
  <2>1. s2 \in [Addr -> Nat]
    BY <1>2 DEF Sizes, Merge
  <2>2. \A a \in Addr : size'[a] = s2[a]
    <3> SUFFICES ASSUME NEW a \in Addr PROVE size'[a] = s2[a]
      OBVIOUS
    <3>1. CASE JoinNext /\ JoinPrev
      BY <1>1, <1>2, <1>3, <1>4, <3>1 DEF join, JoinedSize, Merge, Sizes
    <3>2. CASE JoinNext /\ ~JoinPrev
      BY <1>1, <1>2, <1>3, <3>2 DEF join, JoinedSize, Merge, Sizes
    <3>3. CASE ~JoinNext /\ JoinPrev
      BY <1>1, <1>2, <1>4, <3>3 DEF join, JoinedSize, Merge, Sizes
    <3>4. CASE ~JoinNext /\ ~JoinPrev
      BY <1>1, <1>2, <3>4 DEF join, JoinedSize, Merge, Sizes
    <3> QED BY <3>1, <3>2, <3>3, <3>4
  <2> QED BY <2>1, <2>2 DEF join
<1>9. next' = n3
  <2>1. n3 \in [Addr -> Addr \cup {NULL}]
    BY <1>1, <1>2, <1>7 DEF Links, Unlink
  <2>2. \A a \in Addr : next'[a] = n3[a]
    <3> SUFFICES ASSUME NEW a \in Addr PROVE next'[a] = n3[a]
      OBVIOUS
    <3>1. CASE JoinNext /\ JoinPrev
      BY <1>1, <1>2, <1>3, <1>4, <3>1 DEF join, JoinedNext, Insert, Unlink, Links
    <3>2. CASE JoinNext /\ ~JoinPrev
      BY <1>1, <1>2, <1>3, <3>2 DEF join, JoinedNext, Insert, Unlink, Links
    <3>3. CASE ~JoinNext /\ JoinPrev
      BY <1>1, <1>2, <1>4, <3>3 DEF join, JoinedNext, Insert, Unlink, Links
    <3>4. CASE ~JoinNext /\ ~JoinPrev
      BY <1>1, <1>2, <3>4 DEF join, JoinedNext, Insert, Unlink, Links
    <3> QED BY <3>1, <3>2, <3>3, <3>4
  <2> QED BY <2>1, <2>2 DEF join
<1>10. /\ s2 \in Sizes /\ Tiled(s2, brk)
       /\ HeadsOf(s2) = HeadsOf(size) \ Gone
  <2>1. CASE JoinPrev
    <3>1. s1[p] = size[p]
      BY <1>1, <1>2, <1>3 DEF Merge, Sizes
    <3> HIDE DEF s1
    <3>2. p \in HeadsOf(s1) /\ hp \in HeadsOf(s1) /\ p + s1[p] = hp
      BY <1>1, <1>2, <1>3, <1>4, <1>6, <2>1, <3>1
    <3> QED BY <1>2, <1>6, <2>1, <3>2, MergeTiled DEF Gone
  <2>2. CASE ~JoinPrev
    BY <1>6, <2>2 DEF Gone
  <2> QED BY <2>1, <2>2
<1>11. /\ n3 \in Links /\ Ordered(n3)
       /\ ListOf(n3) = (ListOf(next) \cup {hp}) \ Gone /\ p \in ListOf(n3)
  <2> HIDE DEF n2
  <2>0. p \in ListOf(n2)
    BY <1>1, <1>2, <1>3, <1>7
  <2>1. CASE JoinPrev
    BY <1>2, <1>7, <2>0, <2>1, UnlinkOrdered DEF Gone
  <2>2. CASE ~JoinPrev
    BY <1>7, <2>0, <2>2 DEF Gone
  <2> QED BY <2>1, <2>2
<1>12. /\ \A a \in Addr : a \notin {p, hp, nx} => s2[a] = size[a]
       /\ ~JoinPrev => s2[p] = size[p]
       /\ ~JoinNext => s2[nx] = size[nx] \/ nx = p
       /\ JoinPrev /\ JoinNext => p + s2[p] = nx + size[nx]
       /\ JoinPrev /\ ~JoinNext => p + s2[p] = hp + size[hp]
       /\ ~JoinPrev /\ JoinNext => hp + s2[hp] = nx + size[nx]
       /\ ~JoinPrev /\ ~JoinNext => s2[hp] = size[hp]
  <2>1. CASE JoinNext /\ JoinPrev
    BY <1>1, <1>2, <1>3, <1>4, <2>1 DEF Merge, Sizes
  <2>2. CASE JoinNext /\ ~JoinPrev
    BY <1>1, <1>2, <1>3, <2>2 DEF Merge, Sizes
  <2>3. CASE ~JoinNext /\ JoinPrev
    BY <1>1, <1>2, <1>4, <2>3 DEF Merge, Sizes
  <2>4. CASE ~JoinNext /\ ~JoinPrev
    BY <2>4
  <2> QED BY <2>1, <2>2, <2>3, <2>4
<1> HIDE DEF s2, n3
<1> QED BY <1>8, <1>9, <1>10, <1>11, <1>12

\* free() leaves no two free neighbours.
LEMMA JoinCoalesced ==
  ASSUME Inv, pc = "prev", PrevFound, join, UNCHANGED brk
  PROVE  Coalesced'
<1> DEFINE nx == next[p]
           c  == IF JoinPrev THEN p ELSE hp
           H  == HeadsOf(size)
           F  == ListOf(next)
<1>1. /\ p \in F /\ hp \in H /\ hp \notin F /\ p < hp
      /\ nx = base \/ hp < nx
      /\ \A b \in F : b <= p \/ (nx # base /\ nx <= b)
  BY PrevIsNeighbour, HeapFacts
<1>2. /\ F \subseteq Addr /\ H \subseteq Addr /\ nx \in F /\ base = 0
      /\ \A a \in H : a \in Nat /\ size[a] \in Nat /\ size[a] > 0
      /\ \A a \in F : a \in Nat
      /\ \A a \in F \ {base} : a \in H
      /\ \A a, b \in H : a < b => a + size[a] <= b
      /\ \A a \in F \ {base} : a + size[a] \notin F
  BY <1>1, HeapFacts, AddrFacts DEF Inv, Coalesced, Tiled
<1>3. /\ Frees' = (F \cup {hp}) \ Gone
      /\ \A a \in Addr : a \notin {p, hp, nx} => size'[a] = size[a]
      /\ ~JoinPrev => size'[p] = size[p]
      /\ ~JoinNext => size'[nx] = size[nx] \/ nx = p
      /\ JoinPrev /\ JoinNext => p + size'[p] = nx + size[nx]
      /\ JoinPrev /\ ~JoinNext => p + size'[p] = hp + size[hp]
      /\ ~JoinPrev /\ JoinNext => hp + size'[hp] = nx + size[nx]
      /\ ~JoinPrev /\ ~JoinNext => size'[hp] = size[hp]
  <2>1. Frees' = ListOf(next')
    BY DEF Frees, ListOf
  <2> QED BY <2>1, JoinShape
<1>4. /\ JoinNext <=> hp + size[hp] = nx
      /\ JoinPrev <=> p + size[p] = hp
      /\ JoinNext => nx \in Gone
      /\ JoinPrev => hp \in Gone
  BY DEF JoinNext, JoinPrev, Gone
<1> HIDE DEF nx, F, H
<1>5. hp + size[hp] = nx \/ hp + size[hp] \notin F \cup {hp}
  BY <1>1, <1>2
<1>6. JoinNext => nx # base /\ nx + size[nx] \notin F \cup {hp}
  BY <1>1, <1>2, <1>4
<1>7. SUFFICES ASSUME NEW a \in Frees', a # base, a + size'[a] \in Frees' PROVE FALSE
  BY DEF Coalesced
<1>8. CASE a = c
  <2>1. CASE JoinNext
    BY <1>3, <1>6, <1>7, <1>8, <2>1
  <2>2. CASE ~JoinNext
    BY <1>1, <1>3, <1>4, <1>5, <1>7, <1>8, <2>2
  <2> QED BY <2>1, <2>2
<1>9. CASE a # c
  <2>1. a \in F /\ a # hp /\ (JoinNext => a # nx) /\ (JoinPrev => a # p)
    BY <1>1, <1>3, <1>4, <1>7, <1>9
  <2>2. size'[a] = size[a]
    BY <1>1, <1>2, <1>3, <2>1
  <2>3. a + size[a] = hp
    BY <1>2, <1>3, <1>7, <2>1, <2>2
  <2>4. a \in H /\ a < hp
    BY <1>2, <1>7, <2>1, <2>3
  <2>5. a = p
    BY <1>1, <1>2, <1>7, <2>1, <2>3, <2>4
  <2> QED BY <1>4, <2>1, <2>3, <2>5
<1> QED BY <1>8, <1>9

(***************************************************************************)
(* Every action keeps the invariant.                                       *)
(***************************************************************************)

\* A chunk of the list that holds a request is not base.
LEMMA FitIsChunk ==
  ASSUME Inv, pc = "scan", size[cur] >= Units(nbytes)
  PROVE  /\ p \in Frees /\ Asked(nbytes) /\ cur \in Frees /\ cur # base /\ cur \in Heads
         /\ cur \in Addr /\ cur # p /\ live[cur] = 0 /\ cur = next[p]
<1>1. p \in Frees /\ Asked(nbytes) /\ cur = next[p]
  BY DEF Inv, ControlOK, cur
<1>2. cur \in Frees /\ size[base] = 0 /\ Units(nbytes) \in Nat /\ Units(nbytes) >= 2
  BY <1>1, HeapFacts, UnitsFit DEF Inv, HeapTiled
<1>3. cur # base
  BY <1>2
<1>4. cur \in Heads /\ cur \in Addr
  BY <1>2, <1>3, HeapFacts
<1>5. cur # p
  BY <1>1, <1>2, <1>3, HeapFacts DEF Inv, FreeListOrdered
<1>6. live[cur] = 0
  BY <1>2, <1>4 DEF Inv, LiveBlocksFit, TypeOK
<1> QED BY <1>1, <1>2, <1>3, <1>4, <1>5, <1>6

\* The calls that only start a walk.
LEMMA StartInv ==
  ASSUME Inv, NEW n, Asked(n), malloc(n)
  PROVE  Inv'
<1> USE DEF malloc, StartScan
<1>1. HeapTiled' /\ FreeListOrdered' /\ Coalesced' /\ Heads' = Heads /\ Frees' = Frees
  BY SameHeap
<1>2. TypeOK'
  <2>1. n \in 0 .. SIZE - 1
    BY UnitsFit, SizeAssumption
  <2> QED BY <2>1 DEF Inv, TypeOK
<1>3. NoChunkLost'
  BY <1>1 DEF Inv, NoChunkLost, InFlight
<1>4. LiveBlocksFit'
  BY <1>1 DEF Inv, LiveBlocksFit
<1>5. ControlOK'
  BY <1>1, HeapFacts DEF Inv, ControlOK, Asked, TooBig
<1> QED BY <1>1, <1>2, <1>3, <1>4, <1>5 DEF Inv

\* Entering free() keeps the invariant: the block becomes one in flight.
LEMMA FreeInv ==
  ASSUME Inv, NEW a \in Addr, free(a)
  PROVE  Inv'
<1> USE DEF free, StartPrev
<1>1. HeapTiled' /\ FreeListOrdered' /\ Coalesced' /\ Heads' = Heads /\ Frees' = Frees
  BY SameHeap
<1>2. a \in Heads /\ a \notin Frees /\ live' = [live EXCEPT ![a] = 0]
  BY DEF Inv, LiveBlocksFit
<1>3. TypeOK'
  BY SizeAssumption DEF Inv, TypeOK, FreeListOrdered, Callers
<1>4. NoChunkLost'
  BY <1>1, <1>2 DEF Inv, NoChunkLost, InFlight, TypeOK, Heads
<1>5. LiveBlocksFit'
  BY <1>1, <1>2 DEF Inv, LiveBlocksFit, TypeOK
<1>6. ControlOK'
  BY <1>1, <1>2, HeapFacts DEF Inv, ControlOK, TypeOK
<1> QED BY <1>1, <1>3, <1>4, <1>5, <1>6 DEF Inv

\* What a realloc() call knows of its argument.
LEMMA OwnedBlock ==
  ASSUME Inv, NEW a \in Addr, live[a] > 0
  PROVE  /\ a \in Heads /\ a \notin Frees /\ a # base /\ a \in Nat
         /\ size[a] \in Nat /\ size[a] > 0 /\ live[a] \in 0 .. SIZE - 1
  BY HeapFacts DEF Inv, LiveBlocksFit, TypeOK

\* realloc() of a block that has the right size keeps the invariant.
LEMMA ReallocSameInv ==
  ASSUME Inv, NEW a \in Addr, NEW n, Asked(n), pc = "idle", live[a] > 0, reallocSame(a, n)
  PROVE  Inv'
<1> USE DEF reallocSame
<1>1. HeapTiled' /\ FreeListOrdered' /\ Coalesced' /\ Heads' = Heads /\ Frees' = Frees
  BY SameHeap
<1>2. a \in Heads /\ a \notin Frees /\ n \in 1 .. SIZE - 1 /\ n <= (size[a] - 1) * HDR
  BY OwnedBlock, UnitsFit
<1>3. TypeOK'
  <2>1. n \in 0 .. SIZE - 1 /\ MinOf(live[a], n) \in 0 .. SIZE - 1
    BY <1>2, OwnedBlock, SizeAssumption DEF MinOf
  <2> QED BY <2>1 DEF Inv, TypeOK
<1>4. NoChunkLost'
  BY <1>1, <1>2 DEF Inv, NoChunkLost, InFlight, TypeOK, Heads
<1>5. LiveBlocksFit'
  BY <1>1, <1>2 DEF Inv, LiveBlocksFit, TypeOK
<1>6. ControlOK'
  BY DEF Inv, ControlOK
<1> QED BY <1>1, <1>3, <1>4, <1>5, <1>6 DEF Inv

\* realloc() looking for the predecessor of its block keeps the invariant.
LEMMA ReallocGrowInv ==
  ASSUME Inv, NEW a \in Addr, NEW n, Asked(n), pc = "idle", live[a] > 0, reallocGrow(a, n)
  PROVE  Inv'
<1> USE DEF reallocGrow, StartPrev
<1>1. HeapTiled' /\ FreeListOrdered' /\ Coalesced' /\ Heads' = Heads /\ Frees' = Frees
  BY SameHeap
<1>2. a \in Heads /\ a \notin Frees /\ n \in 1 .. SIZE - 1
  BY OwnedBlock, UnitsFit
<1>3. TypeOK'
  BY <1>2, SizeAssumption DEF Inv, TypeOK, Callers
<1>4. NoChunkLost'
  BY <1>1, <1>2 DEF Inv, NoChunkLost, InFlight
<1>5. LiveBlocksFit'
  BY <1>1, <1>2 DEF Inv, LiveBlocksFit
<1>6. ControlOK'
  BY <1>1, <1>2, HeapFacts, OwnedBlock, UnitsFit DEF Inv, ControlOK, Asked, TooBig
<1> QED BY <1>1, <1>3, <1>4, <1>5, <1>6 DEF Inv

\* realloc() cutting a block in two keeps the invariant.
LEMMA ReallocShrinkInv ==
  ASSUME Inv, NEW a \in Addr, NEW n, Asked(n), pc = "idle", live[a] > 0, reallocShrink(a, n)
  PROVE  Inv'
<1> DEFINE k == Units(n)
           y == a + k
<1>1. /\ a \in Heads /\ a \notin Frees /\ n \in 1 .. SIZE - 1 /\ k \in Nat /\ k >= 2
      /\ n <= (k - 1) * HDR /\ k < size[a] /\ a \in Nat /\ size[a] \in Nat
  BY OwnedBlock, UnitsFit DEF reallocShrink
<1> HIDE DEF k
<1>2. /\ y \in Addr /\ y \notin Heads /\ y # a /\ y # base
      /\ size' = Split(size, a, k) /\ size' \in Sizes /\ Tiled(size', brk)
      /\ HeadsOf(size') = Heads \cup {y}
  <2>1. size' = Split(size, a, k)
    BY DEF reallocShrink, Split, k
  <2>2. k > 0 /\ a \in HeadsOf(size) /\ y # a /\ y # base
    BY <1>1, HeapFacts, AddrFacts
  <2> QED BY <1>1, <2>1, <2>2, HeapFacts, SplitTiled
<1>3. /\ \A b \in Addr : b # a /\ b # y => size'[b] = size[b]
      /\ size'[a] = k
  BY <1>1, <1>2, HeapFacts DEF Split, Sizes
<1>4. /\ next' = next /\ freep' = freep /\ brk' = brk /\ Frees' = Frees
      /\ pc' = "prev" /\ p' = freep /\ hp' = y /\ caller' = "shrink"
      /\ live' = [live EXCEPT ![a] = n] /\ kept' = MinOf(live[a], n)
      /\ UNCHANGED <<nbytes, ptr, inrealloc>>
  BY DEF reallocShrink, StartPrev, Frees, k
<1> HIDE DEF y
<1>5. HeapTiled' /\ FreeListOrdered' /\ Heads' = Heads \cup {y}
  BY <1>2, <1>4, HeapFacts, HeapBuilt
<1>6. y \notin Frees /\ live[y] = 0
  BY <1>2, HeapFacts DEF Inv, LiveBlocksFit, TypeOK
<1>7. Coalesced'
  BY <1>1, <1>3, <1>4, <1>6, HeapFacts DEF Inv, Coalesced
<1>8. TypeOK'
  <2>1. n \in 0 .. SIZE - 1 /\ MinOf(live[a], n) \in 0 .. SIZE - 1
    BY <1>1, OwnedBlock, SizeAssumption DEF MinOf
  <2> QED BY <1>2, <1>4, <2>1, HeapFacts DEF Inv, TypeOK, Sizes, Callers
<1>9. NoChunkLost'
  BY <1>1, <1>4, <1>5 DEF Inv, NoChunkLost, InFlight, TypeOK, Heads
<1>10. LiveBlocksFit'
  BY <1>1, <1>3, <1>4, <1>5, <1>6 DEF Inv, LiveBlocksFit, TypeOK
<1>11. ControlOK'
  BY <1>1, <1>2, <1>4, <1>5, <1>6, HeapFacts DEF Inv, ControlOK, TypeOK
<1> QED BY <1>5, <1>7, <1>8, <1>9, <1>10, <1>11 DEF Inv

\* A turn of either walk of the list stays on the list.
LEMMA WalkInv ==
  ASSUME Inv, _prevchunk \/ mallocNext
  PROVE  Inv'
<1>0. /\ UNCHANGED <<size, next, freep, brk, pc, hp, nbytes, ptr, inrealloc, caller, live, kept>>
      /\ p' = next[p] /\ pc # "idle"
  BY DEF _prevchunk, mallocNext, cur
<1>1. HeapTiled' /\ FreeListOrdered' /\ Coalesced' /\ Heads' = Heads /\ Frees' = Frees
  BY <1>0, SameHeap
<1>2. p' \in Frees /\ p' \in Addr
  BY <1>0, HeapFacts DEF Inv, ControlOK, TypeOK
<1>3. TypeOK'
  BY <1>0, <1>2 DEF Inv, TypeOK
<1>4. NoChunkLost'
  BY <1>0, <1>1 DEF Inv, NoChunkLost, InFlight
<1>5. LiveBlocksFit'
  BY <1>0, <1>1 DEF Inv, LiveBlocksFit
<1>6. ControlOK'
  BY <1>0, <1>1, <1>2 DEF Inv, ControlOK, Asked
<1> QED BY <1>1, <1>3, <1>4, <1>5, <1>6 DEF Inv

\* free(), whoever called it.
LEMMA JoinInv ==
  ASSUME Inv, freeDone \/ morecoreDone
  PROVE  Inv'
<1>1. /\ pc = "prev" /\ PrevFound /\ caller # "grow" /\ join
      /\ UNCHANGED <<brk, live, kept>> /\ freep' = p
  BY DEF freeDone, morecoreDone, join
<1>2. /\ p \in Frees /\ hp \in Heads /\ hp \notin Frees /\ live[hp] = 0
      /\ next[p] \in Frees
  BY <1>1, HeapFacts DEF Inv, ControlOK
<1>3. /\ size' \in Sizes /\ next' \in Links
      /\ Tiled(size', brk') /\ Ordered(next')
      /\ HeadsOf(size') = Heads \ Gone
      /\ ListOf(next') = (Frees \cup {hp}) \ Gone
      /\ p \in ListOf(next')
      /\ \A a \in Addr : a \notin {p, hp, next[p]} => size'[a] = size[a]
  BY <1>1, JoinShape, HeapFacts
<1>4. Gone \subseteq {next[p], hp}
  BY DEF Gone
<1>5. /\ HeapTiled' /\ FreeListOrdered' /\ Coalesced'
      /\ Heads' = Heads \ Gone /\ Frees' = (Frees \cup {hp}) \ Gone
  <2>1. \A a \in ListOf(next') \ {base} : a \in HeadsOf(size')
    BY <1>2, <1>3, HeapFacts
  <2> QED BY <1>1, <1>3, <2>1, HeapBuilt, JoinCoalesced
<1>6. \A a \in Addr : live[a] > 0 => a \in Heads /\ a \notin Frees /\ a # hp
  BY <1>2, HeapFacts DEF Inv, LiveBlocksFit
<1>7. LiveBlocksFit'
  <2> SUFFICES ASSUME NEW a \in Addr, live[a] > 0
      PROVE a \in Heads' /\ a \notin Frees' /\ live[a] <= (size'[a] - 1) * HDR
    BY <1>1 DEF LiveBlocksFit
  <2>1. size'[a] = size[a]
    BY <1>2, <1>3, <1>6
  <2>2. a \in Heads' /\ a \notin Frees'
    BY <1>2, <1>4, <1>5, <1>6
  <2> QED BY <2>1, <2>2 DEF Inv, LiveBlocksFit
<1>8. NoChunkLost'
  BY <1>1, <1>5 DEF Inv, NoChunkLost, InFlight
<1>9. CASE freeDone
  <2>1. TypeOK'
    BY ZenonT(30), <1>1, <1>2, <1>3, <1>9, HeapFacts, AddrFacts, SizeAssumption
       DEF Inv, TypeOK, freeDone, Return, Sizes, Links, Callers
  <2>2. ControlOK'
    BY <1>9 DEF ControlOK, freeDone, Return
  <2> QED BY <1>5, <1>7, <1>8, <2>1, <2>2 DEF Inv
<1>10. CASE morecoreDone
  <2>1. TypeOK'
    BY <1>1, <1>2, <1>3, <1>10, HeapFacts
       DEF Inv, TypeOK, morecoreDone, Sizes, Links
  <2>2. ControlOK'
    <3>1. /\ caller = "morecore" /\ pc' = "scan"
          /\ UNCHANGED <<p, hp, nbytes, ptr, inrealloc, caller, live>>
      BY <1>1, <1>10 DEF morecoreDone
    <3>2. p \in Frees' /\ Asked(nbytes)
      BY <1>1, <1>3, <1>5, <3>1 DEF Inv, ControlOK
    <3>3. inrealloc => /\ ptr \in Addr /\ live[ptr] > 0
                       /\ size'[ptr] < Units(nbytes)
      BY <1>1, <1>2, <1>3, <1>6, <3>1 DEF Inv, ControlOK
    <3> QED BY <3>1, <3>2, <3>3 DEF ControlOK, Asked
  <2> QED BY <1>5, <1>7, <1>8, <2>1, <2>2 DEF Inv
<1> QED BY <1>9, <1>10

\* What Deliver() promises when the chunk is in use and large enough: the
\* parts of the invariant that are not about the shape of the heap.
LEMMA DeliverInv ==
  ASSUME Inv, pc = "scan", NEW chunk \in Addr, live[chunk] = 0, Deliver(chunk),
         size' \in Sizes, next' \in Links, brk' = brk, freep' = p,
         HeapTiled', FreeListOrdered', Coalesced',
         chunk \in Heads', chunk \notin Frees', size'[chunk] = Units(nbytes),
         p \in Frees', Frees' \subseteq Frees,
         \A a \in Heads' : a = chunk \/ a \in Heads,
         \A a \in Heads' : a \in Frees => a = chunk \/ a \in Frees',
         \A a \in Addr : a \in Heads /\ a \notin Frees =>
             a \in Heads' /\ a # chunk /\ size'[a] = size[a]
  PROVE  Inv'
<1>1. /\ Asked(nbytes) /\ nbytes \in 1 .. SIZE - 1 /\ nbytes \in 0 .. SIZE - 1
      /\ nbytes <= (Units(nbytes) - 1) * HDR
  BY UnitsFit, SizeAssumption DEF Inv, ControlOK
<1>2. \A a \in Addr : live[a] > 0 => a \in Heads /\ a \notin Frees
  BY DEF Inv, LiveBlocksFit
<1>3. /\ live'[chunk] = nbytes
      /\ \A a \in Addr : a # chunk => live'[a] = live[a] \/ live'[a] = 0
      /\ live' \in [Addr -> 0 .. SIZE - 1]
  BY <1>1, SizeAssumption DEF Inv, TypeOK, Deliver, ControlOK
<1>4. LiveBlocksFit'
  <2> SUFFICES ASSUME NEW a \in Addr, live'[a] > 0
      PROVE a \in Heads' /\ a \notin Frees' /\ live'[a] <= (size'[a] - 1) * HDR
    BY DEF LiveBlocksFit
  <2>1. CASE a = chunk
    BY <1>1, <1>3, <2>1
  <2>2. CASE a # chunk
    BY <1>2, <1>3, <2>2 DEF Inv, LiveBlocksFit
  <2> QED BY <2>1, <2>2
<1>5. CASE inrealloc
  <2>1. /\ live' = [live EXCEPT ![ptr] = 0, ![chunk] = nbytes]
        /\ kept' = MinOf(live[ptr], MinOf((size[ptr] - 1) * HDR, nbytes))
        /\ pc' = "prev" /\ hp' = ptr /\ caller' = "move"
        /\ UNCHANGED <<p, nbytes, ptr, inrealloc>>
    BY <1>5 DEF Deliver
  <2>2. /\ ptr \in Addr /\ live[ptr] > 0 /\ ptr \in Heads /\ ptr \notin Frees
        /\ ptr \in Heads' /\ ptr \notin Frees' /\ ptr # chunk
    BY <1>2, <1>5 DEF Inv, ControlOK
  <2>3. live'[ptr] = 0 /\ \A a \in Addr : a # chunk /\ a # ptr => live'[a] = live[a]
    BY <1>3, <2>1, <2>2 DEF Inv, TypeOK
  <2>4. kept' \in 0 .. SIZE - 1
    <3>1. live[ptr] \in 0 .. SIZE - 1 /\ live[ptr] <= (size[ptr] - 1) * HDR
      BY <2>2 DEF Inv, TypeOK, LiveBlocksFit
    <3> DEFINE r == (size[ptr] - 1) * HDR
    <3>2. r \in Int
      BY <2>2, HeapFacts, HDRAssumption
    <3> HIDE DEF r
    <3>3. MinOf(r, nbytes) \in Int /\ (MinOf(r, nbytes) = r \/ MinOf(r, nbytes) = nbytes)
      BY <1>1, <3>2 DEF MinOf
    <3> QED BY <1>1, <2>1, <3>1, <3>2, <3>3, SizeAssumption DEF MinOf, r
  <2>5. TypeOK'
    BY <1>3, <2>1, <2>2, <2>4 DEF Inv, TypeOK, Sizes, Links, Callers
  <2>6. NoChunkLost'
    <3> SUFFICES ASSUME NEW a \in Heads' PROVE a \in Frees' \/ live'[a] > 0 \/ InFlight(a)'
      BY DEF NoChunkLost
    <3>1. a \in Addr
      BY DEF Heads
    <3>2. CASE a = chunk
      BY <1>1, <1>3, <3>2
    <3>3. CASE a = ptr
      BY <2>1, <3>3 DEF InFlight
    <3>4. CASE a # chunk /\ a # ptr
      BY <2>1, <2>3, <3>1, <3>4 DEF Inv, NoChunkLost, InFlight
    <3> QED BY <3>2, <3>3, <3>4
  <2>7. ControlOK'
    BY <2>1, <2>2, <2>3 DEF ControlOK
  <2> QED BY <1>4, <2>5, <2>6, <2>7 DEF Inv
<1>6. CASE ~inrealloc
  <2>1. live' = [live EXCEPT ![chunk] = nbytes] /\ kept' = 0 /\ Return
    BY <1>6 DEF Deliver
  <2>2. \A a \in Addr : a # chunk => live'[a] = live[a]
    BY <2>1 DEF Inv, TypeOK
  <2>3. TypeOK'
    BY <1>3, <2>1, AddrFacts, SizeAssumption DEF Inv, TypeOK, Sizes, Links, Callers, Return
  <2>4. NoChunkLost'
    BY <1>1, <1>3, <2>2 DEF Inv, NoChunkLost, InFlight, Heads
  <2>5. ControlOK'
    BY <2>1 DEF ControlOK, Return
  <2> QED BY <1>4, <2>3, <2>4, <2>5 DEF Inv
<1> QED BY <1>5, <1>6

\* Unlinking a chunk that fits perfectly keeps the invariant.
LEMMA MallocExactInv ==
  ASSUME Inv, mallocExact
  PROVE  Inv'
<1>1. /\ pc = "scan" /\ size[cur] = Units(nbytes) /\ freep' = p
      /\ size' = size /\ brk' = brk /\ Deliver(cur)
      /\ next' = Unlink(next, p)
  BY DEF mallocExact, cur, Unlink
<1>2. /\ p \in Frees /\ Asked(nbytes) /\ cur \in Frees /\ cur # base /\ cur \in Heads
      /\ cur \in Addr /\ cur # p /\ live[cur] = 0 /\ cur = next[p]
      /\ size[cur] >= Units(nbytes)
  BY <1>1, FitIsChunk, UnitsFit DEF Inv, ControlOK
<1>3. /\ next' \in Links /\ Ordered(next') /\ ListOf(next') = Frees \ {cur}
      /\ p \in ListOf(next')
  BY <1>1, <1>2, HeapFacts, UnlinkOrdered
<1>4. /\ HeapTiled' /\ FreeListOrdered' /\ Heads' = Heads /\ Frees' = Frees \ {cur}
  BY <1>1, <1>3, HeapFacts, HeapBuilt
<1>5. Coalesced'
  BY <1>1, <1>4 DEF Inv, Coalesced
<1> QED BY <1>1, <1>2, <1>3, <1>4, <1>5, HeapFacts, DeliverInv

\* Returning the right part of a larger chunk keeps the invariant.
LEMMA MallocSplitInv ==
  ASSUME Inv, mallocSplit
  PROVE  Inv'
<1> DEFINE u == Units(nbytes)
           left == size[cur] - u
           y == cur + left
<1>1. /\ pc = "scan" /\ size[cur] > u /\ freep' = p
      /\ next' = next /\ brk' = brk /\ Deliver(y)
      /\ size' = [size EXCEPT ![cur] = left, ![y] = u]
  BY DEF mallocSplit
<1>2. u \in Nat /\ u >= 2 /\ Asked(nbytes)
  BY <1>1, UnitsFit DEF Inv, ControlOK
<1>3. /\ p \in Frees /\ cur \in Frees /\ cur # base /\ cur \in Heads
      /\ cur \in Addr /\ cur \in Nat /\ size[cur] \in Nat
  <2>1. size[cur] >= u
    <3>1. size[cur] \in Nat
      BY <1>1, HeapFacts DEF Inv, ControlOK, cur, Sizes
    <3> QED BY <1>1, <1>2, <3>1
  <2> QED BY <1>1, <2>1, FitIsChunk, HeapFacts
<1> HIDE DEF u
<1>4. left \in Nat /\ left > 0 /\ left < size[cur] /\ size[cur] - left = u
  BY <1>1, <1>2, <1>3
<1>5. size' = Split(size, cur, left)
  BY <1>1, <1>4 DEF Split
<1> HIDE DEF left
<1>6. /\ y \in Addr /\ y \notin Heads /\ size' \in Sizes /\ Tiled(size', brk)
      /\ HeadsOf(size') = Heads \cup {y}
  <2>1. /\ size \in Sizes /\ brk \in Addr /\ Tiled(size, brk) /\ cur \in HeadsOf(size)
        /\ Heads = HeadsOf(size)
    BY <1>3, HeapFacts
  <2> QED BY <1>4, <1>5, <2>1, SplitTiled
<1>7. y # cur /\ y # base /\ size'[cur] = left /\ size'[y] = u
      /\ \A a \in Addr : a # cur /\ a # y => size'[a] = size[a]
  BY <1>1, <1>3, <1>4, <1>6, HeapFacts, AddrFacts DEF Sizes
<1> HIDE DEF y
<1>8. HeapTiled' /\ FreeListOrdered' /\ Heads' = Heads \cup {y} /\ Frees' = Frees
  BY <1>1, <1>3, <1>6, HeapFacts, HeapBuilt
<1>9. y \notin Frees /\ live[y] = 0
  BY <1>6, <1>7, HeapFacts DEF Inv, LiveBlocksFit, TypeOK
<1>10. Coalesced'
  <2>1. cur + size'[cur] = y
    BY <1>7 DEF y
  <2> QED BY <1>6, <1>7, <1>8, <1>9, <2>1, HeapFacts DEF Inv, Coalesced
<1> QED BY <1>1, <1>3, <1>6, <1>7, <1>8, <1>9, <1>10, HeapFacts, DeliverInv DEF u

\* A malloc() that the system gives no memory leaves the heap as it was.
LEMMA MorecoreFailInv ==
  ASSUME Inv, morecoreFail
  PROVE  Inv'
<1>0. pc = "scan" /\ Return /\ UNCHANGED <<size, next, freep, brk, live, kept>>
  BY DEF morecoreFail, WholeTurn
<1>1. HeapTiled' /\ FreeListOrdered' /\ Coalesced' /\ Heads' = Heads /\ Frees' = Frees
  BY <1>0, SameHeap
<1>2. TypeOK'
  <2>1. 0 \in 0 .. SIZE - 1 /\ base \in Addr
    BY SizeAssumption, AddrFacts
  <2> QED BY <1>0, <2>1 DEF Inv, TypeOK, Return, Callers
<1>3. NoChunkLost'
  BY <1>0, <1>1 DEF Inv, NoChunkLost, InFlight
<1>4. LiveBlocksFit'
  BY <1>0, <1>1 DEF Inv, LiveBlocksFit
<1>5. ControlOK'
  BY <1>0 DEF ControlOK, Return
<1> QED BY <1>1, <1>2, <1>3, <1>4, <1>5 DEF Inv

\* The only step that needs NoWrap: the heap grows by what the header says.
LEMMA MorecoreInv ==
  ASSUME NoWrap, Inv, morecore
  PROVE  Inv'
<1> DEFINE n == Ask(Units(nbytes))
<1>1. Asked(nbytes) /\ Units(nbytes) \in Nat /\ pc = "scan"
  BY UnitsFit DEF Inv, ControlOK, morecore, WholeTurn
<1>2. n \in Nat /\ n > 0 /\ Grant(n) = n
  BY <1>1, NALLOCAssumption DEF Ask, NoWrap, Asked
<1>3. /\ brk' = brk + n /\ brk + n <= Limit /\ size' = Extend(size, brk, n)
      /\ UNCHANGED <<next, freep, nbytes, ptr, inrealloc, live, kept>>
      /\ pc' = "prev" /\ p' = freep /\ hp' = brk /\ caller' = "morecore"
  BY <1>2 DEF morecore, StartPrev, Extend
<1> HIDE DEF n
<1>4. /\ size' \in Sizes /\ Tiled(size', brk') /\ brk' \in Addr /\ brk' # base
      /\ brk \notin Heads /\ HeadsOf(size') = Heads \cup {brk}
  <2>1. /\ size \in Sizes /\ brk \in Addr /\ brk # base /\ Tiled(size, brk)
        /\ Heads = HeadsOf(size)
    BY HeapFacts
  <2> QED BY <1>2, <1>3, <2>1, ExtendTiled, AddrFacts
<1>5. \A a \in Addr : a # brk => size'[a] = size[a]
  BY <1>3, HeapFacts DEF Extend, Sizes
<1>6. HeapTiled' /\ FreeListOrdered' /\ Heads' = Heads \cup {brk} /\ Frees' = Frees
  BY <1>3, <1>4, HeapFacts, HeapBuilt
<1>7. brk \notin Frees /\ live[brk] = 0 /\ brk \in Addr
  BY <1>4, HeapFacts DEF Inv, LiveBlocksFit, TypeOK
<1>8. Coalesced'
  BY <1>5, <1>6, <1>7, HeapFacts DEF Inv, Coalesced
<1>9. TypeOK'
  BY <1>3, <1>4, <1>7 DEF Inv, TypeOK, Sizes, Callers
<1>10. NoChunkLost'
  BY <1>1, <1>3, <1>6 DEF Inv, NoChunkLost, InFlight
<1>11. LiveBlocksFit'
  <2> SUFFICES ASSUME NEW a \in Addr, live[a] > 0
      PROVE a \in Heads' /\ a \notin Frees' /\ live[a] <= (size'[a] - 1) * HDR
    BY <1>3 DEF LiveBlocksFit
  <2>1. a # brk /\ size'[a] = size[a]
    BY <1>5, <1>7
  <2> QED BY <1>6, <2>1 DEF Inv, LiveBlocksFit
<1>12. ControlOK'
  <2>1. inrealloc => ptr \in Addr /\ live[ptr] > 0 /\ size'[ptr] < Units(nbytes)
    BY <1>1, <1>5, <1>7 DEF Inv, ControlOK
  <2> QED BY <1>1, <1>3, <1>6, <1>7, <2>1, HeapFacts DEF ControlOK, Asked
<1> QED BY <1>6, <1>8, <1>9, <1>10, <1>11, <1>12 DEF Inv

\* What a growing realloc() knows when the predecessor is found.
LEMMA GrowFacts ==
  ASSUME Inv, Growing
  PROVE  /\ p \in Frees /\ hp \in Heads /\ hp \notin Frees /\ p < hp
         /\ next[p] = base \/ hp < next[p]
         /\ next[p] \in Frees /\ next[p] \in Addr /\ hp \in Addr /\ p \in Addr
         /\ live[hp] > 0 /\ ptr = hp /\ size[hp] < Units(nbytes)
         /\ Asked(nbytes) /\ Units(nbytes) \in Nat /\ size[hp] \in Nat /\ size[hp] > 0
         /\ JoinNext => /\ next[p] # base /\ next[p] \in Heads
                        /\ hp + size[hp] = next[p] /\ size[next[p]] \in Nat
                        /\ size[next[p]] > 0
<1>1. /\ p \in Frees /\ hp \in Heads /\ hp \notin Frees /\ p < hp
      /\ next[p] = base \/ hp < next[p]
  BY PrevIsNeighbour DEF Growing
<1>2. /\ live[hp] > 0 /\ ptr = hp /\ size[hp] < Units(nbytes)
      /\ Asked(nbytes) /\ Units(nbytes) \in Nat
  BY UnitsFit DEF Growing, Inv, ControlOK
<1>3. /\ next[p] \in Frees /\ next[p] \in Addr /\ hp \in Addr /\ p \in Addr
      /\ size[hp] \in Nat /\ size[hp] > 0 /\ hp \in Nat
  BY <1>1, HeapFacts
<1>4. JoinNext => /\ next[p] # base /\ next[p] \in Heads
                  /\ hp + size[hp] = next[p] /\ size[next[p]] \in Nat
                  /\ size[next[p]] > 0
  <2> SUFFICES ASSUME JoinNext
      PROVE /\ next[p] # base /\ next[p] \in Heads
            /\ hp + size[hp] = next[p] /\ size[next[p]] \in Nat
            /\ size[next[p]] > 0
    OBVIOUS
  <2>1. hp + size[hp] = next[p]
    BY DEF JoinNext
  <2>2. next[p] # base
    BY <1>3, <2>1, AddrFacts
  <2> QED BY <1>3, <2>1, <2>2, HeapFacts
<1> QED BY <1>1, <1>2, <1>3, <1>4

\* Growing in place, whatever happens to the rest of the next chunk.
LEMMA GrowInPlaceInv ==
  ASSUME Inv, Growing, GrowInPlace,
         size' \in Sizes, next' \in Links, freep' \in Addr,
         HeapTiled', FreeListOrdered', Coalesced',
         hp \in Heads', hp \notin Frees', size'[hp] = Units(nbytes),
         \A a \in Heads' : a \in Frees' \/ (a \in Heads /\ a \notin Frees),
         \A a \in Addr : a \in Heads /\ a \notin Frees /\ a # hp =>
             a \in Heads' /\ a \notin Frees' /\ size'[a] = size[a]
  PROVE  Inv'
<1>1. /\ Asked(nbytes) /\ nbytes \in 1 .. SIZE - 1 /\ nbytes \in 0 .. SIZE - 1
      /\ nbytes <= (Units(nbytes) - 1) * HDR /\ hp \in Addr
      /\ live[hp] \in 0 .. SIZE - 1
  BY GrowFacts, UnitsFit, SizeAssumption DEF Inv, TypeOK
<1>2. /\ live' = [live EXCEPT ![hp] = nbytes] /\ kept' = MinOf(live[hp], nbytes)
      /\ Return /\ brk' = brk
  BY DEF GrowInPlace
<1>3. live'[hp] = nbytes /\ \A a \in Addr : a # hp => live'[a] = live[a]
  BY <1>1, <1>2 DEF Inv, TypeOK
<1>4. LiveBlocksFit'
  <2> SUFFICES ASSUME NEW a \in Addr, live'[a] > 0
      PROVE a \in Heads' /\ a \notin Frees' /\ live'[a] <= (size'[a] - 1) * HDR
    BY DEF LiveBlocksFit
  <2>1. CASE a = hp
    BY <1>1, <1>3, <2>1
  <2>2. CASE a # hp
    BY <1>3, <2>2 DEF Inv, LiveBlocksFit
  <2> QED BY <2>1, <2>2
<1>5. NoChunkLost'
  <2> SUFFICES ASSUME NEW a \in Heads' PROVE a \in Frees' \/ live'[a] > 0
    BY DEF NoChunkLost
  <2>1. a \in Addr
    BY DEF Heads
  <2> QED BY <1>1, <1>3, <2>1 DEF Inv, NoChunkLost, InFlight, Growing
<1>6. TypeOK'
  <2>1. kept' \in 0 .. SIZE - 1
    BY <1>1, <1>2, SizeAssumption DEF MinOf
  <2>2. 0 \in 0 .. SIZE - 1 /\ base \in Addr
    BY SizeAssumption, AddrFacts
  <2>3. live' \in [Addr -> 0 .. SIZE - 1]
    BY <1>1, <1>2 DEF Inv, TypeOK
  <2> QED BY <1>2, <2>1, <2>2, <2>3 DEF Inv, TypeOK, Return, Sizes, Links, Callers
<1>7. ControlOK'
  BY <1>2 DEF ControlOK, Return
<1> QED BY <1>4, <1>5, <1>6, <1>7 DEF Inv

\* Swallowing the whole of the next chunk keeps the invariant.
LEMMA GrowExactInv ==
  ASSUME Inv, growExact
  PROVE  Inv'
<1> DEFINE nx == next[p]
<1>1. /\ Growing /\ JoinNext /\ GrowInPlace /\ freep' = p /\ brk' = brk
      /\ size[hp] + size[nx] = Units(nbytes)
      /\ size' = Merge(size, hp, nx) /\ next' = Unlink(next, p)
  BY DEF growExact, avail, GrowInPlace, Merge, Unlink
<1>2. /\ p \in Frees /\ hp \in Heads /\ hp \notin Frees /\ nx \in Frees /\ nx \in Addr
      /\ hp \in Addr /\ nx # base /\ nx \in Heads /\ hp + size[hp] = nx /\ hp # nx
      /\ p < hp /\ size[nx] \in Nat /\ size[nx] > 0 /\ p \in Addr
  BY <1>1, GrowFacts
<1>3. /\ size' \in Sizes /\ Tiled(size', brk') /\ HeadsOf(size') = Heads \ {nx}
      /\ next' \in Links /\ Ordered(next') /\ ListOf(next') = Frees \ {nx}
      /\ p \in ListOf(next')
  <2>1. /\ size \in Sizes /\ brk \in Addr /\ Tiled(size, brk) /\ Heads = HeadsOf(size)
        /\ next \in Links /\ Ordered(next) /\ Frees = ListOf(next)
    BY HeapFacts
  <2> QED BY <1>1, <1>2, <2>1, MergeTiled, UnlinkOrdered
<1>4. HeapTiled' /\ FreeListOrdered' /\ Heads' = Heads \ {nx} /\ Frees' = Frees \ {nx}
  BY <1>1, <1>3, HeapFacts, HeapBuilt
<1>5. /\ size'[hp] = Units(nbytes)
      /\ \A a \in Addr : a # hp /\ a # nx => size'[a] = size[a]
  BY <1>1, <1>2, HeapFacts DEF Merge, Sizes
<1> HIDE DEF nx
<1>6. Coalesced'
  BY <1>2, <1>4, <1>5, HeapFacts DEF Inv, Coalesced
<1> QED BY <1>1, <1>2, <1>3, <1>4, <1>5, <1>6, GrowInPlaceInv

\* Swallowing the left part of the next chunk keeps the invariant.
LEMMA GrowSplitInv ==
  ASSUME Inv, growSplit
  PROVE  Inv'
<1> DEFINE nx == next[p]
           u  == Units(nbytes)
           y  == hp + u
           s1 == Merge(size, hp, nx)
           n1 == Unlink(next, p)
<1>1. /\ Growing /\ JoinNext /\ GrowInPlace /\ freep' = y /\ brk' = brk
      /\ avail = size[hp] + size[nx] /\ avail > u
      /\ size' = [[size EXCEPT ![nx] = 0] EXCEPT ![hp] = u, ![y] = avail - u]
      /\ next' = [[next EXCEPT ![nx] = NULL] EXCEPT ![p] = y, ![y] = next[nx]]
  BY DEF growSplit, avail, GrowInPlace
<1>2. /\ p \in Frees /\ hp \in Heads /\ hp \notin Frees /\ nx \in Frees /\ nx \in Addr
      /\ hp \in Addr /\ nx # base /\ nx \in Heads /\ hp + size[hp] = nx /\ hp # nx
      /\ p < hp /\ hp < nx /\ size[nx] \in Nat /\ size[nx] > 0 /\ p \in Addr
      /\ u \in Nat /\ size[hp] \in Nat /\ size[hp] < u /\ hp \in Nat /\ nx \in Nat /\ p \in Nat
  BY <1>1, GrowFacts, AddrFacts
<1>3. /\ size \in Sizes /\ brk \in Addr /\ Tiled(size, brk) /\ Heads = HeadsOf(size)
      /\ next \in Links /\ Ordered(next) /\ Frees = ListOf(next)
  BY HeapFacts
<1> HIDE DEF u
<1>4. /\ s1 \in Sizes /\ Tiled(s1, brk) /\ HeadsOf(s1) = Heads \ {nx}
      /\ n1 \in Links /\ Ordered(n1) /\ ListOf(n1) = Frees \ {nx}
      /\ p \in ListOf(n1)
  BY <1>1, <1>2, <1>3, MergeTiled, UnlinkOrdered
<1>5. /\ s1[hp] = avail /\ n1[p] = next[nx] /\ hp \in HeadsOf(s1)
      /\ u > 0 /\ u < s1[hp] /\ avail \in Nat
  <2>1. s1[hp] = avail /\ n1[p] = next[nx]
    BY <1>1, <1>2, <1>3 DEF Merge, Unlink, Sizes, Links
  <2> QED BY <1>1, <1>2, <1>4, <2>1
<1>6. /\ y \in Addr /\ y \notin HeadsOf(s1)
      /\ Split(s1, hp, u) \in Sizes /\ Tiled(Split(s1, hp, u), brk)
      /\ HeadsOf(Split(s1, hp, u)) = HeadsOf(s1) \cup {y}
  <2> HIDE DEF s1
  <2> QED BY <1>2, <1>3, <1>4, <1>5, SplitTiled
<1>7. y # hp /\ y # nx /\ y # p /\ y # base /\ nx < y
  BY <1>2, AddrFacts
<1>8. size' = Split(s1, hp, u)
  <2>1. \A a \in Addr : size'[a] = Split(s1, hp, u)[a]
    BY <1>1, <1>2, <1>3, <1>5, <1>6, <1>7 DEF Split, Merge, Sizes
  <2>2. size' \in [Addr -> Nat] /\ Split(s1, hp, u) \in [Addr -> Nat]
    BY <1>1, <1>2, <1>3, <1>5, <1>6 DEF Sizes
  <2> QED BY <2>1, <2>2
<1>9. next' = Insert(n1, p, y)
  <2>1. \A a \in Addr : next'[a] = Insert(n1, p, y)[a]
    BY <1>1, <1>2, <1>3, <1>5, <1>6, <1>7 DEF Insert, Unlink, Links
  <2>2. next' \in [Addr -> Addr \cup {NULL}] /\ DOMAIN Insert(n1, p, y) = Addr
        /\ Insert(n1, p, y) = [a \in Addr |-> Insert(n1, p, y)[a]]
    BY <1>1, <1>2, <1>3, <1>6 DEF Links, Insert, Unlink
  <2> QED BY <2>1, <2>2
<1>10. y \notin Frees /\ y \notin Heads
  BY <1>3, <1>4, <1>6, <1>7, HeapFacts
<1>11. next' \in Links /\ Ordered(next') /\ ListOf(next') = (Frees \ {nx}) \cup {y}
  <2>1. n1[p] = base \/ y < n1[p]
    <3>1. next[nx] = base \/ nx < next[nx]
      BY <1>2 DEF Inv, FreeListOrdered
    <3>2. CASE next[nx] # base
      <4>1. next[nx] \in Heads /\ next[nx] \in Nat
        BY <1>2, <3>2, HeapFacts
      <4>2. nx + size[nx] <= next[nx]
        BY <1>2, <3>1, <3>2, <4>1 DEF Inv, HeapTiled
      <4> QED BY <1>1, <1>2, <1>5, <4>1, <4>2
    <3> QED BY <1>5, <3>2
  <2>2. p < y /\ y \notin ListOf(n1)
    BY <1>2, <1>4, <1>10
  <2> HIDE DEF n1, y
  <2> QED BY <1>4, <1>6, <1>9, <2>1, <2>2, InsertOrdered
<1>12. /\ size'[hp] = u /\ size'[y] = avail - u
       /\ \A a \in Addr : a # hp /\ a # nx /\ a # y => size'[a] = size[a]
  BY <1>1, <1>2, <1>3, <1>6, <1>7 DEF Sizes
<1>13. y + size'[y] = nx + size[nx]
  BY <1>1, <1>2, <1>12
<1> HIDE DEF y, nx, s1, n1
<1>14. /\ HeapTiled' /\ FreeListOrdered'
       /\ Heads' = (Heads \ {nx}) \cup {y} /\ Frees' = (Frees \ {nx}) \cup {y}
  BY <1>1, <1>4, <1>6, <1>8, <1>11, HeapFacts, HeapBuilt
<1>15. Coalesced'
  <2>1. SUFFICES ASSUME NEW a \in Frees', a # base, a + size'[a] \in Frees' PROVE FALSE
    BY DEF Coalesced
  <2>2. CASE a = y
    <3>1. nx + size[nx] \notin Frees
      BY <1>2 DEF Inv, Coalesced
    <3>2. y + size'[y] # y
      BY <1>1, <1>5, <1>6, <1>12, <1>2, AddrFacts
    <3> QED BY <1>13, <1>14, <2>1, <2>2, <3>1, <3>2
  <2>3. CASE a # y
    <3>1. a \in Frees /\ a # nx /\ a # hp /\ a \in Addr /\ size'[a] = size[a] /\ a \in Heads
      BY <1>2, <1>12, <1>14, <2>1, <2>3, HeapFacts
    <3>2. a + size[a] = y
      BY <1>14, <2>1, <3>1 DEF Inv, Coalesced
    <3>3. a < hp => a + size[a] <= hp
      BY <1>2, <3>1 DEF Inv, HeapTiled
    <3>4. a > nx => nx + size[nx] <= a
      BY <1>2, <3>1, HeapFacts DEF Inv, HeapTiled
    <3>5. a > hp => nx <= a
      BY <1>2, <3>1 DEF Inv, HeapTiled
    <3>6. a \in Nat /\ size[a] \in Nat /\ y \in Nat
      BY <1>6, <3>1, HeapFacts, AddrFacts
    <3>7. y < nx + size[nx] /\ y > hp
      BY <1>1, <1>2, <1>5 DEF y
    <3> QED BY <1>2, <3>1, <3>2, <3>3, <3>4, <3>5, <3>6, <3>7, HeapFacts
  <2> QED BY <2>2, <2>3
<1> QED BY <1>1, <1>2, <1>6, <1>7, <1>8, <1>10, <1>11, <1>12, <1>14, <1>15, GrowInPlaceInv
        DEF u

\* A realloc() that has to move its block keeps the invariant.
LEMMA GrowMoveInv ==
  ASSUME Inv, growMove
  PROVE  Inv'
<1>0. /\ Growing /\ pc' = "scan" /\ p' = freep /\ nbytes' = nbytes /\ inrealloc' = TRUE
      /\ UNCHANGED <<size, next, freep, brk, hp, ptr, caller, live, kept>>
  BY DEF growMove, StartScan
<1>1. HeapTiled' /\ FreeListOrdered' /\ Coalesced' /\ Heads' = Heads /\ Frees' = Frees
  BY <1>0, SameHeap
<1>2. TypeOK'
  BY <1>0 DEF Inv, TypeOK
<1>3. NoChunkLost'
  BY <1>0, <1>1 DEF Inv, NoChunkLost, InFlight, Growing
<1>4. LiveBlocksFit'
  BY <1>0, <1>1 DEF Inv, LiveBlocksFit
<1>5. ControlOK'
  BY <1>0, <1>1, GrowFacts, HeapFacts DEF ControlOK, Asked
<1> QED BY <1>1, <1>2, <1>3, <1>4, <1>5 DEF Inv

\* The empty heap satisfies the invariant.
LEMMA InitInv == Init => Inv
<1> SUFFICES ASSUME Init PROVE Inv
  OBVIOUS
<1> USE DEF Init
<1>1. Heads = {} /\ Frees = {base}
  BY AddrFacts DEF Heads, Frees
<1>2. TypeOK
  <2>1. 0 \in 0 .. SIZE - 1 /\ base \in Addr /\ 1 \in Addr \ {base} /\ 0 \in Nat
    BY SizeAssumption, AddrFacts
  <2> QED BY <2>1 DEF TypeOK, Callers
<1>3. HeapTiled
  BY <1>1, AddrFacts DEF HeapTiled
<1>4. FreeListOrdered
  BY <1>1, AddrFacts DEF FreeListOrdered
<1>5. Coalesced /\ NoChunkLost
  BY <1>1 DEF Coalesced, NoChunkLost
<1>6. LiveBlocksFit
  BY DEF LiveBlocksFit
<1>7. ControlOK
  BY DEF ControlOK
<1> QED BY <1>2, <1>3, <1>4, <1>5, <1>6, <1>7 DEF Inv

\* One step of the library or of the program.
LEMMA NextInv ==
  ASSUME NoWrap, Inv, [Next]_vars
  PROVE  Inv'
<1>1. ASSUME NEW n \in Requests, malloc(n) PROVE Inv'
  <2>1. Asked(n)
    BY <1>1 DEF malloc, Asked, Amounts
  <2> QED BY <1>1, <2>1, StartInv
<1>2. ASSUME NEW m \in Requests, NEW z \in Requests, calloc(m, z) PROVE Inv'
  <2>1. Asked(m * z) /\ malloc(m * z)
    <3>1. malloc(m * z) /\ m * z \in Amounts
      BY <1>2 DEF calloc, Amounts
    <3> QED BY <3>1 DEF malloc, Asked
  <2> QED BY <2>1, StartInv
<1>3. ASSUME NEW a \in Addr, free(a) PROVE Inv'
  BY <1>3, FreeInv
<1>4. ASSUME NEW a \in Addr, NEW n \in Requests, realloc(a, n) PROVE Inv'
  <2>1. Asked(n) /\ pc = "idle" /\ live[a] > 0
    BY <1>4 DEF realloc, Asked, Amounts
  <2> QED BY <1>4, <2>1, ReallocSameInv, ReallocGrowInv, ReallocShrinkInv DEF realloc
<1>5. CASE Work
  BY <1>5, WalkInv, JoinInv, MallocExactInv, MallocSplitInv, MorecoreFailInv, MorecoreInv,
     GrowExactInv, GrowSplitInv, GrowMoveInv DEF Work
<1>6. CASE UNCHANGED vars
  BY <1>6 DEF vars, Inv, TypeOK, HeapTiled, FreeListOrdered, Coalesced, NoChunkLost,
     LiveBlocksFit, ControlOK, InFlight, Asked, Heads, Frees
<1> QED BY <1>1, <1>2, <1>3, <1>4, <1>5, <1>6 DEF Next, Call

\* The invariant holds in every state of the library, for every header size,
\* heap limit and set of requests whose sizes do not wrap.
THEOREM InvHolds == ASSUME NoWrap PROVE Spec => []Inv
<1>1. Inv /\ [Next]_vars => Inv'
  BY NextInv
<1> QED BY <1>1, InitInv, PTL DEF Spec

(***************************************************************************)
(* The properties of the heap, for every instance.                         *)
(***************************************************************************)

\* Types of the variables of malloc.c and of the walks.
THEOREM TypeCorrect == ASSUME NoWrap PROVE Spec => []TypeOK
BY InvHolds, PTL DEF Inv

\* Chunks tile the heap, whatever malloc(), free() and realloc() split or join.
THEOREM HeapStaysTiled == ASSUME NoWrap PROVE Spec => []HeapTiled
BY InvHolds, PTL DEF Inv

\* The free list stays one sorted circle without free neighbours.
THEOREM FreeListStaysSorted == ASSUME NoWrap PROVE Spec => [](FreeListOrdered /\ Coalesced)
BY InvHolds, PTL DEF Inv

\* A block the program owns keeps its memory, and no chunk is lost.
THEOREM BlocksStaySafe == ASSUME NoWrap PROVE Spec => [](LiveBlocksFit /\ NoChunkLost)
BY InvHolds, PTL DEF Inv

(***************************************************************************)
(* The library implements the abstract allocator.                          *)
(***************************************************************************)

\* The bytes that fit in a chunk do not reach its end.
LEMMA PayloadInside ==
  ASSUME NEW n \in Nat, NEW k \in Nat, k > 0, n <= (k - 1) * HDR
  PROVE  (n + HDR - 1) \div HDR \in Int /\ (n + HDR - 1) \div HDR <= k - 1
<1> USE HDRAssumption
<1> DEFINE x == n + HDR - 1
           q == x \div HDR
<1>1. x \in Nat /\ HDR \in Nat /\ HDR > 0
  OBVIOUS
<1>2. q \in Int /\ x % HDR \in 0 .. HDR - 1 /\ x = HDR * q + (x % HDR)
  <2> HIDE DEF x
  <2> QED BY <1>1
<1>3. x < k * HDR
  <2>1. (k - 1) * HDR = k * HDR - HDR
    OBVIOUS
  <2> QED BY <2>1
<1> HIDE DEF x, q
<1>4. HDR * q <= x
  BY <1>1, <1>2
<1>5. q < k
  <2>1. SUFFICES ASSUME q >= k PROVE FALSE
    BY <1>2
  <2>2. PICK d \in Nat : q = k + d
    BY <1>2, <2>1
  <2>3. HDR * q = k * HDR + HDR * d /\ HDR * d >= 0
    BY <1>1, <2>2
  <2>4. k * HDR \in Int /\ HDR * d \in Int /\ HDR * q \in Int
    BY <1>1, <1>2, <2>2
  <2> HIDE HDRAssumption
  <2> QED BY <1>1, <1>3, <1>4, <2>3, <2>4
<1> QED BY <1>2, <1>5 DEF x, q

\* Blocks that fit in different chunks of a tiled heap share no unit.
LEMMA ChunksApart ==
  ASSUME NEW s \in Sizes, NEW top \in Addr, Tiled(s, top),
         NEW a \in HeadsOf(s), NEW b \in HeadsOf(s), a # b,
         NEW n \in Nat, NEW m \in Nat, n <= (s[a] - 1) * HDR, m <= (s[b] - 1) * HDR
  PROVE  Abstract!Disjoint(a, n, b, m)
<1> DEFINE u == (n + HDR - 1) \div HDR
           v == (m + HDR - 1) \div HDR
<1>1. /\ a \in Nat /\ b \in Nat /\ s[a] \in Nat /\ s[b] \in Nat /\ s[a] > 0 /\ s[b] > 0
  BY AddrFacts DEF HeadsOf, Sizes
<1>2. u \in Int /\ u <= s[a] - 1 /\ v \in Int /\ v <= s[b] - 1
  BY <1>1, PayloadInside
<1>3. a + s[a] <= b \/ b + s[b] <= a
  BY <1>1 DEF Tiled
<1>4. Abstract!Payload(a, n) = (a + 1) .. (a + u) /\ Abstract!Payload(b, m) = (b + 1) .. (b + v)
  BY DEF Abstract!Payload
<1> HIDE DEF u, v
<1>5. ASSUME NEW z \in (a + 1) .. (a + u), z \in (b + 1) .. (b + v) PROVE FALSE
  BY <1>1, <1>2, <1>3, <1>5
<1> QED BY <1>4, <1>5 DEF Abstract!Disjoint

\* A block given to the program clashes with none it owns already.
LEMMA NewBlockFits ==
  ASSUME Inv', NEW c \in Addr, live'[c] > 0, NEW S \in SUBSET Addr,
         \A b \in S : live[b] > 0 => b # c /\ b \in Heads' /\ live[b] \in Nat
                                     /\ live[b] <= (size'[b] - 1) * HDR
  PROVE  Abstract!FitsAt(c, live'[c], S)
<1>1. /\ size' \in Sizes /\ brk' \in Addr /\ Tiled(size', brk') /\ Heads' = HeadsOf(size')
      /\ c \in Heads' /\ live'[c] \in Nat /\ live'[c] <= (size'[c] - 1) * HDR
  <2>1. /\ size' \in Sizes /\ brk' \in Addr /\ Heads' = HeadsOf(size')
    BY DEF Inv, TypeOK, Sizes, Heads, HeadsOf
  <2>2. Tiled(size', brk')
    BY <2>1 DEF Inv, HeapTiled, Tiled
  <2>3. c \in Heads' /\ live'[c] \in Nat /\ live'[c] <= (size'[c] - 1) * HDR
    BY SizeAssumption DEF Inv, LiveBlocksFit, TypeOK
  <2> QED BY <2>1, <2>2, <2>3
<1>2. ASSUME NEW b \in S, live[b] > 0 PROVE Abstract!Disjoint(c, live'[c], b, live[b])
  BY <1>1, <1>2, ChunksApart
<1> QED BY <1>2 DEF Abstract!FitsAt

\* realloc() that keeps the block where it is.
LEMMA ResizeInPlace ==
  ASSUME Inv, Inv', NEW a \in Addr, live[a] > 0, NEW n, Asked(n),
         live' = [live EXCEPT ![a] = n], kept' = MinOf(live[a], n)
  PROVE  Abstract!ANext
<1>1. /\ live \in [Addr -> 0 .. SIZE - 1] /\ n \in 1 .. SIZE - 1 /\ n > 0
      /\ n \in Amounts \ {0}
  BY UnitsFit, SizeAssumption DEF Inv, TypeOK, Asked
<1>2. live'[a] = n /\ \A b \in Addr : b # a => live'[b] = live[b]
  BY <1>1
<1>3. \A b \in Addr \ {a} : live[b] > 0 => b # a /\ b \in Heads' /\ live[b] \in Nat
                                          /\ live[b] <= (size'[b] - 1) * HDR
  BY <1>1, <1>2, SizeAssumption DEF Inv, LiveBlocksFit
<1>4. Abstract!FitsAt(a, n, Addr \ {a})
  <2>1. Addr \ {a} \in SUBSET Addr
    OBVIOUS
  <2> QED BY <1>1, <1>2, <1>3, <2>1, NewBlockFits
<1>5. live' = [live EXCEPT ![a] = 0, ![a] = n]
  BY <1>1
<1>6. kept' = Abstract!Least(live[a], n)
  BY DEF MinOf, Abstract!Least
<1>7. Abstract!Resize(a, a, n)
  BY <1>4, <1>5, <1>6 DEF Abstract!Resize
<1> QED BY <1>1, <1>7 DEF Abstract!ANext

\* malloc() returns to the program or to the realloc() that called it.
LEMMA DeliverRefines ==
  ASSUME Inv, Inv', pc = "scan", NEW chunk \in Addr, live[chunk] = 0, Deliver(chunk),
         \A a \in Addr : a \in Heads /\ a \notin Frees =>
             a \in Heads' /\ a # chunk /\ size'[a] = size[a]
  PROVE  Abstract!ANext
<1>1. /\ live \in [Addr -> 0 .. SIZE - 1] /\ nbytes \in 1 .. SIZE - 1 /\ nbytes > 0
      /\ nbytes \in Amounts \ {0} /\ nbytes \in Nat
  BY UnitsFit, SizeAssumption DEF Inv, TypeOK, ControlOK, Asked
<1>2. /\ \A b \in Addr : live[b] > 0 => b # chunk /\ b \in Heads' /\ live[b] \in Nat
                                        /\ live[b] <= (size'[b] - 1) * HDR
  BY <1>1, SizeAssumption DEF Inv, LiveBlocksFit
<1>3. live'[chunk] = nbytes
  BY <1>1 DEF Deliver, Inv, ControlOK
<1>4. \A S \in SUBSET Addr : Abstract!FitsAt(chunk, nbytes, S)
  <2> SUFFICES ASSUME NEW S \in SUBSET Addr PROVE Abstract!FitsAt(chunk, nbytes, S)
    OBVIOUS
  <2>1. \A b \in S : live[b] > 0 => b # chunk /\ b \in Heads' /\ live[b] \in Nat
                                    /\ live[b] <= (size'[b] - 1) * HDR
    BY <1>2
  <2> QED BY <1>1, <1>3, <2>1, NewBlockFits
<1>5. CASE inrealloc
  <2>1. ptr \in Addr /\ live[ptr] > 0 /\ ptr # chunk
    BY <1>2, <1>5 DEF Inv, ControlOK
  <2>2. live' = [live EXCEPT ![ptr] = 0, ![chunk] = nbytes]
    BY <1>5 DEF Deliver
  <2>3. kept' = Abstract!Least(live[ptr], nbytes)
    <3> DEFINE r == (size[ptr] - 1) * HDR
    <3>1. live[ptr] <= r /\ live[ptr] \in Nat
      BY <1>1, <2>1, SizeAssumption DEF Inv, LiveBlocksFit
    <3>2. r \in Int
      BY <2>1, OwnedBlock, HDRAssumption
    <3>3. kept' = MinOf(live[ptr], MinOf(r, nbytes))
      BY <1>5 DEF Deliver
    <3> HIDE DEF r
    <3> QED BY <1>1, <3>1, <3>2, <3>3 DEF MinOf, Abstract!Least
  <2>4. Abstract!Disjoint(chunk, nbytes, ptr, live[ptr])
    BY <1>4, <2>1 DEF Abstract!FitsAt
  <2>5. Abstract!Resize(ptr, chunk, nbytes)
    BY <1>4, <2>1, <2>2, <2>3, <2>4 DEF Abstract!Resize
  <2> QED BY <1>1, <2>1, <2>5 DEF Abstract!ANext
<1>6. CASE ~inrealloc
  <2>1. live' = [live EXCEPT ![chunk] = nbytes] /\ kept' = 0
    BY <1>6 DEF Deliver
  <2>2. Abstract!Acquire(chunk, nbytes)
    BY <1>4, <2>1 DEF Abstract!Acquire
  <2> QED BY <1>1, <2>2 DEF Abstract!ANext
<1> QED BY <1>5, <1>6

\* One step of the library is one step of the abstract allocator, or none.
LEMMA StepRefines ==
  ASSUME Inv, Inv', [Next]_vars
  PROVE  [Abstract!ANext]_(Abstract!avars)
<1> USE DEF Abstract!avars
<1>1. ASSUME UNCHANGED <<live, kept>> PROVE [Abstract!ANext]_(Abstract!avars)
  BY <1>1
<1>2. ASSUME NEW a \in Addr, free(a) PROVE Abstract!ANext
  BY <1>2 DEF free, Abstract!Release, Abstract!ANext
<1>3. ASSUME NEW a \in Addr, NEW n \in Requests, realloc(a, n)
      PROVE  [Abstract!ANext]_(Abstract!avars)
  <2>1. Asked(n) /\ live[a] > 0
    BY <1>3 DEF realloc, Asked, Amounts
  <2>2. CASE reallocGrow(a, n)
    BY <2>2 DEF reallocGrow
  <2>3. CASE reallocSame(a, n) \/ reallocShrink(a, n)
    <3>1. live' = [live EXCEPT ![a] = n] /\ kept' = MinOf(live[a], n)
      BY <2>3 DEF reallocSame, reallocShrink
    <3> QED BY <2>1, <3>1, ResizeInPlace
  <2> QED BY <1>3, <2>2, <2>3 DEF realloc
<1>4. CASE mallocExact
  <2>1. /\ pc = "scan" /\ size[cur] >= Units(nbytes) /\ Deliver(cur) /\ size' = size
    BY <1>4, UnitsFit DEF mallocExact, Inv, ControlOK
  <2>2. cur \in Addr /\ live[cur] = 0 /\ cur \in Frees
    BY <2>1, FitIsChunk
  <2>3. Heads' = Heads
    BY <2>1 DEF Heads
  <2> QED BY <2>1, <2>2, <2>3, DeliverRefines
<1>5. CASE mallocSplit
  <2> DEFINE u == Units(nbytes)
             left == size[cur] - u
             y == cur + left
  <2>1. /\ pc = "scan" /\ size[cur] > u /\ Deliver(y)
        /\ size' = [size EXCEPT ![cur] = left, ![y] = u]
    BY <1>5 DEF mallocSplit
  <2>2. u \in Nat /\ u >= 2 /\ size[cur] \in Nat
    BY <2>1, UnitsFit, HeapFacts DEF Inv, ControlOK, cur, Sizes
  <2>3. /\ cur \in Addr /\ cur \in Frees /\ cur \in Heads /\ cur \in Nat
    BY <2>1, <2>2, FitIsChunk, HeapFacts
  <2> HIDE DEF u
  <2>4. left \in Nat /\ left > 0 /\ left < size[cur] /\ size[cur] - left = u
    BY <2>1, <2>2
  <2>5. size' = Split(size, cur, left)
    BY <2>1, <2>4 DEF Split
  <2> HIDE DEF left
  <2>6. /\ y \in Addr /\ y \notin Heads /\ HeadsOf(size') = Heads \cup {y}
    <3>1. /\ size \in Sizes /\ brk \in Addr /\ Tiled(size, brk) /\ cur \in HeadsOf(size)
          /\ Heads = HeadsOf(size)
      BY <2>3, HeapFacts
    <3> QED BY <2>4, <2>5, <3>1, SplitTiled
  <2>7. \A a \in Addr : a # cur /\ a # y => size'[a] = size[a]
    BY <2>1, HeapFacts DEF Sizes
  <2> HIDE DEF y
  <2>8. live[y] = 0 /\ Heads' = Heads \cup {y}
    BY <2>6, HeapFacts DEF Inv, LiveBlocksFit, TypeOK, Heads, HeadsOf
  <2> QED BY <2>1, <2>3, <2>6, <2>7, <2>8, DeliverRefines
<1>6. CASE growExact \/ growSplit
  <2>1. Growing /\ GrowInPlace
    BY <1>6 DEF growExact, growSplit
  <2>2. hp \in Addr /\ live[hp] > 0 /\ Asked(nbytes)
    BY <2>1, GrowFacts
  <2> QED BY <2>1, <2>2, ResizeInPlace DEF GrowInPlace
<1>7. CASE \/ _prevchunk \/ freeDone \/ morecoreDone \/ mallocNext
           \/ morecoreFail \/ morecore \/ growMove
  BY <1>7, <1>1 DEF _prevchunk, freeDone, morecoreDone, mallocNext, morecoreFail, morecore,
     growMove
<1>8. ASSUME NEW n, malloc(n) PROVE UNCHANGED <<live, kept>>
  BY <1>8 DEF malloc
<1>9. CASE UNCHANGED vars
  BY <1>9, <1>1 DEF vars
<1> QED
  BY <1>1, <1>2, <1>3, <1>4, <1>5, <1>6, <1>7, <1>8, <1>9 DEF Next, Call, Work, calloc

\* malloc(), calloc(), free() and realloc() give the program blocks that never
\* share memory, and realloc() carries the contents over.
THEOREM LibraryIsAllocator == ASSUME NoWrap PROVE Spec => ImplementsAllocator
<1>1. Init => Abstract!AInit
  BY DEF Init, Abstract!AInit
<1>2. Inv /\ Inv' /\ [Next]_vars => [Abstract!ANext]_(Abstract!avars)
  BY StepRefines
<1>3. Spec => []Inv
  BY InvHolds
<1> QED BY <1>1, <1>2, <1>3, PTL DEF Spec, ImplementsAllocator, Abstract!ASpec

(***************************************************************************)
(* Streams: what a FILE is.                                                *)
(***************************************************************************)
Buffering == {"NBF", "LBF", "FBF"}
Flags == Buffering \cup {"READ", "WRITE", "RW", "ERR", "EOF", "PAST"}
Kinds == {"", "r", "w", "a", "r+", "w+", "a+"}
FILE == [flags : SUBSET Flags, buf : Seq(Nat), len : Nat, rp : Nat, wp : Nat, lp : Nat, pos : Nat, mode : Kinds]

\* A FILE is whole: without a buffer its pointers are null.
Sound(fp) ==
  /\ fp \in FILE
  /\ IF fp.buf = <<>> THEN fp.rp = 0 /\ fp.wp = 0 ELSE Len(fp.buf) = fp.len

\* A step of a stream.
Steps == [fp : FILE, file : Seq(Nat), fail : Nat]
Typed(st) == st \in Steps /\ Sound(st.fp)

(***************************************************************************)
(* Files: what is written one after the other is written at once.          *)
(***************************************************************************)
\* Writing at an offset gives a file, as long as what was written last.
LEMMA OverlayIsFile ==
  ASSUME NEW file \in Seq(Nat), NEW o \in Nat, NEW x \in Seq(Nat)
  PROVE  /\ Overlay(file, o, x) \in Seq(Nat)
         /\ Len(Overlay(file, o, x)) = IF x # <<>> /\ o + Len(x) > Len(file) THEN o + Len(x) ELSE Len(file)
<1>1. CASE x = <<>>
  BY <1>1 DEF Overlay
<1>2. CASE x # <<>>
  <2> DEFINE n == IF o + Len(x) > Len(file) THEN o + Len(x) ELSE Len(file)
             g == [i \in 1 .. n |-> IF i > o /\ i <= o + Len(x) THEN x[i - o] ELSE IF i <= Len(file) THEN file[i] ELSE 0]
  <2>1. n \in Nat /\ Len(x) \in Nat /\ Len(file) \in Nat
    OBVIOUS
  <2>2. ASSUME NEW i \in 1 .. n
        PROVE  (IF i > o /\ i <= o + Len(x) THEN x[i - o] ELSE IF i <= Len(file) THEN file[i] ELSE 0) \in Nat
    <3>1. i > o /\ i <= o + Len(x) => i - o \in 1 .. Len(x)
      BY <2>1
    <3>2. i <= Len(file) => i \in 1 .. Len(file)
      BY <2>1
    <3> QED BY <3>1, <3>2
  <2>3. Overlay(file, o, x) = g
    BY <1>2 DEF Overlay
  <2> HIDE DEF n
  <2>4. g \in [1 .. n -> Nat]
    BY <2>2
  <2>5. g \in Seq(Nat) /\ Len(g) = n
    BY <2>1, <2>4
  <2> HIDE DEF g
  <2> QED BY <1>2, <2>3, <2>5 DEF n
<1> QED BY <1>1, <1>2

\* The characters of a file that was written over.
LEMMA OverlayAt ==
  ASSUME NEW file \in Seq(Nat), NEW o \in Nat, NEW x \in Seq(Nat), NEW i \in 1 .. Len(Overlay(file, o, x))
  PROVE  Overlay(file, o, x)[i] = IF i > o /\ i <= o + Len(x) THEN x[i - o] ELSE IF i <= Len(file) THEN file[i] ELSE 0
<1>1. CASE x = <<>>
  BY <1>1 DEF Overlay
<1>2. CASE x # <<>>
  <2>1. Len(Overlay(file, o, x)) = IF o + Len(x) > Len(file) THEN o + Len(x) ELSE Len(file)
    BY <1>2, OverlayIsFile
  <2> QED BY <1>2, <2>1 DEF Overlay
<1> QED BY <1>1, <1>2

\* Writing y after x is writing both.
LEMMA OverlayTwice ==
  ASSUME NEW file \in Seq(Nat), NEW o \in Nat, NEW x \in Seq(Nat), NEW y \in Seq(Nat)
  PROVE  Overlay(Overlay(file, o, x), o + Len(x), y) = Overlay(file, o, x \o y)
<1>1. x \o y \in Seq(Nat) /\ Len(x \o y) = Len(x) + Len(y) /\ Len(x) \in Nat /\ Len(y) \in Nat /\ Len(file) \in Nat
  OBVIOUS
<1>2. CASE x = <<>>
  BY <1>2 DEF Overlay
<1>3. CASE y = <<>>
  <2>1. x \o y = x
    BY <1>3
  <2> QED BY <1>3, <2>1 DEF Overlay
<1>4. CASE x # <<>> /\ y # <<>>
  <2> DEFINE f == Overlay(file, o, x)
             g == Overlay(f, o + Len(x), y)
             h == Overlay(file, o, x \o y)
  <2>1. f \in Seq(Nat) /\ Len(f) = IF o + Len(x) > Len(file) THEN o + Len(x) ELSE Len(file)
    BY <1>4, OverlayIsFile
  <2>2. \A i \in 1 .. Len(f) : f[i] = IF i > o /\ i <= o + Len(x) THEN x[i - o] ELSE IF i <= Len(file) THEN file[i] ELSE 0
    BY OverlayAt
  <2> HIDE DEF f
  <2>3. Len(x) # 0 /\ Len(y) # 0 /\ x \o y # <<>>
    BY <1>1, <1>4
  <2>4. o + Len(x) \in Nat
    BY <1>1
  <2>5. g \in Seq(Nat) /\ Len(g) = IF o + Len(x) + Len(y) > Len(f) THEN o + Len(x) + Len(y) ELSE Len(f)
    BY <1>4, <2>1, <2>4, OverlayIsFile
  <2>6. h \in Seq(Nat) /\ Len(h) = IF o + (Len(x) + Len(y)) > Len(file) THEN o + (Len(x) + Len(y)) ELSE Len(file)
    <3> DEFINE z == x \o y
    <3>1. z \in Seq(Nat) /\ z # <<>> /\ Len(z) = Len(x) + Len(y)
      BY <1>1, <2>3
    <3> HIDE DEF z
    <3>2. Overlay(file, o, z) \in Seq(Nat) /\ Len(Overlay(file, o, z)) = IF o + Len(z) > Len(file) THEN o + Len(z) ELSE Len(file)
      BY <3>1, OverlayIsFile
    <3> QED BY <3>1, <3>2 DEF h, z
  <2>7. \A i \in 1 .. Len(g) : g[i] = IF i > o + Len(x) /\ i <= o + Len(x) + Len(y) THEN y[i - (o + Len(x))]
                                      ELSE IF i <= Len(f) THEN f[i] ELSE 0
    BY <2>1, <2>4, OverlayAt
  <2>8. \A i \in 1 .. Len(h) : h[i] = IF i > o /\ i <= o + (Len(x) + Len(y)) THEN (x \o y)[i - o]
                                      ELSE IF i <= Len(file) THEN file[i] ELSE 0
    BY <1>1, OverlayAt
  <2> HIDE DEF g, h
  <2>9. Len(g) = Len(h)
    <3> DEFINE nx == Len(x)
               ny == Len(y)
               nf == Len(file)
    <3>1. nx \in Nat /\ ny \in Nat /\ nf \in Nat
      BY <1>1
    <3>2. Len(g) = IF o + nx + ny > (IF o + nx > nf THEN o + nx ELSE nf) THEN o + nx + ny ELSE (IF o + nx > nf THEN o + nx ELSE nf)
      BY <2>1, <2>5
    <3>3. Len(h) = IF o + (nx + ny) > nf THEN o + (nx + ny) ELSE nf
      BY <2>6
    <3> HIDE DEF nx, ny, nf
    <3> QED BY <3>1, <3>2, <3>3
  <2>10. ASSUME NEW i \in 1 .. Len(g) PROVE g[i] = h[i]
    <3>1. i \in Nat /\ i \in 1 .. Len(h)
      BY <2>9
    <3>2. CASE i > o + Len(x) /\ i <= o + Len(x) + Len(y)
      <4>1. i - o \in 1 .. Len(x) + Len(y) /\ i - o > Len(x) /\ (i - o) - Len(x) = i - (o + Len(x))
        BY <1>1, <3>1, <3>2
      <4>2. (x \o y)[i - o] = y[(i - o) - Len(x)]
        BY <1>1, <4>1
      <4> QED BY <1>1, <2>7, <2>8, <3>1, <3>2, <4>1, <4>2
    <3>3. CASE i > o /\ i <= o + Len(x)
      <4>1. i - o \in 1 .. Len(x) /\ i <= Len(f) /\ i \in 1 .. Len(f)
        BY <1>1, <2>1, <3>1, <3>3
      <4>2. (x \o y)[i - o] = x[i - o]
        BY <1>1, <4>1
      <4>3. g[i] = f[i] /\ f[i] = x[i - o]
        BY <1>1, <2>2, <2>7, <3>3, <4>1
      <4>4. h[i] = (x \o y)[i - o]
        BY <1>1, <2>8, <3>1, <3>3
      <4> QED BY <4>2, <4>3, <4>4
    <3>4. CASE i <= o
      <4>1. h[i] = IF i <= Len(file) THEN file[i] ELSE 0
        BY <1>1, <2>8, <3>1, <3>4
      <4>2. g[i] = IF i <= Len(f) THEN f[i] ELSE 0
        BY <1>1, <2>7, <3>1, <3>4
      <4>3. i <= Len(f) => f[i] = IF i <= Len(file) THEN file[i] ELSE 0
        BY <1>1, <2>1, <2>2, <3>1, <3>4
      <4> QED BY <1>1, <2>1, <3>1, <4>1, <4>2, <4>3
    <3>5. CASE i > o + Len(x) + Len(y)
      <4>1. h[i] = IF i <= Len(file) THEN file[i] ELSE 0
        BY <1>1, <2>8, <3>1, <3>5
      <4>2. g[i] = IF i <= Len(f) THEN f[i] ELSE 0
        BY <1>1, <2>7, <3>1, <3>5
      <4>3. i <= Len(f) => f[i] = IF i <= Len(file) THEN file[i] ELSE 0
        BY <1>1, <2>1, <2>2, <3>1, <3>5
      <4> QED BY <1>1, <2>1, <3>1, <3>5, <4>1, <4>2, <4>3
    <3> QED BY <1>1, <3>1, <3>2, <3>3, <3>4, <3>5
  <2>11. g = h
    BY <2>5, <2>6, <2>9, <2>10, SeqEqual
  <2> QED BY <2>11 DEF f, g, h
<1> QED BY <1>2, <1>3, <1>4

(***************************************************************************)
(* What the parts of a step do to the fields.                              *)
(***************************************************************************)
\* The flags change alone.
LEMMA FlagsAlone ==
  ASSUME NEW fp \in FILE, NEW F \in SUBSET Flags
  PROVE  /\ Flagged(fp, F) \in FILE /\ Flagged(fp, F).flags = fp.flags \cup F
         /\ Flagged(fp, F).buf = fp.buf /\ Flagged(fp, F).len = fp.len /\ Flagged(fp, F).rp = fp.rp
         /\ Flagged(fp, F).wp = fp.wp /\ Flagged(fp, F).lp = fp.lp /\ Flagged(fp, F).pos = fp.pos /\ Flagged(fp, F).mode = fp.mode
         /\ Unflagged(fp, F) \in FILE /\ Unflagged(fp, F).flags = fp.flags \ F
         /\ Unflagged(fp, F).buf = fp.buf /\ Unflagged(fp, F).len = fp.len /\ Unflagged(fp, F).rp = fp.rp
         /\ Unflagged(fp, F).wp = fp.wp /\ Unflagged(fp, F).lp = fp.lp /\ Unflagged(fp, F).pos = fp.pos /\ Unflagged(fp, F).mode = fp.mode
<1>1. fp.flags \cup F \in SUBSET Flags /\ fp.flags \ F \in SUBSET Flags
  BY DEF FILE
<1> QED BY <1>1 DEF Flagged, Unflagged, FILE

\* A step with another FILE.
LEMMA OnFile ==
  ASSUME NEW st \in Steps, NEW q
  PROVE  On(st, q).fp = q /\ On(st, q).file = st.file /\ On(st, q).fail = st.fail /\ (q \in FILE => On(st, q) \in Steps)
BY DEF On, Steps

\* q is fp but for its flags and the place of its pointers.
Alike(q, fp) == q \in FILE /\ q.buf = fp.buf /\ q.len = fp.len /\ q.lp = fp.lp /\ q.mode = fp.mode

\* wp and rp change alone.
LEMMA PointersAlone ==
  ASSUME NEW fp \in FILE, NEW k \in Nat
  PROVE  /\ [fp EXCEPT !.wp = k] \in FILE /\ [fp EXCEPT !.wp = k].wp = k
         /\ Alike([fp EXCEPT !.wp = k], fp) /\ [fp EXCEPT !.wp = k].rp = fp.rp
         /\ [fp EXCEPT !.wp = k].flags = fp.flags /\ [fp EXCEPT !.wp = k].pos = fp.pos
         /\ [fp EXCEPT !.rp = k] \in FILE /\ [fp EXCEPT !.rp = k].rp = k
         /\ Alike([fp EXCEPT !.rp = k], fp) /\ [fp EXCEPT !.rp = k].wp = fp.wp
         /\ [fp EXCEPT !.rp = k].flags = fp.flags /\ [fp EXCEPT !.rp = k].pos = fp.pos
         /\ [fp EXCEPT !.pos = k] \in FILE /\ [fp EXCEPT !.pos = k].pos = k
         /\ Alike([fp EXCEPT !.pos = k], fp) /\ [fp EXCEPT !.pos = k].wp = fp.wp
         /\ [fp EXCEPT !.pos = k].flags = fp.flags /\ [fp EXCEPT !.pos = k].rp = fp.rp
BY DEF FILE, Alike

\* What write() takes from the buffer.
Begin(fp) == [i \in 1 .. fp.wp |-> Cell(fp, i)]

\* What waits in the buffer is a text.
LEMMA BeginIsText ==
  ASSUME NEW fp, Sound(fp)
  PROVE  Begin(fp) \in Seq(Nat) /\ Len(Begin(fp)) = fp.wp /\ (fp.wp <= fp.len => Begin(fp) = SubSeq(fp.buf, 1, fp.wp))
<1>1. fp.wp \in Nat /\ fp.len \in Nat /\ fp.buf \in Seq(Nat)
  BY DEF Sound, FILE
<1>2. ASSUME NEW i \in 1 .. fp.wp PROVE Cell(fp, i) \in Nat /\ (i <= fp.len => Cell(fp, i) = fp.buf[i])
  <2>1. fp.buf # <<>> /\ Len(fp.buf) = fp.len
    BY <1>1 DEF Sound
  <2>2. i <= fp.len => fp.buf[i] \in Nat
    BY <1>1, <2>1
  <2> QED BY <2>2 DEF Cell
<1>3. Begin(fp) \in [1 .. fp.wp -> Nat]
  BY <1>2 DEF Begin
<1>4. Begin(fp) \in Seq(Nat) /\ Len(Begin(fp)) = fp.wp
  BY <1>1, <1>3
<1>5. ASSUME fp.wp <= fp.len PROVE Begin(fp) = SubSeq(fp.buf, 1, fp.wp)
  <2> DEFINE n == fp.wp
  <2>1. n <= Len(fp.buf) /\ n \in Nat
    BY <1>1, <1>5 DEF Sound
  <2>2. SubSeq(fp.buf, 1, n) = [i \in 1 .. n |-> fp.buf[i]]
    BY <1>1, <2>1
  <2>3. \A i \in 1 .. n : Cell(fp, i) = fp.buf[i]
    BY <1>1, <1>2, <1>5
  <2> QED BY <2>2, <2>3 DEF Begin
<1> QED BY <1>4, <1>5

\* The offset of a write.
LEMMA OffsetIsNat == ASSUME NEW st \in Steps PROVE OffsetOf(st.fp, st.file) \in Nat
BY DEF OffsetOf, Steps, FILE

(***************************************************************************)
(* _flsbuf(): what is in the buffer is written, or the error is set.       *)
(***************************************************************************)
\* The write is done, or a part of it.
Sent(st, w) ==
  /\ w.st \in Steps /\ Alike(w.st.fp, st.fp) /\ w.st.fp.rp = st.fp.rp /\ w.st.fp.wp = st.fp.wp /\ w.st.fp.flags = st.fp.flags
  /\ IF w.all THEN /\ w.st.fp.pos = OffsetOf(st.fp, st.file) + st.fp.wp
                   /\ w.st.file = Overlay(st.file, OffsetOf(st.fp, st.file), Begin(st.fp))
                   /\ w.st.fail = st.fail
     ELSE w.st.fail = st.fail + 1

\* _write() gives a file again; when it fails, that is counted.
LEMMA WriteSends ==
  ASSUME NEW st, Typed(st), NEW w \in _write(st, st.fp.wp)
  PROVE  Sent(st, w)
<1> DEFINE s == Begin(st.fp)
           n == st.fp.wp
           o == OffsetOf(st.fp, st.file)
           to(k, fail) == Step([st.fp EXCEPT !.pos = o + k], Overlay(st.file, o, SubSeq(s, 1, k)), fail)
<1>1. st \in Steps /\ n \in Nat /\ st.fail \in Nat /\ st.fp \in FILE /\ st.file \in Seq(Nat)
  BY DEF Typed, Steps, FILE
<1>2. o \in Nat
  BY <1>1, OffsetIsNat
<1>3. s \in Seq(Nat) /\ Len(s) = n
  BY BeginIsText DEF Typed
<1>4. w \in {[st |-> to(n, st.fail), all |-> TRUE]} \cup {[st |-> to(k, st.fail + 1), all |-> FALSE] : k \in 0 .. n - 1}
  BY DEF _write, Begin
<1> HIDE DEF s, o
<1>5. ASSUME NEW k \in 0 .. n, NEW fail \in Nat
      PROVE  /\ to(k, fail) \in Steps /\ to(k, fail).fail = fail /\ to(k, fail).file = Overlay(st.file, o, SubSeq(s, 1, k))
             /\ Alike(to(k, fail).fp, st.fp) /\ to(k, fail).fp.rp = st.fp.rp /\ to(k, fail).fp.wp = st.fp.wp
             /\ to(k, fail).fp.flags = st.fp.flags /\ to(k, fail).fp.pos = o + k
  <2>1. SubSeq(s, 1, k) \in Seq(Nat) /\ o + k \in Nat
    BY <1>1, <1>2, <1>3
  <2>2. Overlay(st.file, o, SubSeq(s, 1, k)) \in Seq(Nat)
    BY <1>1, <1>2, <2>1, OverlayIsFile
  <2> DEFINE q == [st.fp EXCEPT !.pos = o + k]
             f == Overlay(st.file, o, SubSeq(s, 1, k))
  <2>3. q \in FILE /\ q.pos = o + k /\ Alike(q, st.fp) /\ q.wp = st.fp.wp /\ q.flags = st.fp.flags /\ q.rp = st.fp.rp
    BY <1>1, <2>1, PointersAlone
  <2>5. f \in Seq(Nat)
    BY <2>2
  <2> HIDE DEF q, f
  <2>4. Step(q, f, fail) \in Steps /\ Step(q, f, fail).fp = q /\ Step(q, f, fail).file = f /\ Step(q, f, fail).fail = fail
    BY <2>3, <2>5 DEF Step, Steps
  <2> QED BY <2>3, <2>4 DEF q, f
<1>6. n \in 0 .. n /\ SubSeq(s, 1, n) = s
  BY <1>1, <1>3
<1>7. CASE w = [st |-> to(n, st.fail), all |-> TRUE]
  <2>1. w.st = to(n, st.fail) /\ w.all
    BY <1>7
  <2> HIDE DEF to
  <2> DEFINE t == to(n, st.fail)
  <2>2. /\ t \in Steps /\ t.fail = st.fail /\ t.file = Overlay(st.file, o, s)
        /\ Alike(t.fp, st.fp) /\ t.fp.rp = st.fp.rp /\ t.fp.wp = st.fp.wp
        /\ t.fp.flags = st.fp.flags /\ t.fp.pos = o + n
    BY ZenonT(30), <1>1, <1>5, <1>6
  <2> HIDE DEF t
  <2>3. w.st = t /\ w.all
    BY <2>1 DEF t
  <2> QED BY <2>2, <2>3 DEF Sent, o, s
<1>8. CASE w \in {[st |-> to(k, st.fail + 1), all |-> FALSE] : k \in 0 .. n - 1}
  <2>1. PICK k \in 0 .. n - 1 : w = [st |-> to(k, st.fail + 1), all |-> FALSE]
    BY <1>8
  <2>2. w.st = to(k, st.fail + 1) /\ ~w.all /\ k \in 0 .. n /\ st.fail + 1 \in Nat
    BY <1>1, <2>1
  <2> HIDE DEF to
  <2> QED BY <1>5, <2>2 DEF Sent
<1> QED BY <1>4, <1>7, <1>8

\* t is st with its buffer written to the file.
Emptied(st, t) ==
  /\ t \in Steps /\ Alike(t.fp, st.fp) /\ t.fp.rp = st.fp.rp /\ t.fp.flags = st.fp.flags /\ t.fp.wp = 0
  /\ t.fp.pos = OffsetOf(st.fp, st.file) + st.fp.wp
  /\ t.file = Overlay(st.file, OffsetOf(st.fp, st.file), Begin(st.fp))
  /\ t.fail = st.fail
\* t is st after a write that failed: the error is set, the pointers stay.
Refused(st, t) ==
  /\ t \in Steps /\ Alike(t.fp, st.fp) /\ t.fp.rp = st.fp.rp /\ t.fp.wp = st.fp.wp
  /\ t.fp.flags = st.fp.flags \cup {"ERR"}
  /\ t.fail = st.fail + 1
Flushed(st, r) ==
  IF Has(st.fp, "READ") \/ st.fp.wp = 0 THEN r = Ret(st, 0)
  ELSE IF r.ret = 0 THEN Emptied(st, r.st) ELSE r.ret = EOF /\ Refused(st, r.st)

\* A flush does one of three things.
LEMMA FlushDoes == ASSUME NEW st, Typed(st), NEW r \in _flsbuf(st) PROVE Flushed(st, r)
<1>1. CASE Has(st.fp, "READ") \/ st.fp.wp = 0
  BY <1>1 DEF _flsbuf, Flushed
<1>2. CASE ~(Has(st.fp, "READ") \/ st.fp.wp = 0)
  <2>1. PICK w \in _write(st, st.fp.wp) :
          r = IF w.all THEN Ret(On(w.st, [w.st.fp EXCEPT !.wp = 0]), 0) ELSE Ret(On(w.st, Flagged(w.st.fp, {"ERR"})), EOF)
    BY <1>2 DEF _flsbuf
  <2>2. Sent(st, w)
    BY WriteSends
  <2>3. w.st \in Steps /\ w.st.fp \in FILE /\ 0 \in Nat /\ {"ERR"} \in SUBSET Flags
    BY <2>2 DEF Sent, Steps, Flags
  <2>4. CASE w.all
    <3> DEFINE q == [w.st.fp EXCEPT !.wp = 0]
    <3>1. r.st = On(w.st, q) /\ r.ret = 0
      BY <2>1, <2>4 DEF Ret
    <3>2. q \in FILE /\ q.wp = 0 /\ Alike(q, w.st.fp) /\ q.rp = w.st.fp.rp /\ q.flags = w.st.fp.flags /\ q.pos = w.st.fp.pos
      BY <2>3, PointersAlone
    <3> HIDE DEF q
    <3>3. r.st \in Steps /\ r.st.fp = q /\ r.st.file = w.st.file /\ r.st.fail = w.st.fail
      BY <2>3, <3>1, <3>2, OnFile
    <3>4. Emptied(st, r.st)
      BY <2>2, <2>4, <3>2, <3>3 DEF Emptied, Sent, Alike
    <3> QED BY <1>2, <3>1, <3>4 DEF Flushed
  <2>5. CASE ~w.all
    <3> DEFINE q == Flagged(w.st.fp, {"ERR"})
    <3>1. r.st = On(w.st, q) /\ r.ret = EOF
      BY <2>1, <2>5 DEF Ret
    <3>2. q \in FILE /\ q.wp = w.st.fp.wp /\ Alike(q, w.st.fp) /\ q.rp = w.st.fp.rp /\ q.flags = w.st.fp.flags \cup {"ERR"}
      BY <2>3, FlagsAlone DEF Alike
    <3> HIDE DEF q
    <3>3. r.st \in Steps /\ r.st.fp = q /\ r.st.file = w.st.file /\ r.st.fail = w.st.fail
      BY <2>3, <3>1, <3>2, OnFile
    <3>4. Refused(st, r.st)
      BY <2>2, <2>5, <3>2, <3>3 DEF Refused, Sent, Alike
    <3>5. r.ret # 0
      BY <3>1 DEF EOF
    <3> QED BY <1>2, <3>1, <3>4, <3>5 DEF Flushed
  <2> QED BY <2>4, <2>5
<1> QED BY <1>1, <1>2

(***************************************************************************)
(* The invariant of one stream.                                            *)
(***************************************************************************)
\* Writes go to the end of the file.
Appends(fp) == fp.mode \in {"a", "a+"}

\* The flags of access are those of the mode.
Access(fp) ==
  IF fp.mode = "r" THEN "READ" \in fp.flags /\ "WRITE" \notin fp.flags /\ "RW" \notin fp.flags
  ELSE IF fp.mode \in {"w", "a"} THEN "WRITE" \in fp.flags /\ "READ" \notin fp.flags /\ "RW" \notin fp.flags
  ELSE "RW" \in fp.flags

\* Nothing was read from the buffer; rp is what putc() goes by.
Unread(fp) == fp.rp = 0 \/ ("FBF" \in fp.flags /\ fp.rp = fp.len /\ "WRITE" \in fp.flags)

\* The pointers of an open stream that was not moved with characters left in
\* the buffer, whether it had an error or not.
Straight(fp, d) ==
  /\ Access(fp)
  /\ "LBF" \in fp.flags \/ "FBF" \in fp.flags => "PAST" \notin fp.flags /\ fp.wp <= fp.len
  /\ fp.buf # <<>> => fp.lp = fp.len /\ fp.len # 0
  /\ IF "READ" \in fp.flags THEN fp.rp <= fp.wp /\ fp.wp <= fp.len /\ ("RW" \in fp.flags => fp.rp # 0 /\ d = "read")
     ELSE d = "read" \/ Unread(fp)

\* What was written (w, up to a) is in the file, or comes with the buffer.
Carries(fp, file, w, a) ==
  /\ "ERR" \notin fp.flags /\ "PAST" \notin fp.flags /\ "READ" \notin fp.flags
  /\ fp.wp # 0 => fp.wp <= fp.len
  /\ w = Overlay(file, OffsetOf(fp, file), Begin(fp))
  /\ a = IF fp.wp = 0 THEN fp.pos ELSE OffsetOf(fp, file) + fp.wp
  /\ "EOF" \in fp.flags => fp.pos >= Len(file)
\* What was read ahead is what the file has after a.
Ahead(fp, file, w, a) ==
  /\ "ERR" \notin fp.flags /\ "PAST" \notin fp.flags /\ "READ" \in fp.flags
  /\ w = file /\ a \in Nat /\ a = fp.pos - (fp.wp - fp.rp)
  /\ fp.rp < fp.wp => fp.pos <= Len(file) /\ "EOF" \notin fp.flags
  /\ \A i \in 1 .. fp.len : fp.rp < i /\ i <= fp.wp => fp.buf[i] = file[fp.pos - fp.wp + i]
  /\ "EOF" \in fp.flags => fp.pos >= Len(file)
\* A stream that had no error: with its buffer it is the file w at a.
Agrees(fp, file, w, a) ==
  IF "READ" \in fp.flags THEN Ahead(fp, file, w, a)
  ELSE /\ Carries(fp, file, w, a)
       /\ Unread(fp)
       /\ fp.wp # 0 => "WRITE" \in fp.flags /\ ("LBF" \in fp.flags \/ "FBF" \in fp.flags)

\* What C lets the program do next fits the state of the stream.
Doing(fp, d) ==
  /\ "READ" \in fp.flags => d # "write"
  /\ "READ" \notin fp.flags /\ fp.wp # 0 => d = "write"
  /\ d = "new" => fp.rp = 0 /\ fp.wp = 0

\* Nothing waits to be written.
Flat(fp) == Open(fp) /\ "READ" \notin fp.flags => fp.wp = 0

\* No call on a stream takes these back.
Goes(st, t) ==
  /\ Typed(t) /\ t.fp.mode = st.fp.mode /\ st.fail <= t.fail
  /\ st.fp.flags \subseteq t.fp.flags

\* Going on is transitive.
LEMMA GoesOn ==
  ASSUME NEW st \in Steps, NEW t, NEW u, Goes(st, t), Goes(t, u)
  PROVE  Goes(st, u)
<1>1. st.fail \in Nat /\ t.fail \in Nat /\ u.fail \in Nat
  BY DEF Goes, Typed, Steps
<1> QED BY <1>1 DEF Goes

\* A step goes on from itself.
LEMMA GoesFrom == ASSUME NEW st, Typed(st) PROVE Goes(st, st)
BY DEF Goes, Typed, Steps

\* A flush keeps the stream whole.
LEMMA FlushGoes ==
  ASSUME NEW st, Typed(st), NEW r \in _flsbuf(st)
  PROVE  /\ Goes(st, r.st) /\ r.ret \in {0, EOF}
         /\ r.st.fp.rp = st.fp.rp /\ Alike(r.st.fp, st.fp)
         /\ r.st.fp.flags \subseteq st.fp.flags \cup {"ERR"}
         /\ r.ret = EOF => "ERR" \in r.st.fp.flags /\ r.st.fail > st.fail /\ r.st.fp.wp = st.fp.wp
         /\ r.ret = 0 => (Has(st.fp, "READ") \/ r.st.fp.wp = 0) /\ r.st.fp.flags = st.fp.flags
<1>1. Flushed(st, r)
  BY FlushDoes
<1>2. st \in Steps /\ st.fail \in Nat /\ Sound(st.fp) /\ st.fp \in FILE
  BY DEF Typed, Steps
<1>3. CASE Has(st.fp, "READ") \/ st.fp.wp = 0
  <2>1. r.st = st /\ r.ret = 0
    BY <1>1, <1>3 DEF Flushed, Ret
  <2> QED BY <1>2, <1>3, <2>1, GoesFrom DEF EOF, Alike
<1>4. CASE ~(Has(st.fp, "READ") \/ st.fp.wp = 0) /\ r.ret = 0
  <2>1. Emptied(st, r.st)
    BY <1>1, <1>4 DEF Flushed
  <2>2. Sound(r.st.fp)
    BY <1>2, <2>1 DEF Emptied, Alike, Sound
  <2> QED BY <1>2, <1>4, <2>1, <2>2 DEF Emptied, Alike, Goes, Typed, EOF
<1>5. CASE ~(Has(st.fp, "READ") \/ st.fp.wp = 0) /\ r.ret # 0
  <2>1. Refused(st, r.st) /\ r.ret = EOF
    BY <1>1, <1>5 DEF Flushed
  <2>2. Sound(r.st.fp)
    BY <1>2, <2>1 DEF Refused, Alike, Sound
  <2> QED BY <1>2, <1>5, <2>1, <2>2 DEF Refused, Alike, Goes, Typed, EOF
<1> QED BY <1>3, <1>4, <1>5

\* A flush keeps the pointers straight.
LEMMA FlushStraight ==
  ASSUME NEW st, Typed(st), NEW d, Straight(st.fp, d), NEW r \in _flsbuf(st)
  PROVE  Straight(r.st.fp, d)
<1>1. /\ Goes(st, r.st) /\ r.st.fp.rp = st.fp.rp /\ Alike(r.st.fp, st.fp)
      /\ r.st.fp.flags \subseteq st.fp.flags \cup {"ERR"} /\ st.fp.flags \subseteq r.st.fp.flags
  BY FlushGoes DEF Goes
<1>2. r.st.fp.wp = st.fp.wp \/ (r.st.fp.wp = 0 /\ ~Has(st.fp, "READ"))
  BY FlushDoes DEF Flushed, Emptied, Refused, Ret
<1>3. st.fp.len \in Nat
  BY DEF Typed, Sound, FILE
<1>4. /\ "READ" \in r.st.fp.flags <=> "READ" \in st.fp.flags
      /\ "WRITE" \in r.st.fp.flags <=> "WRITE" \in st.fp.flags
      /\ "RW" \in r.st.fp.flags <=> "RW" \in st.fp.flags
      /\ "LBF" \in r.st.fp.flags <=> "LBF" \in st.fp.flags
      /\ "FBF" \in r.st.fp.flags <=> "FBF" \in st.fp.flags
      /\ "PAST" \in r.st.fp.flags <=> "PAST" \in st.fp.flags
  BY <1>1
<1>5. Access(r.st.fp)
  BY <1>1, <1>4 DEF Access, Alike, Straight
<1>6. Unread(st.fp) => Unread(r.st.fp)
  BY <1>1, <1>4 DEF Unread, Alike
<1> QED BY <1>1, <1>2, <1>3, <1>4, <1>5, <1>6 DEF Straight, Has, Alike

\* After a flush that went well the file has all of it.
LEMMA FlushCarries ==
  ASSUME NEW st, Typed(st), NEW w, NEW a, Carries(st.fp, st.file, w, a), NEW r \in _flsbuf(st), r.ret = 0
  PROVE  Carries(r.st.fp, r.st.file, w, a) /\ r.st.fp.wp = 0 /\ w = r.st.file /\ a = r.st.fp.pos
<1>1. Flushed(st, r)
  BY FlushDoes
<1>2. st \in Steps /\ st.file \in Seq(Nat) /\ st.fp.wp \in Nat /\ st.fp.pos \in Nat /\ st.fp.len \in Nat
  BY DEF Typed, Steps, FILE
<1> DEFINE o == OffsetOf(st.fp, st.file)
           x == Begin(st.fp)
<1>3. o \in Nat /\ x \in Seq(Nat) /\ Len(x) = st.fp.wp
  BY <1>2, OffsetIsNat, BeginIsText DEF Typed
<1>4. \A fp : fp.wp = 0 => Begin(fp) = <<>>
  BY DEF Begin
<1>5. CASE st.fp.wp = 0
  <2>1. r.st = st
    BY <1>1, <1>5 DEF Flushed, Ret
  <2>2. w = st.file
    BY <1>4, <1>5 DEF Carries, Overlay
  <2> QED BY <1>5, <2>1, <2>2 DEF Carries
<1>6. CASE st.fp.wp # 0
  <2>1. Emptied(st, r.st)
    BY <1>1, <1>6 DEF Flushed, Carries, Has
  <2> DEFINE t == r.st
  <2>2. /\ t.fp.wp = 0 /\ t.fp.flags = st.fp.flags /\ t.fp.pos = o + st.fp.wp /\ t.file = Overlay(st.file, o, x)
        /\ t.fp.mode = st.fp.mode
    BY <2>1 DEF Emptied, Alike
  <2>3. Len(t.file) = IF o + st.fp.wp > Len(st.file) THEN o + st.fp.wp ELSE Len(st.file)
    BY SMTT(30), <1>2, <1>3, <1>6, <2>2, OverlayIsFile
  <2>4. w = t.file /\ a = t.fp.pos
    BY <1>6, <2>2 DEF Carries
  <2>5. "EOF" \in st.fp.flags => o >= Len(st.file)
    BY <1>2 DEF Carries, OffsetOf
  <2> HIDE DEF o, x
  <2>6. Len(st.file) \in Nat
    BY <1>2
  <2>7. "EOF" \in t.fp.flags => t.fp.pos >= Len(t.file)
    BY <1>2, <1>3, <2>2, <2>3, <2>5, <2>6
  <2>8. w = Overlay(t.file, OffsetOf(t.fp, t.file), Begin(t.fp))
    BY <1>4, <2>2, <2>4 DEF Overlay
  <2>9. Carries(t.fp, t.file, w, a)
    BY <2>2, <2>4, <2>7, <2>8 DEF Carries
  <2> QED BY <2>2, <2>4, <2>9
<1> QED BY <1>5, <1>6

(***************************************************************************)
(* putc(): the parts of it.                                                *)
(***************************************************************************)
\* t is st with one more character at the end of the buffer.
OneMore(st, t, ch) ==
  /\ Goes(st, t) /\ t.fp.wp = st.fp.wp + 1 /\ t.fp.rp = st.fp.rp /\ t.fp.len = st.fp.len /\ t.fp.lp = st.fp.lp
  /\ t.fp.pos = st.fp.pos /\ t.file = st.file /\ t.fail = st.fail /\ t.fp.buf # <<>>
  /\ IF st.fp.wp < st.fp.len THEN t.fp.flags = st.fp.flags /\ Begin(t.fp) = Append(Begin(st.fp), ch)
     ELSE t.fp.flags = st.fp.flags \cup {"PAST"}
\* A character is stored in the buffer, or after it.
LEMMA StoreDoes ==
  ASSUME NEW st, Typed(st), st.fp.buf # <<>>, NEW ch \in Nat
  PROVE  OneMore(st, Stored(st, ch), ch)
<1> DEFINE fp == st.fp
           q == [fp EXCEPT !.wp = @ + 1]
           b == [fp.buf EXCEPT ![fp.wp + 1] = ch]
           t == Stored(st, ch)
<1>1. st \in Steps /\ fp \in FILE /\ st.fail \in Nat /\ fp.wp \in Nat /\ fp.len \in Nat /\ fp.buf \in Seq(Nat) /\ Len(fp.buf) = fp.len
  BY DEF Typed, Steps, FILE, Sound
<1>2. q \in FILE /\ q.wp = fp.wp + 1 /\ q.rp = fp.rp /\ q.flags = fp.flags /\ q.pos = fp.pos /\ Alike(q, fp)
  <2>1. q = [fp EXCEPT !.wp = fp.wp + 1]
    BY <1>1 DEF FILE
  <2>2. fp.wp + 1 \in Nat
    BY <1>1
  <2> HIDE DEF q
  <2> QED BY <1>1, <2>1, <2>2, PointersAlone
<1>3. b \in Seq(Nat) /\ Len(b) = Len(fp.buf) /\ b # <<>>
      /\ \A i \in 1 .. Len(fp.buf) : b[i] = IF i = fp.wp + 1 THEN ch ELSE fp.buf[i]
  <2> DEFINE m == fp.buf
             k == fp.wp + 1
             n == Len(fp.buf)
  <2>1. m \in [1 .. n -> Nat] /\ m # <<>> /\ n \in Nat /\ m \in Seq(Nat) /\ n = Len(m)
    BY <1>1
  <2>2. n # 0
    <3> HIDE DEF m, n
    <3> QED BY <2>1
  <2>3. b = [m EXCEPT ![k] = ch]
    OBVIOUS
  <2> HIDE DEF m, k, n, b
  <2>4. b \in [1 .. n -> Nat] /\ \A i \in 1 .. n : b[i] = IF i = k THEN ch ELSE m[i]
    BY <2>1, <2>3
  <2>5. b \in Seq(Nat) /\ Len(b) = n
    BY <2>1, <2>4
  <2>6. b # <<>>
    BY <2>2, <2>5
  <2> QED BY <2>4, <2>5, <2>6 DEF m, k, n
<1>4. Stored(st, ch) = On(st, IF fp.wp < fp.len THEN [q EXCEPT !.buf = b] ELSE Flagged(q, {"PAST"}))
  BY DEF Stored, Store
<1> HIDE DEF q, b
<1>5. CASE fp.wp < fp.len
  <2> DEFINE u == [q EXCEPT !.buf = b]
  <2>1. u \in FILE /\ u.buf = b /\ u.wp = q.wp /\ u.rp = q.rp /\ u.flags = q.flags /\ u.pos = q.pos /\ u.len = q.len
        /\ u.lp = q.lp /\ u.mode = q.mode
    BY <1>2, <1>3 DEF FILE
  <2>2. t = On(st, u)
    BY <1>4, <1>5
  <2> HIDE DEF u, t
  <2>3. t \in Steps /\ t.fp = u /\ t.file = st.file /\ t.fail = st.fail
    BY <1>1, <2>1, <2>2, OnFile
  <2>4. Sound(u) /\ Typed(t)
    BY <1>1, <1>2, <1>3, <2>1, <2>3 DEF Sound, Typed, Alike
  <2>5. Goes(st, t)
    BY <1>1, <1>2, <2>1, <2>3, <2>4 DEF Goes, Alike
  <2>6. Begin(u) = Append(Begin(fp), ch)
    <3>1. Begin(fp) \in Seq(Nat) /\ Len(Begin(fp)) = fp.wp /\ Begin(u) \in Seq(Nat) /\ Len(Begin(u)) = fp.wp + 1
      BY <1>2, <2>1, <2>4, BeginIsText DEF Typed
    <3> DEFINE x == Append(Begin(fp), ch)
    <3>2. x \in Seq(Nat) /\ Len(x) = fp.wp + 1 /\ \A i \in 1 .. fp.wp + 1 : x[i] = IF i = fp.wp + 1 THEN ch ELSE Begin(fp)[i]
      BY SMTT(30), <1>1, <3>1
    <3> HIDE DEF x
    <3>3. ASSUME NEW i \in 1 .. fp.wp + 1 PROVE Begin(u)[i] = x[i]
      <4>1. Begin(u)[i] = Cell(u, i)
        BY <1>2, <2>1 DEF Begin
      <4>2. Cell(u, i) = b[i] /\ i \in 1 .. Len(fp.buf)
        BY <1>1, <1>2, <1>5, <2>1 DEF Cell, Alike
      <4>3. CASE i = fp.wp + 1
        BY <1>3, <3>2, <4>1, <4>2, <4>3
      <4>4. CASE i # fp.wp + 1
        <5>1. i \in 1 .. fp.wp /\ i <= fp.len
          BY SMTT(30), <1>1, <1>5, <4>4
        <5>2. Begin(fp)[i] = fp.buf[i]
          BY <5>1 DEF Begin, Cell
        <5> QED BY <1>3, <3>2, <4>1, <4>2, <4>4, <5>2
      <4> QED BY <4>3, <4>4
    <3>4. Begin(u) = x
      BY <3>1, <3>2, <3>3, SeqEqual
    <3> QED BY <3>4 DEF x
  <2>7. OneMore(st, t, ch)
    BY <1>2, <1>3, <1>5, <2>1, <2>3, <2>5, <2>6 DEF OneMore, Alike
  <2> QED BY <2>7 DEF t
<1>6. CASE ~(fp.wp < fp.len)
  <2> DEFINE u == Flagged(q, {"PAST"})
  <2>1. u \in FILE /\ u.buf = q.buf /\ u.wp = q.wp /\ u.rp = q.rp /\ u.flags = q.flags \cup {"PAST"} /\ u.pos = q.pos /\ u.len = q.len
        /\ u.lp = q.lp /\ u.mode = q.mode
    BY <1>2, FlagsAlone DEF Flags
  <2>2. t = On(st, u)
    BY <1>4, <1>6
  <2> HIDE DEF u, t
  <2>3. t \in Steps /\ t.fp = u /\ t.file = st.file /\ t.fail = st.fail
    BY <1>1, <2>1, <2>2, OnFile
  <2>4. Sound(u) /\ Typed(t)
    BY <1>1, <1>2, <2>1, <2>3 DEF Sound, Typed, Alike
  <2>5. Goes(st, t)
    BY <1>1, <1>2, <2>1, <2>3, <2>4 DEF Goes, Alike
  <2>6. OneMore(st, t, ch)
    BY <1>2, <1>6, <2>1, <2>3, <2>5 DEF OneMore, Alike
  <2> QED BY <2>6 DEF t
<1> QED BY <1>5, <1>6

\* Where C writes x on a stream at a of w, the file that is to be, and where the stream is then.
PlaceOf(fp, w, a) == IF Appends(fp) THEN Len(w) ELSE a
WantOf(fp, w, a, x) == Overlay(w, PlaceOf(fp, w, a), x)
AtOf(fp, w, a, x) == IF x = <<>> THEN a ELSE PlaceOf(fp, w, a) + Len(x)

\* The place is that of the buffer, after it.
LEMMA PlaceIsNext ==
  ASSUME NEW st, Typed(st), NEW w, NEW a, Carries(st.fp, st.file, w, a)
  PROVE  /\ w \in Seq(Nat) /\ a \in Nat
         /\ PlaceOf(st.fp, w, a) = OffsetOf(st.fp, st.file) + st.fp.wp
<1>1. st \in Steps /\ st.file \in Seq(Nat) /\ st.fp.wp \in Nat /\ st.fp.pos \in Nat
  BY DEF Typed, Steps, FILE
<1> DEFINE o == OffsetOf(st.fp, st.file)
           x == Begin(st.fp)
<1>2. o \in Nat /\ x \in Seq(Nat) /\ Len(x) = st.fp.wp
  BY <1>1, OffsetIsNat, BeginIsText DEF Typed
<1>3. w = Overlay(st.file, o, x) /\ a = IF st.fp.wp = 0 THEN st.fp.pos ELSE o + st.fp.wp
  BY DEF Carries
<1>4. o = IF Appends(st.fp) THEN Len(st.file) ELSE st.fp.pos
  BY DEF OffsetOf, Appends
<1> HIDE DEF o, x
<1>5. w \in Seq(Nat) /\ Len(w) = IF x # <<>> /\ o + Len(x) > Len(st.file) THEN o + Len(x) ELSE Len(st.file)
  BY <1>1, <1>2, <1>3, OverlayIsFile
<1>6. x # <<>> <=> st.fp.wp # 0
  BY <1>1, <1>2
<1>7. Len(st.file) \in Nat
  BY <1>1
<1>8. PlaceOf(st.fp, w, a) = o + st.fp.wp
  BY <1>1, <1>2, <1>3, <1>4, <1>5, <1>6, <1>7 DEF PlaceOf
<1> QED BY <1>1, <1>2, <1>3, <1>5, <1>8 DEF o

\* One more character in the buffer is one more for the file.
LEMMA StoreCarries ==
  ASSUME NEW st, Typed(st), NEW w, NEW a, Carries(st.fp, st.file, w, a), NEW ch \in Nat, st.fp.buf # <<>>, st.fp.wp < st.fp.len
  PROVE  LET t == Stored(st, ch) IN Carries(t.fp, t.file, WantOf(st.fp, w, a, <<ch>>), AtOf(st.fp, w, a, <<ch>>))
<1> DEFINE t == Stored(st, ch)
           o == OffsetOf(st.fp, st.file)
           x == Begin(st.fp)
<1>1. OneMore(st, t, ch)
  BY StoreDoes
<1>2. st \in Steps /\ st.file \in Seq(Nat) /\ st.fp.wp \in Nat /\ st.fp.len \in Nat
  BY DEF Typed, Steps, FILE
<1>3. o \in Nat /\ x \in Seq(Nat) /\ Len(x) = st.fp.wp
  BY <1>2, OffsetIsNat, BeginIsText DEF Typed
<1> HIDE DEF t
<1>4. /\ t.fp.wp = st.fp.wp + 1 /\ t.fp.len = st.fp.len /\ t.file = st.file /\ t.fp.pos = st.fp.pos /\ t.fp.flags = st.fp.flags
      /\ Begin(t.fp) = Append(x, ch) /\ t.fp.mode = st.fp.mode
  BY <1>1 DEF OneMore, Goes
<1>5. OffsetOf(t.fp, t.file) = o
  BY <1>4 DEF OffsetOf
<1>6. w \in Seq(Nat) /\ a \in Nat /\ PlaceOf(st.fp, w, a) = o + Len(x) /\ w = Overlay(st.file, o, x)
  BY <1>3, PlaceIsNext DEF Carries
<1>7. <<ch>> \in Seq(Nat) /\ <<ch>> # <<>> /\ Len(<<ch>>) = 1 /\ x \o <<ch>> = Append(x, ch)
  BY <1>3
<1> HIDE DEF o, x
<1>8. WantOf(st.fp, w, a, <<ch>>) = Overlay(st.file, o, Append(x, ch))
  <2>1. WantOf(st.fp, w, a, <<ch>>) = Overlay(Overlay(st.file, o, x), o + Len(x), <<ch>>)
    BY <1>6 DEF WantOf
  <2>2. Overlay(Overlay(st.file, o, x), o + Len(x), <<ch>>) = Overlay(st.file, o, x \o <<ch>>)
    BY ZenonT(30), <1>2, <1>3, <1>7, OverlayTwice
  <2> QED BY <1>7, <2>1, <2>2
<1>9. AtOf(st.fp, w, a, <<ch>>) = o + t.fp.wp
  BY <1>2, <1>3, <1>4, <1>6, <1>7 DEF AtOf
<1>10. Carries(t.fp, t.file, WantOf(st.fp, w, a, <<ch>>), AtOf(st.fp, w, a, <<ch>>))
  BY <1>2, <1>4, <1>5, <1>8, <1>9 DEF Carries
<1> QED BY <1>10 DEF t

\* A stream gets its buffer.
LEMMA BufferedGoes ==
  ASSUME NEW st, Typed(st)
  PROVE  LET t == On(st, Buffered(st.fp)) IN
         /\ Goes(st, t) /\ t.fp.buf # <<>> /\ t.file = st.file /\ t.fail = st.fail
         /\ t.fp.flags = st.fp.flags /\ t.fp.pos = st.fp.pos /\ t.fp.wp = st.fp.wp /\ t.fp.rp = st.fp.rp
         /\ IF st.fp.buf = <<>> THEN t.fp.lp = t.fp.len /\ t.fp.len # 0 ELSE t.fp = st.fp
<1> DEFINE q == Buffered(st.fp)
           t == On(st, q)
<1>1. st \in Steps /\ st.fp \in FILE /\ st.fail \in Nat /\ Sound(st.fp)
  BY DEF Typed, Steps
<1>2. CASE st.fp.buf # <<>>
  <2>1. q = st.fp
    BY <1>2 DEF Buffered
  <2>2. t = st
    BY <1>1, <2>1 DEF On, Steps
  <2> HIDE DEF q, t
  <2> QED BY <1>1, <1>2, <2>2, GoesFrom DEF t, q
<1>3. CASE st.fp.buf = <<>>
  <2> DEFINE b == Blank(BUFSIZ)
  <2>1. NL \in Nat /\ BUFSIZ \in Nat /\ BUFSIZ # 0
    BY BuffersAssumption, TextsAssumption
  <2>2. b \in [1 .. BUFSIZ -> Nat]
    BY <2>1 DEF Blank
  <2>3. b \in Seq(Nat) /\ Len(b) = BUFSIZ
    BY <2>1, <2>2
  <2>4. b # <<>>
    BY <2>1, <2>3
  <2> HIDE DEF b
  <2>5. /\ q.flags = st.fp.flags /\ q.buf = b /\ q.len = BUFSIZ /\ q.rp = 0 /\ q.wp = 0 /\ q.lp = BUFSIZ /\ q.pos = st.fp.pos
        /\ q.mode = st.fp.mode /\ q \in FILE
    BY <1>1, <1>3, <2>1, <2>3 DEF Buffered, _allocbuf, Placed, FILE, b
  <2>6. st.fp.rp = 0 /\ st.fp.wp = 0
    BY <1>1, <1>3 DEF Sound
  <2>7. Sound(q)
    BY <2>3, <2>4, <2>5 DEF Sound
  <2> HIDE DEF q
  <2>8. t \in Steps /\ t.fp = q /\ t.file = st.file /\ t.fail = st.fail
    BY <1>1, <2>5, OnFile
  <2> HIDE DEF t
  <2>9. Goes(st, t)
    BY <1>1, <2>5, <2>7, <2>8 DEF Goes, Typed
  <2> QED BY <1>3, <2>1, <2>4, <2>5, <2>6, <2>8, <2>9 DEF t, q
<1> QED BY <1>2, <1>3

(***************************************************************************)
(* putc(): the three ways of buffering.                                    *)
(***************************************************************************)
\* What the functions that write do to a stream.
Writes(st, t) == Goes(st, t) /\ t.fp.flags \subseteq st.fp.flags \cup {"ERR", "WRITE", "PAST"}

\* Writing is transitive.
LEMMA WritesOn ==
  ASSUME NEW st \in Steps, NEW t, NEW u, Writes(st, t), Writes(t, u)
  PROVE  Writes(st, u)
<1>1. Goes(st, u)
  BY GoesOn DEF Writes
<1> QED BY <1>1 DEF Writes

\* A stream is marked as one that was written to.
LEMMA MarkDoes ==
  ASSUME NEW st, Typed(st), NEW ch
  PROVE  LET r == Wrote(st, ch) IN
         /\ r.ret = ch /\ Writes(st, r.st) /\ r.st.file = st.file /\ r.st.fail = st.fail
         /\ Alike(r.st.fp, st.fp) /\ r.st.fp.rp = st.fp.rp /\ r.st.fp.wp = st.fp.wp /\ r.st.fp.pos = st.fp.pos
         /\ r.st.fp.flags = st.fp.flags \cup {"WRITE"}
<1> DEFINE q == Flagged(st.fp, {"WRITE"})
           t == On(st, q)
<1>1. st \in Steps /\ st.fp \in FILE /\ st.fail \in Nat /\ Sound(st.fp)
  BY DEF Typed, Steps
<1>2. q \in FILE /\ Alike(q, st.fp) /\ q.rp = st.fp.rp /\ q.wp = st.fp.wp /\ q.pos = st.fp.pos /\ q.flags = st.fp.flags \cup {"WRITE"}
  BY <1>1, FlagsAlone DEF Flags, Alike
<1> HIDE DEF q
<1>3. t \in Steps /\ t.fp = q /\ t.file = st.file /\ t.fail = st.fail
  BY <1>1, <1>2, OnFile
<1> HIDE DEF t
<1>4. Sound(q)
  BY <1>1, <1>2 DEF Sound, Alike
<1>5. Writes(st, t)
  BY <1>1, <1>2, <1>3, <1>4 DEF Writes, Goes, Typed, Alike
<1>6. Wrote(st, ch) = Ret(t, ch)
  BY DEF Wrote, t, q
<1> QED BY <1>2, <1>3, <1>5, <1>6 DEF Ret

\* A character stored in the buffer leaves the pointers straight.
LEMMA StoreStraight ==
  ASSUME NEW st, Typed(st), NEW d, Straight(st.fp, d), "READ" \notin st.fp.flags, st.fp.buf # <<>>, NEW ch \in Nat,
         st.fp.wp < st.fp.len \/ ("LBF" \notin st.fp.flags /\ "FBF" \notin st.fp.flags)
  PROVE  Straight(Stored(st, ch).fp, d) /\ "READ" \notin Stored(st, ch).fp.flags
<1> DEFINE t == Stored(st, ch)
<1>1. OneMore(st, t, ch)
  BY StoreDoes
<1> HIDE DEF t
<1>2. /\ t.fp.wp = st.fp.wp + 1 /\ t.fp.rp = st.fp.rp /\ t.fp.len = st.fp.len /\ t.fp.lp = st.fp.lp /\ t.fp.mode = st.fp.mode
      /\ st.fp.wp \in Nat /\ st.fp.len \in Nat
      /\ st.fp.flags \subseteq t.fp.flags /\ t.fp.flags \subseteq st.fp.flags \cup {"PAST"}
      /\ st.fp.wp < st.fp.len => t.fp.flags = st.fp.flags
  BY <1>1 DEF OneMore, Goes, Typed, Sound, FILE
<1>3. /\ "READ" \notin t.fp.flags
      /\ "WRITE" \in t.fp.flags <=> "WRITE" \in st.fp.flags
      /\ "RW" \in t.fp.flags <=> "RW" \in st.fp.flags
      /\ "LBF" \in t.fp.flags <=> "LBF" \in st.fp.flags
      /\ "FBF" \in t.fp.flags <=> "FBF" \in st.fp.flags
  BY <1>2
<1>4. Access(t.fp)
  BY <1>2, <1>3 DEF Access, Straight
<1>5. Unread(st.fp) => Unread(t.fp)
  BY <1>2, <1>3 DEF Unread
<1>6. "LBF" \in t.fp.flags \/ "FBF" \in t.fp.flags => "PAST" \notin t.fp.flags /\ t.fp.wp <= t.fp.len
  BY <1>2, <1>3 DEF Straight
<1>7. Straight(t.fp, d)
  BY <1>2, <1>3, <1>4, <1>5, <1>6 DEF Straight
<1> QED BY <1>3, <1>7 DEF t

\* A mark leaves the pointers straight.
LEMMA MarkStraight ==
  ASSUME NEW fp, NEW q, NEW d, Straight(fp, d), "READ" \notin fp.flags, Alike(q, fp), q.wp = fp.wp,
         q.flags = fp.flags \cup {"WRITE"}, q.rp = fp.rp \/ ("FBF" \in fp.flags /\ q.rp = fp.len)
  PROVE  Straight(q, d) /\ "READ" \notin q.flags
<1>1. /\ "READ" \notin q.flags /\ "WRITE" \in q.flags
      /\ "RW" \in q.flags <=> "RW" \in fp.flags
      /\ "LBF" \in q.flags <=> "LBF" \in fp.flags
      /\ "FBF" \in q.flags <=> "FBF" \in fp.flags
      /\ "PAST" \in q.flags <=> "PAST" \in fp.flags
  OBVIOUS
<1>2. Access(q)
  BY <1>1 DEF Access, Straight, Alike
<1>3. Unread(fp) => Unread(q)
  BY <1>1 DEF Unread, Alike
<1>4. d # "read" => Unread(q)
  BY <1>3 DEF Straight
<1> QED BY <1>1, <1>2, <1>4 DEF Straight, Alike

\* A stream that carries w, straight and marked, agrees with it.
LEMMA CarriesAgrees ==
  ASSUME NEW fp, NEW file, NEW w, NEW a, Carries(fp, file, w, a), Straight(fp, "write"),
         fp.wp # 0 => "WRITE" \in fp.flags /\ ("LBF" \in fp.flags \/ "FBF" \in fp.flags)
  PROVE  Agrees(fp, file, w, a)
BY DEF Agrees, Carries, Straight

\* A mark changes nothing of what a stream carries.
LEMMA MarkCarries ==
  ASSUME NEW fp, NEW q, NEW file, NEW w, NEW a, Carries(fp, file, w, a), Alike(q, fp), q.wp = fp.wp, q.pos = fp.pos,
         q.flags = fp.flags \cup {"WRITE"}
  PROVE  Carries(q, file, w, a)
<1>1. Begin(q) = Begin(fp)
  BY DEF Begin, Cell, Alike
<1>2. OffsetOf(q, file) = OffsetOf(fp, file)
  BY DEF OffsetOf, Alike
<1> QED BY <1>1, <1>2 DEF Carries, Alike

\* What a good putc() does, or one that fails.
PutsAgree(st, r, ch) ==
  \A w, a : Agrees(st.fp, st.file, w, a) =>
              IF r.ret = EOF THEN r.st.fail > st.fail
              ELSE Agrees(r.st.fp, r.st.file, WantOf(st.fp, w, a, <<ch>>), AtOf(st.fp, w, a, <<ch>>))
PutsWell(st, r, ch) ==
  /\ Writes(st, r.st) /\ r.ret \in {ch, EOF} /\ (r.ret = EOF => "ERR" \in r.st.fp.flags)
  /\ Straight(st.fp, "write") => Straight(r.st.fp, "write") /\ ("READ" \notin st.fp.flags => PutsAgree(st, r, ch))

\* WantOf() and AtOf() go by the mode.
LEMMA SamePlace ==
  ASSUME NEW fp, NEW q, q.mode = fp.mode, NEW w, NEW a, NEW x
  PROVE  WantOf(q, w, a, x) = WantOf(fp, w, a, x) /\ AtOf(q, w, a, x) = AtOf(fp, w, a, x)
BY DEF WantOf, AtOf, PlaceOf, Appends

\* A step of putc() that stores and marks.
LEMMA StoreAndMark ==
  ASSUME NEW st, Typed(st), st.fp.buf # <<>>, NEW ch \in Nat, NEW ret
  PROVE  LET r == Wrote(Stored(st, ch), ret) IN
         /\ r.ret = ret /\ Writes(st, r.st) /\ r.st.fail = st.fail
         /\ "READ" \notin st.fp.flags /\ st.fp.wp < st.fp.len =>
              /\ Straight(st.fp, "write") => Straight(r.st.fp, "write")
              /\ \A w, a : Carries(st.fp, st.file, w, a) =>
                             Carries(r.st.fp, r.st.file, WantOf(st.fp, w, a, <<ch>>), AtOf(st.fp, w, a, <<ch>>))
         /\ "WRITE" \in r.st.fp.flags /\ st.fp.flags \subseteq r.st.fp.flags
<1> DEFINE t == Stored(st, ch)
           r == Wrote(t, ret)
<1>1. OneMore(st, t, ch)
  BY StoreDoes
<1>2. st \in Steps /\ Typed(t) /\ Writes(st, t) /\ t.fail = st.fail
  BY <1>1 DEF OneMore, Writes, Goes, Typed
<1>3. "READ" \notin st.fp.flags /\ st.fp.wp < st.fp.len /\ Straight(st.fp, "write") => Straight(t.fp, "write") /\ "READ" \notin t.fp.flags
  BY StoreStraight
<1>4. ASSUME st.fp.wp < st.fp.len, NEW w, NEW a, Carries(st.fp, st.file, w, a)
      PROVE  Carries(t.fp, t.file, WantOf(st.fp, w, a, <<ch>>), AtOf(st.fp, w, a, <<ch>>))
  BY <1>4, StoreCarries
<1> HIDE DEF t
<1>5. /\ r.ret = ret /\ Writes(t, r.st) /\ r.st.file = t.file /\ r.st.fail = t.fail
      /\ Alike(r.st.fp, t.fp) /\ r.st.fp.rp = t.fp.rp /\ r.st.fp.wp = t.fp.wp /\ r.st.fp.pos = t.fp.pos
      /\ r.st.fp.flags = t.fp.flags \cup {"WRITE"}
  BY <1>2, MarkDoes
<1> HIDE DEF r
<1>6. Writes(st, r.st)
  BY <1>2, <1>5, WritesOn
<1>7. ASSUME "READ" \notin st.fp.flags, st.fp.wp < st.fp.len, Straight(st.fp, "write") PROVE Straight(r.st.fp, "write")
  BY <1>3, <1>5, <1>7, MarkStraight
<1>8. ASSUME st.fp.wp < st.fp.len, NEW w, NEW a, Carries(st.fp, st.file, w, a)
      PROVE  Carries(r.st.fp, r.st.file, WantOf(st.fp, w, a, <<ch>>), AtOf(st.fp, w, a, <<ch>>))
  BY <1>4, <1>5, <1>8, MarkCarries
<1>9. "WRITE" \in r.st.fp.flags /\ st.fp.flags \subseteq r.st.fp.flags
  BY <1>5, <1>6 DEF Writes, Goes
<1> QED BY <1>2, <1>5, <1>6, <1>7, <1>8, <1>9 DEF r, t

\* The flush that comes first: of a full buffer of lines, or of any other.
LEMMA FirstFlush ==
  ASSUME NEW st, Typed(st), "READ" \notin st.fp.flags, NEW a \in _flsbuf(st)
  PROVE  /\ Writes(st, a.st) /\ Alike(a.st.fp, st.fp) /\ "READ" \notin a.st.fp.flags /\ a.ret \in {0, EOF}
         /\ a.ret = EOF => "ERR" \in a.st.fp.flags /\ a.st.fail > st.fail
         /\ a.ret # EOF => a.st.fp.wp = 0 /\ a.st.fp.flags = st.fp.flags
         /\ Straight(st.fp, "write") => Straight(a.st.fp, "write")
         /\ a.ret # EOF => \A w, x : Carries(st.fp, st.file, w, x) => Carries(a.st.fp, a.st.file, w, x)
<1>1. /\ Goes(st, a.st) /\ a.ret \in {0, EOF} /\ Alike(a.st.fp, st.fp)
      /\ a.st.fp.flags \subseteq st.fp.flags \cup {"ERR"}
      /\ a.ret = EOF => "ERR" \in a.st.fp.flags /\ a.st.fail > st.fail
      /\ a.ret = 0 => a.st.fp.wp = 0 /\ a.st.fp.flags = st.fp.flags
  BY FlushGoes DEF Has
<1>2. Straight(st.fp, "write") => Straight(a.st.fp, "write")
  BY FlushStraight
<1>3. ASSUME a.ret # EOF, NEW w, NEW x, Carries(st.fp, st.file, w, x) PROVE Carries(a.st.fp, a.st.file, w, x)
  <2>1. a.ret = 0
    BY <1>1, <1>3
  <2> QED BY <1>3, <2>1, FlushCarries
<1> QED BY <1>1, <1>2, <1>3 DEF Writes, EOF

\* What is carried is placed as in the stream before.
LEMMA AsBefore ==
  ASSUME NEW st, NEW t, Goes(st, t), NEW w, NEW a, NEW x
  PROVE  WantOf(t.fp, w, a, x) = WantOf(st.fp, w, a, x) /\ AtOf(t.fp, w, a, x) = AtOf(st.fp, w, a, x)
BY SamePlace DEF Goes

\* putc() of a stream with a buffer of lines.
LEMMA PutLineDoes ==
  ASSUME NEW st, Typed(st), "READ" \notin st.fp.flags, "LBF" \in st.fp.flags, st.fp.buf # <<>>, NEW ch \in Nat,
         NEW r \in PutLine(ch, st)
  PROVE  PutsWell(st, r, ch)
<1>1. PICK a \in (IF st.fp.wp = st.fp.lp THEN _flsbuf(st) ELSE {Ret(st, 0)}) :
        r \in IF a.ret = EOF THEN {a}
              ELSE IF ch # NL THEN {Wrote(Stored(a.st, ch), ch)}
              ELSE {IF b.ret = EOF THEN b ELSE Wrote(b.st, ch) : b \in _flsbuf(Stored(a.st, ch))}
  BY DEF PutLine
<1>2. st \in Steps /\ st.fp.wp \in Nat /\ st.fp.len \in Nat /\ st.fail \in Nat
  BY DEF Typed, Steps, FILE
<1>3. /\ Writes(st, a.st) /\ Alike(a.st.fp, st.fp) /\ "READ" \notin a.st.fp.flags /\ a.ret \in {0, EOF}
      /\ a.ret = EOF => "ERR" \in a.st.fp.flags /\ a.st.fail > st.fail
      /\ a.ret # EOF => a.st.fp.flags = st.fp.flags
      /\ Straight(st.fp, "write") => Straight(a.st.fp, "write")
      /\ a.ret # EOF /\ Straight(st.fp, "write") => a.st.fp.wp < a.st.fp.len
      /\ a.ret # EOF => \A w, x : Carries(st.fp, st.file, w, x) => Carries(a.st.fp, a.st.file, w, x)
  <2>1. CASE st.fp.wp = st.fp.lp
    <3>1. a \in _flsbuf(st)
      BY <1>1, <2>1
    <3>2. a.ret # EOF /\ Straight(st.fp, "write") => a.st.fp.wp < a.st.fp.len
      BY <1>2, <3>1, FirstFlush DEF Straight, Alike
    <3> QED BY <3>1, <3>2, FirstFlush
  <2>2. CASE st.fp.wp # st.fp.lp
    <3>1. a.st = st /\ a.ret = 0
      BY <1>1, <2>2 DEF Ret
    <3>2. Straight(st.fp, "write") => st.fp.wp < st.fp.len
      BY <1>2, <2>2 DEF Straight
    <3> QED BY <3>1, <3>2, GoesFrom DEF Writes, EOF, Alike, Typed, Sound
  <2> QED BY <2>1, <2>2
<1>4. ch \in Nat /\ ch # EOF
  BY DEF EOF
<1>5. CASE a.ret = EOF
  <2>1. r = a
    BY <1>1, <1>5
  <2> QED BY <1>3, <1>5, <2>1 DEF PutsWell, PutsAgree
<1>6. CASE a.ret # EOF
  <2> DEFINE t == a.st
             v == Stored(t, ch)
  <2>1. Typed(t) /\ t.fp.buf # <<>> /\ "LBF" \in t.fp.flags /\ "READ" \notin t.fp.flags /\ Writes(st, t) /\ Goes(st, t)
    BY <1>3, <1>6 DEF Writes, Goes, Alike
  <2>2. CASE ch # NL
    <3>1. r = Wrote(v, ch)
      BY <1>1, <1>6, <2>2
    <3>2. /\ r.ret = ch /\ Writes(t, r.st) /\ r.st.fail = t.fail
          /\ t.fp.wp < t.fp.len =>
               /\ Straight(t.fp, "write") => Straight(r.st.fp, "write")
               /\ \A w, x : Carries(t.fp, t.file, w, x) =>
                              Carries(r.st.fp, r.st.file, WantOf(t.fp, w, x, <<ch>>), AtOf(t.fp, w, x, <<ch>>))
          /\ "WRITE" \in r.st.fp.flags /\ t.fp.flags \subseteq r.st.fp.flags
      <4> DEFINE m == Wrote(Stored(t, ch), ch)
      <4> HIDE DEF t
      <4>1. /\ m.ret = ch /\ Writes(t, m.st) /\ m.st.fail = t.fail
            /\ "READ" \notin t.fp.flags /\ t.fp.wp < t.fp.len =>
                 /\ Straight(t.fp, "write") => Straight(m.st.fp, "write")
                 /\ \A w, x : Carries(t.fp, t.file, w, x) =>
                                Carries(m.st.fp, m.st.file, WantOf(t.fp, w, x, <<ch>>), AtOf(t.fp, w, x, <<ch>>))
            /\ "WRITE" \in m.st.fp.flags /\ t.fp.flags \subseteq m.st.fp.flags
        BY <2>1, StoreAndMark
      <4>2. r = m
        BY <3>1
      <4> HIDE DEF m
      <4> QED BY <2>1, <4>1, <4>2
    <3>3. Writes(st, r.st)
      BY <1>2, <1>3, <3>2, WritesOn
    <3>4. Straight(st.fp, "write") => Straight(r.st.fp, "write")
      BY <1>3, <1>6, <3>2
    <3>5. ASSUME Straight(st.fp, "write"), NEW w, NEW x, Agrees(st.fp, st.file, w, x)
          PROVE  Agrees(r.st.fp, r.st.file, WantOf(st.fp, w, x, <<ch>>), AtOf(st.fp, w, x, <<ch>>))
      <4>1. Carries(st.fp, st.file, w, x)
        BY <3>5 DEF Agrees
      <4>2. Carries(r.st.fp, r.st.file, WantOf(t.fp, w, x, <<ch>>), AtOf(t.fp, w, x, <<ch>>))
        BY <1>3, <1>6, <3>2, <3>5, <4>1
      <4>3. Carries(r.st.fp, r.st.file, WantOf(st.fp, w, x, <<ch>>), AtOf(st.fp, w, x, <<ch>>))
        BY <2>1, <4>2, AsBefore
      <4> QED BY <2>1, <3>2, <3>4, <3>5, <4>3, CarriesAgrees
    <3> QED BY <1>4, <3>2, <3>3, <3>4, <3>5 DEF PutsWell, PutsAgree
  <2>3. CASE ch = NL
    <3>1. PICK b \in _flsbuf(v) : r = IF b.ret = EOF THEN b ELSE Wrote(b.st, ch)
      BY <1>1, <1>6, <2>3
    <3>2. OneMore(t, v, ch)
      BY <2>1, StoreDoes
    <3>3. Typed(v) /\ Writes(t, v) /\ v.fail = t.fail /\ v.fp.flags \subseteq t.fp.flags \cup {"PAST"} /\ "READ" \notin v.fp.flags
          /\ Goes(t, v)
      BY <2>1, <3>2 DEF OneMore, Writes, Goes
    <3>4. Straight(st.fp, "write") => Straight(v.fp, "write")
      BY <1>3, <1>6, <2>1, StoreStraight
    <3>5. ASSUME Straight(st.fp, "write"), NEW w, NEW x, Carries(st.fp, st.file, w, x)
          PROVE  Carries(v.fp, v.file, WantOf(st.fp, w, x, <<ch>>), AtOf(st.fp, w, x, <<ch>>))
      <4>1. Carries(t.fp, t.file, w, x) /\ t.fp.wp < t.fp.len
        BY <1>3, <1>6, <3>5
      <4>2. Carries(v.fp, v.file, WantOf(t.fp, w, x, <<ch>>), AtOf(t.fp, w, x, <<ch>>))
        BY <2>1, <4>1, StoreCarries
      <4> QED BY <2>1, <4>2, AsBefore
    <3> HIDE DEF v
    <3>6. /\ Writes(v, b.st) /\ Alike(b.st.fp, v.fp) /\ "READ" \notin b.st.fp.flags /\ b.ret \in {0, EOF}
          /\ b.ret = EOF => "ERR" \in b.st.fp.flags /\ b.st.fail > v.fail
          /\ b.ret # EOF => b.st.fp.wp = 0 /\ b.st.fp.flags = v.fp.flags
          /\ Straight(v.fp, "write") => Straight(b.st.fp, "write")
          /\ b.ret # EOF => \A w, x : Carries(v.fp, v.file, w, x) => Carries(b.st.fp, b.st.file, w, x)
      BY <3>1, <3>3, FirstFlush
    <3>7. t \in Steps /\ v \in Steps /\ v.fail \in Nat /\ Typed(b.st) /\ b.st.fail \in Nat
      BY <2>1, <3>3, <3>6 DEF Typed, Steps, Writes, Goes
    <3>8. Writes(st, v)
      BY <1>2, <2>1, <3>3, WritesOn
    <3>9. Writes(st, b.st)
      BY <1>2, <3>6, <3>8, WritesOn
    <3>10. CASE b.ret = EOF
      <4>1. r = b
        BY <3>1, <3>10
      <4>2. r.st.fail > st.fail
        BY <1>2, <3>6, <3>7, <3>8, <3>10, <4>1 DEF Writes, Goes
      <4> QED BY <3>4, <3>6, <3>9, <3>10, <4>1, <4>2 DEF PutsWell, PutsAgree
    <3>11. CASE b.ret # EOF
      <4>1. /\ r.ret = ch /\ Writes(b.st, r.st) /\ r.st.file = b.st.file /\ r.st.fail = b.st.fail
            /\ Alike(r.st.fp, b.st.fp) /\ r.st.fp.rp = b.st.fp.rp /\ r.st.fp.wp = b.st.fp.wp /\ r.st.fp.pos = b.st.fp.pos
            /\ r.st.fp.flags = b.st.fp.flags \cup {"WRITE"}
        BY <3>1, <3>7, <3>11, MarkDoes
      <4>2. Writes(st, r.st)
        BY <1>2, <3>9, <4>1, WritesOn
      <4>3. Straight(st.fp, "write") => Straight(r.st.fp, "write")
        BY <3>4, <3>6, <4>1, MarkStraight
      <4>4. ASSUME Straight(st.fp, "write"), NEW w, NEW x, Agrees(st.fp, st.file, w, x)
            PROVE  Agrees(r.st.fp, r.st.file, WantOf(st.fp, w, x, <<ch>>), AtOf(st.fp, w, x, <<ch>>))
        <5>1. Carries(v.fp, v.file, WantOf(st.fp, w, x, <<ch>>), AtOf(st.fp, w, x, <<ch>>))
          BY <3>5, <4>4 DEF Agrees
        <5>2. Carries(b.st.fp, b.st.file, WantOf(st.fp, w, x, <<ch>>), AtOf(st.fp, w, x, <<ch>>))
          BY <3>6, <3>11, <5>1
        <5>3. Carries(r.st.fp, r.st.file, WantOf(st.fp, w, x, <<ch>>), AtOf(st.fp, w, x, <<ch>>))
          BY <4>1, <5>2, MarkCarries
        <5> QED BY <3>6, <3>11, <4>1, <4>3, <4>4, <5>3, CarriesAgrees
      <4> QED BY <1>4, <4>1, <4>2, <4>3, <4>4 DEF PutsWell, PutsAgree
    <3> QED BY <3>10, <3>11
  <2> QED BY <2>2, <2>3
<1> QED BY <1>5, <1>6

\* putc() of a stream without a buffering flag, or unbuffered.
LEMMA PutNowDoes ==
  ASSUME NEW st, Typed(st), "READ" \notin st.fp.flags, "LBF" \notin st.fp.flags, "FBF" \notin st.fp.flags, st.fp.buf # <<>>,
         NEW ch \in Nat, NEW r \in PutNow(ch, st)
  PROVE  PutsWell(st, r, ch)
<1> DEFINE v == Stored(st, ch)
<1>1. PICK b \in _flsbuf(v) : r = IF b.ret = EOF THEN b ELSE Wrote(b.st, ch)
  BY DEF PutNow
<1>2. st \in Steps /\ st.fp.wp \in Nat /\ st.fp.len \in Nat /\ st.fail \in Nat
  BY DEF Typed, Steps, FILE
<1>3. OneMore(st, v, ch)
  BY StoreDoes
<1>4. Typed(v) /\ Writes(st, v) /\ v.fail = st.fail /\ v.fp.flags \subseteq st.fp.flags \cup {"PAST"} /\ "READ" \notin v.fp.flags
  BY <1>3 DEF OneMore, Writes, Goes
<1>5. Straight(st.fp, "write") => Straight(v.fp, "write")
  BY StoreStraight
<1>6. ASSUME Straight(st.fp, "write"), NEW w, NEW x, Agrees(st.fp, st.file, w, x)
      PROVE  Carries(v.fp, v.file, WantOf(st.fp, w, x, <<ch>>), AtOf(st.fp, w, x, <<ch>>))
  <2>1. Carries(st.fp, st.file, w, x) /\ st.fp.wp = 0
    BY <1>6 DEF Agrees
  <2>2. st.fp.wp < st.fp.len
    BY <1>2, <1>6, <2>1 DEF Straight
  <2> QED BY <2>1, <2>2, StoreCarries
<1> HIDE DEF v
<1>7. /\ Writes(v, b.st) /\ Alike(b.st.fp, v.fp) /\ "READ" \notin b.st.fp.flags /\ b.ret \in {0, EOF}
      /\ b.ret = EOF => "ERR" \in b.st.fp.flags /\ b.st.fail > v.fail
      /\ b.ret # EOF => b.st.fp.wp = 0 /\ b.st.fp.flags = v.fp.flags
      /\ Straight(v.fp, "write") => Straight(b.st.fp, "write")
      /\ b.ret # EOF => \A w, x : Carries(v.fp, v.file, w, x) => Carries(b.st.fp, b.st.file, w, x)
  BY <1>1, <1>4, FirstFlush
<1>8. v \in Steps /\ v.fail \in Nat /\ Typed(b.st) /\ b.st.fail \in Nat
  BY <1>4, <1>7 DEF Typed, Steps, Writes, Goes
<1>9. Writes(st, b.st)
  BY <1>2, <1>4, <1>7, WritesOn
<1>10. CASE b.ret = EOF
  <2>1. r = b
    BY <1>1, <1>10
  <2>2. r.st.fail > st.fail
    BY <1>4, <1>7, <1>10, <2>1
  <2> QED BY <1>5, <1>7, <1>9, <1>10, <2>1, <2>2 DEF PutsWell, PutsAgree
<1>11. CASE b.ret # EOF
  <2>0. ch # EOF
    BY DEF EOF
  <2>1. /\ r.ret = ch /\ Writes(b.st, r.st) /\ r.st.file = b.st.file /\ r.st.fail = b.st.fail
        /\ Alike(r.st.fp, b.st.fp) /\ r.st.fp.rp = b.st.fp.rp /\ r.st.fp.wp = b.st.fp.wp /\ r.st.fp.pos = b.st.fp.pos
        /\ r.st.fp.flags = b.st.fp.flags \cup {"WRITE"}
    BY <1>1, <1>8, <1>11, MarkDoes
  <2>2. Writes(st, r.st)
    BY <1>2, <1>9, <2>1, WritesOn
  <2>3. Straight(st.fp, "write") => Straight(r.st.fp, "write")
    BY <1>5, <1>7, <2>1, MarkStraight
  <2>4. ASSUME Straight(st.fp, "write"), NEW w, NEW x, Agrees(st.fp, st.file, w, x)
        PROVE  Agrees(r.st.fp, r.st.file, WantOf(st.fp, w, x, <<ch>>), AtOf(st.fp, w, x, <<ch>>))
    <3>1. Carries(v.fp, v.file, WantOf(st.fp, w, x, <<ch>>), AtOf(st.fp, w, x, <<ch>>))
      BY <1>6, <2>4
    <3>2. Carries(b.st.fp, b.st.file, WantOf(st.fp, w, x, <<ch>>), AtOf(st.fp, w, x, <<ch>>))
      BY <1>7, <1>11, <3>1
    <3>3. Carries(r.st.fp, r.st.file, WantOf(st.fp, w, x, <<ch>>), AtOf(st.fp, w, x, <<ch>>))
      BY <2>1, <3>2, MarkCarries
    <3> QED BY <1>7, <1>11, <2>1, <2>3, <2>4, <3>3, CarriesAgrees
  <2> QED BY <2>0, <2>1, <2>2, <2>3, <2>4 DEF PutsWell, PutsAgree
<1> QED BY <1>10, <1>11

\* putc() of a stream with a buffer of characters.
LEMMA PutFullDoes ==
  ASSUME NEW st, Typed(st), "READ" \notin st.fp.flags, "FBF" \in st.fp.flags, st.fp.buf # <<>>, NEW ch \in Nat,
         NEW r \in PutFull(ch, st)
  PROVE  PutsWell(st, r, ch)
<1>1. PICK a \in _flsbuf(st) :
        r = IF a.ret = EOF THEN a
            ELSE Wrote(On(Stored(a.st, ch), [Stored(a.st, ch).fp EXCEPT !.rp = Stored(a.st, ch).fp.len]), ch)
  BY DEF PutFull
<1>2. st \in Steps /\ st.fp.wp \in Nat /\ st.fp.len \in Nat /\ st.fail \in Nat
  BY DEF Typed, Steps, FILE
<1>3. /\ Writes(st, a.st) /\ Alike(a.st.fp, st.fp) /\ "READ" \notin a.st.fp.flags /\ a.ret \in {0, EOF}
      /\ a.ret = EOF => "ERR" \in a.st.fp.flags /\ a.st.fail > st.fail
      /\ a.ret # EOF => a.st.fp.wp = 0 /\ a.st.fp.flags = st.fp.flags
      /\ Straight(st.fp, "write") => Straight(a.st.fp, "write")
      /\ a.ret # EOF => \A w, x : Carries(st.fp, st.file, w, x) => Carries(a.st.fp, a.st.file, w, x)
  BY FirstFlush
<1>4. ch # EOF
  BY DEF EOF
<1>5. CASE a.ret = EOF
  <2>1. r = a
    BY <1>1, <1>5
  <2> QED BY <1>3, <1>5, <2>1 DEF PutsWell, PutsAgree
<1>6. CASE a.ret # EOF
  <2> DEFINE t == a.st
             v == Stored(t, ch)
             u == On(v, [v.fp EXCEPT !.rp = v.fp.len])
  <2>1. /\ Typed(t) /\ t.fp.buf # <<>> /\ "FBF" \in t.fp.flags /\ "READ" \notin t.fp.flags /\ Writes(st, t) /\ Goes(st, t)
        /\ t.fp.len = st.fp.len /\ t.fp.wp = 0
    BY <1>3, <1>6 DEF Writes, Goes, Alike
  <2>2. OneMore(t, v, ch)
    BY <2>1, StoreDoes
  <2>3. Typed(v) /\ Writes(t, v) /\ v.fp.flags \subseteq t.fp.flags \cup {"PAST"} /\ "READ" \notin v.fp.flags /\ v.fp.buf # <<>>
        /\ v.fp.len = st.fp.len /\ "FBF" \in v.fp.flags
    BY <2>1, <2>2 DEF OneMore, Writes, Goes
  <2>4. Straight(st.fp, "write") => t.fp.wp < t.fp.len
    BY <1>2, <1>3, <1>6, <2>1 DEF Straight
  <2>5. Straight(st.fp, "write") => Straight(v.fp, "write")
    BY <1>3, <2>1, <2>4, StoreStraight
  <2>6. ASSUME Straight(st.fp, "write"), NEW w, NEW x, Carries(st.fp, st.file, w, x)
        PROVE  Carries(v.fp, v.file, WantOf(st.fp, w, x, <<ch>>), AtOf(st.fp, w, x, <<ch>>))
    <3>1. Carries(t.fp, t.file, w, x)
      BY <1>3, <1>6, <2>6
    <3>2. Carries(v.fp, v.file, WantOf(t.fp, w, x, <<ch>>), AtOf(t.fp, w, x, <<ch>>))
      BY <2>1, <2>4, <2>6, <3>1, StoreCarries
    <3> QED BY <2>1, <3>2, AsBefore
  <2> HIDE DEF v
  <2>7. /\ Writes(v, u) /\ Alike(u.fp, v.fp) /\ u.fp.rp = v.fp.len /\ u.fp.wp = v.fp.wp /\ u.fp.pos = v.fp.pos /\ u.fp.flags = v.fp.flags
        /\ u.file = v.file /\ u.fail = v.fail /\ Typed(u)
    <3> DEFINE q == [v.fp EXCEPT !.rp = v.fp.len]
    <3>1. v \in Steps /\ v.fp \in FILE /\ v.fp.len \in Nat /\ v.fail \in Nat
      BY <2>3 DEF Typed, Steps, FILE
    <3>2. q \in FILE /\ q.rp = v.fp.len /\ Alike(q, v.fp) /\ q.wp = v.fp.wp /\ q.flags = v.fp.flags /\ q.pos = v.fp.pos
      BY <3>1, PointersAlone
    <3> HIDE DEF q
    <3>3. u \in Steps /\ u.fp = q /\ u.file = v.file /\ u.fail = v.fail
      BY <3>1, <3>2, OnFile DEF q
    <3>4. Sound(q)
      BY <2>3, <3>2 DEF Sound, Alike, Typed
    <3> QED BY <3>1, <3>2, <3>3, <3>4 DEF Writes, Goes, Typed, Alike
  <2>8. r = Wrote(u, ch)
    BY <1>1, <1>6 DEF v
  <2> HIDE DEF u
  <2>9. /\ r.ret = ch /\ Writes(u, r.st) /\ r.st.file = u.file /\ r.st.fail = u.fail
        /\ Alike(r.st.fp, u.fp) /\ r.st.fp.rp = u.fp.rp /\ r.st.fp.wp = u.fp.wp /\ r.st.fp.pos = u.fp.pos
        /\ r.st.fp.flags = u.fp.flags \cup {"WRITE"}
    BY <2>7, <2>8, MarkDoes
  <2>10. Writes(st, r.st)
    <3>1. t \in Steps /\ v \in Steps /\ u \in Steps
      BY <2>1, <2>3, <2>7 DEF Typed
    <3>2. Writes(st, v)
      BY <1>2, <2>1, <2>3, WritesOn
    <3>3. Writes(st, u)
      BY <1>2, <2>7, <3>2, WritesOn
    <3> QED BY <1>2, <2>9, <3>3, WritesOn
  <2>11. Alike(r.st.fp, v.fp)
    BY <2>7, <2>9 DEF Alike
  <2>12. Straight(st.fp, "write") => Straight(r.st.fp, "write") /\ "READ" \notin r.st.fp.flags
    BY <2>3, <2>5, <2>7, <2>9, <2>11, MarkStraight
  <2>13. ASSUME Straight(st.fp, "write"), NEW w, NEW x, Agrees(st.fp, st.file, w, x)
         PROVE  Agrees(r.st.fp, r.st.file, WantOf(st.fp, w, x, <<ch>>), AtOf(st.fp, w, x, <<ch>>))
    <3>1. Carries(st.fp, st.file, w, x)
      BY <2>13 DEF Agrees
    <3>2. Carries(v.fp, v.file, WantOf(st.fp, w, x, <<ch>>), AtOf(st.fp, w, x, <<ch>>))
      BY <2>6, <2>13, <3>1
    <3>3. Carries(r.st.fp, r.st.file, WantOf(st.fp, w, x, <<ch>>), AtOf(st.fp, w, x, <<ch>>))
      BY <2>7, <2>9, <2>11, <3>2, MarkCarries
    <3> QED BY <2>3, <2>7, <2>9, <2>12, <2>13, <3>3, CarriesAgrees
  <2> QED BY <1>4, <2>9, <2>10, <2>12, <2>13 DEF PutsWell, PutsAgree
<1> QED BY <1>5, <1>6

\* A buffer of its own changes nothing of what a stream is.
LEMMA BufferedAgrees ==
  ASSUME NEW st, Typed(st)
  PROVE  LET t == On(st, Buffered(st.fp)) IN
         /\ \A d : Straight(st.fp, d) => Straight(t.fp, d)
         /\ \A w, a : Agrees(st.fp, st.file, w, a) => Agrees(t.fp, t.file, w, a)
<1> DEFINE t == On(st, Buffered(st.fp))
<1>1. /\ Goes(st, t) /\ t.fp.buf # <<>> /\ t.file = st.file /\ t.fail = st.fail
      /\ t.fp.flags = st.fp.flags /\ t.fp.pos = st.fp.pos /\ t.fp.wp = st.fp.wp /\ t.fp.rp = st.fp.rp
      /\ IF st.fp.buf = <<>> THEN t.fp.lp = t.fp.len /\ t.fp.len # 0 ELSE t.fp = st.fp
  BY BufferedGoes
<1> HIDE DEF t
<1>2. CASE st.fp.buf # <<>>
  <2>1. t.fp = st.fp /\ t.file = st.file
    BY <1>1, <1>2
  <2>2. \A d : Straight(st.fp, d) => Straight(t.fp, d)
    BY <2>1
  <2>3. \A w, a : Agrees(st.fp, st.file, w, a) => Agrees(t.fp, t.file, w, a)
    BY <2>1
  <2> QED BY <2>2, <2>3 DEF t
<1>3. CASE st.fp.buf = <<>>
  <2>1. st.fp.rp = 0 /\ st.fp.wp = 0 /\ t.fp.mode = st.fp.mode /\ t.fp.len \in Nat
    BY <1>1, <1>3 DEF Typed, Sound, Goes, FILE
  <2>2. Access(st.fp) => Access(t.fp)
    BY <1>1, <2>1 DEF Access
  <2>3. ASSUME NEW d, Straight(st.fp, d) PROVE Straight(t.fp, d)
    BY <1>1, <2>1, <2>2, <2>3 DEF Straight, Unread
  <2>4. Begin(t.fp) = <<>> /\ Begin(st.fp) = <<>>
    BY <1>1, <2>1 DEF Begin
  <2>5. OffsetOf(t.fp, t.file) = OffsetOf(st.fp, st.file)
    BY <1>1, <2>1 DEF OffsetOf
  <2>6. ASSUME NEW w, NEW a, Agrees(st.fp, st.file, w, a) PROVE Agrees(t.fp, t.file, w, a)
    <3>1. CASE "READ" \in st.fp.flags
      <4>1. Ahead(st.fp, st.file, w, a)
        BY <2>6, <3>1 DEF Agrees
      <4>2. \A i \in 1 .. t.fp.len : ~(t.fp.rp < i /\ i <= t.fp.wp)
        BY <1>1, <2>1
      <4>3. /\ \A i \in 1 .. t.fp.len : t.fp.rp < i /\ i <= t.fp.wp => t.fp.buf[i] = t.file[t.fp.pos - t.fp.wp + i]
            /\ ~(t.fp.rp < t.fp.wp)
        BY <1>1, <2>1, <4>2
      <4>4. /\ "ERR" \notin t.fp.flags /\ "PAST" \notin t.fp.flags /\ "READ" \in t.fp.flags
            /\ w = t.file /\ a \in Nat /\ a = t.fp.pos - (t.fp.wp - t.fp.rp)
            /\ "EOF" \in t.fp.flags => t.fp.pos >= Len(t.file)
        BY <1>1, <4>1 DEF Ahead
      <4>5. Ahead(t.fp, t.file, w, a)
        BY <4>3, <4>4 DEF Ahead
      <4> QED BY <1>1, <3>1, <4>5 DEF Agrees
    <3>2. CASE "READ" \notin st.fp.flags
      <4>1. Carries(st.fp, st.file, w, a)
        BY <2>6, <3>2 DEF Agrees
      <4>2. Carries(t.fp, t.file, w, a)
        BY <1>1, <2>1, <2>4, <2>5, <4>1 DEF Carries
      <4>3. Unread(t.fp) /\ t.fp.wp = 0 /\ "READ" \notin t.fp.flags
        BY <1>1, <2>1, <3>2 DEF Unread
      <4> QED BY <4>2, <4>3 DEF Agrees
    <3> QED BY <3>1, <3>2
  <2> QED BY <2>3, <2>6 DEF t
<1> QED BY <1>2, <1>3

\* An error is set: the stream is as it was but for that.
LEMMA ErrDoes ==
  ASSUME NEW st, Typed(st), NEW F, F \in {{"ERR"}, {"EOF"}}
  PROVE  LET t == On(st, Flagged(st.fp, F)) IN
         /\ Goes(st, t) /\ Alike(t.fp, st.fp) /\ t.fp.flags = st.fp.flags \cup F /\ t.file = st.file /\ t.fail = st.fail
         /\ t.fp.wp = st.fp.wp /\ t.fp.rp = st.fp.rp /\ t.fp.pos = st.fp.pos
         /\ \A d : Straight(st.fp, d) => Straight(t.fp, d)
<1> DEFINE q == Flagged(st.fp, F)
           t == On(st, q)
<1>1. st \in Steps /\ st.fp \in FILE /\ st.fail \in Nat /\ Sound(st.fp)
  BY DEF Typed, Steps
<1>2. q \in FILE /\ Alike(q, st.fp) /\ q.rp = st.fp.rp /\ q.wp = st.fp.wp /\ q.pos = st.fp.pos /\ q.flags = st.fp.flags \cup F
  <2>1. F \in SUBSET Flags
    BY DEF Flags
  <2> QED BY <1>1, <2>1, FlagsAlone DEF Alike
<1> HIDE DEF q
<1>3. t \in Steps /\ t.fp = q /\ t.file = st.file /\ t.fail = st.fail
  BY <1>1, <1>2, OnFile
<1> HIDE DEF t
<1>4. Sound(q)
  BY <1>1, <1>2 DEF Sound, Alike
<1>5. Goes(st, t)
  BY <1>1, <1>2, <1>3, <1>4 DEF Goes, Typed, Alike
<1>6. \A f \in {"READ", "WRITE", "RW", "LBF", "FBF", "PAST"} : f \in q.flags <=> f \in st.fp.flags
  BY <1>2
<1>7. Access(st.fp) => Access(q)
  BY <1>2, <1>6 DEF Access, Alike
<1>8. Unread(st.fp) => Unread(q)
  BY <1>2, <1>6 DEF Unread, Alike
<1>9. ASSUME NEW d, Straight(st.fp, d) PROVE Straight(q, d)
  BY <1>2, <1>6, <1>7, <1>8, <1>9 DEF Straight, Alike
<1> QED BY <1>2, <1>3, <1>5, <1>9 DEF t, q

\* What does well after a stream got its buffer does well.
LEMMA WellBefore ==
  ASSUME NEW st, Typed(st), NEW ch \in Nat, NEW r, PutsWell(On(st, Buffered(st.fp)), r, ch)
  PROVE  PutsWell(st, r, ch)
<1> DEFINE t == On(st, Buffered(st.fp))
<1>1. Goes(st, t) /\ t.fp.flags = st.fp.flags /\ t.fail = st.fail
  BY BufferedGoes
<1>2. /\ Straight(st.fp, "write") => Straight(t.fp, "write")
      /\ \A w, a : Agrees(st.fp, st.file, w, a) => Agrees(t.fp, t.file, w, a)
  BY BufferedAgrees
<1>3. st \in Steps
  BY DEF Typed
<1> HIDE DEF t
<1>4. PutsWell(t, r, ch)
  BY DEF t
<1>5. Writes(st, t)
  BY <1>1 DEF Writes
<1>6. Writes(st, r.st)
  BY <1>3, <1>4, <1>5, WritesOn DEF PutsWell
<1>7. ASSUME Straight(st.fp, "write"), "READ" \notin st.fp.flags PROVE PutsAgree(st, r, ch)
  <2>1. PutsAgree(t, r, ch)
    BY <1>1, <1>2, <1>4, <1>7 DEF PutsWell
  <2>2. SUFFICES ASSUME NEW w, NEW a, Agrees(st.fp, st.file, w, a)
                 PROVE  IF r.ret = EOF THEN r.st.fail > st.fail
                        ELSE Agrees(r.st.fp, r.st.file, WantOf(st.fp, w, a, <<ch>>), AtOf(st.fp, w, a, <<ch>>))
    BY DEF PutsAgree
  <2>3. Agrees(t.fp, t.file, w, a)
    BY <1>2, <2>2
  <2>4. IF r.ret = EOF THEN r.st.fail > t.fail
        ELSE Agrees(r.st.fp, r.st.file, WantOf(t.fp, w, a, <<ch>>), AtOf(t.fp, w, a, <<ch>>))
    BY <2>1, <2>3 DEF PutsAgree
  <2> QED BY <1>1, <2>4, AsBefore
<1>8. Straight(st.fp, "write") => Straight(r.st.fp, "write")
  BY <1>2, <1>4 DEF PutsWell
<1> QED BY <1>4, <1>6, <1>7, <1>8 DEF PutsWell

\* __putc(): what the macro leaves to it.
LEMMA UnderPutDoes ==
  ASSUME NEW st, Typed(st), NEW ch \in Nat, NEW r \in __putc(ch, st)
  PROVE  PutsWell(st, r, ch)
<1> DEFINE t == On(st, Buffered(st.fp))
<1>1. /\ Goes(st, t) /\ t.fp.buf # <<>> /\ t.fp.flags = st.fp.flags
  BY BufferedGoes
<1>2. Typed(t)
  BY <1>1 DEF Goes
<1>3. CASE Has(st.fp, "ERR")
  <2>1. r = Ret(st, EOF)
    BY <1>3 DEF __putc
  <2>2. \A w, a : ~Agrees(st.fp, st.file, w, a)
    BY <1>3 DEF Has, Agrees, Carries, Ahead
  <2> QED BY <1>3, <2>1, <2>2, GoesFrom DEF PutsWell, PutsAgree, Writes, Ret, Has
<1>4. CASE ~Has(st.fp, "ERR") /\ Has(st.fp, "READ")
  <2> DEFINE u == On(st, Flagged(st.fp, {"ERR"}))
  <2>1. r = Ret(u, EOF)
    BY <1>4 DEF __putc
  <2>2. Goes(st, u) /\ u.fp.flags = st.fp.flags \cup {"ERR"} /\ (Straight(st.fp, "write") => Straight(u.fp, "write"))
    BY ErrDoes
  <2> HIDE DEF u
  <2>3. r.st = u /\ r.ret = EOF
    BY <2>1 DEF Ret
  <2> QED BY <1>4, <2>2, <2>3 DEF PutsWell, Writes, Has
<1>5. CASE ~Has(st.fp, "ERR") /\ ~Has(st.fp, "READ")
  <2>1. r \in IF Has(t.fp, "LBF") THEN PutLine(ch, t) ELSE IF Has(t.fp, "FBF") THEN PutFull(ch, t) ELSE PutNow(ch, t)
    BY <1>5 DEF __putc
  <2> HIDE DEF t
  <2>2. "READ" \notin t.fp.flags
    BY <1>1, <1>5 DEF Has
  <2>3. PutsWell(t, r, ch)
    BY <1>1, <1>2, <2>1, <2>2, PutLineDoes, PutFullDoes, PutNowDoes DEF Has
  <2> QED BY <2>3, WellBefore DEF t
<1> QED BY <1>3, <1>4, <1>5

\* putc() does well: it writes the character, or says that it could not.
LEMMA PutDoes ==
  ASSUME NEW st, Typed(st), NEW ch \in Nat, NEW r \in putc(ch, st)
  PROVE  PutsWell(st, r, ch)
<1>1. CASE st.fp.wp >= st.fp.rp
  BY <1>1, UnderPutDoes DEF putc
<1>2. CASE ~(st.fp.wp >= st.fp.rp)
  <2> DEFINE t == Stored(st, ch)
  <2>1. r.st = t /\ r.ret = ch /\ ch # EOF
    BY <1>2 DEF putc, Ret, EOF
  <2>2. st.fp.rp # 0 /\ st.fp.wp < st.fp.rp /\ st.fp.buf # <<>> /\ st.fp.wp \in Nat
    BY <1>2 DEF Typed, Sound, FILE
  <2>3. OneMore(st, t, ch)
    BY <2>2, StoreDoes
  <2>4. Writes(st, t)
    BY <2>3 DEF OneMore, Writes
  <2>5. ASSUME Straight(st.fp, "write")
        PROVE  "READ" \notin st.fp.flags /\ st.fp.wp < st.fp.len /\ "FBF" \in st.fp.flags /\ "WRITE" \in st.fp.flags
    <3>1. "READ" \notin st.fp.flags
      BY <2>2, <2>5 DEF Straight, Typed, Sound, FILE
    <3> QED BY <2>2, <2>5, <3>1 DEF Straight, Unread
  <2>6. Straight(st.fp, "write") => Straight(t.fp, "write")
    BY <2>2, <2>5, StoreStraight
  <2>7. ASSUME Straight(st.fp, "write"), NEW w, NEW a, Agrees(st.fp, st.file, w, a)
        PROVE  Agrees(t.fp, t.file, WantOf(st.fp, w, a, <<ch>>), AtOf(st.fp, w, a, <<ch>>))
    <3>1. Carries(st.fp, st.file, w, a)
      BY <2>5, <2>7 DEF Agrees
    <3>2. Carries(t.fp, t.file, WantOf(st.fp, w, a, <<ch>>), AtOf(st.fp, w, a, <<ch>>))
      BY <2>2, <2>5, <2>7, <3>1, StoreCarries
    <3>3. "WRITE" \in t.fp.flags /\ "FBF" \in t.fp.flags
      BY <2>4, <2>5, <2>7 DEF Writes, Goes
    <3> QED BY <2>6, <2>7, <3>2, <3>3, CarriesAgrees
  <2> HIDE DEF t
  <2> QED BY <2>1, <2>4, <2>6, <2>7 DEF PutsWell, PutsAgree
<1> QED BY <1>1, <1>2

(***************************************************************************)
(* Writing many characters.                                                *)
(***************************************************************************)
\* C writes x and then y where it writes both.
LEMMA WantTwice ==
  ASSUME NEW fp, NEW w \in Seq(Nat), NEW a \in Nat, NEW x \in Seq(Nat), NEW y \in Seq(Nat)
  PROVE  /\ WantOf(fp, WantOf(fp, w, a, x), AtOf(fp, w, a, x), y) = WantOf(fp, w, a, x \o y)
         /\ AtOf(fp, WantOf(fp, w, a, x), AtOf(fp, w, a, x), y) = AtOf(fp, w, a, x \o y)
<1> DEFINE o == PlaceOf(fp, w, a)
           v == WantOf(fp, w, a, x)
           b == AtOf(fp, w, a, x)
<1>1. o \in Nat /\ Len(w) \in Nat /\ Len(x) \in Nat /\ Len(y) \in Nat
  BY DEF PlaceOf
<1>2. CASE x = <<>>
  <2>1. v = w /\ b = a
    BY <1>2 DEF WantOf, AtOf, Overlay
  <2>2. x \o y = y
    BY <1>2
  <2> QED BY <2>1, <2>2
<1>3. CASE y = <<>>
  <2>1. x \o y = x
    BY <1>3
  <2>2. WantOf(fp, v, b, y) = v /\ AtOf(fp, v, b, y) = b
    BY <1>3 DEF WantOf, AtOf, Overlay
  <2> QED BY <2>1, <2>2
<1>4. CASE x # <<>> /\ y # <<>>
  <2>1. Len(x) # 0 /\ x \o y # <<>> /\ Len(x \o y) = Len(x) + Len(y)
    BY <1>4
  <2>2. v = Overlay(w, o, x) /\ b = o + Len(x)
    BY <1>4 DEF WantOf, AtOf
  <2>3. Len(v) = IF o + Len(x) > Len(w) THEN o + Len(x) ELSE Len(w)
    BY <1>1, <1>4, <2>2, OverlayIsFile
  <2>4. Appends(fp) => o = Len(w)
    BY DEF PlaceOf
  <2> HIDE DEF o, v, b
  <2>5. PlaceOf(fp, v, b) = o + Len(x)
    BY <1>1, <2>1, <2>2, <2>3, <2>4 DEF PlaceOf
  <2>6. WantOf(fp, v, b, y) = Overlay(w, o, x \o y)
    BY <1>1, <2>2, <2>5, OverlayTwice DEF WantOf
  <2>7. AtOf(fp, v, b, y) = o + Len(x \o y)
    BY <1>1, <1>4, <2>1, <2>5 DEF AtOf
  <2>8. WantOf(fp, w, a, x \o y) = Overlay(w, o, x \o y) /\ AtOf(fp, w, a, x \o y) = o + Len(x \o y)
    BY <2>1 DEF WantOf, AtOf, o
  <2> QED BY <2>6, <2>7, <2>8 DEF v, b
<1> QED BY <1>2, <1>3, <1>4

\* What b has done for st once x was written, but for what an error kept back.
AllAgree(st, b, x) ==
  \A w, a : Agrees(st.fp, st.file, w, a) =>
              IF b.ret = Len(x) THEN Agrees(b.st.fp, b.st.file, WantOf(st.fp, w, a, x), AtOf(st.fp, w, a, x))
              ELSE "ERR" \in b.st.fp.flags /\ b.st.fail > st.fail
AllPut(st, b, x) ==
  /\ Writes(st, b.st) /\ b.ret \in 0 .. Len(x)
  /\ Straight(st.fp, "write") => Straight(b.st.fp, "write") /\ ("READ" \notin st.fp.flags => AllAgree(st, b, x))

\* A stream that agrees and was not read from has a place.
LEMMA AgreesIsFile ==
  ASSUME NEW st, Typed(st), "READ" \notin st.fp.flags, NEW w, NEW a, Agrees(st.fp, st.file, w, a)
  PROVE  w \in Seq(Nat) /\ a \in Nat /\ "ERR" \notin st.fp.flags
<1>1. Carries(st.fp, st.file, w, a)
  BY DEF Agrees
<1> QED BY <1>1, PlaceIsNext DEF Carries

\* The count of the loop, and one more character.
Count(b, a) == Ret(a.st, IF a.ret = EOF \/ Has(a.st.fp, "ERR") THEN b.ret ELSE b.ret + 1)

\* One more character after some that were put.
LEMMA PutMore ==
  ASSUME NEW st, Typed(st), NEW x \in Seq(Nat), NEW b, AllPut(st, b, x), NEW ch \in Nat, NEW a \in putc(ch, b.st)
  PROVE  AllPut(st, Count(b, a), Append(x, ch))
<1> DEFINE r == Count(b, a)
           y == Append(x, ch)
<1>1. st \in Steps /\ st.fail \in Nat /\ Typed(b.st) /\ b.st.fail \in Nat /\ st.fail <= b.st.fail
  BY DEF Typed, Steps, AllPut, Writes, Goes
<1>2. PutsWell(b.st, a, ch)
  BY <1>1, PutDoes
<1>3. Writes(st, a.st) /\ b.st.fail <= a.st.fail /\ a.st.fail \in Nat
  BY <1>1, <1>2, WritesOn DEF PutsWell, AllPut, Writes, Goes, Typed, Steps
<1>4. y \in Seq(Nat) /\ Len(y) = Len(x) + 1 /\ y = x \o <<ch>> /\ <<ch>> \in Seq(Nat) /\ Len(x) \in Nat
  OBVIOUS
<1>5. r.st = a.st /\ r.ret = IF a.ret = EOF \/ "ERR" \in a.st.fp.flags THEN b.ret ELSE b.ret + 1
  BY DEF Count, Ret, Has
<1> HIDE DEF r, y
<1>6. r.ret \in 0 .. Len(y)
  BY <1>4, <1>5 DEF AllPut
<1>7. Straight(st.fp, "write") => Straight(r.st.fp, "write")
  BY <1>2, <1>5 DEF PutsWell, AllPut
<1>8. ASSUME Straight(st.fp, "write"), "READ" \notin st.fp.flags, NEW w, NEW m, Agrees(st.fp, st.file, w, m)
      PROVE  IF r.ret = Len(y) THEN Agrees(r.st.fp, r.st.file, WantOf(st.fp, w, m, y), AtOf(st.fp, w, m, y))
             ELSE "ERR" \in r.st.fp.flags /\ r.st.fail > st.fail
  <2>1. AllAgree(st, b, x) /\ Straight(b.st.fp, "write") /\ "READ" \notin b.st.fp.flags
    BY <1>8 DEF AllPut, Writes
  <2>2. CASE b.ret = Len(x)
    <3> DEFINE v == WantOf(st.fp, w, m, x)
               q == AtOf(st.fp, w, m, x)
    <3>1. Agrees(b.st.fp, b.st.file, v, q)
      BY <1>8, <2>1, <2>2 DEF AllAgree
    <3>2. IF a.ret = EOF THEN a.st.fail > b.st.fail
          ELSE Agrees(a.st.fp, a.st.file, WantOf(b.st.fp, v, q, <<ch>>), AtOf(b.st.fp, v, q, <<ch>>))
      BY <1>2, <2>1, <3>1 DEF PutsWell, PutsAgree
    <3>3. CASE a.ret = EOF
      <4>1. "ERR" \in a.st.fp.flags /\ a.st.fail > b.st.fail
        BY <1>2, <3>2, <3>3 DEF PutsWell
      <4>2. r.ret # Len(y)
        BY <1>4, <1>5, <2>2, <4>1
      <4> QED BY <1>1, <1>3, <1>5, <4>1, <4>2
    <3>4. CASE a.ret # EOF
      <4>1. w \in Seq(Nat) /\ m \in Nat
        BY <1>8, AgreesIsFile
      <4>2. WantOf(b.st.fp, v, q, <<ch>>) = WantOf(st.fp, v, q, <<ch>>) /\ AtOf(b.st.fp, v, q, <<ch>>) = AtOf(st.fp, v, q, <<ch>>)
        <5>1. Goes(st, b.st)
          BY DEF AllPut, Writes
        <5> HIDE DEF v, q
        <5> QED BY <5>1, AsBefore
      <4>3. WantOf(st.fp, v, q, <<ch>>) = WantOf(st.fp, w, m, y) /\ AtOf(st.fp, v, q, <<ch>>) = AtOf(st.fp, w, m, y)
        <5>1. /\ WantOf(st.fp, v, q, <<ch>>) = WantOf(st.fp, w, m, x \o <<ch>>)
              /\ AtOf(st.fp, v, q, <<ch>>) = AtOf(st.fp, w, m, x \o <<ch>>)
          <6> DEFINE z == <<ch>>
          <6>1. z \in Seq(Nat)
            BY <1>4
          <6> HIDE DEF z
          <6>2. /\ WantOf(st.fp, v, q, z) = WantOf(st.fp, w, m, x \o z)
                /\ AtOf(st.fp, v, q, z) = AtOf(st.fp, w, m, x \o z)
            BY <4>1, <6>1, WantTwice
          <6> HIDE DEF v, q
          <6> QED BY <6>2 DEF z
        <5> HIDE DEF v, q
        <5> QED BY <1>4, <5>1
      <4> HIDE DEF v, q
      <4>4. Agrees(a.st.fp, a.st.file, WantOf(st.fp, w, m, y), AtOf(st.fp, w, m, y))
        BY <3>2, <3>4, <4>2, <4>3
      <4>5. "READ" \notin a.st.fp.flags
        BY <1>2, <2>1 DEF PutsWell, Writes
      <4>6. "ERR" \notin a.st.fp.flags
        BY <4>4, <4>5 DEF Agrees, Carries
      <4>7. r.ret = Len(y)
        BY <1>4, <1>5, <2>2, <3>4, <4>6
      <4> QED BY <1>5, <4>4, <4>7
    <3> QED BY <3>3, <3>4
  <2>3. CASE b.ret # Len(x)
    <3>1. "ERR" \in b.st.fp.flags /\ b.st.fail > st.fail
      BY <1>8, <2>1, <2>3 DEF AllAgree
    <3>2. "ERR" \in a.st.fp.flags
      BY <1>2, <3>1 DEF PutsWell, Writes, Goes
    <3>3. r.ret = b.ret /\ b.ret \in 0 .. Len(x)
      BY <1>5, <3>2 DEF AllPut
    <3>4. r.ret # Len(y)
      BY <1>4, <3>3
    <3> QED BY <1>1, <1>3, <1>5, <3>1, <3>2, <3>4
  <2> QED BY <2>2, <2>3
<1>9. Writes(st, r.st)
  BY <1>3, <1>5
<1>10. Straight(st.fp, "write") /\ "READ" \notin st.fp.flags => AllAgree(st, r, y)
  BY <1>8 DEF AllAgree
<1> QED BY <1>6, <1>7, <1>9, <1>10 DEF AllPut, r, y

\* What a loop may end in.
Rets == {r \in [st : Steps, ret : Int] : Sound(r.st.fp)}
After(ch, X) == UNION {{Count(b, a) : a \in putc(ch, b.st)} : b \in X}

\* The loop goes through states of streams.
LEMMA AfterIsRets == ASSUME NEW ch \in Nat, NEW X \in SUBSET Rets PROVE After(ch, X) \in SUBSET Rets
<1>1. SUFFICES ASSUME NEW b \in X, NEW a \in putc(ch, b.st) PROVE Count(b, a) \in Rets
  BY DEF After
<1>2. Typed(b.st) /\ b.ret \in Int
  BY DEF Rets, Typed
<1>3. PutsWell(b.st, a, ch)
  BY <1>2, PutDoes
<1>4. Typed(a.st)
  BY <1>3 DEF PutsWell, Writes, Goes
<1> QED BY <1>2, <1>4 DEF Count, Rets, Typed, Ret

\* PutAll() is a run over the text.
PutRun(g, text, st) ==
  /\ g \in [0 .. Len(text) -> SUBSET Rets] /\ g[0] = {Ret(st, 0)}
  /\ \A k \in 1 .. Len(text) : g[k] = After(text[k], g[k - 1])
  /\ PutAll(text, st) = g[Len(text)]

\* PutAll() is the run over the characters of the text.
LEMMA PutAllRuns ==
  ASSUME NEW st, Typed(st), NEW text \in Seq(Nat)
  PROVE  \E g : PutRun(g, text, st)
<1> DEFINE n == Len(text)
           step == [k \in 1 .. n |-> [X \in SUBSET Rets |-> After(text[k], X)]]
           put[k \in 0 .. Len(text)] ==
             IF k = 0 THEN {Ret(st, 0)}
             ELSE UNION {{Ret(a.st, IF a.ret = EOF \/ Has(a.st.fp, "ERR") THEN b.ret ELSE b.ret + 1) : a \in putc(text[k], b.st)} :
                         b \in put[k - 1]}
<1>1. n \in Nat /\ \A k \in 1 .. n : text[k] \in Nat
  OBVIOUS
<1>2. {Ret(st, 0)} \in SUBSET Rets
  BY DEF Rets, Ret, Typed
<1>3. step \in [1 .. n -> [SUBSET Rets -> SUBSET Rets]]
  BY <1>1, AfterIsRets
<1>4. PICK g : Run(g, n, SUBSET Rets, {Ret(st, 0)}, step)
  <2> HIDE DEF step
  <2> QED BY <1>1, <1>2, <1>3, RunExists
<1>5. g \in [0 .. n -> SUBSET Rets] /\ g[0] = {Ret(st, 0)}
  BY <1>4 DEF Run
<1>6. ASSUME NEW k \in 1 .. n PROVE g[k] = After(text[k], g[k - 1])
  <2>1. k - 1 \in 0 .. n
    BY <1>1
  <2>2. g[k - 1] \in SUBSET Rets
    BY <1>5, <2>1
  <2>3. g[k] = step[k][g[k - 1]]
    BY <1>4 DEF Run
  <2> QED BY <2>2, <2>3
<1>7. g = [k \in 0 .. n |-> IF k = 0 THEN {Ret(st, 0)} ELSE After(text[k], g[k - 1])]
  <2>1. \A k \in 0 .. n : g[k] = IF k = 0 THEN {Ret(st, 0)} ELSE After(text[k], g[k - 1])
    <3>1. \A k \in 0 .. n : k # 0 => k \in 1 .. n
      BY <1>1
    <3> QED BY <1>5, <1>6, <3>1
  <2> QED BY <1>5, <2>1
<1>8. put = [k \in 0 .. n |-> IF k = 0 THEN {Ret(st, 0)} ELSE After(text[k], put[k - 1])]
  <2>1. g = [k \in 0 .. Len(text) |->
               IF k = 0 THEN {Ret(st, 0)}
               ELSE UNION {{Ret(a.st, IF a.ret = EOF \/ Has(a.st.fp, "ERR") THEN b.ret ELSE b.ret + 1) : a \in putc(text[k], b.st)} :
                           b \in g[k - 1]}]
    BY <1>7 DEF After, Count
  <2>2. put = [k \in 0 .. Len(text) |->
               IF k = 0 THEN {Ret(st, 0)}
               ELSE UNION {{Ret(a.st, IF a.ret = EOF \/ Has(a.st.fp, "ERR") THEN b.ret ELSE b.ret + 1) : a \in putc(text[k], b.st)} :
                           b \in put[k - 1]}]
    BY <2>1
  <2> HIDE DEF put
  <2> QED BY <2>2 DEF After, Count
<1>9. PutAll(text, st) = put[n]
  BY DEF PutAll
<1> HIDE DEF put
<1>10. GoAlike(put, g, n)
  <2>1. put[0] = g[0]
    BY <1>1, <1>5, <1>8
  <2>2. ASSUME NEW k \in 1 .. n, put[k - 1] = g[k - 1] PROVE put[k] = g[k]
    <3>1. k \in 0 .. n /\ k # 0
      BY <1>1
    <3>2. put[k] = After(text[k], put[k - 1])
      BY <1>8, <3>1
    <3> QED BY <1>6, <2>2, <3>2
  <2> QED BY <2>1, <2>2 DEF GoAlike
<1>11. put[n] = g[n]
  <2>1. n \in 0 .. n
    BY <1>1
  <2> QED BY <1>1, <1>10, <2>1, SameRun
<1> QED BY <1>5, <1>6, <1>9, <1>11 DEF PutRun

\* PutAll() writes all, or says how many it could not.
LEMMA PutAllDoes ==
  ASSUME NEW st, Typed(st), NEW text \in Seq(Nat), NEW r \in PutAll(text, st)
  PROVE  AllPut(st, r, text)
<1> DEFINE n == Len(text)
           x(k) == SubSeq(text, 1, k)
<1>1. PICK g : PutRun(g, text, st)
  BY PutAllRuns
<1>2. n \in Nat /\ \A k \in 1 .. n : text[k] \in Nat
  OBVIOUS
<1> DEFINE I == {k \in Nat : k <= n => \A b \in g[k] : AllPut(st, b, x(k))}
<1>3. 0 \in I
  <2>1. ASSUME NEW b \in g[0] PROVE AllPut(st, b, <<>>)
    <3>1. b.st = st /\ b.ret = 0
      BY <1>1 DEF PutRun, Ret
    <3>2. Writes(st, st)
      BY GoesFrom DEF Writes
    <3>3. \A w, a : WantOf(st.fp, w, a, <<>>) = w /\ AtOf(st.fp, w, a, <<>>) = a
      BY DEF WantOf, AtOf, Overlay
    <3> QED BY <3>1, <3>2, <3>3 DEF AllPut, AllAgree
  <2>2. x(0) = <<>>
    OBVIOUS
  <2> QED BY <2>1, <2>2
<1>4. ASSUME NEW k \in Nat, k \in I PROVE k + 1 \in I
  <2>1. SUFFICES ASSUME k + 1 <= n, NEW r2 \in g[k + 1] PROVE AllPut(st, r2, x(k + 1))
    OBVIOUS
  <2>2. k + 1 \in 1 .. n /\ k <= n /\ (k + 1) - 1 = k
    BY <1>2, <2>1
  <2>3. g[k + 1] = After(text[k + 1], g[k])
    BY <1>1, <2>2 DEF PutRun
  <2>4. PICK b \in g[k] : r2 \in {Count(b, a) : a \in putc(text[k + 1], b.st)}
    BY <2>1, <2>3 DEF After
  <2>5. PICK a \in putc(text[k + 1], b.st) : r2 = Count(b, a)
    BY <2>4
  <2>6. AllPut(st, b, x(k))
    BY <1>4, <2>2, <2>4
  <2>7. x(k) \in Seq(Nat) /\ x(k + 1) = Append(x(k), text[k + 1]) /\ text[k + 1] \in Nat
    <3>1. k \in 0 .. n /\ x(k) \in Seq(Nat)
      BY <2>2
    <3>2. x(k + 1) = Append(x(k), text[k + 1])
      BY <1>2, <2>2
    <3> QED BY <1>2, <2>2, <3>1, <3>2
  <2> HIDE DEF x
  <2> QED BY <2>5, <2>6, <2>7, PutMore
<1> HIDE DEF I
<1>5. Nat \subseteq I
  BY <1>3, <1>4, AllNumbers
<1>6. \A b \in g[n] : AllPut(st, b, x(n))
  BY <1>2, <1>5 DEF I
<1>7. x(n) = text /\ r \in g[n]
  BY <1>1, <1>2 DEF PutRun
<1> QED BY <1>6, <1>7

\* What b has done for st once the k members in x were written.
MembersPut(st, b, x, k) ==
  /\ Writes(st, b.st) /\ b.ret \in 0 .. k
  /\ Straight(st.fp, "write") => Straight(b.st.fp, "write") /\ ("READ" \notin st.fp.flags =>
       \A w, a : Agrees(st.fp, st.file, w, a) =>
                   IF b.ret = k THEN Agrees(b.st.fp, b.st.file, WantOf(st.fp, w, a, x), AtOf(st.fp, w, a, x))
                   ELSE "ERR" \in b.st.fp.flags /\ b.st.fail > st.fail)
\* The loop over members: y is the next of them.
Member(b, y, k) == IF b.ret < k - 1 THEN {b}
                   ELSE {Ret(a.st, IF Has(a.st.fp, "ERR") THEN b.ret ELSE k) : a \in PutAll(y, b.st)}

\* One more member after some that were put.
LEMMA MemberMore ==
  ASSUME NEW st, Typed(st), NEW x \in Seq(Nat), NEW k \in Nat, k # 0, NEW b, MembersPut(st, b, x, k - 1), NEW y \in Seq(Nat),
         NEW r \in Member(b, y, k)
  PROVE  MembersPut(st, r, x \o y, k)
<1>1. st \in Steps /\ st.fail \in Nat /\ Typed(b.st) /\ b.st.fail \in Nat /\ st.fail <= b.st.fail /\ b.ret \in 0 .. k - 1
  BY DEF Typed, Steps, MembersPut, Writes, Goes
<1>2. CASE b.ret < k - 1
  <2>1. r = b
    BY <1>2 DEF Member
  <2>2. b.ret # k - 1 /\ b.ret # k /\ b.ret \in 0 .. k
    BY <1>1, <1>2
  <2> QED BY <2>1, <2>2 DEF MembersPut
<1>3. CASE ~(b.ret < k - 1)
  <2>1. PICK a \in PutAll(y, b.st) : r = Ret(a.st, IF Has(a.st.fp, "ERR") THEN b.ret ELSE k)
    BY <1>3 DEF Member
  <2>2. AllPut(b.st, a, y)
    BY <1>1, PutAllDoes
  <2>3. Writes(st, a.st) /\ b.st.fail <= a.st.fail /\ a.st.fail \in Nat
    BY <1>1, <2>2, WritesOn DEF MembersPut, AllPut, Writes, Goes, Typed, Steps
  <2>4. r.st = a.st /\ r.ret = (IF "ERR" \in a.st.fp.flags THEN b.ret ELSE k) /\ b.ret = k - 1 /\ k - 1 # k /\ k - 1 \in 0 .. k /\ k \in 0 .. k
    <3>1. b.ret = k - 1 /\ k - 1 # k /\ k - 1 \in 0 .. k /\ k \in 0 .. k
      BY <1>1, <1>3
    <3>2. r.st = a.st /\ r.ret = (IF "ERR" \in a.st.fp.flags THEN b.ret ELSE k)
      BY <2>1 DEF Ret, Has
    <3> QED BY <3>1, <3>2
  <2>5. Straight(st.fp, "write") => Straight(r.st.fp, "write")
    BY <2>2, <2>4 DEF MembersPut, AllPut
  <2>6. ASSUME Straight(st.fp, "write"), "READ" \notin st.fp.flags, NEW w, NEW m, Agrees(st.fp, st.file, w, m)
        PROVE  IF r.ret = k THEN Agrees(r.st.fp, r.st.file, WantOf(st.fp, w, m, x \o y), AtOf(st.fp, w, m, x \o y))
               ELSE "ERR" \in r.st.fp.flags /\ r.st.fail > st.fail
    <3> DEFINE v == WantOf(st.fp, w, m, x)
               q == AtOf(st.fp, w, m, x)
    <3>1. Agrees(b.st.fp, b.st.file, v, q)
      BY <2>4, <2>6 DEF MembersPut
    <3>2. Straight(b.st.fp, "write") /\ "READ" \notin b.st.fp.flags
      BY <2>6 DEF MembersPut, Writes
    <3>3. w \in Seq(Nat) /\ m \in Nat
      BY <2>6, AgreesIsFile
    <3>4. WantOf(b.st.fp, v, q, y) = WantOf(st.fp, v, q, y) /\ AtOf(b.st.fp, v, q, y) = AtOf(st.fp, v, q, y)
      <4>1. Goes(st, b.st)
        BY DEF MembersPut, Writes
      <4> HIDE DEF v, q
      <4> QED BY SMTT(30), <4>1, AsBefore
    <3>5. WantOf(st.fp, v, q, y) = WantOf(st.fp, w, m, x \o y) /\ AtOf(st.fp, v, q, y) = AtOf(st.fp, w, m, x \o y)
      BY <3>3, WantTwice
    <3> HIDE DEF v, q
    <3>6. IF a.ret = Len(y) THEN Agrees(a.st.fp, a.st.file, WantOf(st.fp, w, m, x \o y), AtOf(st.fp, w, m, x \o y))
          ELSE "ERR" \in a.st.fp.flags /\ a.st.fail > b.st.fail
      BY <2>2, <3>1, <3>2, <3>4, <3>5 DEF AllPut, AllAgree
    <3>7. CASE a.ret = Len(y)
      <4>1. Agrees(a.st.fp, a.st.file, WantOf(st.fp, w, m, x \o y), AtOf(st.fp, w, m, x \o y))
        BY <3>6, <3>7
      <4>2. "READ" \notin a.st.fp.flags
        BY <2>2, <3>2 DEF AllPut, Writes
      <4>3. "ERR" \notin a.st.fp.flags
        BY <4>1, <4>2 DEF Agrees, Carries
      <4> QED BY <2>4, <4>1, <4>3
    <3>8. CASE a.ret # Len(y)
      <4>1. "ERR" \in a.st.fp.flags /\ a.st.fail > b.st.fail
        BY <3>6, <3>8
      <4> QED BY <1>1, <2>3, <2>4, <4>1
    <3> QED BY <3>7, <3>8
  <2>7. Writes(st, r.st) /\ r.ret \in 0 .. k
    BY <2>3, <2>4
  <2> QED BY <2>5, <2>6, <2>7 DEF MembersPut
<1> QED BY <1>2, <1>3

\* fwrite() of members of two characters is a run over them.
MembersAfter(text, k, X) == UNION {Member(b, SubSeq(text, (k - 1) * 2 + 1, k * 2), k) : b \in X}
MembersRun(g, text, st) ==
  /\ g \in [0 .. Len(text) \div 2 -> SUBSET Rets] /\ g[0] = {Ret(st, 0)}
  /\ \A k \in 1 .. Len(text) \div 2 : g[k] = MembersAfter(text, k, g[k - 1])
  /\ fwrite(text, 2, st) = g[Len(text) \div 2]

\* fwrite() is the run over the members of the text.
LEMMA FwriteRuns ==
  ASSUME NEW st, Typed(st), NEW text \in Seq(Nat)
  PROVE  \E g : MembersRun(g, text, st)
<1> DEFINE n == Len(text) \div 2
           step == [k \in 1 .. n |-> [X \in SUBSET Rets |-> MembersAfter(text, k, X)]]
           put[k \in 0 .. Len(text) \div 2] ==
             IF k = 0 THEN {Ret(st, 0)}
             ELSE UNION {IF b.ret < k - 1 THEN {b}
                         ELSE {Ret(a.st, IF Has(a.st.fp, "ERR") THEN b.ret ELSE k) :
                                 a \in PutAll(SubSeq(text, (k - 1) * 2 + 1, k * 2), b.st)} :
                         b \in put[k - 1]}
<1>1. n \in Nat /\ \A k \in 1 .. n : SubSeq(text, (k - 1) * 2 + 1, k * 2) \in Seq(Nat) /\ k \in Nat
  <2>1. Len(text) \in Nat
    OBVIOUS
  <2>2. n \in Nat /\ n * 2 <= Len(text)
    BY <2>1
  <2>3. ASSUME NEW k \in 1 .. n PROVE SubSeq(text, (k - 1) * 2 + 1, k * 2) \in Seq(Nat) /\ k \in Nat
    <3>1. k * 2 <= Len(text) /\ (k - 1) * 2 + 1 >= 1 /\ k \in Nat /\ (k - 1) * 2 + 1 \in Nat /\ k * 2 \in Nat
      <4> HIDE DEF n
      <4> QED BY <2>1, <2>2
    <3> DEFINE i == (k - 1) * 2 + 1
               j == k * 2
    <3>2. i \in Nat /\ i >= 1 /\ j \in Nat /\ j <= Len(text)
      BY <3>1
    <3> HIDE DEF i, j
    <3>3. SubSeq(text, i, j) \in Seq(Nat)
      BY <3>2
    <3> QED BY <3>1, <3>3 DEF i, j
  <2> QED BY <2>2, <2>3
<1>2. {Ret(st, 0)} \in SUBSET Rets
  BY DEF Rets, Ret, Typed
<1>3. ASSUME NEW k \in 1 .. n, NEW X \in SUBSET Rets PROVE MembersAfter(text, k, X) \in SUBSET Rets
  <2> DEFINE y == SubSeq(text, (k - 1) * 2 + 1, k * 2)
  <2>1. y \in Seq(Nat) /\ k \in Nat
    BY <1>1
  <2> HIDE DEF n
  <2>2. SUFFICES ASSUME NEW b \in X, NEW r \in Member(b, y, k) PROVE r \in Rets
    BY DEF MembersAfter
  <2> HIDE DEF y
  <2>3. Typed(b.st) /\ b.ret \in Int /\ b \in Rets
    BY DEF Rets, Typed
  <2>4. CASE b.ret < k - 1
    BY <2>3, <2>4 DEF Member
  <2>5. CASE ~(b.ret < k - 1)
    <3>1. PICK a \in PutAll(y, b.st) : r = Ret(a.st, IF Has(a.st.fp, "ERR") THEN b.ret ELSE k)
      BY <2>5 DEF Member
    <3>2. AllPut(b.st, a, y)
      BY <2>1, <2>3, PutAllDoes
    <3>3. Typed(a.st)
      BY <3>2 DEF AllPut, Writes, Goes
    <3> QED BY <2>1, <2>3, <3>1, <3>3 DEF Rets, Typed, Ret
  <2> QED BY <2>4, <2>5
<1>4. step \in [1 .. n -> [SUBSET Rets -> SUBSET Rets]]
  BY <1>3
<1>5. PICK g : Run(g, n, SUBSET Rets, {Ret(st, 0)}, step)
  <2> HIDE DEF step, n
  <2> QED BY <1>1, <1>2, <1>4, RunExists
<1>6. g \in [0 .. n -> SUBSET Rets] /\ g[0] = {Ret(st, 0)}
  BY <1>5 DEF Run
<1>7. ASSUME NEW k \in 1 .. n PROVE g[k] = MembersAfter(text, k, g[k - 1])
  <2>0. k - 1 \in 0 .. n
    <3> HIDE DEF n
    <3> QED BY <1>1
  <2>1. g[k - 1] \in SUBSET Rets
    BY <1>6, <2>0
  <2>2. g[k] = step[k][g[k - 1]]
    BY <1>5 DEF Run
  <2> QED BY <2>1, <2>2
<1>8. g = [k \in 0 .. n |-> IF k = 0 THEN {Ret(st, 0)} ELSE MembersAfter(text, k, g[k - 1])]
  <2>1. \A k \in 0 .. n : g[k] = IF k = 0 THEN {Ret(st, 0)} ELSE MembersAfter(text, k, g[k - 1])
    <3>1. \A k \in 0 .. n : k # 0 => k \in 1 .. n
      <4> HIDE DEF n
      <4> QED BY <1>1
    <3> QED BY <1>6, <1>7, <3>1
  <2> QED BY <1>6, <2>1
<1>9. put = [k \in 0 .. n |-> IF k = 0 THEN {Ret(st, 0)} ELSE MembersAfter(text, k, put[k - 1])]
  <2>1. g = [k \in 0 .. Len(text) \div 2 |->
               IF k = 0 THEN {Ret(st, 0)}
               ELSE UNION {IF b.ret < k - 1 THEN {b}
                           ELSE {Ret(a.st, IF Has(a.st.fp, "ERR") THEN b.ret ELSE k) :
                                   a \in PutAll(SubSeq(text, (k - 1) * 2 + 1, k * 2), b.st)} :
                           b \in g[k - 1]}]
    BY <1>8 DEF MembersAfter, Member
  <2>2. put = [k \in 0 .. Len(text) \div 2 |->
               IF k = 0 THEN {Ret(st, 0)}
               ELSE UNION {IF b.ret < k - 1 THEN {b}
                           ELSE {Ret(a.st, IF Has(a.st.fp, "ERR") THEN b.ret ELSE k) :
                                   a \in PutAll(SubSeq(text, (k - 1) * 2 + 1, k * 2), b.st)} :
                           b \in put[k - 1]}]
    BY <2>1
  <2> HIDE DEF put
  <2> QED BY <2>2 DEF MembersAfter, Member
<1>10. fwrite(text, 2, st) = put[n]
  BY DEF fwrite
<1> HIDE DEF put
<1>11. GoAlike(put, g, n)
  <2> HIDE DEF n
  <2>1. put[0] = g[0]
    BY <1>1, <1>6, <1>9
  <2>2. ASSUME NEW k \in 1 .. n, put[k - 1] = g[k - 1] PROVE put[k] = g[k]
    <3>1. k \in 0 .. n /\ k # 0
      BY <1>1
    <3>2. put[k] = MembersAfter(text, k, put[k - 1])
      BY <1>9, <3>1
    <3> QED BY <1>7, <2>2, <3>2
  <2> QED BY <2>1, <2>2 DEF GoAlike
<1>12. put[n] = g[n]
  <2> HIDE DEF n
  <2>1. n \in 0 .. n
    BY <1>1
  <2> QED BY <1>1, <1>11, <2>1, SameRun
<1> QED BY <1>6, <1>7, <1>10, <1>12 DEF MembersRun

\* fwrite() writes all its members, or says how many it could not.
LEMMA FwriteDoes ==
  ASSUME NEW st, Typed(st), NEW text \in Seq(Nat), Len(text) % 2 = 0, NEW r \in fwrite(text, 2, st)
  PROVE  MembersPut(st, r, text, Len(text) \div 2)
<1> DEFINE n == Len(text) \div 2
           x(k) == SubSeq(text, 1, k * 2)
           y(k) == SubSeq(text, (k - 1) * 2 + 1, k * 2)
<1>1. PICK g : MembersRun(g, text, st)
  BY FwriteRuns
<1>2. n \in Nat /\ n * 2 = Len(text)
  <2>1. Len(text) \in Nat
    OBVIOUS
  <2> QED BY <2>1
<1> DEFINE I == {k \in Nat : k <= n => \A b \in g[k] : MembersPut(st, b, x(k), k)}
<1>3. 0 \in I
  <2>1. ASSUME NEW b \in g[0] PROVE MembersPut(st, b, <<>>, 0)
    <3>1. b.st = st /\ b.ret = 0
      BY <1>1 DEF MembersRun, Ret
    <3>2. Writes(st, st)
      BY GoesFrom DEF Writes
    <3>3. \A w, a : WantOf(st.fp, w, a, <<>>) = w /\ AtOf(st.fp, w, a, <<>>) = a
      BY DEF WantOf, AtOf, Overlay
    <3> QED BY <3>1, <3>2, <3>3 DEF MembersPut
  <2>2. x(0) = <<>>
    OBVIOUS
  <2> QED BY <2>1, <2>2
<1>4. ASSUME NEW k \in Nat, k \in I PROVE k + 1 \in I
  <2>1. SUFFICES ASSUME k + 1 <= n, NEW r2 \in g[k + 1] PROVE MembersPut(st, r2, x(k + 1), k + 1)
    OBVIOUS
  <2>2. k + 1 \in 1 .. n /\ k <= n /\ (k + 1) - 1 = k
    <3> HIDE DEF n
    <3> QED BY <1>2, <2>1
  <2>3. g[k + 1] = MembersAfter(text, k + 1, g[k])
    BY <1>1, <2>2 DEF MembersRun
  <2>4. PICK b \in g[k] : r2 \in Member(b, y(k + 1), k + 1)
    BY <2>1, <2>3 DEF MembersAfter
  <2>5. MembersPut(st, b, x(k), k)
    BY <1>4, <2>2, <2>4
  <2>6. x(k) \in Seq(Nat) /\ y(k + 1) \in Seq(Nat) /\ x(k + 1) = x(k) \o y(k + 1)
    <3> DEFINE i == k * 2
    <3>1. i \in Nat /\ i + 2 <= Len(text) /\ (k + 1) * 2 = i + 2 /\ ((k + 1) - 1) * 2 + 1 = i + 1 /\ Len(text) \in Nat
      <4> HIDE DEF n
      <4> QED BY <1>2, <2>1
    <3> HIDE DEF i
    <3>2. SubSeq(text, 1, i) \in Seq(Nat) /\ SubSeq(text, i + 1, i + 2) \in Seq(Nat)
      <4>1. (\A j \in 1 .. i : j \in 1 .. Len(text)) /\ (\A j \in i + 1 .. i + 2 : j \in 1 .. Len(text))
        BY <3>1
      <4>2. (\A j \in 1 .. i : text[j] \in Nat) /\ (\A j \in i + 1 .. i + 2 : text[j] \in Nat)
        BY SMTT(30), <4>1
      <4>3. 1 \in Int /\ i \in Int /\ i + 1 \in Int /\ i + 2 \in Int
        BY <3>1
      <4>4. SubSeq(text, 1, i) \in Seq(Nat)
        BY <4>2, <4>3, SubSeqProperties
      <4>5. SubSeq(text, i + 1, i + 2) \in Seq(Nat)
        BY <4>2, <4>3, SubSeqProperties
      <4> QED BY <4>4, <4>5
    <3>3. SubSeq(text, 1, i + 2) = SubSeq(text, 1, i) \o SubSeq(text, i + 1, i + 2)
      <4>1. 1 \in 1 .. Len(text) + 1 /\ i \in 1 - 1 .. Len(text) /\ i + 2 \in i .. Len(text)
        BY <3>1
      <4> QED BY <4>1, ConcatAdjacentSubSeq
    <3> QED BY <3>1, <3>2, <3>3 DEF i
  <2> HIDE DEF x, y
  <2>7. k + 1 \in Nat /\ k + 1 # 0
    OBVIOUS
  <2>8. MembersPut(st, b, x(k), (k + 1) - 1)
    BY <2>2, <2>5
  <2>9. MembersPut(st, r2, x(k) \o y(k + 1), k + 1)
    BY <2>4, <2>6, <2>7, <2>8, MemberMore
  <2> QED BY <2>6, <2>9
<1> HIDE DEF I
<1>5. Nat \subseteq I
  BY <1>3, <1>4, AllNumbers
<1>6. \A b \in g[n] : MembersPut(st, b, x(n), n)
  <2> HIDE DEF n
  <2> QED BY <1>2, <1>5 DEF I
<1>7. x(n) = text
  <2> HIDE DEF n
  <2> QED BY <1>2
<1>8. r \in g[n]
  BY <1>1 DEF MembersRun
<1> QED BY <1>6, <1>7, <1>8

(***************************************************************************)
(* Reading.                                                                *)
(***************************************************************************)
\* A stream that was read from does not wait to write.
Quiet(fp) == "READ" \notin fp.flags => fp.wp = 0
\* Where a read that agrees leaves the stream: with w, which has a character more
\* than a, or at the end of it.
GetAgree(st, r) ==
  \A w, a : Agrees(st.fp, st.file, w, a) /\ Quiet(st.fp) =>
    /\ Quiet(r.st.fp)
    /\ IF r.ret # EOF THEN a + 1 <= Len(w) /\ r.ret = w[a + 1] /\ Agrees(r.st.fp, r.st.file, w, a + 1)
       ELSE \/ "ERR" \in r.st.fp.flags /\ r.st.fail > st.fail
            \/ a >= Len(w) /\ Agrees(r.st.fp, r.st.file, w, a)
\* It may read: the access is open.
Reads(fp) == "READ" \in fp.flags \/ "RW" \in fp.flags
GetsWell(st, r) ==
  /\ Goes(st, r.st) /\ r.ret \in Nat \cup {EOF}
  /\ Straight(st.fp, "read") => Straight(r.st.fp, "read") /\ (Reads(st.fp) => GetAgree(st, r))
\* What waits in neither direction is the file.
LEMMA ReadsFile ==
  ASSUME NEW st, Typed(st), NEW w, NEW a, Agrees(st.fp, st.file, w, a), Quiet(st.fp)
  PROVE  /\ w = st.file /\ a \in Nat /\ w \in Seq(Nat) /\ "ERR" \notin st.fp.flags
         /\ "READ" \notin st.fp.flags => a = st.fp.pos
<1>1. st.fp.pos \in Nat /\ st.file \in Seq(Nat)
  BY DEF Typed, Steps, FILE
<1>2. CASE "READ" \in st.fp.flags
  BY <1>1, <1>2 DEF Agrees, Ahead
<1>3. CASE "READ" \notin st.fp.flags
  <2>1. Carries(st.fp, st.file, w, a) /\ st.fp.wp = 0
    BY <1>3 DEF Agrees, Quiet
  <2>2. Begin(st.fp) = <<>>
    BY <2>1 DEF Begin
  <2> QED BY <1>1, <2>1, <2>2 DEF Carries, Overlay
<1> QED BY <1>2, <1>3

\* The buffer c of m characters with k of the file f, from o on, at its begin.
Taken(f, o, c, m, k) == [i \in 1 .. m |-> IF i <= k THEN f[o + i] ELSE c[i]]

\* A buffer with characters of the file in it is one still.
LEMMA TakenIsSeq ==
  ASSUME NEW f \in Seq(Nat), NEW o \in Nat, NEW c \in Seq(Nat), NEW m \in Nat, Len(c) = m, NEW k \in Nat, k >= 1, k <= m, o + k <= Len(f)
  PROVE  /\ Taken(f, o, c, m, k) \in Seq(Nat) /\ Taken(f, o, c, m, k) # <<>> /\ Len(Taken(f, o, c, m, k)) = m
         /\ (\A i \in 1 .. k : Taken(f, o, c, m, k)[i] = f[o + i]) /\ f[o + 1] \in Nat
<1> DEFINE b == Taken(f, o, c, m, k)
<1>1. \A i \in 1 .. k : o + i \in 1 .. Len(f)
  OBVIOUS
<1>2. \A i \in 1 .. k : f[o + i] \in Nat
  BY <1>1
<1>3. ASSUME NEW i \in 1 .. m PROVE (IF i <= k THEN f[o + i] ELSE c[i]) \in Nat
  <2>1. i <= k => i \in 1 .. k
    OBVIOUS
  <2>2. c[i] \in Nat
    OBVIOUS
  <2> QED BY <1>2, <2>1, <2>2
<1>4. b \in [1 .. m -> Nat]
  BY <1>3 DEF Taken
<1>6. \A i \in 1 .. k : b[i] = f[o + i]
  BY DEF Taken
<1> HIDE DEF b
<1>5. b \in Seq(Nat) /\ Len(b) = m
  BY <1>4
<1>7. b # <<>>
  BY <1>5
<1>8. f[o + 1] \in Nat
  BY <1>2
<1> QED BY <1>5, <1>6, <1>7, <1>8 DEF b

\* The buffer is filled with what the file has.
LEMMA FilledDoes ==
  ASSUME NEW st, Typed(st), st.fp.buf # <<>>, NEW k \in Nat, k >= 1, k <= st.fp.len, st.fp.pos + k <= Len(st.file)
  PROVE  LET t == On(st, Filled(st.fp, st.file, k)) IN
         /\ Goes(st, t) /\ t.file = st.file /\ t.fail = st.fail /\ t.fp.flags = st.fp.flags \cup {"READ"} /\ t.fp.buf # <<>>
         /\ t.fp.len = st.fp.len /\ t.fp.lp = st.fp.lp /\ t.fp.rp = 1 /\ t.fp.wp = k /\ t.fp.pos = st.fp.pos + k
         /\ \A i \in 1 .. k : t.fp.buf[i] = st.file[st.fp.pos + i]
         /\ st.file[st.fp.pos + 1] \in Nat
<1> DEFINE fp == st.fp
           b == [i \in 1 .. fp.len |-> IF i <= k THEN st.file[fp.pos + i] ELSE fp.buf[i]]
           q == Filled(fp, st.file, k)
           t == On(st, q)
<1>1. st \in Steps /\ fp \in FILE /\ st.fail \in Nat /\ fp.len \in Nat /\ fp.pos \in Nat /\ fp.buf \in Seq(Nat) /\ Len(fp.buf) = fp.len
      /\ st.file \in Seq(Nat) /\ Len(st.file) \in Nat
  BY SMTT(30) DEF Typed, Steps, FILE, Sound
<1>2. b \in Seq(Nat) /\ b # <<>> /\ Len(b) = fp.len /\ (\A i \in 1 .. k : b[i] = st.file[fp.pos + i]) /\ st.file[fp.pos + 1] \in Nat
  <2> DEFINE o == fp.pos
             f == st.file
             c == fp.buf
             m == fp.len
  <2>1. o \in Nat /\ f \in Seq(Nat) /\ c \in Seq(Nat) /\ m \in Nat /\ Len(c) = m /\ k <= m /\ o + k <= Len(f)
    BY <1>1
  <2>2. b = Taken(f, o, c, m, k)
    BY DEF Taken
  <2> HIDE DEF o, f, c, m, b
  <2>3. b \in Seq(Nat) /\ b # <<>> /\ Len(b) = m
    BY <2>1, <2>2, TakenIsSeq
  <2>4. \A i \in 1 .. k : b[i] = f[o + i]
    BY <2>1, <2>2 DEF Taken
  <2>5. f[o + 1] \in Nat
    BY <2>1, TakenIsSeq
  <2> QED BY <2>3, <2>4, <2>5 DEF o, f, m
<1> HIDE DEF b
<1>7. /\ q.flags = fp.flags \cup {"READ"} /\ q.buf = b /\ q.len = fp.len /\ q.rp = 1 /\ q.wp = k /\ q.lp = fp.lp
      /\ q.pos = fp.pos + k /\ q.mode = fp.mode
  BY DEF Filled, b
<1>8. q \in FILE
  <2>1. fp.flags \cup {"READ"} \in SUBSET Flags /\ fp.pos + k \in Nat /\ 1 \in Nat /\ fp.lp \in Nat /\ fp.mode \in Kinds
    <3>1. fp.flags \cup {"READ"} \in SUBSET Flags /\ fp.lp \in Nat /\ fp.mode \in Kinds
      BY <1>1 DEF FILE, Flags
    <3>2. fp.pos + k \in Nat
      BY SMTT(30), <1>1
    <3> QED BY <3>1, <3>2
  <2> QED BY <1>1, <1>2, <2>1 DEF Filled, FILE, b
<1> HIDE DEF q
<1>9. t \in Steps /\ t.fp = q /\ t.file = st.file /\ t.fail = st.fail
  BY <1>1, <1>8, OnFile
<1> HIDE DEF t
<1>10. Sound(q)
  BY <1>2, <1>7, <1>8 DEF Sound
<1>11. Goes(st, t)
  BY SMTT(30), <1>1, <1>7, <1>9, <1>10 DEF Goes, Typed
<1> QED BY <1>2, <1>7, <1>9, <1>11 DEF t, q

\* A filled buffer is straight, and reads on from where the stream was.
LEMMA FilledAgrees ==
  ASSUME NEW st, Typed(st), st.fp.buf # <<>>, NEW k \in Nat, k >= 1, k <= st.fp.len, st.fp.pos + k <= Len(st.file),
         Straight(st.fp, "read"), Reads(st.fp)
  PROVE  LET t == On(st, Filled(st.fp, st.file, k)) IN
         /\ Straight(t.fp, "read")
         /\ \A w, a : Agrees(st.fp, st.file, w, a) /\ Quiet(st.fp) /\ "EOF" \notin st.fp.flags /\ st.fp.rp >= st.fp.wp =>
              a + 1 <= Len(w) /\ st.file[st.fp.pos + 1] = w[a + 1] /\ Agrees(t.fp, t.file, w, a + 1)
<1> DEFINE t == On(st, Filled(st.fp, st.file, k))
<1>1. /\ Goes(st, t) /\ t.file = st.file /\ t.fail = st.fail /\ t.fp.flags = st.fp.flags \cup {"READ"} /\ t.fp.buf # <<>>
      /\ t.fp.len = st.fp.len /\ t.fp.lp = st.fp.lp /\ t.fp.rp = 1 /\ t.fp.wp = k /\ t.fp.pos = st.fp.pos + k
      /\ \A i \in 1 .. k : t.fp.buf[i] = st.file[st.fp.pos + i]
  BY FilledDoes
<1>2. st.fp.len \in Nat /\ st.fp.pos \in Nat /\ st.fp.rp \in Nat /\ st.fp.wp \in Nat /\ st.file \in Seq(Nat) /\ Len(st.file) \in Nat
  BY SMTT(30) DEF Typed, Steps, FILE
<1> HIDE DEF t
<1>3. /\ "READ" \in t.fp.flags /\ t.fp.mode = st.fp.mode
      /\ \A f \in {"WRITE", "RW", "LBF", "FBF", "PAST", "ERR", "EOF"} : f \in t.fp.flags <=> f \in st.fp.flags
  BY <1>1 DEF Goes
<1>4. Access(t.fp)
  BY <1>3 DEF Access, Straight, Reads
<1>5. Straight(t.fp, "read")
  BY <1>1, <1>2, <1>3, <1>4 DEF Straight
<1>6. ASSUME NEW w, NEW a, Agrees(st.fp, st.file, w, a), Quiet(st.fp), "EOF" \notin st.fp.flags, st.fp.rp >= st.fp.wp
      PROVE  a + 1 <= Len(w) /\ st.file[st.fp.pos + 1] = w[a + 1] /\ Agrees(t.fp, t.file, w, a + 1)
  <2>1. w = st.file /\ a \in Nat
    BY <1>6, ReadsFile
  <2>2. a = st.fp.pos
    <3>1. CASE "READ" \in st.fp.flags
      <4>1. st.fp.rp <= st.fp.wp /\ a = st.fp.pos - (st.fp.wp - st.fp.rp)
        BY <1>6, <3>1 DEF Straight, Agrees, Ahead
      <4> QED BY SMTT(30), <1>2, <1>6, <4>1
    <3>2. CASE "READ" \notin st.fp.flags
      BY <1>6, <3>2, ReadsFile
    <3> QED BY <3>1, <3>2
  <2>3. "ERR" \notin st.fp.flags /\ "PAST" \notin st.fp.flags
    BY <1>6 DEF Agrees, Ahead, Carries
  <2>4. \A i \in 1 .. t.fp.len : t.fp.rp < i /\ i <= t.fp.wp => t.fp.buf[i] = t.file[t.fp.pos - t.fp.wp + i]
    <3>1. SUFFICES ASSUME NEW i \in 1 .. t.fp.len, i <= k PROVE t.fp.buf[i] = t.file[t.fp.pos - k + i]
      BY <1>1
    <3>2. i \in 1 .. k /\ t.fp.pos - k + i = st.fp.pos + i
      BY <1>1, <1>2, <3>1
    <3> QED BY <1>1, <3>2
  <2>5. a + 1 = t.fp.pos - (t.fp.wp - t.fp.rp) /\ a + 1 \in Nat /\ a + 1 <= Len(w) /\ t.fp.pos <= Len(t.file)
    <3>1. a + 1 = t.fp.pos - (t.fp.wp - t.fp.rp) /\ t.fp.pos <= Len(t.file)
      BY <1>1, <1>2, <2>2
    <3>2. a + 1 \in Nat /\ a + 1 <= Len(w)
      <4> DEFINE o == st.fp.pos
                 l == Len(w)
      <4>1. o + k <= l /\ l \in Nat /\ o \in Nat /\ a = o
        BY <1>2, <2>1, <2>2
      <4> HIDE DEF o, l
      <4>2. a + 1 \in Nat /\ a + 1 <= l
        BY <4>1
      <4> QED BY <4>2 DEF l
    <3> QED BY <3>1, <3>2
  <2>6. Ahead(t.fp, t.file, w, a + 1)
    BY <1>1, <1>3, <1>6, <2>1, <2>3, <2>4, <2>5 DEF Ahead
  <2> QED BY <1>3, <2>1, <2>2, <2>5, <2>6 DEF Agrees
<1> QED BY <1>5, <1>6 DEF t

\* Nothing is left to read, in the buffer or the file.
Spent(st) == st.fp.rp >= st.fp.wp /\ st.fp.pos >= Len(st.file)

\* At the end of the file a stream agrees with it, and still does when it says so.
LEMMA EndAgrees ==
  ASSUME NEW st, Typed(st), Straight(st.fp, "read"), Spent(st), Quiet(st.fp)
  PROVE  LET t == On(st, Flagged(st.fp, {"EOF"})) IN
         \A w, a : Agrees(st.fp, st.file, w, a) => Quiet(t.fp) /\ a >= Len(w) /\ Agrees(t.fp, t.file, w, a)
<1> DEFINE t == On(st, Flagged(st.fp, {"EOF"}))
<1>1. /\ Goes(st, t) /\ Alike(t.fp, st.fp) /\ t.fp.flags = st.fp.flags \cup {"EOF"} /\ t.file = st.file
      /\ t.fp.wp = st.fp.wp /\ t.fp.rp = st.fp.rp /\ t.fp.pos = st.fp.pos
  BY ErrDoes
<1>2. st.fp.len \in Nat /\ st.fp.pos \in Nat /\ st.fp.rp \in Nat /\ st.fp.wp \in Nat /\ st.file \in Seq(Nat) /\ Len(st.file) \in Nat
  BY DEF Typed, Steps, FILE
<1> HIDE DEF t
<1>7. st.fp.rp >= st.fp.wp /\ st.fp.pos >= Len(st.file)
  BY DEF Spent
<1>0. SUFFICES ASSUME NEW w, NEW a, Agrees(st.fp, st.file, w, a)
               PROVE  Quiet(t.fp) /\ a >= Len(w) /\ Agrees(t.fp, t.file, w, a)
  BY DEF t
<1>3. w = st.file /\ a \in Nat /\ ("READ" \notin st.fp.flags => a = st.fp.pos)
  <2>1. w = st.file /\ a \in Nat
    <3>0. Agrees(st.fp, st.file, w, a) /\ Quiet(st.fp) /\ Typed(st)
      BY <1>0
    <3>1. w = st.file
      <4>1. CASE "READ" \in st.fp.flags
        BY <3>0, <4>1 DEF Agrees, Ahead
      <4>2. CASE "READ" \notin st.fp.flags
        <5>1. st.fp.wp = 0 /\ w = Overlay(st.file, OffsetOf(st.fp, st.file), Begin(st.fp))
          BY <3>0, <4>2 DEF Agrees, Carries, Quiet
        <5> QED BY <5>1 DEF Begin, Overlay
      <4> QED BY <4>1, <4>2
    <3>2. a \in Nat
      BY <3>0, ReadsFile
    <3> QED BY <3>1, <3>2
  <2>2. ASSUME "READ" \notin st.fp.flags PROVE a = st.fp.pos
    BY <1>0, <2>2, ReadsFile
  <2> QED BY <2>1, <2>2
<1>4. \A f \in {"READ", "WRITE", "RW", "LBF", "FBF", "PAST", "ERR"} : f \in t.fp.flags <=> f \in st.fp.flags
  BY <1>1
<1>5. CASE "READ" \in st.fp.flags
  <2>1. Ahead(st.fp, st.file, w, a) /\ st.fp.rp <= st.fp.wp
    BY <1>0, <1>5 DEF Agrees, Straight
  <2>2. a = st.fp.pos /\ ~(st.fp.rp < st.fp.wp)
    BY <1>2, <1>7, <2>1 DEF Ahead
  <2>3. \A i \in 1 .. t.fp.len : t.fp.rp < i /\ i <= t.fp.wp => t.fp.buf[i] = t.file[t.fp.pos - t.fp.wp + i]
    BY <1>1, <2>1 DEF Ahead, Alike
  <2>4. Ahead(t.fp, t.file, w, a)
    BY <1>1, <1>4, <1>7, <2>1, <2>2, <2>3 DEF Ahead
  <2> QED BY <1>2, <1>3, <1>7, <1>4, <1>5, <2>2, <2>4 DEF Agrees, Quiet
<1>6. CASE "READ" \notin st.fp.flags
  <2>1. Carries(st.fp, st.file, w, a) /\ a = st.fp.pos /\ st.fp.wp = 0
    BY <1>0, <1>3, <1>6 DEF Agrees, Quiet
  <2>2. Begin(t.fp) = Begin(st.fp) /\ OffsetOf(t.fp, t.file) = OffsetOf(st.fp, st.file)
    BY <1>1 DEF Begin, Cell, Alike, OffsetOf
  <2>3. Carries(t.fp, t.file, w, a)
    BY <1>1, <1>4, <1>7, <2>1, <2>2 DEF Carries
  <2>4. Unread(t.fp)
    BY <1>0, <1>1, <1>4, <1>6 DEF Agrees, Unread, Alike
  <2>5. Agrees(t.fp, t.file, w, a)
    BY <1>1, <1>4, <1>6, <2>1, <2>3, <2>4 DEF Agrees
  <2> QED BY <1>1, <1>2, <1>3, <1>7, <2>1, <2>5 DEF Quiet
<1> QED BY <1>5, <1>6

\* What reads well with its buffer reads well.
LEMMA GetBefore ==
  ASSUME NEW st, Typed(st), NEW r, GetsWell(On(st, Buffered(st.fp)), r)
  PROVE  GetsWell(st, r)
<1> DEFINE t == On(st, Buffered(st.fp))
<1>1. Goes(st, t) /\ t.fail = st.fail /\ t.fp.flags = st.fp.flags /\ t.fp.wp = st.fp.wp
  BY BufferedGoes
<1>2. /\ Straight(st.fp, "read") => Straight(t.fp, "read")
      /\ \A w, a : Agrees(st.fp, st.file, w, a) => Agrees(t.fp, t.file, w, a)
  BY BufferedAgrees
<1>3. st \in Steps
  BY DEF Typed
<1>4. GetsWell(t, r)
  OBVIOUS
<1> HIDE DEF t
<1>5. Goes(st, r.st) /\ r.ret \in Nat \cup {EOF}
  BY <1>1, <1>3, <1>4, GoesOn DEF GetsWell
<1>6. ASSUME Straight(st.fp, "read") PROVE Straight(r.st.fp, "read")
  BY <1>2, <1>4, <1>6 DEF GetsWell
<1>7. ASSUME Straight(st.fp, "read"), Reads(st.fp) PROVE GetAgree(st, r)
  <2>1. GetAgree(t, r)
    BY <1>1, <1>2, <1>4, <1>7 DEF GetsWell, Reads
  <2>2. ASSUME Quiet(st.fp) PROVE Quiet(t.fp)
    BY <1>1, <2>2 DEF Quiet
  <2> QED BY <1>1, <1>2, <2>1, <2>2 DEF GetAgree
<1> QED BY <1>5, <1>6, <1>7 DEF GetsWell

\* A read that fails is counted.
LEMMA FailedDoes ==
  ASSUME NEW st, Typed(st)
  PROVE  LET t == [On(st, Flagged(st.fp, {"ERR"})) EXCEPT !.fail = @ + 1] IN
         /\ Goes(st, t) /\ "ERR" \in t.fp.flags /\ t.fail > st.fail /\ (Quiet(st.fp) => Quiet(t.fp))
         /\ Straight(st.fp, "read") => Straight(t.fp, "read")
<1> DEFINE u == On(st, Flagged(st.fp, {"ERR"}))
           t == [u EXCEPT !.fail = @ + 1]
<1>1. Goes(st, u) /\ u.fp.wp = st.fp.wp /\ u.fail = st.fail /\ u.fp.flags = st.fp.flags \cup {"ERR"} /\ (\A d : Straight(st.fp, d) => Straight(u.fp, d))
  BY ErrDoes
<1> HIDE DEF u
<1>2. u \in Steps /\ u.fail \in Nat /\ st.fail \in Nat
  BY <1>1 DEF Goes, Typed, Steps
<1>3. t \in Steps /\ t.fp = u.fp /\ t.fail = st.fail + 1
  BY <1>1, <1>2 DEF Steps
<1> HIDE DEF t
<1>4. Goes(st, t)
  BY <1>1, <1>2, <1>3 DEF Goes, Typed
<1>5. t.fail > st.fail
  BY <1>2, <1>3
<1>6. Quiet(st.fp) => Quiet(t.fp)
  BY <1>1, <1>3 DEF Quiet
<1> QED BY <1>1, <1>3, <1>4, <1>5, <1>6 DEF t, u

\* __getc(): the buffer is filled, or the stream is at its end, or failed.
LEMMA UnderGetDoes ==
  ASSUME NEW st, Typed(st), st.fp.rp >= st.fp.wp, NEW r \in __getc(st)
  PROVE  GetsWell(st, r)
<1> DEFINE t == On(st, Buffered(st.fp))
           left == Len(t.file) - t.fp.pos
           most == IF left < t.fp.len THEN left ELSE t.fp.len
           erring == On(t, Flagged(t.fp, {"ERR"}))
<1>1. /\ Goes(st, t) /\ t.fp.buf # <<>> /\ t.file = st.file /\ t.fail = st.fail
      /\ t.fp.flags = st.fp.flags /\ t.fp.pos = st.fp.pos /\ t.fp.wp = st.fp.wp /\ t.fp.rp = st.fp.rp
  BY BufferedGoes
<1>2. \/ st.fp.flags \cap {"EOF", "ERR"} # {} /\ r = Ret(st, EOF)
      \/ st.fp.flags \cap {"READ", "RW"} = {} /\ r = Ret(On(st, Flagged(st.fp, {"ERR"})), EOF)
      \/ /\ st.fp.flags \cap {"EOF", "ERR"} = {} /\ st.fp.flags \cap {"READ", "RW"} # {}
         /\ \/ most <= 0 /\ r = Ret(On(t, Flagged(t.fp, {"EOF"})), EOF)
            \/ \E n \in 1 .. most : r = Ret(On(t, Filled(t.fp, t.file, n)), t.file[t.fp.pos + 1])
            \/ r = Ret([erring EXCEPT !.fail = @ + 1], EOF)
  BY DEF __getc
<1>3. Typed(t) /\ t.fp.len \in Nat /\ t.fp.pos \in Nat /\ Len(t.file) \in Nat /\ t.fp.rp >= t.fp.wp
  BY <1>1 DEF Goes, Typed, Steps, FILE
<1>4. CASE st.fp.flags \cap {"EOF", "ERR"} # {} /\ r = Ret(st, EOF)
  <2>1. r.st = st /\ r.ret = EOF /\ Goes(st, r.st)
    BY <1>4, GoesFrom DEF Ret
  <2>2. ASSUME Straight(st.fp, "read"), NEW w, NEW a, Agrees(st.fp, st.file, w, a), Quiet(st.fp)
        PROVE  a >= Len(w)
    <3>1. "EOF" \in st.fp.flags
      <4>1. "ERR" \notin st.fp.flags
        BY <2>2, ReadsFile
      <4> QED BY <1>4, <4>1
    <3>2. st.fp.pos \in Nat /\ st.fp.rp \in Nat /\ st.fp.wp \in Nat
      BY DEF Typed, Steps, FILE
    <3>3. CASE "READ" \in st.fp.flags
      <4>1. w = st.file /\ a = st.fp.pos - (st.fp.wp - st.fp.rp) /\ st.fp.rp <= st.fp.wp /\ st.fp.pos >= Len(st.file)
        BY <2>2, <3>1, <3>3 DEF Agrees, Ahead, Straight
      <4> QED BY <3>2, <4>1
    <3>4. CASE "READ" \notin st.fp.flags
      <4>1. st.fp.wp = 0 /\ st.fp.pos >= Len(st.file) /\ w = Overlay(st.file, OffsetOf(st.fp, st.file), Begin(st.fp)) /\ a = st.fp.pos
        BY <2>2, <3>1, <3>4 DEF Agrees, Carries, Quiet
      <4>2. w = st.file
        BY <4>1 DEF Begin, Overlay
      <4> QED BY <4>1, <4>2
    <3> QED BY <3>3, <3>4
  <2>3. Straight(st.fp, "read") => GetAgree(st, r)
    BY <2>1, <2>2 DEF GetAgree
  <2> QED BY <2>1, <2>3 DEF GetsWell
<1>5. CASE st.fp.flags \cap {"READ", "RW"} = {} /\ r = Ret(On(st, Flagged(st.fp, {"ERR"})), EOF)
  <2> DEFINE u == On(st, Flagged(st.fp, {"ERR"}))
  <2>1. Goes(st, u) /\ (\A d : Straight(st.fp, d) => Straight(u.fp, d))
    BY ErrDoes
  <2>2. r.st = u /\ r.ret = EOF /\ ~Reads(st.fp)
    BY <1>5 DEF Ret, Reads
  <2> HIDE DEF u
  <2> QED BY <2>1, <2>2 DEF GetsWell
<1>6. CASE /\ st.fp.flags \cap {"EOF", "ERR"} = {} /\ st.fp.flags \cap {"READ", "RW"} # {}
           /\ \/ most <= 0 /\ r = Ret(On(t, Flagged(t.fp, {"EOF"})), EOF)
              \/ \E n \in 1 .. most : r = Ret(On(t, Filled(t.fp, t.file, n)), t.file[t.fp.pos + 1])
              \/ r = Ret([erring EXCEPT !.fail = @ + 1], EOF)
  <2>0. "EOF" \notin t.fp.flags /\ Reads(t.fp)
    BY <1>1, <1>6 DEF Reads
  <2>1. SUFFICES GetsWell(t, r)
    BY GetBefore
  <2> HIDE DEF t
  <2>2. CASE most <= 0 /\ r = Ret(On(t, Flagged(t.fp, {"EOF"})), EOF)
    <3> DEFINE u == On(t, Flagged(t.fp, {"EOF"}))
    <3>1. Goes(t, u) /\ (\A d : Straight(t.fp, d) => Straight(u.fp, d))
      BY <1>3, ErrDoes
    <3>2. r.st = u /\ r.ret = EOF
      BY <2>2 DEF Ret
    <3>3. ASSUME Straight(t.fp, "read"), NEW w, NEW a, Agrees(t.fp, t.file, w, a), Quiet(t.fp)
          PROVE  Quiet(u.fp) /\ a >= Len(w) /\ Agrees(u.fp, u.file, w, a)
      <4>1. t.fp.len # 0
        BY <1>1, <3>3 DEF Straight
      <4>2. Spent(t)
        BY <1>3, <2>2, <4>1 DEF Spent
      <4> QED BY <1>3, <3>3, <4>2, EndAgrees
    <3> HIDE DEF u
    <3>4. Straight(t.fp, "read") => GetAgree(t, r)
      BY <3>2, <3>3 DEF GetAgree
    <3> QED BY <3>1, <3>2, <3>4 DEF GetsWell
  <2>3. CASE \E n \in 1 .. most : r = Ret(On(t, Filled(t.fp, t.file, n)), t.file[t.fp.pos + 1])
    <3>1. PICK n \in 1 .. most : r = Ret(On(t, Filled(t.fp, t.file, n)), t.file[t.fp.pos + 1])
      BY <2>3
    <3>2. n \in Nat /\ n >= 1 /\ n <= t.fp.len /\ t.fp.pos + n <= Len(t.file)
      BY <1>3
    <3> DEFINE u == On(t, Filled(t.fp, t.file, n))
    <3>3. Goes(t, u) /\ t.file[t.fp.pos + 1] \in Nat /\ "READ" \in u.fp.flags
      <4>1. Goes(t, u) /\ t.file[t.fp.pos + 1] \in Nat
        BY <1>1, <1>3, <3>2, FilledDoes
      <4>2. u.fp.flags = t.fp.flags \cup {"READ"}
        BY <1>1, <1>3, <3>2, FilledDoes
      <4> QED BY <4>1, <4>2
    <3>4. r.st = u /\ r.ret = t.file[t.fp.pos + 1]
      BY <3>1 DEF Ret
    <3>5. Straight(t.fp, "read") => Straight(u.fp, "read")
      BY <1>1, <1>3, <2>0, <3>2, FilledAgrees
    <3>6. ASSUME Straight(t.fp, "read"), NEW w, NEW a, Agrees(t.fp, t.file, w, a), Quiet(t.fp)
          PROVE  a + 1 <= Len(w) /\ t.file[t.fp.pos + 1] = w[a + 1] /\ Agrees(u.fp, u.file, w, a + 1)
      <4>1. \A w1, a1 : Agrees(t.fp, t.file, w1, a1) /\ Quiet(t.fp) /\ "EOF" \notin t.fp.flags /\ t.fp.rp >= t.fp.wp =>
              a1 + 1 <= Len(w1) /\ t.file[t.fp.pos + 1] = w1[a1 + 1] /\ Agrees(u.fp, u.file, w1, a1 + 1)
        BY <1>1, <1>3, <2>0, <3>2, <3>6, FilledAgrees
      <4> QED BY <1>3, <2>0, <3>6, <4>1
    <3> HIDE DEF u
    <3>7. Straight(t.fp, "read") => GetAgree(t, r)
      <4>1. r.ret # EOF
        BY <3>3, <3>4 DEF EOF
      <4> QED BY <3>3, <3>4, <3>6, <4>1 DEF GetAgree, Quiet
    <3> QED BY <3>3, <3>4, <3>5, <3>7 DEF GetsWell
  <2>4. CASE r = Ret([erring EXCEPT !.fail = @ + 1], EOF)
    <3> DEFINE u == [erring EXCEPT !.fail = @ + 1]
    <3>1. Goes(t, u) /\ "ERR" \in u.fp.flags /\ u.fail > t.fail /\ (Quiet(t.fp) => Quiet(u.fp)) /\ (Straight(t.fp, "read") => Straight(u.fp, "read"))
      BY <1>3, FailedDoes
    <3>2. r.st = u /\ r.ret = EOF
      BY <2>4 DEF Ret
    <3> HIDE DEF u
    <3>3. GetAgree(t, r)
      BY <3>1, <3>2 DEF GetAgree
    <3> QED BY <3>1, <3>2, <3>3 DEF GetsWell
  <2> QED BY <1>6, <2>2, <2>3, <2>4
<1> QED BY <1>2, <1>4, <1>5, <1>6

\* getc() gives the next character of the file, or says why not.
LEMMA GetDoes ==
  ASSUME NEW st, Typed(st), NEW r \in getc(st)
  PROVE  GetsWell(st, r)
<1>0. st.fp.rp \in Nat /\ st.fp.wp \in Nat /\ st.fp.len \in Nat /\ st.fp.pos \in Nat /\ st.fp.buf \in Seq(Nat) /\ st.fp \in FILE /\ st \in Steps
      /\ st.fail \in Nat
  BY DEF Typed, Steps, FILE
<1>1. CASE st.fp.rp >= st.fp.wp
  <2>1. r \in __getc(st)
    BY <1>1 DEF getc
  <2> QED BY <1>1, <2>1, UnderGetDoes
<1>2. CASE ~(st.fp.rp >= st.fp.wp)
  <2> DEFINE q == [st.fp EXCEPT !.rp = @ + 1]
             t == On(st, q)
  <2>1. r.st = t /\ r.ret = Cell(st.fp, st.fp.rp + 1)
    BY <1>2 DEF getc, Ret
  <2>2. q \in FILE /\ q.rp = st.fp.rp + 1 /\ q.wp = st.fp.wp /\ q.flags = st.fp.flags /\ q.buf = st.fp.buf /\ q.len = st.fp.len /\ q.lp = st.fp.lp
        /\ q.pos = st.fp.pos /\ q.mode = st.fp.mode
    <3> DEFINE m == st.fp.rp + 1
    <3>1. m \in Nat /\ q = [st.fp EXCEPT !.rp = m]
      BY <1>0
    <3> HIDE DEF m, q
    <3>2. q \in FILE /\ q.rp = m /\ Alike(q, st.fp) /\ q.wp = st.fp.wp /\ q.flags = st.fp.flags /\ q.pos = st.fp.pos
      BY <1>0, <3>1, PointersAlone
    <3> QED BY <3>2 DEF m, Alike
  <2> HIDE DEF q
  <2>3. t \in Steps /\ t.fp = q /\ t.file = st.file /\ t.fail = st.fail
    BY <1>0, <2>2, OnFile
  <2> HIDE DEF t
  <2>4. st.fp.buf # <<>> /\ Len(st.fp.buf) = st.fp.len
    BY <1>0, <1>2 DEF Typed, Sound
  <2>5. Goes(st, t)
    BY <1>0, <2>2, <2>3, <2>4 DEF Goes, Typed, Sound
  <2>6. r.ret \in Nat
    <3>1. CASE st.fp.rp + 1 <= st.fp.len
      <4>1. st.fp.rp + 1 \in 1 .. Len(st.fp.buf)
        BY <1>0, <2>4, <3>1
      <4>2. st.fp.buf[st.fp.rp + 1] \in Nat
        <5> DEFINE c == st.fp.buf
                   j == st.fp.rp + 1
        <5>1. c \in Seq(Nat) /\ j \in 1 .. Len(c)
          BY <1>0, <4>1
        <5> HIDE DEF c, j
        <5>2. c[j] \in Nat
          BY <5>1
        <5> QED BY <5>2 DEF c, j
      <4> QED BY <2>1, <3>1, <4>2 DEF Cell
    <3>2. CASE ~(st.fp.rp + 1 <= st.fp.len)
      BY <2>1, <3>2 DEF Cell
    <3> QED BY <3>1, <3>2
  <2>7. ASSUME Straight(st.fp, "read") PROVE Straight(t.fp, "read")
    <3>1. Access(q)
      BY <2>2, <2>7 DEF Access, Straight
    <3>2. "LBF" \in q.flags \/ "FBF" \in q.flags => "PAST" \notin q.flags /\ q.wp <= q.len
      BY <2>2, <2>7 DEF Straight
    <3>3. q.buf # <<>> => q.lp = q.len /\ q.len # 0
      BY <2>2, <2>7 DEF Straight
    <3>4. "READ" \in q.flags => q.wp <= q.len
      BY <2>2, <2>7 DEF Straight
    <3>5. q.rp <= q.wp /\ q.rp # 0
      BY <1>0, <1>2, <2>2
    <3> QED BY <2>3, <3>1, <3>2, <3>3, <3>4, <3>5 DEF Straight
  <2>8. ASSUME Straight(st.fp, "read"), NEW w, NEW a, Agrees(st.fp, st.file, w, a), Quiet(st.fp)
        PROVE  Quiet(t.fp) /\ a + 1 <= Len(w) /\ r.ret = w[a + 1] /\ Agrees(t.fp, t.file, w, a + 1)
    <3>1. "READ" \in st.fp.flags
      <4>1. st.fp.wp # 0
        BY <1>0, <1>2
      <4> QED BY <2>8, <4>1 DEF Quiet
    <3>2. Ahead(st.fp, st.file, w, a) /\ st.fp.wp <= st.fp.len
      BY <2>8, <3>1 DEF Agrees, Straight
    <3>3. st.fp.rp < st.fp.wp
      BY <1>0, <1>2
    <3>4. w = st.file /\ a \in Nat /\ a = st.fp.pos - (st.fp.wp - st.fp.rp) /\ st.fp.pos <= Len(w) /\ "EOF" \notin st.fp.flags
      BY <3>2, <3>3 DEF Ahead
    <3>5. st.file \in Seq(Nat) /\ Len(w) \in Nat
      <4>1. st.file \in Seq(Nat)
        BY <1>0 DEF Steps
      <4> QED BY <3>4, <4>1
    <3>6. a + 1 \in Nat /\ a + 1 <= Len(w) /\ a + 1 = q.pos - (q.wp - q.rp) /\ a + 1 = st.fp.pos - st.fp.wp + (st.fp.rp + 1)
      <4>1. a + 1 \in Nat /\ a + 1 = q.pos - (q.wp - q.rp) /\ a + 1 = st.fp.pos - st.fp.wp + (st.fp.rp + 1) /\ a + 1 <= st.fp.pos
        <5> DEFINE o == st.fp.pos
                   i == st.fp.rp
                   n == st.fp.wp
        <5>1. o \in Nat /\ i \in Nat /\ n \in Nat /\ i < n /\ a = o - (n - i) /\ a \in Nat /\ q.pos = o /\ q.wp = n /\ q.rp = i + 1
          BY <1>0, <2>2, <3>3, <3>4
        <5> HIDE DEF o, i, n
        <5>2. a + 1 \in Nat /\ a + 1 = o - (n - (i + 1)) /\ a + 1 = o - n + (i + 1) /\ a + 1 <= o
          BY <5>1
        <5> QED BY <5>1, <5>2 DEF o, i, n
      <4> QED BY <1>0, <3>4, <3>5, <4>1
    <3>7. r.ret = w[a + 1]
      <4> DEFINE i == st.fp.rp + 1
      <4>1. i \in 1 .. st.fp.len /\ st.fp.rp < i /\ i <= st.fp.wp
        BY <1>0, <3>2, <3>3
      <4>2. st.fp.buf[i] = st.file[st.fp.pos - st.fp.wp + i]
        <5> HIDE DEF i
        <5> QED BY <3>2, <4>1 DEF Ahead
      <4>3. r.ret = st.fp.buf[i]
        BY <2>1, <4>1 DEF Cell
      <4> QED BY <3>4, <3>6, <4>2, <4>3
    <3>8. \A i \in 1 .. q.len : q.rp < i /\ i <= q.wp => q.buf[i] = st.file[q.pos - q.wp + i]
      <4>1. ASSUME NEW i \in 1 .. q.len, q.rp < i, i <= q.wp PROVE q.buf[i] = st.file[q.pos - q.wp + i]
        <5>1. i \in 1 .. st.fp.len /\ st.fp.rp < i /\ i <= st.fp.wp
          BY <1>0, <2>2, <4>1
        <5>2. st.fp.buf[i] = st.file[st.fp.pos - st.fp.wp + i]
          BY <3>2, <5>1 DEF Ahead
        <5> QED BY <2>2, <5>2
      <4> QED BY <4>1
    <3>9. Ahead(q, st.file, w, a + 1)
      <4>1. "ERR" \notin q.flags /\ "PAST" \notin q.flags /\ "READ" \in q.flags /\ "EOF" \notin q.flags
        BY <2>2, <3>2, <3>4 DEF Ahead
      <4>2. q.pos <= Len(st.file)
        BY <2>2, <3>4
      <4> QED BY <3>4, <3>6, <3>8, <4>1, <4>2 DEF Ahead
    <3>10. Agrees(t.fp, t.file, w, a + 1) /\ Quiet(t.fp)
      BY <2>2, <2>3, <3>1, <3>9 DEF Agrees, Quiet
    <3> QED BY <3>6, <3>7, <3>10
  <2>9. Straight(st.fp, "read") => GetAgree(st, r)
    <3>1. r.ret # EOF
      BY <2>6 DEF EOF
    <3> QED BY <2>1, <2>8, <3>1 DEF GetAgree
  <2> QED BY <2>1, <2>5, <2>6, <2>7, <2>9 DEF GetsWell
<1> QED BY <1>1, <1>2

(***************************************************************************)
(* Reading many characters.                                                *)
(***************************************************************************)
\* text is what w has from a on, and has no character of stop but its last.
Begins(text, w, a) == \A i \in 1 .. Len(text) : a + i <= Len(w) /\ text[i] = w[a + i]
Clear(text, stop) == \A i \in 1 .. Len(text) : text[i] \notin stop
Stops(text, stop) == text # <<>> /\ text[Len(text)] \in stop /\ \A i \in 1 .. Len(text) - 1 : text[i] \notin stop
\* It is all that n characters up to one of stop are.
Whole(text, w, a, n, stop) ==
  /\ Begins(text, w, a) /\ Len(text) <= n
  /\ \/ Len(text) = n /\ Clear(text, stop)
     \/ a + Len(text) >= Len(w) /\ Clear(text, stop)
     \/ Stops(text, stop)
\* How far a read of k characters came: it goes on, or it came to its end.
Came(text, w, a, k, stop, ends) ==
  /\ Begins(text, w, a)
  /\ IF ends THEN Stops(text, stop) \/ (Clear(text, stop) /\ a + Len(text) >= Len(w))
     ELSE Len(text) = k /\ Clear(text, stop)

\* What b has done for st in k steps of the loop.
ReadOn(st, b, k, stop) ==
  /\ Goes(st, b.st) /\ b.text \in Seq(Nat) /\ b.ends \in BOOLEAN /\ Len(b.text) <= k
  /\ Straight(st.fp, "read") => Straight(b.st.fp, "read") /\ (Reads(st.fp) =>
       \A w, a : Agrees(st.fp, st.file, w, a) /\ Quiet(st.fp) =>
                   \/ b.ends /\ "ERR" \in b.st.fp.flags /\ b.st.fail > st.fail
                   \/ Quiet(b.st.fp) /\ Agrees(b.st.fp, b.st.file, w, a + Len(b.text)) /\ Came(b.text, w, a, k, stop, b.ends))

\* One more character is read.
LEMMA BeginsMore ==
  ASSUME NEW text \in Seq(Nat), NEW w, NEW a \in Nat, NEW stop, Begins(text, w, a), Clear(text, stop), NEW ch \in Nat,
         a + Len(text) + 1 <= Len(w), ch = w[a + Len(text) + 1]
  PROVE  /\ Begins(Append(text, ch), w, a) /\ Len(Append(text, ch)) = Len(text) + 1
         /\ IF ch \in stop THEN Stops(Append(text, ch), stop) ELSE Clear(Append(text, ch), stop)
<1> DEFINE m == Len(text)
           y == Append(text, ch)
<1>1. m \in Nat /\ y \in Seq(Nat) /\ Len(y) = m + 1 /\ y[m + 1] = ch /\ \A i \in 1 .. m : y[i] = text[i]
  OBVIOUS
<1>2. \A i \in 1 .. m : a + i <= Len(w) /\ text[i] = w[a + i] /\ text[i] \notin stop
  BY DEF Begins, Clear
<1>3. a + m + 1 <= Len(w) /\ ch = w[a + m + 1]
  OBVIOUS
<1>4. a + m + 1 = a + (m + 1)
  BY <1>1
<1> HIDE DEF m, y
<1>5. \A i \in 1 .. m + 1 : i = m + 1 \/ i \in 1 .. m
  BY <1>1
<1>6. Begins(y, w, a)
  BY <1>1, <1>2, <1>3, <1>4, <1>5 DEF Begins
<1>7. ch \in stop => Stops(y, stop)
  <2>1. y # <<>> /\ Len(y) - 1 = m
    BY <1>1
  <2> QED BY <1>1, <1>2, <2>1 DEF Stops
<1>8. ch \notin stop => Clear(y, stop)
  BY <1>1, <1>2, <1>5 DEF Clear
<1> QED BY <1>1, <1>6, <1>7, <1>8 DEF m, y

\* The loop takes one more character, or is at its end.
Longer(b, stop) ==
  IF b.ends THEN {b}
  ELSE {IF a.ret = EOF THEN Got(a.st, b.text, TRUE) ELSE Got(a.st, Append(b.text, a.ret), a.ret \in stop) : a \in getc(b.st)}
\* It reads on from where it came to.
LEMMA ReadMore ==
  ASSUME NEW st, Typed(st), NEW k \in Nat, NEW stop, NEW b, ReadOn(st, b, k, stop), NEW r \in Longer(b, stop)
  PROVE  ReadOn(st, r, k + 1, stop)
<1>1. st \in Steps /\ st.fail \in Nat /\ Typed(b.st) /\ b.st.fail \in Nat /\ st.fail <= b.st.fail /\ b.text \in Seq(Nat) /\ Len(b.text) \in Nat
      /\ Len(b.text) <= k /\ b.ends \in BOOLEAN /\ st.fp.flags \subseteq b.st.fp.flags
  BY DEF Typed, Steps, ReadOn, Goes
<1>2. CASE b.ends
  <2>1. r = b
    BY <1>2 DEF Longer
  <2>2. Len(b.text) <= k + 1
    BY <1>1
  <2>3. \A w, a : Came(b.text, w, a, k, stop, b.ends) => Came(b.text, w, a, k + 1, stop, b.ends)
    BY <1>2 DEF Came
  <2> QED BY <2>1, <2>2, <2>3 DEF ReadOn
<1>3. CASE ~b.ends
  <2>1. PICK a \in getc(b.st) : r = IF a.ret = EOF THEN Got(a.st, b.text, TRUE) ELSE Got(a.st, Append(b.text, a.ret), a.ret \in stop)
    BY <1>3 DEF Longer
  <2>2. GetsWell(b.st, a)
    BY <1>1, GetDoes
  <2>3. Goes(st, a.st) /\ a.ret \in Nat \cup {EOF} /\ a.st.fail \in Nat /\ b.st.fail <= a.st.fail
    <3>1. Goes(b.st, a.st) /\ a.ret \in Nat \cup {EOF}
      BY <2>2 DEF GetsWell
    <3>2. Goes(st, b.st)
      BY DEF ReadOn
    <3>3. a.st.fail \in Nat /\ b.st.fail <= a.st.fail
      BY <3>1 DEF Goes, Typed, Steps
    <3> QED BY <1>1, <3>1, <3>2, <3>3, GoesOn
  <2>4. CASE a.ret = EOF
    <3>1. r.st = a.st /\ r.text = b.text /\ r.ends = TRUE
      BY <2>1, <2>4 DEF Got
    <3>2. Len(b.text) <= k + 1
      BY <1>1
    <3>3. ASSUME Straight(st.fp, "read") PROVE Straight(a.st.fp, "read")
      BY <2>2, <3>3 DEF ReadOn, GetsWell
    <3>4. ASSUME Straight(st.fp, "read"), Reads(st.fp), NEW w, NEW o, Agrees(st.fp, st.file, w, o), Quiet(st.fp)
          PROVE  \/ "ERR" \in a.st.fp.flags /\ a.st.fail > st.fail
                 \/ Quiet(a.st.fp) /\ Agrees(a.st.fp, a.st.file, w, o + Len(b.text)) /\ Came(b.text, w, o, k + 1, stop, TRUE)
      <4>1. Quiet(b.st.fp) /\ Agrees(b.st.fp, b.st.file, w, o + Len(b.text)) /\ Came(b.text, w, o, k, stop, FALSE)
        BY <1>3, <3>4 DEF ReadOn
      <4>2. GetAgree(b.st, a)
        BY <1>1, <2>2, <3>4 DEF ReadOn, GetsWell, Reads
      <4>3. Quiet(a.st.fp) /\ (\/ "ERR" \in a.st.fp.flags /\ a.st.fail > b.st.fail
                               \/ o + Len(b.text) >= Len(w) /\ Agrees(a.st.fp, a.st.file, w, o + Len(b.text)))
        BY <2>4, <4>1, <4>2 DEF GetAgree
      <4>4. CASE "ERR" \in a.st.fp.flags /\ a.st.fail > b.st.fail
        <5>1. a.st.fail > st.fail
          BY <1>1, <2>3, <4>4
        <5> QED BY <4>4, <5>1
      <4>5. CASE o + Len(b.text) >= Len(w) /\ Agrees(a.st.fp, a.st.file, w, o + Len(b.text))
        BY <4>1, <4>3, <4>5 DEF Came
      <4> QED BY <4>3, <4>4, <4>5
    <3> QED BY <1>1, <2>3, <3>1, <3>2, <3>3, <3>4 DEF ReadOn
  <2>5. CASE a.ret # EOF
    <3> DEFINE y == Append(b.text, a.ret)
    <3>1. r.st = a.st /\ r.text = y /\ r.ends = (a.ret \in stop)
      BY <2>1, <2>5 DEF Got
    <3>2. a.ret \in Nat
      BY <2>3, <2>5
    <3>3. y \in Seq(Nat) /\ Len(y) = Len(b.text) + 1 /\ Len(y) <= k + 1
      BY <1>1, <3>2
    <3>4. ASSUME Straight(st.fp, "read") PROVE Straight(a.st.fp, "read")
      BY <2>2, <3>4 DEF ReadOn, GetsWell
    <3>5. ASSUME Straight(st.fp, "read"), Reads(st.fp), NEW w, NEW o, Agrees(st.fp, st.file, w, o), Quiet(st.fp)
          PROVE  Quiet(a.st.fp) /\ Agrees(a.st.fp, a.st.file, w, o + Len(y)) /\ Came(y, w, o, k + 1, stop, a.ret \in stop)
      <4>1. Quiet(b.st.fp) /\ Agrees(b.st.fp, b.st.file, w, o + Len(b.text)) /\ Came(b.text, w, o, k, stop, FALSE)
        BY <1>3, <3>5 DEF ReadOn
      <4>2. GetAgree(b.st, a)
        BY <1>1, <2>2, <3>5 DEF ReadOn, GetsWell, Reads
      <4> DEFINE m == Len(b.text)
      <4>3. Quiet(a.st.fp) /\ (o + m) + 1 <= Len(w) /\ a.ret = w[(o + m) + 1] /\ Agrees(a.st.fp, a.st.file, w, (o + m) + 1)
        BY <2>5, <4>1, <4>2 DEF GetAgree
      <4>4. o \in Nat /\ m \in Nat /\ (o + m) + 1 = o + Len(y)
        <5>1. o \in Nat
          BY <3>5, ReadsFile
        <5>2. m \in Nat
          BY <1>1
        <5> HIDE DEF m, y
        <5> QED BY <3>3, <5>1, <5>2 DEF m
      <4>5. Begins(b.text, w, o) /\ Clear(b.text, stop) /\ m = k
        BY <4>1 DEF Came
      <4>6. Begins(y, w, o) /\ IF a.ret \in stop THEN Stops(y, stop) ELSE Clear(y, stop)
        BY <1>1, <3>2, <4>3, <4>4, <4>5, BeginsMore
      <4>7. Came(y, w, o, k + 1, stop, a.ret \in stop)
        BY <3>3, <4>5, <4>6 DEF Came
      <4> HIDE DEF m, y
      <4> QED BY <4>3, <4>4, <4>7
    <3> HIDE DEF y
    <3>6. (a.ret \in stop) \in BOOLEAN
      OBVIOUS
    <3> QED BY <2>3, <3>1, <3>3, <3>4, <3>5, <3>6 DEF ReadOn
  <2> QED BY <2>4, <2>5
<1> QED BY <1>1, <1>2, <1>3

\* What the loop may come to.
Takes == {b \in [st : Steps, text : Seq(Nat), ends : BOOLEAN] : Sound(b.st.fp)}
Further(X, stop) == UNION {Longer(b, stop) : b \in X}

\* The loop goes through states of streams.
LEMMA FurtherIsTakes == ASSUME NEW stop, NEW X \in SUBSET Takes PROVE Further(X, stop) \in SUBSET Takes
<1>1. SUFFICES ASSUME NEW b \in X, NEW r \in Longer(b, stop) PROVE r \in Takes
  BY DEF Further
<1>2. b \in Takes /\ Typed(b.st) /\ b.text \in Seq(Nat)
  BY DEF Takes, Typed
<1>3. CASE b.ends
  BY <1>1, <1>2, <1>3 DEF Longer
<1>4. CASE ~b.ends
  <2>1. PICK a \in getc(b.st) : r = IF a.ret = EOF THEN Got(a.st, b.text, TRUE) ELSE Got(a.st, Append(b.text, a.ret), a.ret \in stop)
    BY <1>1, <1>4 DEF Longer
  <2>2. Typed(a.st) /\ a.ret \in Nat \cup {EOF}
    BY <1>2, GetDoes DEF GetsWell, Goes
  <2>3. a.ret # EOF => Append(b.text, a.ret) \in Seq(Nat)
    BY <1>2, <2>2
  <2> QED BY <1>2, <2>1, <2>2, <2>3 DEF Takes, Typed, Got
<1> QED BY <1>3, <1>4

\* GetAll() is a run of n steps.
GetRun(g, n, stop, st) ==
  /\ g \in [0 .. n -> SUBSET Takes] /\ g[0] = {Got(st, <<>>, FALSE)}
  /\ \A k \in 1 .. n : g[k] = Further(g[k - 1], stop)
  /\ GetAll(n, stop, st) = g[n]
\* There is such a run.
LEMMA GetAllRuns ==
  ASSUME NEW st, Typed(st), NEW n \in Nat, NEW stop
  PROVE  \E g : GetRun(g, n, stop, st)
<1> DEFINE first == {Got(st, <<>>, FALSE)}
           step == [k \in 1 .. n |-> [X \in SUBSET Takes |-> Further(X, stop)]]
           get[k \in 0 .. n] ==
             IF k = 0 THEN {Got(st, <<>>, FALSE)}
             ELSE UNION {IF b.ends THEN {b}
                         ELSE {IF a.ret = EOF THEN Got(a.st, b.text, TRUE) ELSE Got(a.st, Append(b.text, a.ret), a.ret \in stop) :
                                 a \in getc(b.st)} :
                         b \in get[k - 1]}
<1>2. first \in SUBSET Takes
  <2>1. <<>> \in Seq(Nat)
    OBVIOUS
  <2> QED BY <2>1 DEF Takes, Got, Typed
<1>3. step \in [1 .. n -> [SUBSET Takes -> SUBSET Takes]]
  BY FurtherIsTakes
<1>4. PICK g : Run(g, n, SUBSET Takes, first, step)
  <2> HIDE DEF step, first
  <2> QED BY <1>2, <1>3, RunExists
<1>5. g \in [0 .. n -> SUBSET Takes] /\ g[0] = first
  BY <1>4 DEF Run
<1>6. ASSUME NEW k \in 1 .. n PROVE g[k] = Further(g[k - 1], stop)
  <2>1. k - 1 \in 0 .. n
    OBVIOUS
  <2>2. g[k - 1] \in SUBSET Takes
    BY <1>5, <2>1
  <2>3. g[k] = step[k][g[k - 1]]
    BY <1>4 DEF Run
  <2> QED BY <2>2, <2>3
<1>7. g = [k \in 0 .. n |-> IF k = 0 THEN first ELSE Further(g[k - 1], stop)]
  <2>1. \A k \in 0 .. n : g[k] = IF k = 0 THEN first ELSE Further(g[k - 1], stop)
    <3>1. \A k \in 0 .. n : k # 0 => k \in 1 .. n
      OBVIOUS
    <3> QED BY <1>5, <1>6, <3>1
  <2> QED BY <1>5, <2>1
<1>8. get = [k \in 0 .. n |-> IF k = 0 THEN first ELSE Further(get[k - 1], stop)]
  <2>1. g = [k \in 0 .. n |->
               IF k = 0 THEN {Got(st, <<>>, FALSE)}
               ELSE UNION {IF b.ends THEN {b}
                           ELSE {IF a.ret = EOF THEN Got(a.st, b.text, TRUE) ELSE Got(a.st, Append(b.text, a.ret), a.ret \in stop) :
                                   a \in getc(b.st)} :
                           b \in g[k - 1]}]
    BY <1>7 DEF Further, Longer
  <2>2. get = [k \in 0 .. n |->
               IF k = 0 THEN {Got(st, <<>>, FALSE)}
               ELSE UNION {IF b.ends THEN {b}
                           ELSE {IF a.ret = EOF THEN Got(a.st, b.text, TRUE) ELSE Got(a.st, Append(b.text, a.ret), a.ret \in stop) :
                                   a \in getc(b.st)} :
                           b \in get[k - 1]}]
    BY <2>1
  <2> HIDE DEF get
  <2> QED BY <2>2 DEF Further, Longer
<1>9. GetAll(n, stop, st) = get[n]
  BY DEF GetAll
<1> HIDE DEF get
<1>10. GoAlike(get, g, n)
  <2>1. get[0] = g[0]
    <3>1. 0 \in 0 .. n
      OBVIOUS
    <3> HIDE DEF first
    <3> QED BY <1>5, <1>8, <3>1
  <2>2. ASSUME NEW k \in 1 .. n, get[k - 1] = g[k - 1] PROVE get[k] = g[k]
    <3>1. k \in 0 .. n /\ k # 0
      OBVIOUS
    <3>2. get[k] = Further(get[k - 1], stop)
      <4> HIDE DEF first
      <4> QED BY <1>8, <3>1
    <3> QED BY <1>6, <2>2, <3>2
  <2> QED BY <2>1, <2>2 DEF GoAlike
<1>11. get[n] = g[n]
  <2>1. n \in 0 .. n
    OBVIOUS
  <2> QED BY <1>10, <2>1, SameRun
<1> QED BY <1>5, <1>6, <1>9, <1>11 DEF GetRun

\* GetAll() reads n characters, or up to one of stop, or to the end.
LEMMA GetAllDoes ==
  ASSUME NEW st, Typed(st), NEW n \in Nat, NEW stop, NEW r \in GetAll(n, stop, st)
  PROVE  ReadOn(st, r, n, stop)
<1>1. PICK g : GetRun(g, n, stop, st)
  BY GetAllRuns
<1> DEFINE I == {k \in Nat : k <= n => \A b \in g[k] : ReadOn(st, b, k, stop)}
<1>2. 0 \in I
  <2>1. ASSUME NEW b \in g[0] PROVE ReadOn(st, b, 0, stop)
    <3>1. b.st = st /\ b.text = <<>> /\ b.ends = FALSE
      BY <1>1 DEF GetRun, Got
    <3>2. b.text \in Seq(Nat) /\ Len(b.text) = 0 /\ b.ends \in BOOLEAN /\ Len(b.text) <= 0
      <4>1. b.text \in Seq(Nat) /\ Len(b.text) = 0
        BY <3>1
      <4>2. b.ends \in BOOLEAN
        BY <3>1
      <4> QED BY <4>1, <4>2
    <3>3. Goes(st, b.st)
      BY <3>1, GoesFrom
    <3>4. \A w, a : Came(b.text, w, a, 0, stop, b.ends)
      BY <3>1, <3>2 DEF Came, Begins, Clear
    <3>5. ASSUME NEW w, NEW a, Agrees(st.fp, st.file, w, a), Quiet(st.fp) PROVE Agrees(b.st.fp, b.st.file, w, a + Len(b.text))
      <4>1. a \in Nat
        BY <3>5, ReadsFile
      <4>2. a + Len(b.text) = a
        BY <3>2, <4>1
      <4> QED BY <3>1, <3>5, <4>2
    <3>6. b.st.fp = st.fp
      BY <3>1
    <3> HIDE DEF I
    <3> QED BY <3>2, <3>3, <3>4, <3>5, <3>6 DEF ReadOn
  <2> QED BY <2>1
<1>3. ASSUME NEW k \in Nat, k \in I PROVE k + 1 \in I
  <2>1. SUFFICES ASSUME k + 1 <= n, NEW r2 \in g[k + 1] PROVE ReadOn(st, r2, k + 1, stop)
    OBVIOUS
  <2>2. k + 1 \in 1 .. n /\ k <= n /\ (k + 1) - 1 = k
    BY <2>1
  <2>3. g[k + 1] = Further(g[k], stop)
    BY <1>1, <2>2 DEF GetRun
  <2>4. PICK b \in g[k] : r2 \in Longer(b, stop)
    BY <2>1, <2>3 DEF Further
  <2>5. ReadOn(st, b, k, stop)
    BY <1>3, <2>2, <2>4
  <2> QED BY <2>4, <2>5, ReadMore
<1> HIDE DEF I
<1>4. Nat \subseteq I
  BY <1>2, <1>3, AllNumbers
<1>5. \A b \in g[n] : ReadOn(st, b, n, stop)
  BY <1>4 DEF I
<1> QED BY <1>1, <1>5 DEF GetRun

\* What came is what C expects of a read.
LEMMA CameWhole ==
  ASSUME NEW text \in Seq(Nat), NEW w, NEW a, NEW n \in Nat, NEW stop, NEW ends, Len(text) <= n, Came(text, w, a, n, stop, ends)
  PROVE  Whole(text, w, a, n, stop)
BY DEF Came, Whole
\* It is that.
LEMMA ExpectedIs ==
  ASSUME NEW s \in Streams, want[s] \in Seq(Nat), at[s] \in Nat, NEW n \in Nat, NEW stop, NEW text \in Seq(Nat),
         Whole(text, want[s], at[s], n, stop)
  PROVE  Expected(s, n, stop) = text
<1> DEFINE w == want[s]
           a == at[s]
           l == Len(w)
           m == Len(text)
           rest == SubSeq(w, a + 1, l)
           ends == {i \in 1 .. Len(rest) : rest[i] \in stop}
           k == IF ends = {} THEN n ELSE CHOOSE i \in ends : \A j \in ends : i <= j
           u == IF k < n THEN (IF k < Len(rest) THEN k ELSE Len(rest)) ELSE IF n < Len(rest) THEN n ELSE Len(rest)
<1>1. Expected(s, n, stop) = SubSeq(rest, 1, u)
  BY DEF Expected
<1>2. w \in Seq(Nat) /\ a \in Nat /\ l \in Nat /\ m \in Nat
  OBVIOUS
<1>3. rest \in Seq(Nat) /\ Len(rest) = (IF a < l THEN l - a ELSE 0) /\ \A i \in 1 .. Len(rest) : rest[i] = w[a + i]
  <2>1. CASE a < l
    <3> HIDE DEF w, a
    <3>1. rest \in Seq(Nat) /\ Len(rest) = l - a /\ (\A i \in 1 .. l - a : rest[i] = w[a + i])
      BY <1>2, <2>1
    <3> QED BY <2>1, <3>1
  <2>2. CASE ~(a < l)
    <3>1. rest = <<>>
      <4> HIDE DEF w, a
      <4> QED BY <1>2, <2>2
    <3> QED BY <2>2, <3>1
  <2> QED BY <2>1, <2>2
<1> HIDE DEF w, a, rest
<1>4. (\A i \in 1 .. m : a + i <= l /\ text[i] = w[a + i]) /\ m <= n
  BY DEF Whole, Begins, w, a
<1>5. m <= Len(rest) /\ Len(rest) \in Nat /\ \A i \in 1 .. m : rest[i] = text[i]
  <2>1. m # 0 => m \in 1 .. m
    BY <1>2
  <2>2. m # 0 => a + m <= l
    BY <1>4, <2>1
  <2>3. m <= Len(rest) /\ Len(rest) \in Nat
    BY <1>2, <1>3, <2>2
  <2> QED BY <1>2, <1>3, <1>4, <2>3
<1>6. u = m
  <2>1. CASE m = n /\ Clear(text, stop)
    <3>1. \A i \in ends : i > n /\ i \in Nat
      BY <1>2, <1>5, <2>1 DEF Clear
    <3>2. k \in Nat /\ ~(k < n)
      <4>1. CASE ends = {}
        BY <4>1
      <4>2. CASE ends # {}
        <5>1. PICK j \in ends : \A i \in ends : j <= i
          <6>1. ends \subseteq Nat
            BY <3>1
          <6> HIDE DEF ends
          <6>2. PICK j \in ends : \A i \in ends : ~ (<<i, j>> \in OpToRel(<, Nat))
            BY <4>2, <6>1, WFMin, NatLessThanWellFounded
          <6>3. ASSUME NEW i \in ends PROVE j <= i
            <7>1. ~ (i < j)
              BY <6>1, <6>2, Zenon DEF OpToRel
            <7> QED BY <6>1, <7>1
          <6> QED BY <6>2, <6>3
        <5>2. k \in ends
          BY <4>2, <5>1
        <5> HIDE DEF k, ends
        <5> QED BY <3>1, <5>2
      <4> QED BY <4>1, <4>2
    <3> HIDE DEF k
    <3> QED BY <1>2, <1>5, <2>1, <3>2
  <2>2. CASE a + m >= l /\ Clear(text, stop)
    <3>1. Len(rest) = m
      BY <1>2, <1>3, <1>5, <2>2
    <3>2. ends = {}
      BY <1>5, <2>2, <3>1 DEF Clear
    <3> HIDE DEF ends
    <3> QED BY <1>2, <1>4, <3>1, <3>2
  <2>3. CASE Stops(text, stop)
    <3>1. m # 0
      BY <2>3 DEF Stops
    <3>2. m \in 1 .. m /\ m \in 1 .. Len(rest) /\ m <= n
      BY <1>2, <1>4, <1>5, <3>1
    <3>3. m \in ends
      BY <1>5, <2>3, <3>2 DEF Stops
    <3>4. ASSUME NEW i \in ends PROVE m <= i
      <4>1. SUFFICES ASSUME i < m PROVE FALSE
        BY <1>2
      <4>2. i \in 1 .. m - 1 /\ i \in 1 .. m
        BY <1>2, <4>1
      <4> QED BY <1>5, <2>3, <4>2 DEF Stops
    <3>5. ends \subseteq Nat
      OBVIOUS
    <3>6. k = m
      <4>1. k \in ends /\ \A j \in ends : k <= j
        BY <3>3, <3>4
      <4> HIDE DEF k, ends
      <4> QED BY <3>3, <3>4, <3>5, <4>1
    <3> HIDE DEF k
    <3> QED BY <1>2, <1>5, <3>2, <3>6
  <2> QED BY <2>1, <2>2, <2>3 DEF Whole, w, a
<1> HIDE DEF u
<1>7. SubSeq(rest, 1, m) = text
  <2> HIDE DEF m, k, ends
  <2>1. SubSeq(rest, 1, m) \in Seq(Nat) /\ Len(SubSeq(rest, 1, m)) = m /\ \A i \in 1 .. m : SubSeq(rest, 1, m)[i] = rest[i]
    <3>1. rest \in Seq(Nat) /\ Len(rest) \in Nat /\ m \in Nat /\ m <= Len(rest)
      BY <1>2, <1>3, <1>5
    <3> QED BY <3>1
  <2> QED BY <1>5, <2>1, SeqEqual DEF m
<1> QED BY <1>1, <1>6, <1>7

(***************************************************************************)
(* The other calls.                                                        *)
(***************************************************************************)
\* What the program may do next fits what the stream is for.
Fits(fp, d) ==
  /\ d = "new" => fp.rp = 0 /\ fp.wp = 0 /\ "PAST" \notin fp.flags
  /\ d = "read" => Reads(fp)

\* The error and the end of file are taken back.
LEMMA ClearDoes ==
  ASSUME NEW st, Typed(st), NEW F \in SUBSET {"ERR", "EOF"}
  PROVE  LET t == On(st, Unflagged(st.fp, F)) IN
         /\ Typed(t) /\ Alike(t.fp, st.fp) /\ t.fp.flags = st.fp.flags \ F /\ t.file = st.file /\ t.fail = st.fail
         /\ t.fp.wp = st.fp.wp /\ t.fp.rp = st.fp.rp /\ t.fp.pos = st.fp.pos
         /\ \A d : Straight(st.fp, d) => Straight(t.fp, d)
         /\ \A d : Fits(st.fp, d) => Fits(t.fp, d)
         /\ \A w, a : Agrees(st.fp, st.file, w, a) => Agrees(t.fp, t.file, w, a)
<1> DEFINE q == Unflagged(st.fp, F)
           t == On(st, q)
<1>1. st \in Steps /\ st.fp \in FILE /\ F \in SUBSET Flags
  BY DEF Typed, Steps, Flags
<1>2. /\ q \in FILE /\ q.flags = st.fp.flags \ F /\ q.buf = st.fp.buf /\ q.len = st.fp.len /\ q.rp = st.fp.rp /\ q.wp = st.fp.wp
      /\ q.lp = st.fp.lp /\ q.pos = st.fp.pos /\ q.mode = st.fp.mode
  BY <1>1, FlagsAlone
<1> HIDE DEF q
<1>3. t \in Steps /\ t.fp = q /\ t.file = st.file /\ t.fail = st.fail
  BY <1>1, <1>2, OnFile
<1> HIDE DEF t
<1>4. Typed(t) /\ Alike(q, st.fp)
  BY <1>2, <1>3 DEF Typed, Sound, Alike
<1>5. \A f \in {"READ", "WRITE", "RW", "LBF", "FBF", "PAST"} : f \in q.flags <=> f \in st.fp.flags
  BY <1>2
<1>6. q.flags \subseteq st.fp.flags
  BY <1>2
<1>7. ASSUME NEW d, Straight(st.fp, d) PROVE Straight(q, d)
  <2>1. Access(q) /\ (Unread(st.fp) => Unread(q))
    BY <1>2, <1>5, <1>7 DEF Access, Unread, Straight
  <2> QED BY <1>2, <1>5, <1>7, <2>1 DEF Straight
<1>8. ASSUME NEW d, Fits(st.fp, d) PROVE Fits(q, d)
  BY <1>2, <1>5, <1>8 DEF Fits, Reads
<1>9. ASSUME NEW w, NEW a, Agrees(st.fp, st.file, w, a) PROVE Agrees(q, st.file, w, a)
  <2>1. CASE "READ" \in st.fp.flags
    <3>1. Ahead(st.fp, st.file, w, a)
      BY <1>9, <2>1 DEF Agrees
    <3>2. Ahead(q, st.file, w, a)
      BY <1>2, <1>5, <1>6, <3>1 DEF Ahead
    <3> QED BY <1>5, <2>1, <3>2 DEF Agrees
  <2>2. CASE "READ" \notin st.fp.flags
    <3>1. Carries(st.fp, st.file, w, a) /\ Unread(st.fp)
          /\ (st.fp.wp # 0 => "WRITE" \in st.fp.flags /\ ("LBF" \in st.fp.flags \/ "FBF" \in st.fp.flags))
      BY <1>9, <2>2 DEF Agrees
    <3>2. Begin(q) = Begin(st.fp) /\ OffsetOf(q, st.file) = OffsetOf(st.fp, st.file)
      BY <1>2 DEF Begin, Cell, OffsetOf
    <3>3. Carries(q, st.file, w, a)
      BY <1>2, <1>5, <1>6, <3>1, <3>2 DEF Carries
    <3>4. Unread(q)
      BY <1>2, <1>5, <3>1 DEF Unread
    <3> QED BY <1>2, <1>5, <2>2, <3>1, <3>3, <3>4 DEF Agrees
  <2> QED BY <2>1, <2>2
<1> QED BY <1>2, <1>3, <1>4, <1>7, <1>8, <1>9 DEF t, q

\* After a flush that went well nothing waits, and the file is what C says.
LEMMA FlushAgrees ==
  ASSUME NEW st, Typed(st), NEW r \in _flsbuf(st), r.ret # EOF, NEW w, NEW a, Agrees(st.fp, st.file, w, a)
  PROVE  /\ Agrees(r.st.fp, r.st.file, w, a) /\ Quiet(r.st.fp) /\ a \in Nat
         /\ r.st.file = w
<1>1. /\ r.ret = 0 /\ r.st.fp.rp = st.fp.rp /\ Alike(r.st.fp, st.fp) /\ r.st.fp.flags = st.fp.flags
  BY FlushGoes
<1>2. CASE "READ" \in st.fp.flags
  <2>1. r.st = st
    BY <1>2, FlushDoes DEF Flushed, Has, Ret
  <2>2. Ahead(st.fp, st.file, w, a)
    BY <1>2 DEF Agrees
  <2> QED BY <1>2, <2>1, <2>2 DEF Ahead, Quiet
<1>3. CASE "READ" \notin st.fp.flags
  <2>1. Carries(st.fp, st.file, w, a) /\ Unread(st.fp)
    BY <1>3 DEF Agrees
  <2>2. Carries(r.st.fp, r.st.file, w, a) /\ r.st.fp.wp = 0 /\ w = r.st.file
    BY <1>1, <2>1, FlushCarries
  <2>3. Unread(r.st.fp)
    BY <1>1, <2>1 DEF Unread, Alike
  <2>4. a \in Nat
    BY <2>1, PlaceIsNext
  <2> QED BY <1>1, <1>3, <2>2, <2>3, <2>4 DEF Agrees, Quiet
<1> QED BY <1>2, <1>3

\* A stream is opened: in an entry that is free.
LEMMA OpenDoes ==
  ASSUME NEW fp \in FILE, fp.flags \subseteq Buffering, NEW file \in Seq(Nat), NEW mode \in {"r", "w", "a", "r+", "w+", "a+"}, NEW fail \in Nat
  PROVE  LET t == [_fpopen(fp, file, mode) EXCEPT !.fail = fail] IN
         /\ Typed(t) /\ t.fail = fail /\ t.file \in Seq(Nat) /\ t.file = (IF mode \in {"w", "w+"} THEN <<>> ELSE file) /\ Open(t.fp)
         /\ Straight(t.fp, "new") /\ Fits(t.fp, "new")
         /\ Agrees(t.fp, t.file, t.file, 0) /\ Doing(t.fp, "new") /\ Flat(t.fp)
<1> DEFINE access == IF mode = "r" THEN "READ" ELSE IF mode \in {"w", "a"} THEN "WRITE" ELSE "RW"
           q == [flags |-> fp.flags \cup {access}, buf |-> <<>>, len |-> fp.len, rp |-> 0, wp |-> 0, lp |-> 0, pos |-> 0, mode |-> mode]
           f == IF mode \in {"w", "w+"} THEN <<>> ELSE file
           t == [_fpopen(fp, file, mode) EXCEPT !.fail = fail]
<1>1. t.fp = q /\ t.file = f /\ t.fail = fail /\ t = [fp |-> q, file |-> f, fail |-> fail]
  <2>1. _fpopen(fp, file, mode) = [fp |-> q, file |-> f, fail |-> 0]
    BY DEF _fpopen, Step
  <2> HIDE DEF q, f
  <2> QED BY <2>1
<1>2. f \in Seq(Nat) /\ <<>> \in Seq(Nat)
  OBVIOUS
<1>3. access \in {"READ", "WRITE", "RW"} /\ (access = "READ" <=> mode = "r") /\ (access = "WRITE" <=> mode \in {"w", "a"})
  OBVIOUS
<1> HIDE DEF access, f, t
<1>4. /\ q.flags = fp.flags \cup {access} /\ q.buf = <<>> /\ q.len = fp.len /\ q.rp = 0 /\ q.wp = 0 /\ q.lp = 0 /\ q.pos = 0 /\ q.mode = mode
  OBVIOUS
<1>5. q \in FILE
  <2>1. fp.flags \cup {access} \in SUBSET Flags
    BY <1>3 DEF Flags, FILE
  <2>2. fp.len \in Nat /\ mode \in Kinds /\ 0 \in Nat
    <3>1. mode \in Kinds
      BY DEF Kinds
    <3>2. fp.len \in Nat
      BY DEF FILE
    <3> QED BY <3>1, <3>2
  <2> QED BY <1>2, <2>1, <2>2 DEF FILE
<1> HIDE DEF q
<1>6. Typed(t)
  BY <1>1, <1>2, <1>4, <1>5 DEF Typed, Steps, Sound
<1>7. /\ "READ" \in q.flags <=> mode = "r"
      /\ "WRITE" \in q.flags <=> mode \in {"w", "a"}
      /\ "RW" \in q.flags <=> mode \notin {"r", "w", "a"}
      /\ "ERR" \notin q.flags /\ "EOF" \notin q.flags /\ "PAST" \notin q.flags
  BY <1>3, <1>4 DEF Buffering
<1>8. Open(q)
  BY <1>3, <1>4 DEF Open
<1>9. Access(q)
  BY <1>4, <1>7 DEF Access
<1>10. q.len \in Nat
  BY <1>5 DEF FILE
<1>11. Straight(q, "new")
  BY <1>4, <1>7, <1>9, <1>10 DEF Straight, Unread
<1>12. Fits(q, "new") /\ Doing(q, "new") /\ Flat(q)
  BY <1>4, <1>7 DEF Fits, Doing, Flat
<1>13. Agrees(q, f, f, 0)
  <2>1. CASE "READ" \in q.flags
    <3>1. Ahead(q, f, f, 0)
      BY <1>4, <1>7, <2>1 DEF Ahead
    <3> QED BY <2>1, <3>1 DEF Agrees
  <2>2. CASE "READ" \notin q.flags
    <3>1. Begin(q) = <<>>
      BY <1>4 DEF Begin
    <3>2. Carries(q, f, f, 0)
      BY <1>4, <1>7, <2>2, <3>1 DEF Carries, Overlay
    <3> QED BY <1>4, <2>2, <3>2 DEF Agrees, Unread
  <2> QED BY <2>1, <2>2
<1> QED BY <1>1, <1>2, <1>6, <1>8, <1>11, <1>12, <1>13 DEF t, f

(***************************************************************************)
(* Moving.                                                                 *)
(***************************************************************************)
\* With nothing left in the buffer a stream may be used in any way.
LEMMA StayStraight ==
  ASSUME NEW fp \in FILE, NEW d, Straight(fp, d), Fits(fp, d), ~Left(fp)
  PROVE  Straight(fp, "any")
<1>1. fp.rp \in Nat /\ fp.wp \in Nat /\ fp.len \in Nat
  BY DEF FILE
<1>2. CASE "READ" \in fp.flags
  <2>1. "RW" \notin fp.flags
    BY <1>2 DEF Straight, Left, Has
  <2> QED BY <1>2, <2>1 DEF Straight
<1>3. CASE "READ" \notin fp.flags
  <2>1. Unread(fp)
    <3>1. CASE "RW" \in fp.flags
      BY <3>1 DEF Left, Has, Unread
    <3>2. CASE "RW" \notin fp.flags
      BY <1>3, <3>2 DEF Straight, Fits, Reads
    <3> QED BY <3>1, <3>2
  <2> QED BY <1>3, <2>1 DEF Straight
<1> QED BY <1>2, <1>3

\* The fields after the move.
LEMMA SeekedFields ==
  ASSUME NEW st, Typed(st), NEW pos \in Nat
  PROVE  LET r == Seeked(st, pos) IN
         /\ r.ret = 0 /\ Typed(r.st) /\ r.st.fail = st.fail /\ r.st.file = st.file /\ Alike(r.st.fp, st.fp)
         /\ r.st.fp.rp = st.fp.rp /\ r.st.fp.wp = st.fp.wp /\ r.st.fp.pos = pos
         /\ r.st.fp.flags = st.fp.flags \ ({"EOF"} \cup IF "RW" \in st.fp.flags THEN {"READ", "WRITE"} ELSE {})
<1> DEFINE p0 == [st.fp EXCEPT !.pos = pos]
           F == {"EOF"} \cup IF Has(st.fp, "RW") THEN {"READ", "WRITE"} ELSE {}
           q == Unflagged(p0, F)
           r == Seeked(st, pos)
<1>1. st \in Steps /\ st.fp \in FILE /\ F \in SUBSET Flags
  BY DEF Typed, Steps, Flags
<1>2. ~(pos < 0)
  OBVIOUS
<1>3. r.st = On(st, q) /\ r.ret = 0
  BY <1>2 DEF Seeked, Ret
<1> HIDE DEF r
<1>4. p0 \in FILE /\ p0.pos = pos /\ Alike(p0, st.fp) /\ p0.wp = st.fp.wp /\ p0.flags = st.fp.flags /\ p0.rp = st.fp.rp
  BY <1>1, PointersAlone
<1> HIDE DEF p0
<1>5. F = {"EOF"} \cup IF "RW" \in st.fp.flags THEN {"READ", "WRITE"} ELSE {}
  BY DEF Has
<1> HIDE DEF F
<1>6. q \in FILE /\ q.flags = p0.flags \ F /\ q.buf = p0.buf /\ q.len = p0.len /\ q.rp = p0.rp
      /\ q.wp = p0.wp /\ q.lp = p0.lp /\ q.pos = p0.pos /\ q.mode = p0.mode
  BY <1>1, <1>4, FlagsAlone
<1> HIDE DEF q
<1>7. On(st, q) \in Steps /\ On(st, q).fp = q /\ On(st, q).file = st.file /\ On(st, q).fail = st.fail
  BY <1>1, <1>6, OnFile
<1>8. Alike(q, st.fp) /\ q.rp = st.fp.rp /\ q.wp = st.fp.wp
  BY <1>4, <1>6 DEF Alike
<1>9. Sound(q)
  BY <1>6, <1>8 DEF Sound, Alike, Typed
<1>10. q.flags = st.fp.flags \ F /\ q.pos = pos
  BY <1>4, <1>6
<1> QED BY <1>3, <1>5, <1>7, <1>8, <1>9, <1>10 DEF r, Typed

\* A stream that was moved, with nothing left in the buffer, is at pos.
LEMMA SeekedDoes ==
  ASSUME NEW st, Typed(st), NEW pos \in Int, NEW r, r = Seeked(st, pos)
  PROVE  /\ Typed(r.st) /\ r.st.fail = st.fail /\ (Open(st.fp) => Open(r.st.fp)) /\ r.ret = IF pos < 0 THEN EOF ELSE 0
         /\ \A d : Straight(st.fp, d) /\ Fits(st.fp, d) /\ ~Left(r.st.fp) =>
              /\ Straight(r.st.fp, "any")
              /\ \A w, a : Agrees(st.fp, st.file, w, a) /\ Quiet(st.fp) =>
                   Quiet(r.st.fp) /\ Agrees(r.st.fp, r.st.file, w, IF pos < 0 THEN a ELSE pos)
<1>1. st.fp \in FILE /\ st.fp.len \in Nat /\ st.fp.rp \in Nat /\ st.fp.wp \in Nat
  BY DEF Typed, Steps, FILE
<1>2. CASE pos < 0
  <2>1. r.st = st /\ r.ret = EOF
    BY <1>2 DEF Seeked, Ret
  <2> QED BY <1>1, <1>2, <2>1, StayStraight
<1>3. CASE ~(pos < 0)
  <2>0. pos \in Nat
    BY <1>3
  <2> DEFINE q == r.st.fp
  <2>1. /\ r.ret = 0 /\ Typed(r.st) /\ r.st.fail = st.fail /\ r.st.file = st.file /\ Alike(q, st.fp)
        /\ q.rp = st.fp.rp /\ q.wp = st.fp.wp /\ q.pos = pos
        /\ q.flags = st.fp.flags \ ({"EOF"} \cup IF "RW" \in st.fp.flags THEN {"READ", "WRITE"} ELSE {})
    BY <2>0, SeekedFields
  <2> HIDE DEF q
  <2>2. /\ \A f \in {"RW", "LBF", "FBF", "PAST", "ERR"} : f \in q.flags <=> f \in st.fp.flags
        /\ "EOF" \notin q.flags
        /\ "RW" \in st.fp.flags => "READ" \notin q.flags
        /\ "RW" \notin st.fp.flags => \A f \in {"READ", "WRITE"} : f \in q.flags <=> f \in st.fp.flags
    BY <2>1
  <2>3. Open(st.fp) => Open(q)
    BY <2>2 DEF Open
  <2>4. ASSUME NEW d, Straight(st.fp, d), Fits(st.fp, d), ~Left(q) PROVE Straight(q, "any")
    <3>1. Access(q)
      BY <2>1, <2>2, <2>4 DEF Access, Straight, Alike
    <3>2. "LBF" \in q.flags \/ "FBF" \in q.flags => "PAST" \notin q.flags /\ q.wp <= q.len
      BY <2>1, <2>2, <2>4 DEF Straight, Alike
    <3>3. q.buf # <<>> => q.lp = q.len /\ q.len # 0
      BY <2>1, <2>4 DEF Straight, Alike
    <3>4. CASE "RW" \in st.fp.flags
      <4>1. q.rp = 0 /\ "READ" \notin q.flags
        BY <2>2, <2>4, <3>4 DEF Left, Has
      <4> QED BY <3>1, <3>2, <3>3, <4>1 DEF Straight, Unread
    <3>5. CASE "RW" \notin st.fp.flags
      <4>1. ~Left(st.fp)
        BY <2>1, <2>2, <2>4, <3>5 DEF Left, Has
      <4>2. Straight(st.fp, "any")
        BY <1>1, <2>4, <4>1, StayStraight
      <4>3. CASE "READ" \in q.flags
        BY <2>1, <2>2, <3>1, <3>2, <3>3, <3>5, <4>2, <4>3 DEF Straight, Alike
      <4>4. CASE "READ" \notin q.flags
        <5>1. Unread(st.fp)
          BY <2>2, <3>5, <4>2, <4>4 DEF Straight
        <5>2. Unread(q)
          BY <2>1, <2>2, <3>5, <5>1 DEF Unread, Alike
        <5> QED BY <3>1, <3>2, <3>3, <4>4, <5>2 DEF Straight
      <4> QED BY <4>3, <4>4
    <3> QED BY <3>4, <3>5
  <2>5. ASSUME NEW d, Straight(st.fp, d), Fits(st.fp, d), ~Left(q), NEW w, NEW a, Agrees(st.fp, st.file, w, a), Quiet(st.fp)
        PROVE  Quiet(q) /\ Agrees(q, st.file, w, pos)
    <3>1. Straight(q, "any")
      BY <2>4, <2>5
    <3>2. w = st.file
      <4>1. CASE "READ" \in st.fp.flags
        BY <2>5, <4>1 DEF Agrees, Ahead
      <4>2. CASE "READ" \notin st.fp.flags
        <5>1. st.fp.wp = 0 /\ w = Overlay(st.file, OffsetOf(st.fp, st.file), Begin(st.fp))
          BY <2>5, <4>2 DEF Agrees, Carries, Quiet
        <5> QED BY <5>1 DEF Begin, Overlay
      <4> QED BY <4>1, <4>2
    <3>3. "ERR" \notin q.flags /\ "PAST" \notin q.flags
      BY <2>2, <2>5 DEF Agrees, Ahead, Carries
    <3>4. CASE "READ" \in q.flags
      <4>1. q.rp = q.wp /\ "READ" \in st.fp.flags
        <5>1. ~(q.rp < q.wp) /\ q.rp <= q.wp
          BY <2>5, <3>1, <3>4 DEF Left, Has, Straight
        <5>2. q.rp = q.wp
          BY <1>1, <2>1, <5>1
        <5> QED BY <2>1, <3>4, <5>2
      <4>2. pos = q.pos - (q.wp - q.rp) /\ ~(q.rp < q.wp)
        BY <1>1, <2>0, <2>1, <4>1
      <4>3. \A i \in 1 .. q.len : q.rp < i /\ i <= q.wp => q.buf[i] = st.file[q.pos - q.wp + i]
        BY <1>1, <2>1, <4>1
      <4>4. Ahead(q, st.file, w, pos)
        BY <2>0, <2>2, <3>2, <3>3, <3>4, <4>2, <4>3 DEF Ahead
      <4> QED BY <3>4, <4>4 DEF Agrees, Quiet
    <3>5. CASE "READ" \notin q.flags
      <4>1. q.wp = 0
        <5>1. CASE "RW" \in st.fp.flags
          BY <2>2, <2>5, <5>1 DEF Left, Has
        <5>2. CASE "RW" \notin st.fp.flags
          BY <2>1, <2>2, <2>5, <3>5, <5>2 DEF Quiet
        <5> QED BY <5>1, <5>2
      <4>2. Unread(q)
        BY <3>1, <3>5 DEF Straight
      <4>3. Begin(q) = <<>>
        BY <4>1 DEF Begin
      <4>4. Carries(q, st.file, w, pos)
        BY <2>1, <2>2, <3>2, <3>3, <3>5, <4>1, <4>3 DEF Carries, Overlay
      <4> QED BY <3>5, <4>1, <4>2, <4>4 DEF Agrees, Quiet
    <3> QED BY <3>4, <3>5
  <2>6. \A d : Straight(st.fp, d) /\ Fits(st.fp, d) /\ ~Left(q) =>
              /\ Straight(q, "any")
              /\ \A w, a : Agrees(st.fp, st.file, w, a) /\ Quiet(st.fp) => Quiet(q) /\ Agrees(q, st.file, w, pos)
    BY <2>4, <2>5
  <2> QED BY <1>3, <2>1, <2>3, <2>6 DEF q
<1> QED BY <1>2, <1>3

\* Where C moves a stream at a of the file w.
Target(off, whence, w, a) == off + (CASE whence = "SET" -> 0 [] whence = "CUR" -> a [] OTHER -> Len(w))

\* The offset that is computed is that.
LEMMA OffsetIs ==
  ASSUME NEW st, Typed(st), NEW off \in Int, NEW whence \in {"SET", "CUR", "END"}
  PROVE  /\ Offset(st, off, whence) \in Int
         /\ \A w, a : Agrees(st.fp, st.file, w, a) /\ Quiet(st.fp) => Offset(st, off, whence) = Target(off, whence, w, a)
<1> DEFINE o == st.fp.pos
           n == st.fp.wp
           i == st.fp.rp
           l == Len(st.file)
<1>1. o \in Nat /\ n \in Nat /\ i \in Nat /\ l \in Nat
  BY DEF Typed, Steps, FILE
<1>2. Offset(st, off, whence) = (IF whence = "CUR" /\ "READ" \in st.fp.flags THEN off - (n - i) ELSE off)
                                + (IF whence = "SET" THEN 0 ELSE IF whence = "CUR" THEN o ELSE l)
  BY DEF Offset, Has
<1>3. Offset(st, off, whence) \in Int
  <2> HIDE DEF o, n, i, l
  <2> QED BY <1>1, <1>2
<1>4. ASSUME NEW w, NEW a, Agrees(st.fp, st.file, w, a), Quiet(st.fp) PROVE Offset(st, off, whence) = Target(off, whence, w, a)
  <2>1. a \in Nat /\ Len(w) = l /\ (IF "READ" \in st.fp.flags THEN a = o - (n - i) ELSE a = o)
    <3>1. CASE "READ" \in st.fp.flags
      BY <1>4, <3>1 DEF Agrees, Ahead
    <3>2. CASE "READ" \notin st.fp.flags
      <4>1. st.fp.wp = 0 /\ w = Overlay(st.file, OffsetOf(st.fp, st.file), Begin(st.fp)) /\ a = st.fp.pos
        BY <1>4, <3>2 DEF Agrees, Carries, Quiet
      <4>2. w = st.file
        BY <4>1 DEF Begin, Overlay
      <4> QED BY <1>1, <3>2, <4>1, <4>2
    <3> QED BY <3>1, <3>2
  <2> HIDE DEF o, n, i, l
  <2>2. CASE whence = "SET"
    BY <1>2, <2>2 DEF Target
  <2>3. CASE whence = "CUR"
    <3>1. Target(off, whence, w, a) = off + a
      BY <2>3 DEF Target
    <3>2. Offset(st, off, whence) = (IF "READ" \in st.fp.flags THEN off - (n - i) ELSE off) + o
      BY <1>2, <2>3
    <3>3. CASE "READ" \in st.fp.flags
      <4>1. Offset(st, off, whence) = off - (n - i) + o /\ a = o - (n - i)
        BY <2>1, <3>2, <3>3
      <4> QED BY <1>1, <3>1, <4>1
    <3>4. CASE "READ" \notin st.fp.flags
      BY <2>1, <3>1, <3>2, <3>4
    <3> QED BY <3>3, <3>4
  <2>4. CASE whence = "END"
    <3>1. Target(off, whence, w, a) = off + l
      BY <2>1, <2>4 DEF Target
    <3>2. Offset(st, off, whence) = off + l
      BY <1>2, <2>4
    <3> QED BY <3>1, <3>2
  <2> QED BY <2>2, <2>3, <2>4
<1> QED BY <1>3, <1>4

\* What fseek() does for st.
Sought(st, r, off, whence) ==
  /\ Typed(r.st) /\ st.fail <= r.st.fail /\ (Open(st.fp) => Open(r.st.fp)) /\ r.ret \in {0, EOF}
  /\ \A d : Straight(st.fp, d) /\ Fits(st.fp, d) /\ ~Left(r.st.fp) =>
       /\ Straight(r.st.fp, "any")
       /\ \A w, a : Agrees(st.fp, st.file, w, a) =>
            \/ r.ret = EOF /\ "ERR" \in r.st.fp.flags /\ r.st.fail > st.fail
            \/ Quiet(r.st.fp) /\ Agrees(r.st.fp, r.st.file, w, IF r.ret = EOF THEN a ELSE Target(off, whence, w, a))
  /\ \A w, a : Agrees(st.fp, st.file, w, a) =>
       \/ r.ret = EOF /\ "ERR" \in r.st.fp.flags /\ r.st.fail > st.fail
       \/ r.ret = IF Target(off, whence, w, a) < 0 THEN EOF ELSE 0

\* A move once nothing waits.
LEMMA SeekOn ==
  ASSUME NEW st, Typed(st), NEW u, Typed(u), st.fail <= u.fail, Open(st.fp) => Open(u.fp),
         \A d : Straight(st.fp, d) /\ Fits(st.fp, d) => Straight(u.fp, d) /\ Fits(u.fp, d),
         \A w, a : Agrees(st.fp, st.file, w, a) => Agrees(u.fp, u.file, w, a) /\ Quiet(u.fp),
         NEW off \in Int, NEW whence \in {"SET", "CUR", "END"}, NEW r, r = Seeked(u, Offset(u, off, whence))
  PROVE  Sought(st, r, off, whence)
<1> DEFINE pos == Offset(u, off, whence)
<1>1. pos \in Int /\ \A w, a : Agrees(u.fp, u.file, w, a) /\ Quiet(u.fp) => pos = Target(off, whence, w, a)
  BY OffsetIs
<1> HIDE DEF pos
<1>2. r = Seeked(u, pos)
  BY DEF pos
<1>3. /\ Typed(r.st) /\ r.st.fail = u.fail /\ (Open(u.fp) => Open(r.st.fp)) /\ r.ret = IF pos < 0 THEN EOF ELSE 0
      /\ \A d : Straight(u.fp, d) /\ Fits(u.fp, d) /\ ~Left(r.st.fp) =>
              /\ Straight(r.st.fp, "any")
              /\ \A w, a : Agrees(u.fp, u.file, w, a) /\ Quiet(u.fp) =>
                   Quiet(r.st.fp) /\ Agrees(r.st.fp, r.st.file, w, IF pos < 0 THEN a ELSE pos)
  BY <1>1, <1>2, SeekedDoes
<1>4. (r.ret = EOF <=> pos < 0) /\ r.ret \in {0, EOF}
  BY <1>3 DEF EOF
<1>5. ASSUME NEW w, NEW a, Agrees(st.fp, st.file, w, a) PROVE pos = Target(off, whence, w, a) /\ Agrees(u.fp, u.file, w, a) /\ Quiet(u.fp)
  BY <1>1, <1>5
<1>6. \A w, a : Agrees(st.fp, st.file, w, a) => r.ret = IF Target(off, whence, w, a) < 0 THEN EOF ELSE 0
  BY <1>3, <1>5
<1>7. ASSUME NEW d, Straight(st.fp, d), Fits(st.fp, d), ~Left(r.st.fp) PROVE Straight(r.st.fp, "any")
  BY <1>3, <1>7
<1>8. ASSUME NEW d, Straight(st.fp, d), Fits(st.fp, d), ~Left(r.st.fp), NEW w, NEW a, Agrees(st.fp, st.file, w, a)
      PROVE  Quiet(r.st.fp) /\ Agrees(r.st.fp, r.st.file, w, IF r.ret = EOF THEN a ELSE Target(off, whence, w, a))
  <2>1. Quiet(r.st.fp) /\ Agrees(r.st.fp, r.st.file, w, IF pos < 0 THEN a ELSE pos)
    BY <1>3, <1>5, <1>8
  <2>2. pos = Target(off, whence, w, a)
    BY <1>5, <1>8
  <2> QED BY <1>4, <2>1, <2>2
<1>9. st.fail <= r.st.fail
  BY <1>3
<1> QED BY <1>3, <1>4, <1>6, <1>7, <1>8, <1>9 DEF Sought

\* Errors and writes that stay keep what the program may do.
LEMMA FlushFits ==
  ASSUME NEW st, Typed(st), NEW r \in _flsbuf(st), NEW d, Fits(st.fp, d)
  PROVE  Fits(r.st.fp, d)
<1>1. Goes(st, r.st) /\ r.st.fp.rp = st.fp.rp /\ r.st.fp.flags \subseteq st.fp.flags \cup {"ERR"} /\ st.fp.flags \subseteq r.st.fp.flags
  BY FlushGoes DEF Goes
<1>2. r.st.fp.wp = st.fp.wp \/ r.st.fp.wp = 0
  BY FlushDoes DEF Flushed, Emptied, Refused, Ret
<1> QED BY <1>1, <1>2 DEF Fits, Reads

\* fseek() moves the stream where C does, or fails for a cause.
LEMMA FseekDoes ==
  ASSUME NEW st, Typed(st), NEW off \in Int, NEW whence \in {"SET", "CUR", "END"}, NEW r \in fseek(st, off, whence)
  PROVE  Sought(st, r, off, whence)
<1>0. st \in Steps /\ st.fail \in Nat /\ st.fp \in FILE
  BY DEF Typed, Steps
<1>1. CASE "ERR" \in st.fp.flags
  <2>1. r.st = st /\ r.ret = EOF
    BY <1>1 DEF fseek, Has, Ret
  <2>2. \A w, a : ~Agrees(st.fp, st.file, w, a)
    BY <1>1 DEF Agrees, Ahead, Carries
  <2>3. \A d : Straight(st.fp, d) /\ Fits(st.fp, d) /\ ~Left(st.fp) => Straight(st.fp, "any")
    BY <1>0, StayStraight
  <2>4. st.fail <= st.fail
    BY <1>0
  <2> QED BY <2>1, <2>2, <2>3, <2>4 DEF Sought
<1>2. CASE "ERR" \notin st.fp.flags /\ "WRITE" \in st.fp.flags
  <2>1. PICK a \in _flsbuf(st) : r = IF a.ret = EOF THEN a ELSE Seeked(a.st, Offset(a.st, off, whence))
    BY <1>2 DEF fseek, Has
  <2>2. Goes(st, a.st) /\ a.ret \in {0, EOF} /\ (a.ret = EOF => "ERR" \in a.st.fp.flags /\ a.st.fail > st.fail)
    BY FlushGoes
  <2>3. Typed(a.st) /\ a.st.fp \in FILE /\ st.fail <= a.st.fail /\ (Open(st.fp) => Open(a.st.fp))
    BY <2>2 DEF Goes, Typed, Steps, Open
  <2>4. \A d : Straight(st.fp, d) /\ Fits(st.fp, d) => Straight(a.st.fp, d) /\ Fits(a.st.fp, d)
    BY FlushStraight, FlushFits
  <2>5. CASE a.ret = EOF
    <3>1. r = a
      BY <2>1, <2>5
    <3>2. ASSUME NEW d, Straight(st.fp, d), Fits(st.fp, d), ~Left(a.st.fp) PROVE Straight(a.st.fp, "any")
      BY <2>3, <2>4, <3>2, StayStraight
    <3> QED BY <2>2, <2>3, <2>5, <3>1, <3>2 DEF Sought
  <2>6. CASE a.ret # EOF
    <3>1. r = Seeked(a.st, Offset(a.st, off, whence))
      BY <2>1, <2>6
    <3>2. \A w, x : Agrees(st.fp, st.file, w, x) => Agrees(a.st.fp, a.st.file, w, x) /\ Quiet(a.st.fp)
      BY <2>6, FlushAgrees
    <3> QED BY <2>3, <2>4, <3>1, <3>2, SeekOn
  <2> QED BY <2>5, <2>6
<1>3. CASE "ERR" \notin st.fp.flags /\ "WRITE" \notin st.fp.flags
  <2>1. r = Seeked(st, Offset(st, off, whence))
    BY <1>3 DEF fseek, Has
  <2>2. \A w, x : Agrees(st.fp, st.file, w, x) => Agrees(st.fp, st.file, w, x) /\ Quiet(st.fp)
    BY <1>3 DEF Agrees, Quiet
  <2>3. st.fail <= st.fail
    BY <1>0
  <2> QED BY <2>1, <2>2, <2>3, SeekOn
<1> QED BY <1>1, <1>2, <1>3

\* rewind() is a move to the begin that takes an error back.
LEMMA RewindDoes ==
  ASSUME NEW st, Typed(st), NEW r \in rewind(st)
  PROVE  /\ Typed(r.st) /\ st.fail <= r.st.fail /\ (Open(st.fp) => Open(r.st.fp)) /\ r.ret \in {0, EOF}
         /\ \A d : Straight(st.fp, d) /\ Fits(st.fp, d) /\ ~Left(r.st.fp) =>
              /\ Straight(r.st.fp, "any")
              /\ \A w, a : Agrees(st.fp, st.file, w, a) =>
                   \/ r.ret = EOF /\ r.st.fail > st.fail
                   \/ r.ret = 0 /\ Quiet(r.st.fp) /\ Agrees(r.st.fp, r.st.file, w, 0)
         /\ \A w, a : Agrees(st.fp, st.file, w, a) => r.ret = 0 \/ r.st.fail > st.fail
<1> DEFINE u == On(st, Unflagged(st.fp, {"ERR"}))
<1>1. /\ Typed(u) /\ u.fp.flags = st.fp.flags \ {"ERR"} /\ u.fail = st.fail
      /\ \A d : Straight(st.fp, d) => Straight(u.fp, d)
      /\ \A d : Fits(st.fp, d) => Fits(u.fp, d)
      /\ \A w, a : Agrees(st.fp, st.file, w, a) => Agrees(u.fp, u.file, w, a)
  BY ClearDoes
<1>2. PICK b \in fseek(u, 0, "SET") : r = Ret(On(b.st, clearerr(b.st.fp)), b.ret)
  BY DEF rewind
<1> HIDE DEF u
<1>3. Sought(u, b, 0, "SET")
  BY <1>1, <1>2, FseekDoes
<1>4. Typed(b.st) /\ b.ret \in {0, EOF} /\ b.st.fail \in Nat /\ u.fail <= b.st.fail
  BY <1>3 DEF Sought, Typed, Steps
<1> DEFINE F == {"ERR", "EOF"}
           v == On(b.st, Unflagged(b.st.fp, F))
<1>0. F \in SUBSET {"ERR", "EOF"}
  OBVIOUS
<1>12. clearerr(b.st.fp) = Unflagged(b.st.fp, F)
  BY DEF clearerr
<1> HIDE DEF F
<1>5. /\ Typed(v) /\ Alike(v.fp, b.st.fp) /\ v.fp.flags = b.st.fp.flags \ F /\ v.fail = b.st.fail
      /\ v.fp.wp = b.st.fp.wp /\ v.fp.rp = b.st.fp.rp
      /\ \A d : Straight(b.st.fp, d) => Straight(v.fp, d)
      /\ \A w, a : Agrees(b.st.fp, b.st.file, w, a) => Agrees(v.fp, v.file, w, a)
  BY <1>0, <1>4, ClearDoes
<1>6. r.st = v /\ r.ret = b.ret
  BY <1>2, <1>12 DEF Ret
<1> HIDE DEF v
<1>7. (Left(b.st.fp) <=> Left(v.fp)) /\ (Quiet(b.st.fp) => Quiet(v.fp)) /\ (Open(b.st.fp) => Open(v.fp)) /\ (Open(st.fp) => Open(u.fp))
  BY <1>1, <1>5 DEF Left, Has, Quiet, Open, F
<1>8. \A w, a : Target(0, "SET", w, a) = 0
  BY DEF Target
<1>9. ASSUME NEW w, NEW a, Agrees(st.fp, st.file, w, a) PROVE b.ret = 0 \/ b.st.fail > st.fail
  BY <1>1, <1>3, <1>8, <1>9 DEF Sought
<1>10. ASSUME NEW d, Straight(st.fp, d), Fits(st.fp, d), ~Left(v.fp) PROVE Straight(v.fp, "any")
  BY <1>1, <1>3, <1>5, <1>7, <1>10 DEF Sought
<1>11. ASSUME NEW d, Straight(st.fp, d), Fits(st.fp, d), ~Left(v.fp), NEW w, NEW a, Agrees(st.fp, st.file, w, a)
       PROVE  \/ b.ret = EOF /\ b.st.fail > st.fail
              \/ b.ret = 0 /\ Quiet(v.fp) /\ Agrees(v.fp, v.file, w, 0)
  <2>1. Agrees(u.fp, u.file, w, a)
    BY <1>1, <1>11
  <2>2. \/ b.ret = EOF /\ "ERR" \in b.st.fp.flags /\ b.st.fail > st.fail
        \/ b.ret = 0
    BY <1>1, <1>3, <1>8, <2>1 DEF Sought
  <2>3. CASE b.ret = EOF /\ b.st.fail > st.fail
    BY <2>3
  <2>4. CASE b.ret = 0
    <3>1. 0 # EOF
      BY DEF EOF
    <3>2. Quiet(b.st.fp) /\ Agrees(b.st.fp, b.st.file, w, 0)
      BY <1>1, <1>3, <1>7, <1>8, <1>11, <2>1, <2>4, <3>1 DEF Sought
    <3> QED BY <1>5, <1>7, <2>4, <3>2
  <2> QED BY <2>2, <2>3, <2>4
<1>13. st.fail <= v.fail /\ v.fail = b.st.fail
  BY <1>1, <1>4, <1>5
<1>14. Typed(v) /\ (Open(st.fp) => Open(v.fp))
  BY <1>3, <1>5, <1>7 DEF Sought
<1> QED BY <1>4, <1>6, <1>9, <1>10, <1>11, <1>13, <1>14

\* setvbuf() of a stream that was not used yet.
LEMMA SetvbufDoes ==
  ASSUME NEW st, Typed(st), NEW mode \in Buffering, NEW amount \in Nat, NEW r \in setvbuf(st, mode, amount)
  PROVE  /\ Typed(r.st) /\ st.fail <= r.st.fail /\ (Open(st.fp) => Open(r.st.fp))
         /\ Straight(st.fp, "new") /\ Fits(st.fp, "new") =>
              /\ r.ret = 0 /\ Straight(r.st.fp, "any") /\ Quiet(r.st.fp)
              /\ \A w, a : Agrees(st.fp, st.file, w, a) => Agrees(r.st.fp, r.st.file, w, a)
<1>1. PICK b \in _flsbuf(st) :
        r = IF b.ret = EOF THEN b
            ELSE LET n == IF mode = "NBF" THEN 1 ELSE IF amount > 0 THEN amount ELSE b.st.fp.len
                     buf == IF mode # "NBF" /\ amount = 0 THEN b.st.fp.buf ELSE Blank(n)
                 IN Ret(On(b.st, Flagged(Unflagged(Placed(b.st.fp, buf, n), {"NBF", "LBF", "FBF"}), {mode})), 0)
  BY DEF setvbuf
<1>2. Goes(st, b.st) /\ b.ret \in {0, EOF}
  BY FlushGoes
<1>3. Typed(b.st) /\ b.st \in Steps /\ b.st.fp \in FILE /\ st.fail <= b.st.fail /\ (Open(st.fp) => Open(b.st.fp))
  BY <1>2 DEF Goes, Typed, Steps, Open
<1>4. Fits(st.fp, "new") => b = Ret(st, 0)
  BY FlushDoes DEF Flushed, Fits
<1>5. CASE b.ret = EOF
  <2>1. r = b
    BY <1>1, <1>5
  <2>2. ~Fits(st.fp, "new")
    BY <1>4, <1>5 DEF Ret, EOF
  <2> QED BY <1>3, <2>1, <2>2
<1>6. CASE b.ret # EOF
  <2> DEFINE fp == b.st.fp
             n == IF mode = "NBF" THEN 1 ELSE IF amount > 0 THEN amount ELSE fp.len
             buf == IF mode # "NBF" /\ amount = 0 THEN fp.buf ELSE Blank(n)
             placed == Placed(fp, buf, n)
             u == Unflagged(placed, {"NBF", "LBF", "FBF"})
             q == Flagged(u, {mode})
  <2>1. r.st = On(b.st, q) /\ r.ret = 0
    BY <1>1, <1>6 DEF Ret
  <2>2. n \in Nat /\ buf \in Seq(Nat) /\ (buf # <<>> => Len(buf) = n)
    <3>1. n \in Nat
      BY <1>3 DEF FILE
    <3>2. CASE mode # "NBF" /\ amount = 0
      <4>1. buf = fp.buf /\ n = fp.len
        BY <3>2
      <4> QED BY <1>3, <3>1, <4>1 DEF Typed, Sound, FILE
    <3>3. CASE ~(mode # "NBF" /\ amount = 0)
      <4>1. NL \in Nat
        BY TextsAssumption
      <4>2. buf = [i \in 1 .. n |-> NL]
        BY <3>3 DEF Blank
      <4> HIDE DEF n, buf
      <4>3. buf \in [1 .. n -> Nat]
        BY <4>1, <4>2
      <4>4. buf \in Seq(Nat) /\ Len(buf) = n
        BY <3>1, <4>3
      <4> QED BY <3>1, <4>4
    <3> QED BY <3>2, <3>3
  <2> HIDE DEF n, buf
  <2>3. placed.flags = fp.flags /\ placed.buf = buf /\ placed.len = n /\ placed.rp = 0 /\ placed.wp = 0 /\ placed.lp = n /\ placed.pos = fp.pos /\ placed.mode = fp.mode
    BY DEF Placed
  <2>4. placed \in FILE
    BY <1>3, <2>2 DEF Placed, FILE
  <2> HIDE DEF placed, fp
  <2>5. {"NBF", "LBF", "FBF"} \in SUBSET Flags /\ {mode} \in SUBSET Flags
    BY DEF Flags, Buffering
  <2>6. /\ u \in FILE /\ u.flags = placed.flags \ {"NBF", "LBF", "FBF"} /\ u.buf = placed.buf /\ u.len = placed.len /\ u.rp = placed.rp /\ u.wp = placed.wp
        /\ u.lp = placed.lp /\ u.pos = placed.pos /\ u.mode = placed.mode
    BY <2>4, <2>5, FlagsAlone
  <2> HIDE DEF u
  <2>7. /\ q \in FILE /\ q.flags = u.flags \cup {mode} /\ q.buf = u.buf /\ q.len = u.len /\ q.rp = u.rp /\ q.wp = u.wp
        /\ q.lp = u.lp /\ q.pos = u.pos /\ q.mode = u.mode
    BY <2>5, <2>6, FlagsAlone
  <2> HIDE DEF q
  <2>8. /\ q.buf = buf /\ q.len = n /\ q.rp = 0 /\ q.wp = 0 /\ q.lp = n /\ q.pos = fp.pos /\ q.mode = fp.mode
        /\ \A f \in {"READ", "WRITE", "RW", "ERR", "EOF", "PAST"} : f \in q.flags <=> f \in fp.flags
    BY <2>3, <2>6, <2>7 DEF Buffering
  <2>9. r.st \in Steps /\ r.st.fp = q /\ r.st.file = b.st.file /\ r.st.fail = b.st.fail
    BY <1>3, <2>1, <2>7, OnFile
  <2>10. Typed(r.st)
    BY <2>2, <2>7, <2>8, <2>9 DEF Typed, Sound
  <2>11. Open(st.fp) => Open(q)
    BY <1>3, <2>8 DEF Open, fp
  <2>12. ASSUME Straight(st.fp, "new"), Fits(st.fp, "new") PROVE Straight(q, "any")
    <3>1. fp = st.fp
      BY <1>4, <2>12 DEF Ret, fp
    <3>2. Access(q)
      BY <2>8, <2>12, <3>1 DEF Access, Straight
    <3>3. "PAST" \notin q.flags
      BY <2>8, <2>12, <3>1 DEF Fits
    <3>4. q.buf # <<>> => q.lp = q.len /\ q.len # 0
      <4>1. buf # <<>> => n # 0
        BY <2>2
      <4> QED BY <2>8, <4>1
    <3>5. "READ" \in q.flags => "RW" \notin q.flags
      BY <2>8, <2>12, <3>1 DEF Straight
    <3>6. 0 <= n
      BY <2>2
    <3> QED BY <2>8, <3>2, <3>3, <3>4, <3>5, <3>6 DEF Straight, Unread
  <2>13. ASSUME Straight(st.fp, "new"), Fits(st.fp, "new"), NEW w, NEW a, Agrees(st.fp, st.file, w, a)
         PROVE  Agrees(q, b.st.file, w, a)
    <3>1. fp = st.fp /\ b.st.file = st.file
      BY <1>4, <2>13 DEF Ret, fp
    <3>2. fp.rp = 0 /\ fp.wp = 0
      BY <2>13, <3>1 DEF Fits
    <3>3. CASE "READ" \in fp.flags
      <4>1. Ahead(fp, b.st.file, w, a)
        BY <2>13, <3>1, <3>3 DEF Agrees
      <4>2. ~(q.rp < q.wp) /\ \A i \in 1 .. q.len : ~(q.rp < i /\ i <= q.wp)
        BY <2>2, <2>8
      <4>3. Ahead(q, b.st.file, w, a)
        BY <2>8, <3>2, <3>3, <4>1, <4>2 DEF Ahead
      <4> QED BY <2>8, <3>3, <4>3 DEF Agrees
    <3>4. CASE "READ" \notin fp.flags
      <4>1. Carries(fp, b.st.file, w, a)
        BY <2>13, <3>1, <3>4 DEF Agrees
      <4>2. Begin(q) = <<>> /\ Begin(fp) = <<>>
        BY <2>8, <3>2 DEF Begin
      <4>3. Carries(q, b.st.file, w, a)
        BY <2>8, <3>2, <4>1, <4>2 DEF Carries, Overlay
      <4> QED BY <2>8, <3>4, <4>3 DEF Agrees, Unread
    <3> QED BY <3>3, <3>4
  <2>14. Quiet(q)
    BY <2>8 DEF Quiet
  <2>15. st.fail <= r.st.fail
    BY <1>3, <2>9
  <2> QED BY <2>1, <2>9, <2>10, <2>11, <2>12, <2>13, <2>14, <2>15
<1> QED BY <1>5, <1>6

\* fclose() leaves the entry free.
LEMMA FcloseDoes ==
  ASSUME NEW st, Typed(st), NEW r \in fclose(st)
  PROVE  /\ Typed(r.st) /\ st.fail <= r.st.fail /\ r.ret \in {0, EOF} /\ r.st.fp.flags \subseteq Buffering /\ ~Open(r.st.fp)
         /\ r.ret = EOF => r.st.fail > st.fail
         /\ r.ret # EOF => \A w, a : Agrees(st.fp, st.file, w, a) => r.st.file = w
<1> DEFINE F == {"WRITE", "READ", "RW", "ERR", "EOF", "PAST"}
<1>1. PICK b \in _flsbuf(st) : r = Ret(On(b.st, Unflagged(b.st.fp, F)), b.ret)
  BY DEF fclose
<1>2. Goes(st, b.st) /\ b.ret \in {0, EOF} /\ (b.ret = EOF => b.st.fail > st.fail)
  BY FlushGoes
<1>3. Typed(b.st) /\ b.st \in Steps /\ b.st.fp \in FILE /\ st.fail <= b.st.fail
  BY <1>2 DEF Goes, Typed, Steps
<1>4. F \in SUBSET Flags /\ Flags \ F \subseteq Buffering
  BY DEF Flags, Buffering
<1>5. \A f \in {"READ", "WRITE", "RW"} : f \in F
  OBVIOUS
<1> HIDE DEF F
<1> DEFINE q == Unflagged(b.st.fp, F)
<1>6. /\ q \in FILE /\ q.flags = b.st.fp.flags \ F /\ q.buf = b.st.fp.buf /\ q.len = b.st.fp.len /\ q.rp = b.st.fp.rp
      /\ q.wp = b.st.fp.wp
  BY <1>3, <1>4, FlagsAlone
<1> HIDE DEF q
<1>7. r.st = On(b.st, q) /\ r.ret = b.ret
  BY <1>1 DEF Ret, q
<1>8. r.st \in Steps /\ r.st.fp = q /\ r.st.file = b.st.file /\ r.st.fail = b.st.fail
  BY <1>3, <1>6, <1>7, OnFile
<1>9. Typed(r.st)
  BY <1>3, <1>6, <1>8 DEF Typed, Sound
<1>10. q.flags \subseteq Buffering
  BY <1>3, <1>4, <1>6 DEF FILE
<1>11. ~Open(q)
  BY <1>5, <1>6 DEF Open
<1>12. ASSUME r.ret # EOF, NEW w, NEW a, Agrees(st.fp, st.file, w, a) PROVE b.st.file = w
  BY <1>7, <1>12, FlushAgrees
<1> QED BY <1>2, <1>3, <1>7, <1>8, <1>9, <1>10, <1>11, <1>12

\* ungetc() keeps the stream whole, and refuses one that agrees with its file.
LEMMA UngetDoes ==
  ASSUME NEW st, Typed(st), NEW c \in Nat, NEW r, r = ungetc(c, st)
  PROVE  /\ Typed(r.st) /\ r.st.fail = st.fail /\ (Open(st.fp) => Open(r.st.fp))
         /\ Straight(st.fp, "read") => Straight(r.st.fp, "read")
         /\ Fits(st.fp, "read") => Fits(r.st.fp, "read")
         /\ \A w, a : Straight(st.fp, "read") /\ Agrees(st.fp, st.file, w, a) => r.st = st
<1>1. CASE Has(st.fp, "WRITE") \/ st.fp.rp = 0 \/ st.fp.wp # 0
  <2>1. r.st = st
    BY <1>1 DEF ungetc, Ret
  <2> QED BY <2>1
<1>2. CASE ~(Has(st.fp, "WRITE") \/ st.fp.rp = 0 \/ st.fp.wp # 0)
  <2> DEFINE k == st.fp.rp - 1
             b == [st.fp.buf EXCEPT ![st.fp.rp] = c]
             p0 == [[st.fp EXCEPT !.rp = @ - 1] EXCEPT !.buf = [st.fp.buf EXCEPT ![st.fp.rp] = c]]
             q == Unflagged(p0, {"EOF"})
  <2>1. r.st = On(st, q)
    BY <1>2 DEF ungetc, Ret
  <2>2. st \in Steps /\ st.fp \in FILE /\ st.fp.rp \in Nat /\ st.fp.buf \in Seq(Nat) /\ st.fp.rp # 0 /\ st.fp.wp = 0 /\ "WRITE" \notin st.fp.flags
        /\ st.fp.len \in Nat
    BY <1>2 DEF Typed, Steps, FILE, Has
  <2>3. st.fp.buf # <<>> /\ Len(st.fp.buf) = st.fp.len
    BY <2>2 DEF Typed, Sound
  <2>4. k \in Nat
    BY <2>2
  <2>5. b \in Seq(Nat) /\ Len(b) = st.fp.len /\ b # <<>>
    <3> DEFINE c0 == st.fp.buf
               i == st.fp.rp
    <3>1. c0 \in Seq(Nat) /\ c0 # <<>>
      BY <2>2, <2>3
    <3> HIDE DEF c0, i
    <3>2. b = [c0 EXCEPT ![i] = c]
      BY DEF c0, i
    <3> HIDE DEF b
    <3>4. c0 \in [1 .. Len(c0) -> Nat] /\ Len(c0) \in Nat
      BY <3>1
    <3>5. b \in [1 .. Len(c0) -> Nat]
      BY <3>2, <3>4
    <3>6. b \in Seq(Nat) /\ Len(b) = Len(c0)
      BY <3>4, <3>5
    <3>7. Len(c0) # 0
      BY <3>1
    <3>3. b \in Seq(Nat) /\ Len(b) = Len(c0) /\ b # <<>>
      BY <3>6, <3>7
    <3> QED BY <2>3, <3>3 DEF c0
  <2> HIDE DEF k, b
  <2>6. /\ p0.flags = st.fp.flags /\ p0.buf = b /\ p0.len = st.fp.len /\ p0.rp = k /\ p0.wp = st.fp.wp
        /\ p0.lp = st.fp.lp /\ p0.pos = st.fp.pos /\ p0.mode = st.fp.mode /\ p0 \in FILE
    <3> DEFINE p1 == [st.fp EXCEPT !.rp = k]
    <3>1. /\ p1 \in FILE /\ p1.flags = st.fp.flags /\ p1.buf = st.fp.buf /\ p1.len = st.fp.len /\ p1.rp = k /\ p1.wp = st.fp.wp
          /\ p1.lp = st.fp.lp /\ p1.pos = st.fp.pos /\ p1.mode = st.fp.mode
      BY <2>2, <2>4 DEF FILE
    <3>2. p0 = [p1 EXCEPT !.buf = b]
      BY DEF b, k
    <3> HIDE DEF p1, p0
    <3> QED BY <2>5, <3>1, <3>2 DEF FILE
  <2> HIDE DEF p0
  <2>7. {"EOF"} \in SUBSET Flags
    BY DEF Flags
  <2>8. /\ q \in FILE /\ q.flags = p0.flags \ {"EOF"} /\ q.buf = p0.buf /\ q.len = p0.len /\ q.rp = p0.rp
        /\ q.wp = p0.wp /\ q.lp = p0.lp /\ q.pos = p0.pos /\ q.mode = p0.mode
    BY <2>6, <2>7, FlagsAlone
  <2> HIDE DEF q
  <2>9. /\ \A f \in {"READ", "WRITE", "RW", "LBF", "FBF", "PAST"} : f \in q.flags <=> f \in st.fp.flags
        /\ q.wp = 0 /\ q.mode = st.fp.mode /\ q.len = st.fp.len /\ q.lp = st.fp.lp
    BY <2>2, <2>6, <2>8
  <2>10. r.st \in Steps /\ r.st.fp = q /\ r.st.fail = st.fail
    BY <2>1, <2>2, <2>8, OnFile
  <2>11. Typed(r.st)
    BY <2>5, <2>6, <2>8, <2>10 DEF Typed, Sound
  <2>12. Open(st.fp) => Open(q)
    BY <2>9 DEF Open
  <2>13. Straight(st.fp, "read") => "READ" \notin st.fp.flags
    BY <2>2 DEF Straight
  <2>14. ASSUME Straight(st.fp, "read") PROVE Straight(q, "read")
    <3>1. Access(q)
      BY <2>9, <2>14 DEF Access, Straight
    <3>2. 0 <= q.len /\ (q.buf # <<>> => q.lp = q.len /\ q.len # 0)
      BY <2>2, <2>3, <2>9, <2>14 DEF Straight
    <3> QED BY <2>9, <2>13, <2>14, <3>1, <3>2 DEF Straight
  <2>15. Fits(st.fp, "read") => Fits(q, "read")
    BY <2>9 DEF Fits, Reads
  <2>16. ASSUME NEW w, NEW a, Straight(st.fp, "read"), Agrees(st.fp, st.file, w, a) PROVE FALSE
    BY <2>2, <2>13, <2>16 DEF Agrees, Unread
  <2> QED BY <2>10, <2>11, <2>12, <2>14, <2>15, <2>16
<1> QED BY <1>1, <1>2

\* ftell() says where the stream is, but for the two ways that it counts otherwise.
LEMMA FtellIs ==
  ASSUME NEW st, Typed(st), NEW w, NEW a, Agrees(st.fp, st.file, w, a)
  PROVE  /\ ftell(st.fp) # EOF
         /\ ftell(st.fp) = a \/ ("WRITE" \in st.fp.flags /\ ("LBF" \in st.fp.flags \/ st.fp.mode \in {"a", "a+"}))
<1>1. st.fp.pos \in Nat /\ st.fp.wp \in Nat /\ st.fp.lp \in Nat
  BY DEF Typed, Steps, FILE
<1>2. "ERR" \notin st.fp.flags
  BY DEF Agrees, Ahead, Carries
<1>3. CASE "READ" \in st.fp.flags
  <2>1. a = st.fp.pos - (st.fp.wp - st.fp.rp) /\ a \in Nat
    BY <1>3 DEF Agrees, Ahead
  <2>2. ftell(st.fp) = a
    BY <1>2, <1>3, <2>1 DEF ftell, Has
  <2> QED BY <2>1, <2>2 DEF EOF
<1>4. CASE "READ" \notin st.fp.flags /\ "WRITE" \in st.fp.flags
  <2>1. ftell(st.fp) = st.fp.pos + (IF "LBF" \in st.fp.flags THEN st.fp.lp ELSE st.fp.wp)
    BY <1>2, <1>4 DEF ftell, Has
  <2>2. ftell(st.fp) # EOF
    BY <1>1, <2>1 DEF EOF
  <2>3. ASSUME "LBF" \notin st.fp.flags, st.fp.mode \notin {"a", "a+"} PROVE ftell(st.fp) = a
    <3>1. ftell(st.fp) = st.fp.pos + st.fp.wp
      BY <2>1, <2>3
    <3>2. a = st.fp.pos + st.fp.wp
      <4>1. a = IF st.fp.wp = 0 THEN st.fp.pos ELSE st.fp.pos + st.fp.wp
        BY <1>4, <2>3 DEF Agrees, Carries, OffsetOf
      <4> QED BY <1>1, <4>1
    <3> QED BY <3>1, <3>2
  <2> QED BY <1>4, <2>2, <2>3
<1>5. CASE "READ" \notin st.fp.flags /\ "WRITE" \notin st.fp.flags
  <2>1. ftell(st.fp) = st.fp.pos
    BY <1>2, <1>5 DEF ftell, Has
  <2>2. st.fp.wp = 0 /\ a = st.fp.pos
    BY <1>5 DEF Agrees, Carries
  <2> QED BY <1>1, <2>1, <2>2 DEF EOF
<1> QED BY <1>3, <1>4, <1>5

(***************************************************************************)
(* The invariant.                                                          *)
(***************************************************************************)
\* All that was written to s should be in its file.
Settled(s) == s \in synced \/ ~flushall \/ (phase = "flush" /\ s < turn) \/ phase = "over"

\* A stream as the program may rely on it: fp agrees with what C says as long as
\* no call has failed, and holds nothing back once all should be written.
Sees(fp, file, w, a, d) == IF Open(fp) THEN Agrees(fp, file, w, a) /\ Doing(fp, d) ELSE w = file
Held(fp, file, w, a, d, failed, settled) ==
  /\ Open(fp) => Straight(fp, d) /\ Fits(fp, d)
  /\ ~failed => Sees(fp, file, w, a, d) /\ (settled => Flat(fp))
StreamHolds(s) == s \notin astray => Held(iob[s], disk[s], want[s], at[s], doing[s], s \in told, Settled(s))

\* How far the program is.
Programs ==
  /\ hooks \in Seq(Letters) /\ phase \in {"run", "exit", "flush", "over"}
  /\ phase \in {"run", "exit"} => turn = 1
  /\ phase = "flush" => turn \in Streams
Entries ==
  /\ disk \in [Streams -> Seq(Nat)] /\ iob \in [Streams -> FILE] /\ faults \in Nat
  /\ \A s \in Streams : Sound(iob[s]) /\ (~Open(iob[s]) => iob[s].flags \subseteq Buffering)
Books ==
  /\ DOMAIN want = Streams /\ DOMAIN at = Streams /\ DOMAIN doing = Streams
  /\ told \subseteq Streams /\ flushall \in BOOLEAN
Caused == faults = 0 => told \subseteq astray

SInv == Entries /\ Books /\ Programs /\ (\A s \in Streams : StreamHolds(s)) /\ wrong = {} /\ Caused

\* What a stream is now.
LEMMA NowIs ==
  ASSUME SInv, NEW s \in Streams
  PROVE  /\ Typed(Now(s)) /\ Now(s).fp = iob[s] /\ Now(s).file = disk[s] /\ Now(s).fail = faults /\ faults \in Nat
         /\ iob[s] \in FILE /\ disk[s] \in Seq(Nat)
<1>1. Sound(iob[s]) /\ iob[s] \in FILE /\ disk[s] \in Seq(Nat) /\ faults \in Nat
  BY DEF SInv, Entries
<1>2. Now(s) = [fp |-> iob[s], file |-> disk[s], fail |-> faults]
  BY DEF Now, Step
<1> QED BY <1>1, <1>2 DEF Typed, Steps

\* A step of one stream keeps the invariant when it keeps what is said of that stream.
LEMMA StepHolds ==
  ASSUME SInv, NEW s \in Streams, NEW q, Typed(q), faults <= q.fail, Commit(s, q),
         ~Open(q.fp) => q.fp.flags \subseteq Buffering,
         Books', Programs', wrong' = {},
         \A r \in Streams \ {s} : /\ want'[r] = want[r] /\ at'[r] = at[r] /\ doing'[r] = doing[r]
                                  /\ (r \in told' <=> r \in told) /\ (r \in astray' <=> r \in astray)
                                  /\ (Settled(r)' => Settled(r)),
         s \notin astray' => Held(q.fp, q.file, want'[s], at'[s], doing'[s], s \in told', Settled(s)'),
         q.fail = 0 /\ s \in told' => s \in astray'
  PROVE  SInv'
<1>1. disk \in [Streams -> Seq(Nat)] /\ iob \in [Streams -> FILE] /\ faults \in Nat
  BY DEF SInv, Entries
<1>2. q.fp \in FILE /\ q.file \in Seq(Nat) /\ q.fail \in Nat /\ Sound(q.fp)
  BY DEF Typed, Steps
<1>3. iob' = [iob EXCEPT ![s] = q.fp] /\ disk' = [disk EXCEPT ![s] = q.file] /\ faults' = q.fail
  BY DEF Commit
<1>4. iob'[s] = q.fp /\ disk'[s] = q.file /\ \A r \in Streams \ {s} : iob'[r] = iob[r] /\ disk'[r] = disk[r]
  BY <1>1, <1>3
<1>5. Entries'
  <2>1. disk' \in [Streams -> Seq(Nat)] /\ iob' \in [Streams -> FILE] /\ faults' \in Nat
    BY <1>1, <1>2, <1>3
  <2>2. ASSUME NEW r \in Streams PROVE Sound(iob'[r]) /\ (~Open(iob'[r]) => iob'[r].flags \subseteq Buffering)
    <3>1. CASE r = s
      BY <1>2, <1>4, <3>1
    <3>2. CASE r # s
      <4>1. iob'[r] = iob[r]
        BY <1>4, <3>2
      <4> QED BY <4>1 DEF SInv, Entries
    <3> QED BY <3>1, <3>2
  <2> QED BY <2>1, <2>2 DEF Entries
<1>6. ASSUME NEW r \in Streams, r \notin astray'
      PROVE  Held(iob'[r], disk'[r], want'[r], at'[r], doing'[r], r \in told', Settled(r)')
  <2>1. CASE r = s
    BY <1>4, <1>6, <2>1
  <2>2. CASE r # s
    <3>1. /\ want'[r] = want[r] /\ at'[r] = at[r] /\ doing'[r] = doing[r] /\ iob'[r] = iob[r] /\ disk'[r] = disk[r]
          /\ (r \in told' <=> r \in told) /\ (r \in astray' <=> r \in astray) /\ (Settled(r)' => Settled(r))
      BY <1>4, <2>2
    <3>2. Held(iob[r], disk[r], want[r], at[r], doing[r], r \in told, Settled(r))
      BY <1>6, <3>1 DEF SInv, StreamHolds
    <3> QED BY <3>1, <3>2 DEF Held
  <2> QED BY <2>1, <2>2
<1>7. \A r \in Streams : StreamHolds(r)'
  BY <1>6 DEF StreamHolds
<1>8. Caused'
  <2> SUFFICES ASSUME faults' = 0, NEW r \in told' PROVE r \in astray'
    BY DEF Caused
  <2>1. q.fail = 0 /\ faults = 0 /\ r \in Streams
    BY <1>1, <1>2, <1>3 DEF Books
  <2>2. CASE r = s
    BY <2>1, <2>2
  <2>3. CASE r # s
    BY <2>1, <2>3 DEF SInv, Caused
  <2> QED BY <2>2, <2>3
<1> QED BY <1>5, <1>7, <1>8 DEF SInv

\* A stream that is good for reading was not written to, and the other way around.
LEMMA MayWrite ==
  ASSUME NEW fp, NEW d, Straight(fp, d), fp.mode # "r", d # "read"
  PROVE  "READ" \notin fp.flags /\ \A e \in {"any", "write"} : Straight(fp, e)
BY DEF Straight, Access

(***************************************************************************)
(* Writing.                                                                *)
(***************************************************************************)
\* What a write tells of a stream, given what it is and what C says of it.
Written(st, r, text, whole) ==
  /\ Writes(st, r.st)
  /\ Straight(st.fp, "write") => Straight(r.st.fp, "write") /\ ("READ" \notin st.fp.flags =>
       \A w, a : Agrees(st.fp, st.file, w, a) =>
                   IF r.ret = whole THEN Agrees(r.st.fp, r.st.file, WantOf(st.fp, w, a, text), AtOf(st.fp, w, a, text))
                   ELSE r.st.fail > st.fail)

\* A call that writes, of the program or of a function of atexit().
LEMMA WrittenHolds ==
  ASSUME SInv, NEW s \in Streams, Writable(s), NEW text \in Seq(Nat), NEW whole, NEW r, Written(Now(s), r, text, whole),
         Commit(s, r.st), Tell(s, r.ret # whole), Adds(s, text), doing' = [doing EXCEPT ![s] = "write"],
         synced' = synced \ {s}, flushall' = TRUE, phase \in {"run", "exit"}, phase' = phase, turn' = turn,
         astray' = astray, wrong' = wrong, Programs'
  PROVE  SInv'
<1> DEFINE q == r.st
           fp == iob[s]
<1>1. /\ Typed(Now(s)) /\ Now(s).fp = fp /\ Now(s).file = disk[s] /\ Now(s).fail = faults /\ faults \in Nat /\ fp \in FILE
  BY NowIs
<1>2. Writes(Now(s), q)
  BY DEF Written
<1>3. Typed(q) /\ faults <= q.fail /\ fp.flags \subseteq q.fp.flags /\ q.fp.flags \subseteq fp.flags \cup {"ERR", "WRITE", "PAST"}
  BY <1>1, <1>2 DEF Writes, Goes
<1>4. Open(fp) /\ fp.mode # "r" /\ doing[s] # "read" /\ Open(q.fp)
  BY <1>3 DEF Writable, Open
<1>5. /\ DOMAIN want = Streams /\ DOMAIN at = Streams /\ DOMAIN doing = Streams /\ told \subseteq Streams /\ wrong = {}
  BY DEF SInv, Books
<1>6. /\ want'[s] = WantOf(fp, want[s], at[s], text) /\ at'[s] = AtOf(fp, want[s], at[s], text) /\ doing'[s] = "write"
      /\ DOMAIN want' = Streams /\ DOMAIN at' = Streams /\ DOMAIN doing' = Streams
      /\ \A e \in Streams \ {s} : want'[e] = want[e] /\ at'[e] = at[e] /\ doing'[e] = doing[e]
  <2>1. want' = [want EXCEPT ![s] = WantOf(fp, want[s], at[s], text)]
    BY DEF Adds, WantOf, PlaceOf, Appends
  <2>2. at' = IF text = <<>> THEN at ELSE [at EXCEPT ![s] = AtOf(fp, want[s], at[s], text)]
    BY DEF Adds, AtOf, PlaceOf, Appends
  <2>3. text = <<>> => AtOf(fp, want[s], at[s], text) = at[s]
    BY DEF AtOf
  <2> QED BY <1>5, <2>1, <2>2, <2>3
<1>7. Books'
  BY <1>5, <1>6 DEF Books, Tell
<1>8. ~Settled(s)'
  BY DEF Settled
<1>9. \A e \in Streams \ {s} : Settled(e)' => Settled(e)
  BY DEF Settled
<1>10. \A e \in Streams \ {s} : (e \in told' <=> e \in told) /\ (e \in astray' <=> e \in astray)
  BY DEF Tell
<1>11. s \notin astray => Straight(fp, doing[s]) /\ (s \notin told => Agrees(fp, disk[s], want[s], at[s]))
  BY <1>4 DEF SInv, StreamHolds, Held, Sees
<1>12. ASSUME s \notin astray PROVE "READ" \notin fp.flags /\ Straight(fp, "write") /\ Straight(q.fp, "write")
  <2>1. "READ" \notin fp.flags /\ Straight(fp, "write")
    BY <1>4, <1>11, <1>12, MayWrite
  <2> QED BY <1>1, <2>1 DEF Written
<1>13. ASSUME s \notin astray, s \notin told
       PROVE  IF r.ret = whole THEN Agrees(q.fp, q.file, want'[s], at'[s]) ELSE q.fail > faults
  BY <1>1, <1>6, <1>11, <1>12, <1>13 DEF Written
<1>14. ASSUME s \notin astray', s \in told' PROVE q.fail # 0
  <2>1. CASE s \in told
    <3>1. faults # 0
      BY <1>14, <2>1 DEF SInv, Caused
    <3> QED BY <1>1, <1>3, <3>1 DEF Typed, Steps
  <2>2. CASE s \notin told
    <3>1. q.fail > faults
      BY <1>13, <1>14, <2>2 DEF Tell
    <3> QED BY <1>1, <3>1
  <2> QED BY <2>1, <2>2
<1>15. ASSUME s \notin astray' PROVE Held(q.fp, q.file, want'[s], at'[s], doing'[s], s \in told', Settled(s)')
  <2>1. Straight(q.fp, "write") /\ "READ" \notin fp.flags
    BY <1>12, <1>15
  <2>2. Fits(q.fp, "write") /\ Doing(q.fp, "write")
    BY <1>3, <2>1 DEF Fits, Doing
  <2>3. s \notin told' => Agrees(q.fp, q.file, want'[s], at'[s])
    BY <1>13, <1>15 DEF Tell
  <2> QED BY <1>4, <1>6, <1>8, <2>1, <2>2, <2>3 DEF Held, Sees
<1> HIDE DEF q, fp
<1>16. Commit(s, q)
  BY DEF q
<1> QED BY <1>3, <1>4, <1>5, <1>6, <1>7, <1>9, <1>10, <1>14, <1>15, <1>16, StepHolds

\* putc(), fputs(), puts(), fwrite() and the functions of atexit() are such calls.
LEMMA PutcWrites ==
  ASSUME NEW st, Typed(st), NEW ch \in Nat, NEW r \in putc(ch, st)
  PROVE  Written(st, r, <<ch>>, ch) /\ (r.ret = EOF <=> r.ret # ch)
<1>1. PutsWell(st, r, ch)
  BY PutDoes
<1>2. ch # EOF
  BY DEF EOF
<1> QED BY <1>1, <1>2 DEF Written, PutsWell, PutsAgree

\* fputs() and puts() of a text.
LEMMA TextWrites ==
  ASSUME NEW st, Typed(st), NEW text \in Seq(Nat), NEW r \in PutAll(text, st)
  PROVE  Written(st, r, text, Len(text))
<1>1. AllPut(st, r, text)
  BY PutAllDoes
<1> QED BY <1>1 DEF Written, AllPut, AllAgree

\* fwrite() of members of two characters.
LEMMA MembersWrite ==
  ASSUME NEW st, Typed(st), NEW text \in Seq(Nat), Len(text) % 2 = 0, NEW r \in fwrite(text, 2, st)
  PROVE  Written(st, r, text, Len(text) \div 2)
<1>1. MembersPut(st, r, text, Len(text) \div 2)
  BY FwriteDoes
<1> QED BY <1>1 DEF Written, MembersPut

\* Texts are sequences of characters.
LEMMA TextIsSeq == ASSUME NEW text \in Texts PROVE text \in Seq(Nat)
<1>1. text \in Seq(Letters) /\ Letters \subseteq Nat
  BY TextsAssumption
<1>2. text \in [1 .. Len(text) -> Letters] /\ Len(text) \in Nat
  BY <1>1
<1>3. text \in [1 .. Len(text) -> Nat]
  BY <1>1, <1>2
<1> QED BY <1>2, <1>3

\* A call that writes keeps the invariant.
LEMMA WriteHolds ==
  ASSUME SInv, NEW s \in Streams, NEW text \in Seq(Nat), NEW whole, NEW X, \A r \in X : Written(Now(s), r, text, whole),
         Write(s, X, text, whole)
  PROVE  SInv'
<1>1. PICK r \in X : Commit(s, r.st) /\ Tell(s, r.ret # whole)
  BY DEF Write
<1>2. /\ Writable(s) /\ Adds(s, text) /\ doing' = [doing EXCEPT ![s] = "write"] /\ synced' = synced \ {s} /\ flushall' = TRUE
      /\ phase = "run" /\ phase' = phase /\ turn' = turn /\ hooks' = hooks /\ astray' = astray /\ wrong' = wrong
  BY DEF Write, Running, Same
<1>3. Programs'
  BY <1>2 DEF SInv, Programs
<1>4. Written(Now(s), r, text, whole) /\ phase \in {"run", "exit"}
  BY <1>2
<1> QED BY <1>1, <1>2, <1>3, <1>4, WrittenHolds

\* putc() keeps the invariant.
LEMMA PutcHolds == ASSUME SInv, NEW s \in Streams, NEW ch \in Letters, Putc(s, ch) PROVE SInv'
<1>1. ch \in Nat /\ <<ch>> \in Seq(Nat) /\ Typed(Now(s))
  BY TextsAssumption, NowIs
<1>2. \A r \in putc(ch, Now(s)) : Written(Now(s), r, <<ch>>, ch)
  BY <1>1, PutcWrites
<1> QED BY <1>1, <1>2, WriteHolds DEF Putc

\* fputs() keeps the invariant.
LEMMA FputsHolds == ASSUME SInv, NEW s \in Streams, NEW text \in Texts, Fputs(s, text) PROVE SInv'
<1>1. text \in Seq(Nat) /\ Typed(Now(s))
  BY TextIsSeq, NowIs
<1>2. \A r \in fputs(text, Now(s)) : Written(Now(s), r, text, Len(text))
  BY <1>1, TextWrites DEF fputs
<1> QED BY <1>1, <1>2, WriteHolds DEF Fputs

\* puts() keeps the invariant.
LEMMA PutsHolds == ASSUME SInv, NEW text \in Texts, Puts(text) PROVE SInv'
<1>1. text \in Seq(Nat) /\ NL \in Nat /\ stdout \in Streams
  <2>1. stdout \in Streams
    BY BuffersAssumption DEF Streams, stdout
  <2>2. NL \in Nat
    BY TextsAssumption
  <2> QED BY <2>1, <2>2, TextIsSeq
<1>2. Append(text, NL) \in Seq(Nat) /\ Len(Append(text, NL)) = Len(text) + 1 /\ Typed(Now(stdout))
  BY <1>1, NowIs
<1>3. \A r \in puts(text, Now(stdout)) : Written(Now(stdout), r, Append(text, NL), Len(text) + 1)
  BY <1>2, TextWrites DEF puts
<1> QED BY <1>1, <1>2, <1>3, WriteHolds DEF Puts

\* fwrite() keeps the invariant.
LEMMA FwriteHolds == ASSUME SInv, NEW s \in Streams, NEW text \in Texts, Fwrite(s, text) PROVE SInv'
<1>1. text \in Seq(Nat) /\ Typed(Now(s)) /\ Len(text) % 2 = 0
  BY TextIsSeq, NowIs DEF Fwrite
<1>2. \A r \in fwrite(text, 2, Now(s)) : Written(Now(s), r, text, Len(text) \div 2)
  BY <1>1, MembersWrite
<1> QED BY <1>1, <1>2, WriteHolds DEF Fwrite

\* A function of atexit() that writes to stdout keeps the invariant.
LEMMA RunHookHolds == ASSUME SInv, RunHook PROVE SInv'
<1>1. hooks \in Seq(Letters) /\ hooks # <<>> /\ phase = "exit" /\ phase' = phase /\ turn' = turn /\ hooks' = Front(hooks)
      /\ astray' = astray /\ wrong' = wrong
  BY DEF SInv, Programs, RunHook
<1>2. Len(hooks) \in 1 .. Len(hooks) /\ Last(hooks) = hooks[Len(hooks)] /\ Last(hooks) \in Letters
  BY <1>1 DEF Last
<1>3. Front(hooks) \in Seq(Letters)
  BY <1>1, <1>2 DEF Front
<1>4. Programs'
  BY <1>1, <1>3 DEF SInv, Programs
<1>5. stdout \in Streams
  BY BuffersAssumption DEF Streams, stdout
<1>6. CASE Writable(stdout) /\ Len(want[stdout]) < MaxLen
  <2> DEFINE c == Last(hooks)
  <2>0. c \in Letters
    BY <1>2
  <2> HIDE DEF c
  <2>1. c \in Nat /\ <<c>> \in Seq(Nat)
    <3>1. c \in Nat
      BY <2>0, TextsAssumption
    <3> QED BY <3>1
  <2>2. PICK r \in putc(c, Now(stdout)) : Commit(stdout, r.st) /\ Tell(stdout, r.ret = EOF)
    BY <1>6 DEF RunHook, c
  <2>3. Written(Now(stdout), r, <<c>>, c) /\ (r.ret = EOF <=> r.ret # c)
    BY <1>5, <2>1, PutcWrites, NowIs
  <2>4. Tell(stdout, r.ret # c)
    BY <2>2, <2>3
  <2>5. /\ Adds(stdout, <<c>>) /\ doing' = [doing EXCEPT ![stdout] = "write"] /\ synced' = synced \ {stdout} /\ flushall' = TRUE
    BY <1>6 DEF RunHook, c
  <2>6. Writable(stdout) /\ phase \in {"run", "exit"}
    BY <1>1, <1>6
  <2> QED BY <1>1, <1>4, <1>5, <2>1, <2>2, <2>3, <2>4, <2>5, <2>6, WrittenHolds
<1>7. CASE ~(Writable(stdout) /\ Len(want[stdout]) < MaxLen)
  <2>1. UNCHANGED <<disk, iob, faults, told, want, at, doing, flushall, synced, phase, turn, astray, wrong>>
    BY <1>1, <1>7 DEF RunHook
  <2> QED BY <1>4, <2>1 DEF SInv, Entries, Books, Caused, StreamHolds, Settled
<1> QED BY <1>6, <1>7

(***************************************************************************)
(* Reading.                                                                *)
(***************************************************************************)
\* A stream that may be read may go on being read.
LEMMA MayRead ==
  ASSUME NEW fp, NEW d, Straight(fp, d), fp.mode \in {"r", "r+", "w+", "a+"}, d # "write"
  PROVE  Straight(fp, "read") /\ Reads(fp)
BY DEF Straight, Access, Reads

\* What a good stream is when the program reads: it holds nothing to be written.
LEMMA GoodToRead ==
  ASSUME SInv, NEW s \in Streams, Readable(s), s \notin astray
  PROVE  /\ Straight(iob[s], "read") /\ Reads(iob[s])
         /\ s \notin told => Agrees(iob[s], disk[s], want[s], at[s]) /\ Quiet(iob[s])
<1>1. Open(iob[s]) /\ iob[s].mode \in {"r", "r+", "w+", "a+"} /\ doing[s] # "write"
  BY DEF Readable
<1>2. Held(iob[s], disk[s], want[s], at[s], doing[s], s \in told, Settled(s))
  BY DEF SInv, StreamHolds
<1>3. Straight(iob[s], doing[s])
  BY <1>1, <1>2 DEF Held
<1>4. ASSUME s \notin told PROVE Agrees(iob[s], disk[s], want[s], at[s]) /\ Quiet(iob[s])
  BY <1>1, <1>2, <1>4 DEF Held, Sees, Doing, Quiet
<1> QED BY <1>1, <1>3, <1>4, MayRead

\* A read that is not told to have failed gives what C says.
LEMMA ReadsRight ==
  ASSUME SInv, NEW s \in Streams, Readable(s), NEW n \in Nat, NEW stop, NEW b, ReadOn(Now(s), b, n, stop),
         s \notin astray, s \notin told, "ERR" \notin b.st.fp.flags
  PROVE  /\ Came(b.text, want[s], at[s], n, stop, b.ends) /\ b.text = Expected(s, n, stop)
         /\ Quiet(b.st.fp) /\ Agrees(b.st.fp, b.st.file, want[s], at[s] + Len(b.text))
<1>1. Typed(Now(s)) /\ Now(s).fp = iob[s] /\ Now(s).file = disk[s]
  BY NowIs
<1>2. Straight(iob[s], "read") /\ Reads(iob[s]) /\ Agrees(iob[s], disk[s], want[s], at[s]) /\ Quiet(iob[s])
  BY GoodToRead
<1>3. Came(b.text, want[s], at[s], n, stop, b.ends) /\ Quiet(b.st.fp) /\ Agrees(b.st.fp, b.st.file, want[s], at[s] + Len(b.text))
  BY <1>1, <1>2 DEF ReadOn
<1>4. b.text \in Seq(Nat) /\ Len(b.text) <= n
  BY DEF ReadOn
<1>5. want[s] \in Seq(Nat) /\ at[s] \in Nat
  BY <1>1, <1>2, ReadsFile
<1>6. Whole(b.text, want[s], at[s], n, stop)
  BY <1>3, <1>4, CameWhole
<1>7. Expected(s, n, stop) = b.text
  BY <1>4, <1>5, <1>6, ExpectedIs
<1> QED BY <1>3, <1>7

\* A read of a text that gave nothing wrong keeps the invariant.
LEMMA ReadHolds ==
  ASSUME SInv, NEW s \in Streams, Readable(s), NEW n \in Nat, NEW stop, NEW b, ReadOn(Now(s), b, n, stop),
         Commit(s, b.st), Tell(s, Has(b.st.fp, "ERR")), at' = [at EXCEPT ![s] = @ + Len(b.text)],
         doing' = [doing EXCEPT ![s] = "read"], wrong' = {},
         UNCHANGED <<hooks, phase, turn, flushall, want, synced, astray>>
  PROVE  SInv'
<1> DEFINE q == b.st
           fp == iob[s]
<1>1. /\ Typed(Now(s)) /\ Now(s).fp = fp /\ Now(s).file = disk[s] /\ Now(s).fail = faults /\ faults \in Nat /\ fp \in FILE
  BY NowIs
<1>2. Goes(Now(s), q)
  BY DEF ReadOn
<1>3. Typed(q) /\ faults <= q.fail /\ fp.flags \subseteq q.fp.flags /\ q.fp.mode = fp.mode
  BY <1>1, <1>2 DEF Goes
<1>4. Open(fp) /\ fp.mode \in {"r", "r+", "w+", "a+"} /\ Open(q.fp)
  BY <1>3 DEF Readable, Open
<1>5. /\ DOMAIN want = Streams /\ DOMAIN at = Streams /\ DOMAIN doing = Streams /\ told \subseteq Streams /\ flushall \in BOOLEAN
  BY DEF SInv, Books
<1>6. /\ want'[s] = want[s] /\ at'[s] = at[s] + Len(b.text) /\ doing'[s] = "read"
      /\ DOMAIN want' = Streams /\ DOMAIN at' = Streams /\ DOMAIN doing' = Streams
      /\ \A e \in Streams \ {s} : want'[e] = want[e] /\ at'[e] = at[e] /\ doing'[e] = doing[e]
  BY <1>5
<1>7. Books'
  BY <1>5, <1>6 DEF Books, Tell
<1>8. \A e \in Streams \ {s} : (Settled(e)' => Settled(e)) /\ (e \in told' <=> e \in told) /\ (e \in astray' <=> e \in astray)
  BY DEF Settled, Tell
<1>9. Programs'
  BY DEF SInv, Programs
<1>10. s \notin astray => Straight(q.fp, "read")
  BY <1>1, GoodToRead DEF ReadOn
<1>11. ASSUME s \notin astray', s \in told' PROVE q.fail # 0
  <2>1. CASE s \in told
    <3>1. faults # 0
      BY <1>11, <2>1 DEF SInv, Caused
    <3> QED BY <1>1, <1>3, <3>1 DEF Typed, Steps
  <2>2. CASE s \notin told
    <3>1. "ERR" \in q.fp.flags
      BY <1>11, <2>2 DEF Tell, Has
    <3>2. Straight(fp, "read") /\ Reads(fp) /\ Agrees(fp, disk[s], want[s], at[s]) /\ Quiet(fp)
      BY <1>11, <2>2, GoodToRead
    <3>3. q.fail > faults \/ Agrees(q.fp, q.file, want[s], at[s] + Len(b.text))
      BY <1>1, <3>2 DEF ReadOn
    <3>4. q.fail > faults
      BY <3>1, <3>3 DEF Agrees, Ahead, Carries
    <3> QED BY <1>1, <3>4
  <2> QED BY <2>1, <2>2
<1>12. ASSUME s \notin astray' PROVE Held(q.fp, q.file, want'[s], at'[s], doing'[s], s \in told', Settled(s)')
  <2>1. Straight(q.fp, "read")
    BY <1>10, <1>12
  <2>2. Fits(q.fp, "read")
    BY <1>3, <1>4, <2>1 DEF Fits, Straight, Access, Reads
  <2>3. ASSUME s \notin told'
        PROVE  Quiet(q.fp) /\ Agrees(q.fp, q.file, want[s], at[s] + Len(b.text))
    <3>1. s \notin told /\ s \notin astray /\ "ERR" \notin q.fp.flags
      BY <1>12, <2>3 DEF Tell, Has
    <3> QED BY <3>1, ReadsRight
  <2>4. ASSUME s \notin told' PROVE Doing(q.fp, "read") /\ Flat(q.fp)
    BY <2>3, <2>4 DEF Doing, Flat, Quiet
  <2> QED BY <1>4, <1>6, <2>1, <2>2, <2>3, <2>4 DEF Held, Sees
<1> HIDE DEF q, fp
<1>13. Commit(s, q)
  BY DEF q
<1> QED BY <1>3, <1>4, <1>6, <1>7, <1>8, <1>9, <1>11, <1>12, <1>13, StepHolds

\* getc() reads a text of one character.
LEMMA GetcReads ==
  ASSUME NEW st, Typed(st), NEW r \in getc(st)
  PROVE  LET text == IF r.ret = EOF THEN <<>> ELSE <<r.ret>> IN ReadOn(st, Got(r.st, text, r.ret = EOF), 1, {})
<1> DEFINE text == IF r.ret = EOF THEN <<>> ELSE <<r.ret>>
           b == Got(r.st, text, r.ret = EOF)
<1>1. GetsWell(st, r)
  BY GetDoes
<1>2. Goes(st, r.st) /\ r.ret \in Nat \cup {EOF}
  BY <1>1 DEF GetsWell
<1>3. text \in Seq(Nat) /\ Len(text) = (IF r.ret = EOF THEN 0 ELSE 1) /\ (r.ret # EOF => text[1] = r.ret)
  <2>1. CASE r.ret = EOF
    BY <2>1
  <2>2. CASE r.ret # EOF
    <3>1. r.ret \in Nat
      BY <1>2, <2>2
    <3> QED BY <2>2, <3>1
  <2> QED BY <2>1, <2>2
<1> HIDE DEF text
<1>4. b.st = r.st /\ b.text = text /\ b.ends = (r.ret = EOF)
  BY DEF Got
<1> HIDE DEF b
<1>5. b.ends \in BOOLEAN /\ Len(text) <= 1
  BY <1>3, <1>4
<1>6. ASSUME Straight(st.fp, "read"), Reads(st.fp), NEW w, NEW a, Agrees(st.fp, st.file, w, a), Quiet(st.fp)
      PROVE  \/ b.ends /\ "ERR" \in b.st.fp.flags /\ b.st.fail > st.fail
             \/ Quiet(b.st.fp) /\ Agrees(b.st.fp, b.st.file, w, a + Len(b.text)) /\ Came(b.text, w, a, 1, {}, b.ends)
  <2>1. GetAgree(st, r)
    BY <1>1, <1>6 DEF GetsWell
  <2>2. w \in Seq(Nat) /\ a \in Nat
    BY <1>6, ReadsFile
  <2>3. CASE r.ret # EOF
    <3>1. Quiet(r.st.fp) /\ a + 1 <= Len(w) /\ r.ret = w[a + 1] /\ Agrees(r.st.fp, r.st.file, w, a + 1)
      BY <1>6, <2>1, <2>3 DEF GetAgree
    <3>2. Len(text) = 1 /\ text[1] = r.ret
      BY <1>3, <2>3
    <3>3. Begins(text, w, a) /\ Clear(text, {})
      BY <3>1, <3>2 DEF Begins, Clear
    <3> QED BY <1>4, <2>3, <3>1, <3>2, <3>3 DEF Came
  <2>4. CASE r.ret = EOF
    <3>1. Quiet(r.st.fp) /\ (("ERR" \in r.st.fp.flags /\ r.st.fail > st.fail) \/ (a >= Len(w) /\ Agrees(r.st.fp, r.st.file, w, a)))
      BY <1>6, <2>1, <2>4 DEF GetAgree
    <3>2. Len(text) = 0 /\ a + Len(text) = a
      BY <1>3, <2>2, <2>4
    <3>3. Begins(text, w, a) /\ Clear(text, {})
      BY <3>2 DEF Begins, Clear
    <3>4. a >= Len(w) => Came(text, w, a, 1, {}, TRUE)
      BY <3>2, <3>3 DEF Came
    <3> QED BY <1>4, <2>4, <3>1, <3>2, <3>4
  <2> QED BY <2>3, <2>4
<1>7. ReadOn(st, b, 1, {})
  BY <1>1, <1>2, <1>3, <1>4, <1>5, <1>6 DEF ReadOn, GetsWell
<1> QED BY <1>7 DEF b, text

\* getc() keeps the invariant.
LEMMA GetcHolds == ASSUME SInv, NEW s \in Streams, Getc(s) PROVE SInv'
<1> DEFINE want1 == Expected(s, 1, {})
           text(r) == IF r.ret = EOF THEN <<>> ELSE <<r.ret>>
<1> DEFINE X == {[st |-> r.st, ret |-> r.ret, text |-> text(r)] : r \in getc(Now(s))}
<1>0. PICK x \in X :
        /\ Commit(s, x.st) /\ Tell(s, Has(x.st.fp, "ERR"))
        /\ Blame(s, "getc", x.text # want1 \/ x.ret # IF want1 = <<>> THEN EOF ELSE want1[1])
        /\ at' = [at EXCEPT ![s] = @ + Len(x.text)]
  BY DEF Getc, Read
<1>01. PICK r \in getc(Now(s)) : x = [st |-> r.st, ret |-> r.ret, text |-> text(r)]
  OBVIOUS
<1>02. x.st = r.st /\ x.ret = r.ret /\ x.text = text(r)
  <2> HIDE DEF text
  <2> QED BY <1>01
<1> HIDE DEF X
<1>1. /\ Commit(s, r.st) /\ Tell(s, Has(r.st.fp, "ERR"))
      /\ Blame(s, "getc", text(r) # want1 \/ r.ret # IF want1 = <<>> THEN EOF ELSE want1[1])
      /\ at' = [at EXCEPT ![s] = @ + Len(text(r))]
  <2> HIDE DEF text, want1
  <2> QED BY <1>0, <1>02
<1>2. /\ Readable(s) /\ doing' = [doing EXCEPT ![s] = "read"]
      /\ UNCHANGED <<hooks, phase, turn, flushall, want, synced, astray>>
  BY DEF Getc, Read, Same
<1>3. Typed(Now(s))
  BY NowIs
<1> DEFINE t == text(r)
           b == Got(r.st, t, r.ret = EOF)
<1>4. ReadOn(Now(s), b, 1, {})
  BY <1>3, GetcReads
<1>5. t # <<>> => t[1] = r.ret
  OBVIOUS
<1>6. t = <<>> => r.ret = EOF
  OBVIOUS
<1>7. Commit(s, r.st) /\ Tell(s, Has(r.st.fp, "ERR")) /\ at' = [at EXCEPT ![s] = @ + Len(t)]
      /\ Blame(s, "getc", t # want1 \/ r.ret # IF want1 = <<>> THEN EOF ELSE want1[1])
  BY <1>1
<1>8. b.st = r.st /\ b.text = t
  BY DEF Got
<1> HIDE DEF b, t, want1
<1>9. s \notin astray /\ s \notin told /\ "ERR" \notin r.st.fp.flags => t = want1
  BY <1>2, <1>4, <1>8, ReadsRight DEF want1
<1>10. s \notin told' \cup astray => t = want1
  BY <1>2, <1>7, <1>9 DEF Tell, Has
<1>11. wrong' = {}
  BY <1>5, <1>6, <1>7, <1>10 DEF Blame, SInv
<1> QED BY <1>2, <1>4, <1>7, <1>8, <1>11, ReadHolds

\* fread() keeps the invariant.
LEMMA FreadHolds == ASSUME SInv, NEW s \in Streams, Fread(s) PROVE SInv'
<1> DEFINE want1 == Expected(s, 2, {})
<1>1. fread(2, 1, Now(s)) = {[st |-> a.st, ret |-> Len(a.text) \div 2, text |-> a.text] : a \in GetAll(2, {}, Now(s))}
  BY DEF fread
<1>01. PICK x \in fread(2, 1, Now(s)) :
         /\ Commit(s, x.st) /\ Tell(s, Has(x.st.fp, "ERR")) /\ Blame(s, "fread", x.text # want1 \/ x.ret # Len(want1) \div 2)
         /\ at' = [at EXCEPT ![s] = @ + Len(x.text)]
  BY DEF Fread, Read
<1>02. PICK b \in GetAll(2, {}, Now(s)) :
         x = [st |-> b.st, ret |-> Len(b.text) \div 2, text |-> b.text]
  BY <1>1
<1> HIDE DEF want1
<1>2. /\ Commit(s, b.st) /\ Tell(s, Has(b.st.fp, "ERR"))
      /\ Blame(s, "fread", b.text # want1 \/ Len(b.text) \div 2 # Len(want1) \div 2)
      /\ at' = [at EXCEPT ![s] = @ + Len(b.text)]
  <2>1. x.st = b.st /\ x.text = b.text /\ x.ret = (Len(b.text) \div 2)
    BY <1>02
  <2> QED BY <1>01, <2>1
<1>3. /\ Readable(s) /\ doing' = [doing EXCEPT ![s] = "read"]
      /\ UNCHANGED <<hooks, phase, turn, flushall, want, synced, astray>>
  BY DEF Fread, Read, Same
<1>4. Typed(Now(s))
  BY NowIs
<1>5. ReadOn(Now(s), b, 2, {})
  BY <1>4, GetAllDoes
<1>6. s \notin astray /\ s \notin told /\ "ERR" \notin b.st.fp.flags => b.text = want1
  BY <1>3, <1>5, ReadsRight DEF want1
<1>7. s \notin told' \cup astray => b.text = want1
  BY <1>2, <1>3, <1>6 DEF Tell, Has
<1>8. wrong' = {}
  BY <1>2, <1>7 DEF Blame, SInv
<1> QED BY <1>2, <1>3, <1>5, <1>8, ReadHolds

\* fgets() keeps the invariant.
LEMMA FgetsHolds == ASSUME SInv, NEW s \in Streams, NEW n \in Nat, n > 1, Fgets(s, n) PROVE SInv'
<1> DEFINE want1 == Expected(s, n - 1, {NL})
<1>1. fgets(n, Now(s)) = {[st |-> a.st, ret |-> IF a.ends /\ a.text = <<>> THEN EOF ELSE 0, text |-> a.text] :
                           a \in GetAll(n - 1, {NL}, Now(s))}
  BY DEF fgets
<1>01. PICK x \in fgets(n, Now(s)) :
         /\ Commit(s, x.st) /\ Tell(s, Has(x.st.fp, "ERR")) /\ Blame(s, "fgets", x.text # want1 \/ x.ret # IF want1 = <<>> THEN EOF ELSE 0)
         /\ at' = [at EXCEPT ![s] = @ + Len(x.text)]
  BY DEF Fgets, Read
<1>02. PICK b \in GetAll(n - 1, {NL}, Now(s)) :
         x = [st |-> b.st, ret |-> IF b.ends /\ b.text = <<>> THEN EOF ELSE 0, text |-> b.text]
  BY <1>1
<1> HIDE DEF want1
<1>2. /\ Commit(s, b.st) /\ Tell(s, Has(b.st.fp, "ERR"))
      /\ Blame(s, "fgets", b.text # want1 \/ (IF b.ends /\ b.text = <<>> THEN EOF ELSE 0) # IF want1 = <<>> THEN EOF ELSE 0)
      /\ at' = [at EXCEPT ![s] = @ + Len(b.text)]
  <2>1. x.st = b.st /\ x.text = b.text /\ x.ret = (IF b.ends /\ b.text = <<>> THEN EOF ELSE 0)
    BY <1>02
  <2> QED BY <1>01, <2>1
<1>3. /\ Readable(s) /\ doing' = [doing EXCEPT ![s] = "read"]
      /\ UNCHANGED <<hooks, phase, turn, flushall, want, synced, astray>>
  BY DEF Fgets, Read, Same
<1>4. Typed(Now(s)) /\ n - 1 \in Nat /\ n - 1 # 0
  BY NowIs
<1>5. ReadOn(Now(s), b, n - 1, {NL})
  BY <1>4, GetAllDoes
<1>6. ASSUME s \notin astray, s \notin told, "ERR" \notin b.st.fp.flags PROVE b.text = want1 /\ (b.text = <<>> => b.ends)
  <2>1. b.text = want1 /\ Came(b.text, want[s], at[s], n - 1, {NL}, b.ends)
    BY <1>3, <1>4, <1>5, <1>6, ReadsRight DEF want1
  <2>2. b.text = <<>> => Len(b.text) = 0
    OBVIOUS
  <2> QED BY <1>4, <2>1, <2>2 DEF Came
<1>7. s \notin told' \cup astray => b.text = want1 /\ (b.text = <<>> => b.ends)
  BY <1>2, <1>3, <1>6 DEF Tell, Has
<1>8. wrong' = {}
  BY <1>2, <1>7 DEF Blame, SInv
<1> QED BY <1>2, <1>3, <1>4, <1>5, <1>8, ReadHolds

\* ungetc() refuses a good stream, and keeps the others whole.
LEMMA UngetcHolds == ASSUME SInv, NEW s \in Streams, NEW c \in Letters, Ungetc(s, c) PROVE SInv'
<1> DEFINE r == ungetc(c, Now(s))
           q == r.st
           fp == iob[s]
<1>1. /\ Typed(Now(s)) /\ Now(s).fp = fp /\ Now(s).file = disk[s] /\ Now(s).fail = faults /\ faults \in Nat /\ Now(s).fp \in FILE
  BY NowIs
<1>2. c \in Nat
  BY TextsAssumption
<1>3. /\ Typed(q) /\ q.fail = faults /\ (Open(fp) => Open(q.fp))
      /\ Straight(fp, "read") => Straight(q.fp, "read")
      /\ Fits(fp, "read") => Fits(q.fp, "read")
      /\ \A w, a : Straight(fp, "read") /\ Agrees(fp, disk[s], w, a) => q = Now(s)
  <2> DEFINE st == Now(s)
  <2>1. /\ Typed(r.st) /\ r.st.fail = st.fail /\ (Open(st.fp) => Open(r.st.fp))
        /\ Straight(st.fp, "read") => Straight(r.st.fp, "read")
        /\ Fits(st.fp, "read") => Fits(r.st.fp, "read")
        /\ \A w, a : Straight(st.fp, "read") /\ Agrees(st.fp, st.file, w, a) => r.st = st
    <3> HIDE DEF st
    <3>1. Typed(st) /\ r = ungetc(c, st)
      BY <1>1 DEF st
    <3> HIDE DEF r
    <3> QED BY <1>2, <3>1, UngetDoes
  <2> HIDE DEF r
  <2> QED BY <1>1, <2>1
<1>4. /\ Readable(s) /\ doing[s] = "read" /\ Commit(s, q)
      /\ UNCHANGED <<hooks, phase, turn, flushall, want, at, doing, synced, told, astray, wrong>>
  BY DEF Ungetc, Same
<1>5. Open(fp)
  BY <1>4 DEF Readable
<1>6. Books' /\ Programs' /\ wrong' = {}
  BY <1>4 DEF SInv, Books, Programs
<1>7. \A e \in Streams \ {s} : Settled(e)' => Settled(e)
  BY <1>4 DEF Settled
<1>8. ASSUME s \notin astray' PROVE Held(q.fp, q.file, want'[s], at'[s], doing'[s], s \in told', Settled(s)')
  <2>1. Held(fp, disk[s], want[s], at[s], doing[s], s \in told, Settled(s))
    BY <1>4, <1>8 DEF SInv, StreamHolds
  <2>2. Straight(fp, "read") /\ Fits(fp, "read")
    BY <1>4, <1>5, <2>1 DEF Held
  <2>3. CASE s \in told
    BY <1>3, <1>4, <1>5, <2>2, <2>3 DEF Held
  <2>4. CASE s \notin told
    <3>1. Agrees(fp, disk[s], want[s], at[s])
      BY <1>5, <2>1, <2>4 DEF Held, Sees
    <3>2. q = Now(s)
      BY <1>3, <2>2, <3>1
    <3>3. q.fp = fp /\ q.file = disk[s]
      BY <1>1, <3>2
    <3>4. Settled(s)' <=> Settled(s)
      BY <1>4 DEF Settled
    <3>5. want' = want /\ at' = at /\ doing' = doing /\ told' = told
      BY <1>4
    <3> HIDE DEF q, fp
    <3>6. want'[s] = want[s] /\ at'[s] = at[s] /\ doing'[s] = doing[s] /\ s \notin told'
      BY <2>4, <3>5
    <3> QED BY <2>1, <2>4, <3>3, <3>4, <3>6 DEF Held
  <2> QED BY <2>3, <2>4
<1>9. q.fail = 0 /\ s \in told' => s \in astray'
  BY <1>3, <1>4 DEF SInv, Caused
<1> HIDE DEF q, fp
<1>10. faults <= q.fail
  BY <1>1, <1>3
<1> QED BY <1>3, <1>4, <1>5, <1>6, <1>7, <1>8, <1>9, <1>10, StepHolds

(***************************************************************************)
(* Moving.                                                                 *)
(***************************************************************************)
\* What a move to target tells of a stream that has w and is at a.
MovedTo(st, r, target, w, a) ==
  /\ Typed(r.st) /\ st.fail <= r.st.fail /\ (Open(st.fp) => Open(r.st.fp))
  /\ \A d : Straight(st.fp, d) /\ Fits(st.fp, d) /\ ~Left(r.st.fp) =>
       /\ Straight(r.st.fp, "any")
       /\ Agrees(st.fp, st.file, w, a) =>
            \/ r.ret = EOF /\ (target >= 0 \/ "ERR" \in r.st.fp.flags) /\ r.st.fail > st.fail
            \/ Quiet(r.st.fp) /\ Agrees(r.st.fp, r.st.file, w, IF r.ret = EOF THEN a ELSE target)
  /\ Agrees(st.fp, st.file, w, a) =>
       /\ target \in Int
       /\ \/ r.ret = EOF /\ (target >= 0 \/ "ERR" \in r.st.fp.flags) /\ r.st.fail > st.fail
          \/ r.ret = IF target < 0 THEN EOF ELSE 0

\* A move keeps the invariant.
LEMMA MovedHolds ==
  ASSUME SInv, NEW s \in Streams, NEW X, NEW target, \A r \in X : MovedTo(Now(s), r, target, want[s], at[s]),
         Moved(s, X, target)
  PROVE  SInv'
<1> DEFINE fp == iob[s]
<1>1. /\ Typed(Now(s)) /\ Now(s).fp = fp /\ Now(s).file = disk[s] /\ Now(s).fail = faults /\ faults \in Nat
  BY NowIs
<1>2. PICK r \in X :
        /\ Commit(s, r.st)
        /\ Tell(s, r.ret = EOF /\ (target >= 0 \/ Has(r.st.fp, "ERR")))
        /\ Blame(s, "fseek", target < 0 /\ r.ret # EOF)
        /\ at' = IF r.ret = EOF \/ target < 0 THEN at ELSE [at EXCEPT ![s] = target]
        /\ astray' = IF Left(r.st.fp) THEN astray \cup {s} ELSE astray
  BY DEF Moved
<1>3. /\ Open(fp) /\ doing' = [doing EXCEPT ![s] = "any"]
      /\ UNCHANGED <<hooks, phase, turn, flushall, want, synced>>
  BY DEF Moved, Same
<1>4. MovedTo(Now(s), r, target, want[s], at[s])
  OBVIOUS
<1> DEFINE q == r.st
<1>5. Typed(q) /\ faults <= q.fail /\ Open(q.fp)
  BY <1>1, <1>3, <1>4 DEF MovedTo
<1>6. ASSUME Agrees(fp, disk[s], want[s], at[s])
      PROVE  /\ target \in Int
             /\ \/ r.ret = EOF /\ (target >= 0 \/ "ERR" \in q.fp.flags) /\ q.fail > faults
                \/ r.ret = IF target < 0 THEN EOF ELSE 0
  BY <1>1, <1>4, <1>6 DEF MovedTo
<1>7. ASSUME s \notin astray, ~Left(q.fp)
      PROVE  /\ Straight(q.fp, "any")
             /\ s \notin told => \/ r.ret = EOF /\ (target >= 0 \/ "ERR" \in q.fp.flags) /\ q.fail > faults
                                 \/ Quiet(q.fp) /\ Agrees(q.fp, q.file, want[s], IF r.ret = EOF THEN at[s] ELSE target)
  <2>1. Straight(fp, doing[s]) /\ Fits(fp, doing[s]) /\ (s \notin told => Agrees(fp, disk[s], want[s], at[s]))
    BY <1>3, <1>7 DEF SInv, StreamHolds, Held, Sees
  <2> QED BY <1>1, <1>4, <1>7, <2>1 DEF MovedTo
<1>8. s \notin astray /\ s \notin told => Agrees(fp, disk[s], want[s], at[s])
  BY <1>3 DEF SInv, StreamHolds, Held, Sees
<1>9. /\ DOMAIN want = Streams /\ DOMAIN at = Streams /\ DOMAIN doing = Streams /\ told \subseteq Streams /\ flushall \in BOOLEAN
      /\ wrong = {}
  BY DEF SInv, Books
<1>10. EOF # 0
  BY DEF EOF
<1> HIDE DEF q, fp
<1>11. wrong' = {}
  <2>1. s \notin told' \cup astray => ~(target < 0 /\ r.ret # EOF)
    <3> SUFFICES ASSUME s \notin told', s \notin astray PROVE ~(target < 0 /\ r.ret # EOF)
      OBVIOUS
    <3>1. s \notin told
      BY <1>2 DEF Tell
    <3> QED BY <1>6, <1>8, <3>1
  <2> QED BY <1>2, <1>9, <2>1 DEF Blame
<1>12. /\ DOMAIN at' = Streams /\ want' = want /\ doing'[s] = "any" /\ DOMAIN doing' = Streams
       /\ at'[s] = (IF r.ret = EOF \/ target < 0 THEN at[s] ELSE target)
       /\ \A e \in Streams \ {s} : at'[e] = at[e] /\ doing'[e] = doing[e]
  BY <1>2, <1>3, <1>9
<1>13. Books' /\ Programs'
  <2>1. told' \subseteq Streams
    BY <1>2, <1>9 DEF Tell
  <2> QED BY <1>3, <1>9, <1>12, <2>1 DEF SInv, Books, Programs
<1>14. \A e \in Streams \ {s} : (Settled(e)' => Settled(e)) /\ (e \in told' <=> e \in told) /\ (e \in astray' <=> e \in astray)
  BY <1>2, <1>3 DEF Settled, Tell
<1>15. ASSUME s \notin astray' PROVE s \notin astray /\ ~Left(q.fp)
  BY <1>2, <1>15 DEF q
<1>16. ASSUME s \notin astray', s \in told' PROVE q.fail # 0
  <2>1. CASE s \in told
    <3>1. faults # 0
      BY <1>15, <1>16, <2>1 DEF SInv, Caused
    <3> QED BY <1>1, <1>5, <3>1 DEF Typed, Steps
  <2>2. CASE s \notin told
    <3>1. r.ret = EOF /\ (target >= 0 \/ "ERR" \in q.fp.flags)
      BY <1>2, <1>16, <2>2 DEF Tell, Has, q
    <3>2. q.fail > faults
      <4>1. s \notin astray /\ ~Left(q.fp) /\ Agrees(fp, disk[s], want[s], at[s])
        BY <1>8, <1>15, <1>16, <2>2
      <4>2. "ERR" \in q.fp.flags => q.fail > faults
        BY <1>7, <2>2, <4>1 DEF Agrees, Ahead, Carries
      <4>3. target >= 0 => q.fail > faults
        BY <1>6, <1>10, <3>1, <4>1
      <4> QED BY <3>1, <4>2, <4>3
    <3> QED BY <1>1, <3>2
  <2> QED BY <2>1, <2>2
<1>17. ASSUME s \notin astray' PROVE Held(q.fp, q.file, want'[s], at'[s], doing'[s], s \in told', Settled(s)')
  <2>1. Straight(q.fp, "any") /\ Fits(q.fp, "any")
    BY <1>7, <1>15, <1>17 DEF Fits
  <2>2. ASSUME s \notin told' PROVE Quiet(q.fp) /\ Agrees(q.fp, q.file, want'[s], at'[s])
    <3>1. s \notin told /\ ~(r.ret = EOF /\ (target >= 0 \/ "ERR" \in q.fp.flags))
      BY <1>2, <2>2 DEF Tell, Has, q
    <3>2. s \notin astray /\ ~Left(q.fp)
      BY <1>15, <1>17
    <3>3. Quiet(q.fp) /\ Agrees(q.fp, q.file, want[s], IF r.ret = EOF THEN at[s] ELSE target)
      BY <1>7, <3>1, <3>2
    <3>4. r.ret # EOF => ~(target < 0)
      BY <1>6, <1>8, <3>1, <3>2
    <3> QED BY <1>12, <3>3, <3>4
  <2>3. s \notin told' => Doing(q.fp, "any") /\ Flat(q.fp)
    BY <2>2 DEF Doing, Flat, Quiet
  <2> QED BY <1>5, <1>12, <2>1, <2>2, <2>3 DEF Held, Sees
<1>18. Commit(s, q)
  BY <1>2 DEF q
<1>19. \A e \in Streams \ {s} : want'[e] = want[e]
  BY <1>12
<1> QED BY <1>5, <1>11, <1>12, <1>13, <1>14, <1>16, <1>17, <1>18, <1>19, StepHolds

\* fseek() and rewind() are such moves.
LEMMA FseekHolds ==
  ASSUME SInv, NEW s \in Streams, NEW off \in Int, NEW whence \in {"SET", "CUR", "END"}, Fseek(s, off, whence)
  PROVE  SInv'
<1> DEFINE st == Now(s)
           w == want[s]
           a == at[s]
           target == Target(off, whence, w, a)
<1>1. Typed(st)
  BY NowIs
<1>2. Moved(s, fseek(st, off, whence), target)
  BY DEF Fseek, Target
<1> HIDE DEF st, w, a
<1>3. ASSUME Agrees(st.fp, st.file, w, a) PROVE target \in Int
  <2>1. w \in Seq(Nat) /\ a \in Nat
    <3>1. CASE "READ" \in st.fp.flags
      <4>1. w = st.file /\ a \in Nat
        BY <1>3, <3>1 DEF Agrees, Ahead
      <4> QED BY <1>1, <4>1 DEF Typed, Steps
    <3>2. CASE "READ" \notin st.fp.flags
      BY <1>1, <1>3, <3>2, AgreesIsFile
    <3> QED BY <3>1, <3>2
  <2>2. Len(w) \in Nat
    BY <2>1
  <2> QED BY <2>1, <2>2 DEF Target
<1>4. ASSUME NEW r \in fseek(st, off, whence) PROVE MovedTo(st, r, target, w, a)
  <2>1. Sought(st, r, off, whence)
    BY <1>1, FseekDoes
  <2> HIDE DEF target
  <2>2. ASSUME NEW d, Straight(st.fp, d), Fits(st.fp, d), ~Left(r.st.fp)
        PROVE  /\ Straight(r.st.fp, "any")
               /\ Agrees(st.fp, st.file, w, a) =>
                    \/ r.ret = EOF /\ "ERR" \in r.st.fp.flags /\ r.st.fail > st.fail
                    \/ Quiet(r.st.fp) /\ Agrees(r.st.fp, r.st.file, w, IF r.ret = EOF THEN a ELSE target)
    BY <2>1, <2>2 DEF Sought, target
  <2>3. Agrees(st.fp, st.file, w, a) =>
          \/ r.ret = EOF /\ "ERR" \in r.st.fp.flags /\ r.st.fail > st.fail
          \/ r.ret = IF target < 0 THEN EOF ELSE 0
    BY <2>1 DEF Sought, target
  <2>4. Typed(r.st) /\ st.fail <= r.st.fail /\ (Open(st.fp) => Open(r.st.fp))
    BY <2>1 DEF Sought
  <2> QED BY <1>3, <2>2, <2>3, <2>4 DEF MovedTo
<1> QED BY <1>2, <1>4, MovedHolds DEF st, w, a

\* rewind() keeps the invariant.
LEMMA RewindHolds == ASSUME SInv, NEW s \in Streams, Rewind(s) PROVE SInv'
<1> DEFINE st == Now(s)
           w == want[s]
           a == at[s]
<1>1. Typed(st)
  BY NowIs
<1>2. Moved(s, rewind(st), 0)
  BY DEF Rewind
<1> HIDE DEF st, w, a
<1>3. ASSUME NEW r \in rewind(st) PROVE MovedTo(st, r, 0, w, a)
  <2>1. /\ Typed(r.st) /\ st.fail <= r.st.fail /\ (Open(st.fp) => Open(r.st.fp)) /\ r.ret \in {0, EOF}
        /\ Agrees(st.fp, st.file, w, a) => r.ret = 0 \/ r.st.fail > st.fail
    BY <1>1, RewindDoes
  <2>2. ASSUME NEW d, Straight(st.fp, d), Fits(st.fp, d), ~Left(r.st.fp)
        PROVE  /\ Straight(r.st.fp, "any")
               /\ Agrees(st.fp, st.file, w, a) =>
                    \/ r.ret = EOF /\ r.st.fail > st.fail
                    \/ r.ret = 0 /\ Quiet(r.st.fp) /\ Agrees(r.st.fp, r.st.file, w, 0)
    BY <1>1, <2>2, RewindDoes
  <2>3. 0 # EOF /\ ~(0 < 0) /\ 0 >= 0 /\ 0 \in Int
    BY DEF EOF
  <2> QED BY <2>1, <2>2, <2>3 DEF MovedTo
<1> QED BY <1>2, <1>3, MovedHolds DEF st, w, a

(***************************************************************************)
(* The other calls of the program.                                         *)
(***************************************************************************)
\* fflush(): after it nothing waits, or the program is told.
LEMMA FflushHolds == ASSUME SInv, NEW s \in Streams, Fflush(s) PROVE SInv'
<1> DEFINE fp == iob[s]
<1>1. /\ Typed(Now(s)) /\ Now(s).fp = fp /\ Now(s).file = disk[s] /\ Now(s).fail = faults /\ faults \in Nat
  BY NowIs
<1>2. PICK r \in _flsbuf(Now(s)) :
        Commit(s, r.st) /\ Tell(s, r.ret = EOF) /\ synced' = IF r.ret = EOF THEN synced ELSE synced \cup {s}
  BY DEF Fflush
<1>3. /\ Writable(s) /\ doing' = [doing EXCEPT ![s] = "any"]
      /\ UNCHANGED <<hooks, phase, turn, flushall, want, at, astray, wrong>>
  BY DEF Fflush, Same
<1> DEFINE q == r.st
<1>4. /\ Typed(q) /\ faults <= q.fail /\ (Open(fp) => Open(q.fp)) /\ r.ret \in {0, EOF} /\ (r.ret = EOF => q.fail > faults)
      /\ q.fp.flags \subseteq fp.flags \cup {"ERR"}
  BY <1>1, FlushGoes DEF Goes, Open
<1>5. Open(fp) /\ fp.mode # "r" /\ doing[s] # "read"
  BY <1>3 DEF Writable
<1>6. /\ DOMAIN want = Streams /\ DOMAIN at = Streams /\ DOMAIN doing = Streams /\ told \subseteq Streams /\ flushall \in BOOLEAN
      /\ wrong = {}
  BY DEF SInv, Books
<1>7. s \notin astray => Straight(fp, doing[s]) /\ (s \notin told => Agrees(fp, disk[s], want[s], at[s]))
  BY <1>5 DEF SInv, StreamHolds, Held, Sees
<1>8. ASSUME s \notin astray PROVE Straight(q.fp, "any") /\ "READ" \notin q.fp.flags
  <2>1. "READ" \notin fp.flags /\ Straight(fp, "any")
    BY <1>5, <1>7, <1>8, MayWrite
  <2> QED BY <1>1, <1>4, <2>1, FlushStraight
<1>9. ASSUME s \notin astray, s \notin told, r.ret # EOF PROVE Agrees(q.fp, q.file, want[s], at[s]) /\ Quiet(q.fp)
  BY <1>1, <1>7, <1>9, FlushAgrees
<1> HIDE DEF q, fp
<1>10. doing'[s] = "any" /\ DOMAIN doing' = Streams /\ (\A e \in Streams \ {s} : doing'[e] = doing[e]) /\ want' = want /\ at' = at
  BY <1>3, <1>6
<1>11. Books' /\ Programs' /\ wrong' = {}
  <2>1. told' \subseteq Streams
    BY <1>2, <1>6 DEF Tell
  <2> QED BY <1>3, <1>6, <1>10, <2>1 DEF SInv, Books, Programs
<1>12. \A e \in Streams \ {s} : (Settled(e)' => Settled(e)) /\ (e \in told' <=> e \in told) /\ (e \in astray' <=> e \in astray)
  BY <1>2, <1>3 DEF Settled, Tell
<1>13. ASSUME s \notin astray', s \in told' PROVE q.fail # 0
  <2>1. CASE s \in told
    <3>1. faults # 0
      BY <1>3, <1>13, <2>1 DEF SInv, Caused
    <3> QED BY <1>1, <1>4, <3>1 DEF Typed, Steps
  <2>2. CASE s \notin told
    <3>1. q.fail > faults
      BY <1>2, <1>4, <1>13, <2>2 DEF Tell
    <3> QED BY <1>1, <3>1
  <2> QED BY <2>1, <2>2
<1>14. ASSUME s \notin astray' PROVE Held(q.fp, q.file, want'[s], at'[s], doing'[s], s \in told', Settled(s)')
  <2>1. Straight(q.fp, "any") /\ Fits(q.fp, "any")
    BY <1>3, <1>8, <1>14 DEF Fits
  <2>2. ASSUME s \notin told' PROVE Agrees(q.fp, q.file, want[s], at[s]) /\ Quiet(q.fp)
    <3>1. s \notin told /\ r.ret # EOF
      BY <1>2, <2>2 DEF Tell
    <3> QED BY <1>3, <1>9, <1>14, <3>1
  <2>3. s \notin told' => Doing(q.fp, "any") /\ Flat(q.fp)
    BY <2>2 DEF Doing, Flat, Quiet
  <2> QED BY <1>4, <1>5, <1>10, <2>1, <2>2, <2>3 DEF Held, Sees
<1>15. Commit(s, q)
  BY <1>2 DEF q
<1> QED BY <1>4, <1>5, <1>10, <1>11, <1>12, <1>13, <1>14, <1>15, StepHolds

\* setvbuf() of a stream that is new.
LEMMA SetvbufHolds ==
  ASSUME SInv, NEW s \in Streams, NEW mode \in {"NBF", "LBF", "FBF"}, NEW amount \in Nat, Setvbuf(s, mode, amount)
  PROVE  SInv'
<1> DEFINE fp == iob[s]
<1>1. /\ Typed(Now(s)) /\ Now(s).fp = fp /\ Now(s).file = disk[s] /\ Now(s).fail = faults /\ faults \in Nat
  BY NowIs
<1>2. PICK r \in setvbuf(Now(s), mode, amount) : Commit(s, r.st) /\ Tell(s, r.ret = EOF)
  BY DEF Setvbuf
<1>3. /\ Open(fp) /\ doing[s] = "new" /\ doing' = [doing EXCEPT ![s] = "any"]
      /\ UNCHANGED <<hooks, phase, turn, flushall, want, at, synced, astray, wrong>>
  BY DEF Setvbuf, Same
<1> DEFINE q == r.st
<1>4. /\ Typed(q) /\ faults <= q.fail /\ (Open(fp) => Open(q.fp))
      /\ Straight(fp, "new") /\ Fits(fp, "new") =>
           /\ r.ret = 0 /\ Straight(q.fp, "any") /\ Quiet(q.fp)
           /\ \A w, a : Agrees(fp, disk[s], w, a) => Agrees(q.fp, q.file, w, a)
  <2>1. mode \in Buffering
    BY DEF Buffering
  <2> DEFINE st == Now(s)
  <2>2. /\ Typed(r.st) /\ st.fail <= r.st.fail /\ (Open(st.fp) => Open(r.st.fp))
        /\ Straight(st.fp, "new") /\ Fits(st.fp, "new") =>
             /\ r.ret = 0 /\ Straight(r.st.fp, "any") /\ Quiet(r.st.fp)
             /\ \A w, a : Agrees(st.fp, st.file, w, a) => Agrees(r.st.fp, r.st.file, w, a)
    BY <1>1, <2>1, SetvbufDoes
  <2> QED BY <1>1, <2>2
<1>5. /\ DOMAIN want = Streams /\ DOMAIN at = Streams /\ DOMAIN doing = Streams /\ told \subseteq Streams /\ flushall \in BOOLEAN
      /\ wrong = {}
  BY DEF SInv, Books
<1>6. ASSUME s \notin astray PROVE r.ret = 0 /\ Straight(q.fp, "any") /\ Quiet(q.fp)
                                   /\ (s \notin told => Agrees(q.fp, q.file, want[s], at[s]))
  <2>1. Straight(fp, "new") /\ Fits(fp, "new") /\ (s \notin told => Agrees(fp, disk[s], want[s], at[s]))
    BY <1>3, <1>6 DEF SInv, StreamHolds, Held, Sees
  <2> QED BY <1>4, <2>1
<1>7. EOF # 0
  BY DEF EOF
<1> HIDE DEF q, fp
<1>8. doing'[s] = "any" /\ DOMAIN doing' = Streams /\ (\A e \in Streams \ {s} : doing'[e] = doing[e]) /\ want' = want /\ at' = at
  BY <1>3, <1>5
<1>9. Books' /\ Programs' /\ wrong' = {}
  <2>1. told' \subseteq Streams
    BY <1>2, <1>5 DEF Tell
  <2> QED BY <1>3, <1>5, <1>8, <2>1 DEF SInv, Books, Programs
<1>10. \A e \in Streams \ {s} : (Settled(e)' => Settled(e)) /\ (e \in told' <=> e \in told) /\ (e \in astray' <=> e \in astray)
  BY <1>2, <1>3 DEF Settled, Tell
<1>11. ASSUME s \notin astray', s \in told' PROVE q.fail # 0
  <2>1. s \in told
    BY <1>2, <1>3, <1>6, <1>7, <1>11 DEF Tell
  <2>2. faults # 0
    BY <1>3, <1>11, <2>1 DEF SInv, Caused
  <2> QED BY <1>1, <1>4, <2>2 DEF Typed, Steps
<1>12. ASSUME s \notin astray' PROVE Held(q.fp, q.file, want'[s], at'[s], doing'[s], s \in told', Settled(s)')
  <2>1. Straight(q.fp, "any") /\ Fits(q.fp, "any") /\ Quiet(q.fp)
    BY <1>3, <1>6, <1>12 DEF Fits
  <2>2. s \notin told' => Agrees(q.fp, q.file, want[s], at[s])
    BY <1>2, <1>3, <1>6, <1>12 DEF Tell
  <2>3. Doing(q.fp, "any") /\ Flat(q.fp)
    BY <2>1 DEF Doing, Flat, Quiet
  <2> QED BY <1>3, <1>4, <1>8, <2>1, <2>2, <2>3 DEF Held, Sees
<1>13. Commit(s, q)
  BY <1>2 DEF q
<1> QED BY <1>3, <1>4, <1>8, <1>9, <1>10, <1>11, <1>12, <1>13, StepHolds

\* ftell() changes nothing, and is right for a good stream.
LEMMA FtellHolds == ASSUME SInv, NEW s \in Streams, Ftell(s) PROVE SInv'
<1> DEFINE fp == iob[s]
           q == Now(s)
           r == ftell(fp)
<1>1. /\ Typed(q) /\ q.fp = fp /\ q.file = disk[s] /\ q.fail = faults /\ faults \in Nat
  BY NowIs
<1>2. /\ Open(fp) /\ Tell(s, r = EOF)
      /\ Blame(s, "ftell", r # at[s] /\ ~(Has(fp, "WRITE") /\ (Has(fp, "LBF") \/ fp.mode \in {"a", "a+"})))
      /\ UNCHANGED <<disk, iob, faults, hooks, phase, turn, flushall, want, at, doing, synced, astray>>
  BY DEF Ftell, Same
<1>3. /\ DOMAIN want = Streams /\ DOMAIN at = Streams /\ DOMAIN doing = Streams /\ told \subseteq Streams /\ flushall \in BOOLEAN
      /\ wrong = {} /\ disk \in [Streams -> Seq(Nat)] /\ iob \in [Streams -> FILE]
  BY DEF SInv, Books, Entries
<1>4. Commit(s, q)
  BY <1>1, <1>2, <1>3 DEF Commit
<1>5. ASSUME s \notin astray, s \notin told
      PROVE  r # EOF /\ (r = at[s] \/ ("WRITE" \in fp.flags /\ ("LBF" \in fp.flags \/ fp.mode \in {"a", "a+"})))
  <2>1. Agrees(fp, disk[s], want[s], at[s])
    BY <1>2, <1>5 DEF SInv, StreamHolds, Held, Sees
  <2> HIDE DEF q, fp, r
  <2>2. Agrees(q.fp, q.file, want[s], at[s]) /\ Typed(q) /\ r = ftell(q.fp)
    BY <1>1, <2>1 DEF r
  <2> QED BY <1>1, <2>2, FtellIs
<1> HIDE DEF q, fp, r
<1>6. wrong' = {}
  BY <1>2, <1>3, <1>5 DEF Blame, Tell, Has
<1>7. Books' /\ Programs'
  <2>1. told' \subseteq Streams
    BY <1>2, <1>3 DEF Tell
  <2> QED BY <1>2, <1>3, <2>1 DEF SInv, Books, Programs
<1>8. \A e \in Streams \ {s} : (Settled(e)' => Settled(e)) /\ (e \in told' <=> e \in told) /\ (e \in astray' <=> e \in astray)
  BY <1>2 DEF Settled, Tell
<1>9. (Settled(s)' <=> Settled(s)) /\ want' = want /\ at' = at /\ doing' = doing /\ (s \notin told' => s \notin told)
  BY <1>2 DEF Settled, Tell
<1>10. ASSUME s \notin astray', s \in told' PROVE q.fail # 0
  <2>1. s \in told
    BY <1>2, <1>5, <1>10 DEF Tell
  <2> QED BY <1>1, <1>2, <1>10, <2>1 DEF SInv, Caused
<1>11. ASSUME s \notin astray' PROVE Held(q.fp, q.file, want'[s], at'[s], doing'[s], s \in told', Settled(s)')
  <2>1. Held(fp, disk[s], want[s], at[s], doing[s], s \in told, Settled(s))
    BY <1>2, <1>11 DEF SInv, StreamHolds, fp
  <2> QED BY <1>1, <1>9, <2>1 DEF Held
<1>12. faults <= q.fail
  BY <1>1
<1> QED BY <1>1, <1>2, <1>4, <1>6, <1>7, <1>8, <1>9, <1>10, <1>11, <1>12, StepHolds

\* clearerr() of a stream with an error, of which the program was told.
LEMMA ClearerrHolds == ASSUME SInv, NEW s \in Streams, Clearerr(s) PROVE SInv'
<1> DEFINE fp == iob[s]
           st == Now(s)
           q == [st EXCEPT !.fp = clearerr(@)]
<1>1. /\ Typed(st) /\ st.fp = fp /\ st.file = disk[s] /\ st.fail = faults /\ faults \in Nat
  BY NowIs
<1>2. /\ Open(fp) /\ "ERR" \in fp.flags /\ Commit(s, q)
      /\ UNCHANGED <<hooks, phase, turn, flushall, want, at, doing, synced, told, astray, wrong>>
  BY DEF Clearerr, Same, Has
<1> HIDE DEF st, fp
<1>3. q = On(st, Unflagged(st.fp, {"ERR", "EOF"}))
  BY DEF On, clearerr
<1> HIDE DEF q
<1>4. /\ Typed(q) /\ q.fp.flags = fp.flags \ {"ERR", "EOF"} /\ q.fail = faults
      /\ \A d : Straight(fp, d) => Straight(q.fp, d)
      /\ \A d : Fits(fp, d) => Fits(q.fp, d)
  <2> DEFINE F == {"ERR", "EOF"}
             t == On(st, Unflagged(st.fp, F))
  <2>1. F \in SUBSET {"ERR", "EOF"}
    OBVIOUS
  <2> HIDE DEF F
  <2>2. /\ Typed(t) /\ t.fp.flags = st.fp.flags \ F /\ t.fail = st.fail
        /\ \A d : Straight(st.fp, d) => Straight(t.fp, d)
        /\ \A d : Fits(st.fp, d) => Fits(t.fp, d)
    BY <1>1, <2>1, ClearDoes
  <2>3. t = q
    BY <1>3 DEF F
  <2> HIDE DEF t
  <2> QED BY <1>1, <2>2, <2>3 DEF F
<1>5. Open(q.fp)
  BY <1>2, <1>4 DEF Open
<1>6. s \notin astray => s \in told
  BY <1>2 DEF SInv, StreamHolds, Held, Sees, Agrees, Ahead, Carries, fp
<1>7. Books' /\ Programs' /\ wrong' = {}
  BY <1>2 DEF SInv, Books, Programs
<1>8. \A e \in Streams \ {s} : (Settled(e)' => Settled(e))
  BY <1>2 DEF Settled
<1>9. ASSUME s \notin astray' PROVE Held(q.fp, q.file, want'[s], at'[s], doing'[s], s \in told', Settled(s)')
  <2>1. Straight(fp, doing[s]) /\ Fits(fp, doing[s])
    BY <1>2, <1>9 DEF SInv, StreamHolds, Held, fp
  <2>2. s \in told' /\ doing' = doing
    BY <1>2, <1>6, <1>9
  <2> QED BY <1>4, <2>1, <2>2 DEF Held
<1>10. q.fail = 0 /\ s \in told' => s \in astray'
  BY <1>2, <1>4 DEF SInv, Caused
<1>11. faults <= q.fail
  BY <1>1, <1>4
<1> QED BY <1>2, <1>4, <1>5, <1>7, <1>8, <1>9, <1>10, <1>11, StepHolds

\* fclose(): the entry is free, and the file has all or the program is told.
LEMMA ClosedHolds ==
  ASSUME SInv, NEW s \in Streams, Open(iob[s]), NEW r \in fclose(Now(s)), Commit(s, r.st), Tell(s, r.ret = EOF),
         phase = "run", synced' \subseteq synced \cup {s},
         UNCHANGED <<hooks, phase, turn, flushall, want, at, doing, astray, wrong>>
  PROVE  SInv'
<1> DEFINE fp == iob[s]
           q == r.st
<1>1. /\ Typed(Now(s)) /\ Now(s).fp = fp /\ Now(s).file = disk[s] /\ Now(s).fail = faults /\ faults \in Nat
  BY NowIs
<1>2. /\ Typed(q) /\ faults <= q.fail /\ q.fp.flags \subseteq Buffering /\ ~Open(q.fp)
      /\ r.ret = EOF => q.fail > faults
      /\ r.ret # EOF => \A w, a : Agrees(fp, disk[s], w, a) => q.file = w
  <2> DEFINE st == Now(s)
  <2>1. /\ Typed(r.st) /\ st.fail <= r.st.fail /\ r.st.fp.flags \subseteq Buffering /\ ~Open(r.st.fp)
        /\ r.ret = EOF => r.st.fail > st.fail
        /\ r.ret # EOF => \A w, a : Agrees(st.fp, st.file, w, a) => r.st.file = w
    BY <1>1, FcloseDoes
  <2> QED BY <1>1, <2>1
<1>3. s \notin astray /\ s \notin told => Agrees(fp, disk[s], want[s], at[s])
  BY DEF SInv, StreamHolds, Held, Sees
<1> HIDE DEF q, fp
<1>4. Books' /\ Programs' /\ wrong' = {}
  <2>1. told' \subseteq Streams
    BY DEF SInv, Books, Tell
  <2> QED BY <2>1 DEF SInv, Books, Programs
<1>5. \A e \in Streams \ {s} : (Settled(e)' => Settled(e)) /\ (e \in told' <=> e \in told) /\ (e \in astray' <=> e \in astray)
  BY DEF Settled, Tell
<1>6. ASSUME s \notin astray', s \in told' PROVE q.fail # 0
  <2>1. CASE s \in told
    <3>1. faults # 0
      BY <1>6, <2>1 DEF SInv, Caused
    <3> QED BY <1>1, <1>2, <3>1 DEF Typed, Steps
  <2>2. CASE s \notin told
    <3>1. q.fail > faults
      BY <1>2, <1>6, <2>2 DEF Tell
    <3> QED BY <1>1, <3>1
  <2> QED BY <2>1, <2>2
<1>7. ASSUME s \notin astray' PROVE Held(q.fp, q.file, want'[s], at'[s], doing'[s], s \in told', Settled(s)')
  <2>1. s \notin told' => q.file = want'[s]
    BY <1>2, <1>3, <1>7 DEF Tell
  <2> QED BY <1>2, <2>1 DEF Held, Sees, Flat
<1>8. Commit(s, q)
  BY DEF q
<1> QED BY <1>2, <1>4, <1>5, <1>6, <1>7, <1>8, StepHolds

\* fclose() keeps the invariant.
LEMMA FcloseHolds == ASSUME SInv, NEW s \in Streams, Fclose(s) PROVE SInv'
<1>1. PICK r \in fclose(Now(s)) :
        Commit(s, r.st) /\ Tell(s, r.ret = EOF) /\ synced' = IF r.ret = EOF THEN synced ELSE synced \cup {s}
  BY DEF Fclose
<1>2. /\ Open(iob[s]) /\ phase = "run" /\ UNCHANGED <<hooks, phase, turn, flushall, want, at, doing, astray, wrong>>
  BY DEF Fclose, Running, Same
<1>3. synced' \subseteq synced \cup {s}
  BY <1>1
<1> QED BY <1>1, <1>2, <1>3, ClosedHolds

\* A stream is opened in the free entry fp, of a file.
LEMMA OpenedHolds ==
  ASSUME SInv, NEW s \in Streams, NEW fp \in FILE, fp.flags \subseteq Buffering, NEW file \in Seq(Nat),
         NEW mode \in {"r", "w", "a", "r+", "w+", "a+"}, NEW fail \in Nat, faults <= fail,
         Commit(s, [_fpopen(fp, file, mode) EXCEPT !.fail = fail]), Entered(s, mode, file),
         told' = told \/ told' = told \ {s}, astray' = astray \/ (astray' = astray \ {s} /\ s \notin told'),
         UNCHANGED <<hooks, phase, turn, flushall, wrong>>
  PROVE  SInv'
<1> DEFINE q == [_fpopen(fp, file, mode) EXCEPT !.fail = fail]
<1>1. /\ Typed(q) /\ q.fail = fail /\ q.file \in Seq(Nat) /\ q.file = (IF mode \in {"w", "w+"} THEN <<>> ELSE file) /\ Open(q.fp)
      /\ Straight(q.fp, "new") /\ Fits(q.fp, "new")
      /\ Agrees(q.fp, q.file, q.file, 0) /\ Doing(q.fp, "new") /\ Flat(q.fp)
  BY OpenDoes
<1>2. Commit(s, q)
  OBVIOUS
<1> HIDE DEF q
<1>3. /\ DOMAIN want = Streams /\ DOMAIN at = Streams /\ DOMAIN doing = Streams /\ told \subseteq Streams /\ flushall \in BOOLEAN
      /\ wrong = {}
  BY DEF SInv, Books
<1>4. /\ want' = [want EXCEPT ![s] = IF mode \in {"w", "w+"} THEN <<>> ELSE file]
      /\ at' = [at EXCEPT ![s] = 0] /\ doing' = [doing EXCEPT ![s] = "new"] /\ synced' = synced \ {s}
  BY DEF Entered
<1>5. /\ want'[s] = q.file /\ at'[s] = 0 /\ doing'[s] = "new"
      /\ DOMAIN want' = Streams /\ DOMAIN at' = Streams /\ DOMAIN doing' = Streams
      /\ \A e \in Streams \ {s} : want'[e] = want[e] /\ at'[e] = at[e] /\ doing'[e] = doing[e]
  BY <1>1, <1>3, <1>4
<1>6. Books' /\ Programs' /\ wrong' = {}
  <2>1. told' \subseteq Streams
    BY <1>3
  <2> QED BY <1>3, <1>5, <2>1 DEF SInv, Books, Programs
<1>7. \A e \in Streams \ {s} : (Settled(e)' => Settled(e)) /\ (e \in told' <=> e \in told) /\ (e \in astray' <=> e \in astray)
  BY <1>4 DEF Settled
<1>8. Held(q.fp, q.file, want'[s], at'[s], doing'[s], s \in told', Settled(s)')
  BY <1>1, <1>5 DEF Held, Sees
<1>9. ASSUME q.fail = 0, s \in told' PROVE s \in astray'
  <2>1. faults \in Nat
    BY NowIs
  <2>2. faults = 0
    BY <1>1, <1>9, <2>1
  <2> QED BY <1>9, <2>2 DEF SInv, Caused
<1>10. faults <= q.fail
  BY <1>1
<1> QED BY <1>1, <1>2, <1>5, <1>6, <1>7, <1>8, <1>9, <1>10, StepHolds

\* fopen() keeps the invariant.
LEMMA FopenHolds == ASSUME SInv, NEW mode \in Modes, Fopen(mode) PROVE SInv'
<1>1. mode \in {"r", "w", "a", "r+", "w+", "a+"}
  BY CallsAssumption
<1>2. PICK s \in Streams :
        /\ ~Open(iob[s])
        /\ LET st == _fpopen(iob[s], disk[s], mode) IN Commit(s, [st EXCEPT !.fail = faults])
        /\ Entered(s, mode, disk[s])
        /\ told' = told \ {s} /\ astray' = astray \ {s}
  BY DEF Fopen
<1>3. UNCHANGED <<hooks, phase, turn, flushall, wrong>>
  BY DEF Fopen, Same
<1>4. iob[s].flags \subseteq Buffering
  BY <1>2 DEF SInv, Entries
<1>5. iob[s] \in FILE /\ disk[s] \in Seq(Nat) /\ faults \in Nat
  BY NowIs
<1>6. faults <= faults /\ s \notin told'
  BY <1>2, <1>5
<1>7. Commit(s, [_fpopen(iob[s], disk[s], mode) EXCEPT !.fail = faults])
  BY <1>2
<1> QED BY <1>1, <1>2, <1>3, <1>4, <1>5, <1>6, <1>7, OpenedHolds

\* freopen() keeps the invariant.
LEMMA FreopenHolds == ASSUME SInv, NEW s \in Streams, NEW mode \in {"r", "a"}, Freopen(s, mode) PROVE SInv'
<1>1. PICK r \in fclose(Now(s)) :
        /\ Tell(s, r.ret = EOF)
        /\ IF r.ret = EOF THEN Commit(s, r.st) /\ UNCHANGED <<want, at, doing, synced>>
           ELSE /\ Commit(s, [_fpopen(r.st.fp, r.st.file, mode) EXCEPT !.fail = r.st.fail])
                /\ Entered(s, mode, r.st.file)
  BY DEF Freopen
<1>2. Open(iob[s]) /\ phase = "run" /\ UNCHANGED <<hooks, phase, turn, flushall, astray, wrong>>
  BY DEF Freopen, Running, Same
<1>3. CASE r.ret = EOF
  <2>1. Commit(s, r.st) /\ UNCHANGED <<want, at, doing, synced>> /\ synced' \subseteq synced \cup {s}
    BY <1>1, <1>3
  <2> QED BY <1>1, <1>2, <2>1, ClosedHolds
<1>4. CASE r.ret # EOF
  <2> DEFINE st == Now(s)
  <2>0. Typed(st) /\ st.fail = faults
    BY NowIs
  <2>1. Typed(r.st) /\ st.fail <= r.st.fail /\ r.st.fp.flags \subseteq Buffering
    BY <2>0, FcloseDoes
  <2> HIDE DEF st
  <2>2. r.st.fp \in FILE /\ r.st.file \in Seq(Nat) /\ r.st.fail \in Nat /\ faults <= r.st.fail
    BY <2>0, <2>1 DEF Typed, Steps
  <2>3. told' = told
    BY <1>1, <1>4 DEF Tell
  <2>4. Commit(s, [_fpopen(r.st.fp, r.st.file, mode) EXCEPT !.fail = r.st.fail]) /\ Entered(s, mode, r.st.file)
    BY <1>1, <1>4
  <2>5. mode \in {"r", "w", "a", "r+", "w+", "a+"}
    OBVIOUS
  <2> QED BY <1>2, <2>1, <2>2, <2>3, <2>4, <2>5, OpenedHolds
<1> QED BY <1>3, <1>4

(***************************************************************************)
(* The end of the program.                                                 *)
(***************************************************************************)
\* A step that leaves the streams alone.
LEMMA IdleHolds ==
  ASSUME SInv, UNCHANGED <<disk, iob, faults, want, at, doing, told, flushall, astray, wrong>>, Programs',
         \A s \in Streams : Settled(s)' => Settled(s)
  PROVE  SInv'
<1>1. \A s \in Streams : StreamHolds(s)'
  <2> SUFFICES ASSUME NEW s \in Streams, s \notin astray'
               PROVE  Held(iob'[s], disk'[s], want'[s], at'[s], doing'[s], s \in told', Settled(s)')
    BY DEF StreamHolds
  <2>1. Held(iob[s], disk[s], want[s], at[s], doing[s], s \in told, Settled(s))
    BY DEF SInv, StreamHolds
  <2> QED BY <2>1 DEF Held
<1>2. Entries' /\ Books' /\ Caused' /\ wrong' = {}
  BY DEF SInv, Entries, Books, Caused
<1> QED BY <1>1, <1>2 DEF SInv

\* atexit() keeps the invariant.
LEMMA AtexitHolds == ASSUME SInv, NEW c \in Letters, Atexit(c) PROVE SInv'
<1>1. hooks' = Append(hooks, c)
      /\ UNCHANGED <<disk, iob, faults, phase, turn, flushall, want, at, doing, synced, told, astray, wrong>>
  BY DEF Atexit
<1>2. hooks' \in Seq(Letters)
  BY <1>1 DEF SInv, Programs
<1>3. Programs'
  BY <1>1, <1>2 DEF SInv, Programs
<1>4. \A s \in Streams : Settled(s)' => Settled(s)
  BY <1>1 DEF Settled
<1> QED BY <1>1, <1>3, <1>4, IdleHolds

\* exit() keeps the invariant, until fflush(NULL) begins.
LEMMA ExitHolds == ASSUME SInv, Exit \/ HooksDone PROVE SInv'
<1>1. UNCHANGED <<disk, iob, faults, hooks, turn, flushall, want, at, doing, synced, told, astray, wrong>>
  BY DEF Exit, HooksDone
<1>2. phase \in {"run", "exit"} /\ (phase' = "exit" \/ phase' = IF flushall THEN "flush" ELSE "over")
  BY DEF Exit, HooksDone
<1>3. turn = 1 /\ 1 \in Streams
  BY <1>2, BuffersAssumption DEF SInv, Programs, Streams
<1>4. Programs'
  BY <1>1, <1>2, <1>3 DEF SInv, Programs
<1>5. ASSUME NEW s \in Streams, Settled(s)' PROVE Settled(s)
  <2>1. ~(s < 1)
    BY BuffersAssumption DEF Streams
  <2> QED BY <1>1, <1>2, <1>3, <1>5, <2>1 DEF Settled
<1> QED BY <1>1, <1>4, <1>5, IdleHolds

\* fflush(NULL) at one stream: all of it is written, or it was told of an error.
LEMMA FlushNextHolds == ASSUME SInv, FlushNext PROVE SInv'
<1>0. PICK s \in Streams : s = turn
  BY DEF SInv, Programs, FlushNext
<1> DEFINE fp == iob[s]
<1>1. /\ phase = "flush" /\ turn' = turn + 1 /\ phase' = (IF turn = FOPEN_MAX THEN "over" ELSE "flush")
      /\ UNCHANGED <<hooks, flushall, want, at, doing, astray, wrong>>
  BY DEF FlushNext
<1>2. s \in Streams
  OBVIOUS
<1>3. /\ Typed(Now(s)) /\ Now(s).fp = fp /\ Now(s).file = disk[s] /\ Now(s).fail = faults /\ faults \in Nat
  BY <1>2, NowIs
<1>4. turn \in Nat /\ FOPEN_MAX \in Nat /\ turn <= FOPEN_MAX /\ 1 <= turn
  BY <1>0, BuffersAssumption DEF Streams
<1>5. Programs'
  <2>1. phase' = "flush" => turn' \in Streams
    BY <1>1, <1>4 DEF Streams
  <2> QED BY <1>1, <2>1 DEF SInv, Programs
<1>6. ASSUME NEW e \in Streams \ {s}, synced' \subseteq synced \cup {s}, Settled(e)' PROVE Settled(e)
  <2>1. e \in Nat /\ e <= FOPEN_MAX /\ e # turn
    BY <1>0, BuffersAssumption DEF Streams
  <2>2. phase' = "over" => e < turn
    BY <1>1, <1>4, <2>1
  <2>3. e < turn' => e < turn
    BY <1>1, <1>4, <2>1
  <2> QED BY <1>1, <1>6, <2>2, <2>3 DEF Settled
<1>7. /\ DOMAIN want = Streams /\ DOMAIN at = Streams /\ DOMAIN doing = Streams /\ told \subseteq Streams /\ flushall \in BOOLEAN
      /\ wrong = {} /\ disk \in [Streams -> Seq(Nat)] /\ iob \in [Streams -> FILE]
  BY DEF SInv, Books, Entries
<1>8. ASSUME s \notin astray PROVE Held(fp, disk[s], want[s], at[s], doing[s], s \in told, Settled(s))
  BY <1>2, <1>8 DEF SInv, StreamHolds
<1>9. CASE Has(fp, "WRITE")
  <2>1. PICK r \in _flsbuf(Now(s)) :
          Commit(s, r.st) /\ synced' = (IF r.ret = EOF THEN synced ELSE synced \cup {s}) /\ Tell(s, r.ret = EOF)
    BY <1>0, <1>9 DEF FlushNext
  <2> DEFINE q == r.st
  <2>2. /\ Typed(q) /\ faults <= q.fail /\ (Open(fp) => Open(q.fp)) /\ r.ret \in {0, EOF} /\ (r.ret = EOF => q.fail > faults)
        /\ (r.ret = 0 => q.fp.flags = fp.flags)
    BY <1>3, FlushGoes DEF Goes, Open
  <2>3. Open(fp) /\ Open(q.fp)
    BY <1>9, <2>2 DEF Open, Has
  <2>4. s \notin astray => Straight(q.fp, doing[s]) /\ Fits(q.fp, doing[s])
    BY <1>3, <1>8, <2>3, FlushStraight, FlushFits DEF Held
  <2>5. ASSUME s \notin astray, s \notin told, r.ret # EOF
        PROVE  Agrees(q.fp, q.file, want[s], at[s]) /\ Quiet(q.fp)
    <3>1. Agrees(fp, disk[s], want[s], at[s])
      BY <1>8, <2>3, <2>5 DEF Held, Sees
    <3> QED BY <1>3, <2>5, <3>1, FlushAgrees
  <2>6. s \notin astray /\ s \notin told => Doing(fp, doing[s])
    BY <1>8, <2>3 DEF Held, Sees
  <2> HIDE DEF q, fp
  <2>7. Books' /\ wrong' = {} /\ want' = want /\ at' = at /\ doing' = doing
    <3>1. told' \subseteq Streams
      BY <1>2, <1>7, <2>1 DEF Tell
    <3> QED BY <1>1, <1>7, <3>1 DEF Books
  <2>8. \A e \in Streams \ {s} : (Settled(e)' => Settled(e)) /\ (e \in told' <=> e \in told) /\ (e \in astray' <=> e \in astray)
    <3>1. synced' \subseteq synced \cup {s}
      BY <2>1
    <3> QED BY <1>1, <1>6, <2>1, <3>1 DEF Tell
  <2>9. ASSUME s \notin astray', s \in told' PROVE q.fail # 0
    <3>1. CASE s \in told
      <4>1. faults # 0
        BY <1>1, <2>9, <3>1 DEF SInv, Caused
      <4> QED BY <1>3, <2>2, <4>1 DEF Typed, Steps
    <3>2. CASE s \notin told
      <4>1. q.fail > faults
        BY <2>1, <2>2, <2>9, <3>2 DEF Tell
      <4> QED BY <1>3, <4>1
    <3> QED BY <3>1, <3>2
  <2>10. ASSUME s \notin astray' PROVE Held(q.fp, q.file, want'[s], at'[s], doing'[s], s \in told', Settled(s)')
    <3>1. Straight(q.fp, doing[s]) /\ Fits(q.fp, doing[s])
      BY <1>1, <2>4, <2>10
    <3>2. ASSUME s \notin told' PROVE Agrees(q.fp, q.file, want[s], at[s]) /\ Quiet(q.fp) /\ Doing(fp, doing[s]) /\ q.fp.flags = fp.flags
      <4>1. s \notin told /\ r.ret # EOF
        BY <2>1, <3>2 DEF Tell
      <4> QED BY <1>1, <2>2, <2>5, <2>6, <2>10, <4>1
    <3>3. s \notin told' => Doing(q.fp, doing[s]) /\ Flat(q.fp)
      BY <3>1, <3>2 DEF Doing, Flat, Quiet, Fits
    <3> QED BY <2>3, <2>7, <3>1, <3>2, <3>3 DEF Held, Sees
  <2>11. Commit(s, q)
    BY <2>1 DEF q
  <2> QED BY <1>2, <1>5, <2>2, <2>3, <2>7, <2>8, <2>9, <2>10, <2>11, StepHolds
<1>10. CASE ~Has(fp, "WRITE")
  <2> DEFINE q == Now(s)
  <2>1. UNCHANGED <<disk, iob, faults, synced, told>>
    BY <1>0, <1>10 DEF FlushNext
  <2>2. Commit(s, q)
    BY <1>2, <1>3, <1>7, <2>1 DEF Commit
  <2>3. ~Open(fp) => fp.flags \subseteq Buffering
    BY <1>2 DEF SInv, Entries
  <2>4. s \notin astray /\ s \notin told => Flat(fp)
    BY <1>8, <1>10 DEF Held, Sees, Flat, Agrees, Has
  <2> HIDE DEF q, fp
  <2>5. Books' /\ wrong' = {} /\ want' = want /\ at' = at /\ doing' = doing
    BY <1>1, <1>7, <2>1 DEF Books
  <2>6. \A e \in Streams \ {s} : (Settled(e)' => Settled(e)) /\ (e \in told' <=> e \in told) /\ (e \in astray' <=> e \in astray)
    <3>1. synced' \subseteq synced \cup {s}
      BY <2>1
    <3> QED BY <1>1, <1>6, <2>1, <3>1
  <2>7. q.fp = fp /\ q.file = disk[s] /\ q.fail = faults /\ Typed(q) /\ faults <= q.fail
    BY <1>3 DEF q
  <2>8. q.fail = 0 /\ s \in told' => s \in astray'
    BY <1>1, <2>1, <2>7 DEF SInv, Caused
  <2>9. ASSUME s \notin astray' PROVE Held(q.fp, q.file, want'[s], at'[s], doing'[s], s \in told', Settled(s)')
    <3>1. Held(fp, disk[s], want[s], at[s], doing[s], s \in told, Settled(s)) /\ told' = told /\ (s \notin told => Flat(fp))
      BY <1>1, <1>8, <2>1, <2>4, <2>9
    <3> QED BY <2>5, <2>7, <3>1 DEF Held
  <2>10. ~Open(q.fp) => q.fp.flags \subseteq Buffering
    BY <2>3, <2>7
  <2> QED BY <1>2, <1>5, <2>2, <2>5, <2>6, <2>7, <2>8, <2>9, <2>10, StepHolds
<1> QED BY <1>9, <1>10

(***************************************************************************)
(* Every step, and what it means.                                          *)
(***************************************************************************)
\* The streams at the start: stdout open and the other entries free.
LEMMA StdioStarts == StdioInit => SInv
<1> SUFFICES ASSUME StdioInit PROVE SInv
  OBVIOUS
<1> DEFINE out == [Free EXCEPT !.flags = {"WRITE", "LBF"}, !.mode = "w"]
<1>1. stdout \in Streams
  BY BuffersAssumption DEF Streams, stdout
<1>2. /\ disk \in [Streams -> Contents] /\ disk[stdout] = <<>>
      /\ iob = [e \in Streams |-> IF e = stdout THEN [Free EXCEPT !.flags = {"WRITE", "LBF"}, !.mode = "w"] ELSE Free]
      /\ faults = 0 /\ hooks = <<>> /\ phase = "run" /\ turn = 1 /\ flushall = FALSE /\ want = disk
      /\ at = [e \in Streams |-> 0] /\ doing = [e \in Streams |-> "new"]
      /\ synced = {} /\ told = {} /\ astray = {} /\ wrong = {}
  BY DEF StdioInit
<1>4. /\ out.flags = {"WRITE", "LBF"} /\ out.buf = <<>> /\ out.len = 0 /\ out.rp = 0 /\ out.wp = 0 /\ out.lp = 0 /\ out.pos = 0 /\ out.mode = "w"
  BY DEF Free
<1>5. /\ Free.flags = {} /\ Free.buf = <<>> /\ Free.len = 0 /\ Free.rp = 0 /\ Free.wp = 0 /\ Free.lp = 0 /\ Free.pos = 0 /\ Free.mode = ""
  BY DEF Free
<1>6. <<>> \in Seq(Nat) /\ 0 \in Nat
  OBVIOUS
<1>7. out \in FILE /\ Free \in FILE
  <2>1. {"WRITE", "LBF"} \in SUBSET Flags /\ {} \in SUBSET Flags
    BY DEF Flags, Buffering
  <2>2. "w" \in Kinds /\ "" \in Kinds
    BY DEF Kinds
  <2>3. Free \in FILE
    BY <1>6, <2>1, <2>2 DEF FILE, Free
  <2>4. out \in FILE
    BY <2>1, <2>2, <2>3 DEF FILE
  <2> QED BY <2>3, <2>4
<1>8. disk \in [Streams -> Seq(Nat)]
  BY <1>2, TextsAssumption
<1>9. iob \in [Streams -> FILE] /\ iob[stdout] = out /\ \A e \in Streams \ {stdout} : iob[e] = Free
  BY <1>1, <1>2, <1>7
<1> HIDE DEF out
<1>10. Open(out) /\ ~Open(Free)
  BY <1>4, <1>5 DEF Open
<1>11. Entries
  <2>1. Sound(out) /\ Sound(Free)
    BY <1>4, <1>5, <1>7 DEF Sound
  <2>2. ASSUME NEW e \in Streams PROVE Sound(iob[e]) /\ (~Open(iob[e]) => iob[e].flags \subseteq Buffering)
    BY <1>5, <1>9, <1>10, <2>1
  <2> QED BY <1>2, <1>6, <1>8, <1>9, <2>2 DEF Entries
<1>12. Books /\ Caused
  BY <1>2, <1>8 DEF Books, Caused
<1>13. Programs
  BY <1>2 DEF Programs
<1>14. Held(out, <<>>, <<>>, 0, "new", FALSE, TRUE)
  <2>1. Straight(out, "new") /\ Fits(out, "new") /\ Doing(out, "new") /\ Flat(out)
    <3>1. Access(out)
      BY <1>4 DEF Access
    <3>2. Unread(out) /\ 0 <= 0
      BY <1>4 DEF Unread
    <3> QED BY <1>4, <3>1, <3>2 DEF Straight, Fits, Doing, Flat
  <2>2. Begin(out) = <<>>
    BY <1>4 DEF Begin
  <2>3. Carries(out, <<>>, <<>>, 0)
    BY <1>4, <2>2 DEF Carries, Overlay
  <2>4. Agrees(out, <<>>, <<>>, 0)
    BY <1>4, <2>3 DEF Agrees, Unread
  <2> QED BY <1>10, <2>1, <2>4 DEF Held, Sees
<1>15. ASSUME NEW e \in Streams PROVE Held(iob[e], disk[e], want[e], at[e], doing[e], e \in told, Settled(e))
  <2>1. want[e] = disk[e] /\ at[e] = 0 /\ doing[e] = "new" /\ e \notin told
    BY <1>2
  <2>2. CASE e = stdout
    BY <1>2, <1>9, <1>14, <2>1, <2>2 DEF Held
  <2>3. CASE e # stdout
    <3>1. iob[e] = Free
      BY <1>9, <2>3
    <3> QED BY <1>10, <2>1, <3>1 DEF Held, Sees, Flat
  <2> QED BY <2>2, <2>3
<1>16. \A e \in Streams : StreamHolds(e)
  BY <1>15 DEF StreamHolds
<1> QED BY <1>2, <1>11, <1>12, <1>13, <1>16 DEF SInv

\* Every call, and every step of exit(), keeps the invariant.
LEMMA StdioStays == SInv /\ [StdioNext]_stdiovars => SInv'
<1> SUFFICES ASSUME SInv, [StdioNext]_stdiovars PROVE SInv'
  OBVIOUS
<1>1. CASE UNCHANGED stdiovars
  <2>1. UNCHANGED <<disk, iob, faults, hooks, phase, turn, flushall, want, at, doing, synced, told, astray, wrong>>
    BY <1>1 DEF stdiovars
  <2>2. Programs' /\ \A s \in Streams : Settled(s)' => Settled(s)
    BY <2>1 DEF SInv, Programs, Settled
  <2> QED BY <2>1, <2>2, IdleHolds
<1>2. ASSUME NEW mode \in Modes, Fopen(mode) PROVE SInv'
  BY <1>2, FopenHolds
<1>3. ASSUME NEW s \in Streams, NEW mode \in {"NBF", "LBF", "FBF"}, NEW amount \in {0, BUFSIZ}, Setvbuf(s, mode, amount) PROVE SInv'
  <2>1. amount \in Nat
    BY BuffersAssumption
  <2> QED BY <1>3, <2>1, SetvbufHolds
<1>4. ASSUME NEW s \in Streams, NEW ch \in Letters, Putc(s, ch) \/ Ungetc(s, ch) PROVE SInv'
  BY <1>4, PutcHolds, UngetcHolds
<1>5. ASSUME NEW s \in Streams, NEW text \in Texts, Fputs(s, text) \/ Fwrite(s, text) PROVE SInv'
  BY <1>5, FputsHolds, FwriteHolds
<1>6. ASSUME NEW s \in Streams, Getc(s) \/ Fread(s) \/ Fgets(s, BUFSIZ + 1) PROVE SInv'
  <2>1. BUFSIZ + 1 \in Nat /\ BUFSIZ + 1 > 1
    BY BuffersAssumption
  <2> QED BY <1>6, <2>1, GetcHolds, FreadHolds, FgetsHolds
<1>7. ASSUME NEW s \in Streams, Fflush(s) \/ Rewind(s) \/ Ftell(s) \/ Clearerr(s) \/ Fclose(s) PROVE SInv'
  BY <1>7, FflushHolds, RewindHolds, FtellHolds, ClearerrHolds, FcloseHolds
<1>8. ASSUME NEW s \in Streams, NEW move \in Moves, Fseek(s, move[1], move[2]) PROVE SInv'
  <2>1. move[1] \in Int /\ move[2] \in {"SET", "CUR", "END"}
    BY CallsAssumption
  <2> QED BY <1>8, <2>1, FseekHolds
<1>9. ASSUME NEW s \in Streams, NEW mode \in {"r", "a"}, Freopen(s, mode) PROVE SInv'
  BY <1>9, FreopenHolds
<1>10. ASSUME NEW text \in Texts, Puts(text) PROVE SInv'
  BY <1>10, PutsHolds
<1>11. ASSUME NEW ch \in Letters, Atexit(ch) PROVE SInv'
  BY <1>11, AtexitHolds
<1>12. CASE Exit \/ HooksDone
  BY <1>12, ExitHolds
<1>13. CASE RunHook
  BY <1>13, RunHookHolds
<1>14. CASE FlushNext
  BY <1>14, FlushNextHolds
<1>15. CASE AtEnd
  BY <1>1, <1>15 DEF AtEnd
<1> QED BY <1>1, <1>2, <1>3, <1>4, <1>5, <1>6, <1>7, <1>8, <1>9, <1>10, <1>11, <1>12, <1>13, <1>14, <1>15 DEF StdioNext

\* What was read right, stored in its place and told for a cause.
LEMMA HoldsAsInC == SInv => StreamsAsInC
<1> SUFFICES ASSUME SInv PROVE StreamsAsInC
  OBVIOUS
<1>1. AnswersAsInC /\ ErrorsHaveCause
  BY DEF SInv, AnswersAsInC, ErrorsHaveCause, Caused
<1>2. ASSUME NEW s \in Streams \ astray, Has(iob[s], "PAST") PROVE s \in told /\ ~Has(iob[s], "LBF") /\ ~Has(iob[s], "FBF")
  <2>1. Open(iob[s])
    BY <1>2 DEF SInv, Entries, Buffering, Has
  <2>2. Held(iob[s], disk[s], want[s], at[s], doing[s], s \in told, Settled(s))
    BY DEF SInv, StreamHolds
  <2>3. Straight(iob[s], doing[s]) /\ (s \notin told => Agrees(iob[s], disk[s], want[s], at[s]))
    BY <2>1, <2>2 DEF Held, Sees
  <2> QED BY <1>2, <2>3 DEF Has, Straight, Agrees, Ahead, Carries
<1> QED BY <1>1, <1>2 DEF StreamsAsInC, InsideBuffer

\* A stream of which all should be written has it in its file.
LEMMA HoldsNothingBack == SInv => NothingLost
<1> SUFFICES ASSUME SInv, NEW s \in Streams \ (told \cup astray), s \in synced \/ phase = "over" \/ ~Open(iob[s])
             PROVE  disk[s] = want[s]
  BY DEF NothingLost
<1>1. Sees(iob[s], disk[s], want[s], at[s], doing[s]) /\ (Settled(s) => Flat(iob[s]))
  BY DEF SInv, StreamHolds, Held
<1>2. CASE ~Open(iob[s])
  BY <1>1, <1>2 DEF Sees
<1>3. CASE Open(iob[s])
  <2>1. Settled(s)
    BY <1>3 DEF Settled
  <2>2. Agrees(iob[s], disk[s], want[s], at[s]) /\ Quiet(iob[s])
    BY <1>1, <1>3, <2>1 DEF Sees, Flat, Quiet
  <2>3. Typed(Now(s)) /\ Now(s).fp = iob[s] /\ Now(s).file = disk[s]
    BY NowIs
  <2> DEFINE st == Now(s)
  <2>4. Agrees(st.fp, st.file, want[s], at[s]) /\ Quiet(st.fp)
    BY <2>2, <2>3
  <2>5. want[s] = st.file
    BY <2>3, <2>4, ReadsFile
  <2> QED BY <2>3, <2>5
<1> QED BY <1>2, <1>3

\* Whatever the program calls and however much of each read and write the
\* system does, every stream gives the program what C says: reads, ftell() and
\* fseek() answer as on the file itself, no character is stored outside of a
\* buffer, and a call fails only after the system failed.
THEOREM StreamsHold == StdioSpec => []StreamsAsInC
<1>1. StdioInit => SInv
  BY StdioStarts
<1>2. SInv /\ [StdioNext]_stdiovars => SInv'
  BY StdioStays
<1>3. SInv => StreamsAsInC
  BY HoldsAsInC
<1> QED BY <1>1, <1>2, <1>3, PTL DEF StdioSpec

\* fflush(), fclose() and exit() lose no character they do not tell of.
THEOREM NothingWrittenIsLost == StdioSpec => []NothingLost
<1>1. StdioInit => SInv
  BY StdioStarts
<1>2. SInv /\ [StdioNext]_stdiovars => SInv'
  BY StdioStays
<1>3. SInv => NothingLost
  BY HoldsNothingBack
<1> QED BY <1>1, <1>2, <1>3, PTL DEF StdioSpec
=============================================================================
