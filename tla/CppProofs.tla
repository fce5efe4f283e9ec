------------------------------ MODULE CppProofs ------------------------------
(***************************************************************************)
(* The preprocessor, proved for any macros, any lines and any depth of     *)
(* nesting: first that the stack of inputs and what is kept beside it (the *)
(* marks of hidden macros, the line number, the conditional groups) agree, *)
(* where the tokens do not matter and nothing is said of their types; then *)
(* that what the parser gets of object-like macros is what C defines.      *)
(*                                                                         *)
(* In the lemmas s and t are stacks of inputs, c and d stacks of calls, h  *)
(* and g sets of hidden macros and n a line number.                        *)
(***************************************************************************)
EXTENDS Cpp, FoldLemmas, FiniteSetTheorems, TLAPS

IsSeq(s) == s \in Seq(ToSet(s))

InputShape(ip) ==
  /\ DOMAIN ip = {"t", "sym", "toks", "hs", "eof", "lno", "phys"}
  /\ ip.t \in {"file", "macro", "param"} /\ ip.sym \in Names \cup {NoName} /\ ip.hs \subseteq Names
  /\ ip.t = "file" => ip.hs = {}
  /\ ip.eof => ip.t = "file"
  /\ ip.t = "macro" => ip.sym \in Names

CallShape(c) ==
  /\ DOMAIN c = {"k", "sym", "args", "cur", "depth", "items", "base"}
  /\ c.k \in {"pars", "copy"} /\ c.sym \in Names /\ c.base \in Nat

\* Files are under everything else.
Stack(s) ==
  /\ IsSeq(s)
  /\ \A i \in 1 .. Len(s) : InputShape(s[i])
  /\ \A i, j \in 1 .. Len(s) : i < j /\ s[j].t = "file" => s[i].t = "file"

Calls(c) == IsSeq(c) /\ \A j \in 1 .. Len(c) : CallShape(c[j])

\* copymacro() works on an input of its own macro; above it is first the parameter
\* that it expands, and the calls made there are further up the stack.
Placed(s, c) ==
  \A j \in 1 .. Len(c) : c[j].k = "copy" =>
    /\ c[j].base \in 1 .. Len(s)
    /\ s[c[j].base].t = "macro" /\ s[c[j].base].sym = c[j].sym
    /\ c[j].base < Len(s) => s[c[j].base + 1].t = "param"
    /\ j # Len(c) => c[j].base < Len(s)
    /\ \A k \in 1 .. Len(c) : j < k /\ c[k].k = "copy" => c[j].base < c[k].base

\* The last call is copymacro(), at work on the current input.
AtWork(s, c) == c # <<>> /\ c[Len(c)].k = "copy" /\ c[Len(c)].base = Len(s)

\* Input i is the replacement of a macro and is being read.
Open(i, s, c) == /\ s[i].t = "macro"
                 /\ \A j \in 1 .. Len(c) : c[j].k = "copy" => c[j].base # i

\* An open macro is hidden; no input above it is of the same macro, and none takes
\* the mark away when it is popped.
Hidden(s, c, h) ==
  /\ \A i \in 1 .. Len(s) : Open(i, s, c) => s[i].sym \in h
  /\ \A i, j \in 1 .. Len(s) : i < j /\ Open(i, s, c) =>
       s[i].sym \notin s[j].hs /\ (s[j].t = "macro" => s[i].sym # s[j].sym)

Marks(s, h) == \A x \in h : \E i \in 1 .. Len(s) : x \in s[i].hs

\* The line kept with an input that was left is that of the last file under it.
TopFile(i, s) == s[i].t = "file" /\ \A j \in 1 .. Len(s) : i < j => s[j].t # "file"
Located(s, n) ==
  /\ \A i \in 1 .. Len(s) : i < Len(s) /\ s[i].t = "file" => s[i].lno = s[i].phys
  /\ \A i, k \in 1 .. Len(s) : TopFile(i, s) /\ i < k /\ k < Len(s) => s[k].lno = s[i].phys
  /\ \A i \in 1 .. Len(s) : TopFile(i, s) => n = s[i].phys

SameInput(a, b) == a.t = b.t /\ a.sym = b.sym /\ a.hs = b.hs
SamePlace(a, b) == a.lno = b.lno /\ a.phys = b.phys
SameCall(a, b)  == a.k = b.k /\ a.sym = b.sym /\ a.base = b.base

(***************************************************************************)
(* Sequences.                                                              *)
(***************************************************************************)

\* A sequence is one over its own elements.
LEMMA OwnElements == ASSUME NEW S, NEW t \in Seq(S) PROVE IsSeq(t)
<1>1. Len(t) \in Nat /\ DOMAIN t = 1 .. Len(t) /\ t = [i \in 1 .. Len(t) |-> t[i]]
  OBVIOUS
<1>2. \A i \in 1 .. Len(t) : t[i] \in ToSet(t)
  BY <1>1 DEF ToSet
<1>3. t \in [1 .. Len(t) -> ToSet(t)]
  BY <1>1, <1>2
<1> QED BY <1>1, <1>3 DEF IsSeq

\* A sequence with one more element.
LEMMA PushSeq ==
  ASSUME NEW s, IsSeq(s), NEW x
  PROVE  /\ IsSeq(Append(s, x)) /\ Len(s) \in Nat /\ Len(Append(s, x)) = Len(s) + 1
         /\ \A i \in 1 .. Len(s) : Append(s, x)[i] = s[i]
         /\ Append(s, x)[Len(s) + 1] = x
<1> DEFINE S == ToSet(s) \cup {x}
           t == Append(s, x)
<1>1. s \in Seq(S) /\ x \in S /\ Len(s) \in Nat /\ DOMAIN s = 1 .. Len(s)
  <2>1. ToSet(s) \subseteq S
    OBVIOUS
  <2> HIDE DEF S
  <2>2. s \in Seq(ToSet(s))
    BY DEF IsSeq
  <2>3. s \in Seq(S)
    BY <2>1, <2>2
  <2> QED BY <2>3 DEF S
<1> HIDE DEF S
<1>2. /\ t \in Seq(S) /\ Len(t) = Len(s) + 1 /\ DOMAIN t = 1 .. Len(s) + 1
      /\ \A i \in 1 .. Len(s) : t[i] = s[i]
      /\ t[Len(s) + 1] = x
  BY <1>1
<1> HIDE DEF t
<1>4. IsSeq(t)
  BY <1>2, OwnElements
<1> QED BY <1>1, <1>2, <1>4 DEF t

\* A sequence without its last element.
LEMMA PopSeq ==
  ASSUME NEW s, IsSeq(s), s # <<>>
  PROVE  /\ IsSeq(Front(s)) /\ Len(s) \in Nat \ {0} /\ Len(Front(s)) = Len(s) - 1
         /\ \A i \in 1 .. Len(s) - 1 : Front(s)[i] = s[i]
<1> DEFINE t == SubSeq(s, 1, Len(s) - 1)
<1>1. s \in Seq(ToSet(s)) /\ Len(s) \in Nat \ {0}
  BY DEF IsSeq
<1>2. t \in Seq(ToSet(s)) /\ Len(t) = Len(s) - 1 /\ DOMAIN t = 1 .. Len(s) - 1
      /\ \A i \in 1 .. Len(s) - 1 : t[i] = s[i]
  <2> DEFINE S == ToSet(s)
  <2>1. s \in Seq(S)
    BY <1>1
  <2> HIDE DEF S
  <2>2. t \in Seq(S) /\ Len(t) = Len(s) - 1 /\ DOMAIN t = 1 .. Len(s) - 1
    BY <1>1, <2>1
  <2>3. \A i \in 1 .. Len(s) - 1 : t[i] = s[i]
    BY <1>1, <2>1
  <2> QED BY <2>2, <2>3 DEF S
<1> HIDE DEF t
<1>4. IsSeq(t)
  BY <1>2, OwnElements
<1> QED BY <1>1, <1>2, <1>4 DEF Front, t

\* A sequence with another last element.
LEMMA TopSeq ==
  ASSUME NEW s, IsSeq(s), s # <<>>, NEW x
  PROVE  LET t == [s EXCEPT ![Len(s)] = x]
         IN /\ IsSeq(t) /\ t # <<>> /\ Len(s) \in Nat \ {0} /\ Len(t) = Len(s)
            /\ \A i \in 1 .. Len(s) : i # Len(s) => t[i] = s[i]
            /\ t[Len(s)] = x
<1> DEFINE t == [s EXCEPT ![Len(s)] = x]
           S == ToSet(s) \cup {x}
<1>1. s \in Seq(S) /\ x \in S /\ Len(s) \in Nat \ {0} /\ DOMAIN s = 1 .. Len(s)
  <2>1. ToSet(s) \subseteq S
    OBVIOUS
  <2> HIDE DEF S
  <2>2. s \in Seq(ToSet(s))
    BY DEF IsSeq
  <2>3. s \in Seq(S)
    BY <2>1, <2>2
  <2> QED BY <2>3 DEF S
<1> HIDE DEF S
<1>2. t \in Seq(S) /\ Len(t) = Len(s) /\ DOMAIN t = 1 .. Len(s) /\ t[Len(s)] = x
      /\ \A i \in 1 .. Len(s) : i # Len(s) => t[i] = s[i]
  BY <1>1
<1> HIDE DEF t
<1>4. IsSeq(t)
  BY <1>2, OwnElements
<1>5. t # <<>>
  BY <1>1, <1>2
<1> QED BY <1>1, <1>2, <1>4, <1>5 DEF t

(***************************************************************************)
(* Records.                                                                *)
(***************************************************************************)

\* The members of an input that a step sets.
LEMMA SetInput ==
  ASSUME NEW ip, InputShape(ip), NEW x
  PROVE  /\ LET a == [ip EXCEPT !.toks = x]
            IN InputShape(a) /\ SameInput(a, ip) /\ SamePlace(a, ip) /\ a.eof = ip.eof
         /\ LET a == [ip EXCEPT !.lno = x]
            IN InputShape(a) /\ SameInput(a, ip) /\ a.lno = x /\ a.phys = ip.phys /\ a.eof = ip.eof
         /\ LET a == [ip EXCEPT !.phys = x]
            IN InputShape(a) /\ SameInput(a, ip) /\ a.phys = x /\ a.lno = ip.lno /\ a.eof = ip.eof
BY DEF InputShape, SameInput, SamePlace

\* The line kept with an input.
LEMMA SetLno ==
  ASSUME NEW ip, InputShape(ip), NEW x
  PROVE  LET a == [ip EXCEPT !.lno = x]
         IN InputShape(a) /\ SameInput(a, ip) /\ a.lno = x /\ a.phys = ip.phys
BY DEF InputShape, SameInput

\* The members of a call that a step sets.
LEMMA SetCall ==
  ASSUME NEW c, CallShape(c), NEW x
  PROVE  /\ CallShape([c EXCEPT !.args = x]) /\ SameCall([c EXCEPT !.args = x], c)
         /\ CallShape([c EXCEPT !.cur = x]) /\ SameCall([c EXCEPT !.cur = x], c)
         /\ CallShape([c EXCEPT !.depth = x]) /\ SameCall([c EXCEPT !.depth = x], c)
         /\ CallShape([c EXCEPT !.items = x]) /\ SameCall([c EXCEPT !.items = x], c)
BY DEF CallShape, SameCall

(***************************************************************************)
(* The stack.                                                              *)
(***************************************************************************)

\* s and t are the same stack, but for the text and the lines of its inputs.
SameStack(s, t) ==
  /\ Stack(t) /\ Len(t) = Len(s)
  /\ \A i \in 1 .. Len(s) : SameInput(t[i], s[i])

\* c and d are the same calls, but for what has been collected.
SameCalls(c, d) ==
  /\ Calls(d) /\ Len(d) = Len(c)
  /\ \A j \in 1 .. Len(c) : SameCall(d[j], c[j])

\* What is said of a stack and of calls does not depend on what they hold.
LEMMA SameHolds ==
  ASSUME NEW s, NEW t, NEW c, NEW d, Stack(s), Calls(c), SameStack(s, t), SameCalls(c, d)
  PROVE  /\ Placed(s, c) => Placed(t, d)
         /\ \A h : Hidden(s, c, h) => Hidden(t, d, h)
         /\ \A h : Marks(s, h) => Marks(t, h)
         /\ AtWork(t, d) => AtWork(s, c)
<1>1. Len(s) \in Nat /\ Len(c) \in Nat /\ IsSeq(c) /\ IsSeq(d) /\ Len(t) = Len(s) /\ Len(d) = Len(c)
  BY DEF Stack, Calls, SameStack, SameCalls, IsSeq
<1>2. \A i \in 1 .. Len(s) : t[i].t = s[i].t /\ t[i].sym = s[i].sym /\ t[i].hs = s[i].hs
  BY DEF SameStack, SameInput
<1>3. \A j \in 1 .. Len(c) : d[j].k = c[j].k /\ d[j].sym = c[j].sym /\ d[j].base = c[j].base
  BY DEF SameCalls, SameCall
<1>4. Placed(s, c) => Placed(t, d)
  <2>0. SUFFICES ASSUME Placed(s, c), NEW j \in 1 .. Len(d), d[j].k = "copy"
                 PROVE /\ d[j].base \in 1 .. Len(t)
                       /\ t[d[j].base].t = "macro" /\ t[d[j].base].sym = d[j].sym
                       /\ d[j].base < Len(t) => t[d[j].base + 1].t = "param"
                       /\ j # Len(d) => d[j].base < Len(t)
                       /\ \A k \in 1 .. Len(d) : j < k /\ d[k].k = "copy" => d[j].base < d[k].base
    BY DEF Placed
  <2> DEFINE b == c[j].base
  <2>1. j \in 1 .. Len(c) /\ c[j].k = "copy" /\ d[j].base = b /\ d[j].sym = c[j].sym
    BY <1>1, <1>3, <2>0
  <2>2. /\ b \in 1 .. Len(s)
        /\ s[b].t = "macro" /\ s[b].sym = c[j].sym
        /\ b < Len(s) => s[b + 1].t = "param"
        /\ j # Len(c) => b < Len(s)
        /\ \A k \in 1 .. Len(c) : j < k /\ c[k].k = "copy" => b < c[k].base
    BY <2>0, <2>1 DEF Placed
  <2> HIDE DEF b
  <2>3. b < Len(s) => b + 1 \in 1 .. Len(s)
    BY <1>1, <2>2
  <2>4. \A k \in 1 .. Len(d) : j < k /\ d[k].k = "copy" => b < d[k].base
    BY <1>1, <1>3, <2>2
  <2> QED BY <1>1, <1>2, <2>1, <2>2, <2>3, <2>4
<1>5. \A i \in 1 .. Len(s) : Open(i, t, d) <=> Open(i, s, c)
  BY <1>1, <1>2, <1>3 DEF Open
<1>6. ASSUME NEW h, Hidden(s, c, h) PROVE Hidden(t, d, h)
  BY <1>1, <1>2, <1>5, <1>6 DEF Hidden
<1>7. ASSUME NEW h, Marks(s, h) PROVE Marks(t, h)
  BY <1>1, <1>2, <1>7 DEF Marks
<1>8. AtWork(t, d) => AtWork(s, c)
  <2>1. SUFFICES ASSUME AtWork(t, d) PROVE AtWork(s, c)
    OBVIOUS
  <2>2. d # <<>> /\ Len(d) # 0
    BY <2>1, <1>1 DEF AtWork, IsSeq
  <2>3. c # <<>> /\ Len(c) \in 1 .. Len(c)
    BY <1>1, <2>2
  <2> QED BY <1>1, <1>3, <2>1, <2>3 DEF AtWork
<1> QED BY <1>4, <1>6, <1>7, <1>8

\* A stack is the same as itself.
LEMMA StackItself == ASSUME NEW s, Stack(s) PROVE SameStack(s, s)
BY DEF SameStack, SameInput

\* Calls are the same as themselves.
LEMMA CallsThemselves == ASSUME NEW c, Calls(c) PROVE SameCalls(c, c)
BY DEF SameCalls, SameCall

\* The current input is replaced by one of the same kind.
LEMMA TopInput ==
  ASSUME NEW s, Stack(s), s # <<>>, NEW x, InputShape(x), SameInput(x, s[Len(s)])
  PROVE  LET t == [s EXCEPT ![Len(s)] = x]
         IN /\ SameStack(s, t) /\ t # <<>> /\ t[Len(s)] = x
            /\ Len(s) \in Nat \ {0}
            /\ \A i \in 1 .. Len(s) : i # Len(s) => t[i] = s[i]
<1> DEFINE t == [s EXCEPT ![Len(s)] = x]
<1>1. IsSeq(s)
  BY DEF Stack
<1>2. /\ IsSeq(t) /\ t # <<>> /\ Len(s) \in Nat \ {0} /\ Len(t) = Len(s)
      /\ \A i \in 1 .. Len(s) : i # Len(s) => t[i] = s[i]
      /\ t[Len(s)] = x
  BY <1>1, TopSeq
<1> HIDE DEF t
<1>3. \A i \in 1 .. Len(s) : InputShape(t[i]) /\ SameInput(t[i], s[i])
  BY <1>2 DEF Stack, SameInput
<1>4. \A i \in 1 .. Len(s) : t[i].t = s[i].t
  BY <1>3 DEF SameInput
<1>5. Stack(t)
  BY <1>2, <1>3, <1>4 DEF Stack
<1> QED BY <1>2, <1>3, <1>5 DEF SameStack, t

\* The last call is replaced by one of the same kind.
LEMMA TopCall ==
  ASSUME NEW c, Calls(c), c # <<>>, NEW x, CallShape(x), SameCall(x, c[Len(c)])
  PROVE  SameCalls(c, [c EXCEPT ![Len(c)] = x])
<1> DEFINE d == [c EXCEPT ![Len(c)] = x]
<1>1. IsSeq(c)
  BY DEF Calls
<1>2. /\ IsSeq(d) /\ Len(c) \in Nat \ {0} /\ Len(d) = Len(c)
      /\ \A i \in 1 .. Len(c) : i # Len(c) => d[i] = c[i]
      /\ d[Len(c)] = x
  BY <1>1, TopSeq
<1> HIDE DEF d
<1>3. \A i \in 1 .. Len(c) : CallShape(d[i]) /\ SameCall(d[i], c[i])
  BY <1>2 DEF Calls, SameCall
<1> QED BY <1>2, <1>3 DEF SameCalls, Calls, d

\* A new input on the stack: a file only on a file.
LEMMA PushInput ==
  ASSUME NEW s, Stack(s), NEW x, InputShape(x),
         x.t = "file" => s # <<>> /\ s[Len(s)].t = "file"
  PROVE  /\ Stack(Append(s, x)) /\ Len(Append(s, x)) = Len(s) + 1 /\ Len(s) \in Nat
         /\ \A i \in 1 .. Len(s) : Append(s, x)[i] = s[i]
         /\ Append(s, x)[Len(s) + 1] = x
         /\ \A h : Marks(s, h) => Marks(Append(s, x), h)
<1> DEFINE t == Append(s, x)
<1>1. IsSeq(s)
  BY DEF Stack
<1>2. /\ IsSeq(t) /\ Len(t) = Len(s) + 1 /\ Len(s) \in Nat
      /\ \A i \in 1 .. Len(s) : t[i] = s[i]
      /\ t[Len(s) + 1] = x
  BY <1>1, PushSeq
<1> HIDE DEF t
<1>3. \A i \in 1 .. Len(t) : InputShape(t[i])
  <2>1. \A i \in 1 .. Len(t) : i \in 1 .. Len(s) \/ i = Len(s) + 1
    BY <1>2
  <2> QED BY <1>2, <2>1 DEF Stack
<1>4. ASSUME NEW i \in 1 .. Len(t), NEW j \in 1 .. Len(t), i < j, t[j].t = "file" PROVE t[i].t = "file"
  <2>1. i \in 1 .. Len(s) /\ t[i] = s[i]
    BY <1>2, <1>4
  <2>2. CASE j \in 1 .. Len(s)
    BY <1>2, <1>4, <2>1, <2>2 DEF Stack
  <2>3. CASE j = Len(s) + 1
    <3>1. s[Len(s)].t = "file" /\ Len(s) \in 1 .. Len(s)
      BY <1>2, <1>4, <2>1, <2>3
    <3>2. i = Len(s) \/ i < Len(s)
      BY <1>2, <2>1
    <3> QED BY <2>1, <3>1, <3>2 DEF Stack
  <2> QED BY <1>2, <2>2, <2>3
<1>5. Stack(t)
  BY <1>2, <1>3, <1>4 DEF Stack
<1>6. ASSUME NEW h, Marks(s, h) PROVE Marks(t, h)
  <2>1. \A i \in 1 .. Len(s) : i \in 1 .. Len(t) /\ t[i].hs = s[i].hs
    BY <1>2
  <2> QED BY <1>6, <2>1 DEF Marks
<1> QED BY <1>2, <1>5, <1>6 DEF t

\* A file or a parameter above the calls that there are.
LEMMA PushPlain ==
  ASSUME NEW s, Stack(s), NEW c, Calls(c), Placed(s, c), NEW x, InputShape(x),
         x.t = "file" => s # <<>> /\ s[Len(s)].t = "file",
         AtWork(s, c) => x.t = "param", x.t # "macro", x.hs = {}
  PROVE  /\ Placed(Append(s, x), c) /\ ~AtWork(Append(s, x), c)
         /\ \A h : Hidden(s, c, h) => Hidden(Append(s, x), c, h)
<1> DEFINE t == Append(s, x)
<1>1. /\ Len(t) = Len(s) + 1 /\ Len(s) \in Nat
      /\ \A i \in 1 .. Len(s) : t[i] = s[i]
      /\ t[Len(s) + 1] = x
  BY PushInput
<1> HIDE DEF t
<1>2. \A j \in 1 .. Len(c) : CallShape(c[j]) /\ c[j].base \in Nat
  BY DEF Calls, CallShape
<1>3. Len(c) \in Nat
  BY DEF Calls, IsSeq
<1>4. ASSUME NEW j \in 1 .. Len(c), c[j].k = "copy"
      PROVE  /\ c[j].base \in 1 .. Len(s)
             /\ s[c[j].base].t = "macro" /\ s[c[j].base].sym = c[j].sym
             /\ c[j].base < Len(s) => s[c[j].base + 1].t = "param"
             /\ j # Len(c) => c[j].base < Len(s)
             /\ \A k \in 1 .. Len(c) : j < k /\ c[k].k = "copy" => c[j].base < c[k].base
  BY <1>4 DEF Placed
<1>5. Placed(t, c)
  <2>1. SUFFICES ASSUME NEW j \in 1 .. Len(c), c[j].k = "copy"
                 PROVE  /\ c[j].base \in 1 .. Len(t)
                        /\ t[c[j].base].t = "macro" /\ t[c[j].base].sym = c[j].sym
                        /\ c[j].base < Len(t) => t[c[j].base + 1].t = "param"
                        /\ j # Len(c) => c[j].base < Len(t)
                        /\ \A k \in 1 .. Len(c) : j < k /\ c[k].k = "copy" => c[j].base < c[k].base
    BY DEF Placed
  <2>2. CASE c[j].base < Len(s)
    <3>1. c[j].base + 1 \in 1 .. Len(s)
      BY <1>1, <1>4, <2>1, <2>2
    <3> QED BY <1>1, <1>4, <2>1, <2>2, <3>1
  <2>3. CASE c[j].base = Len(s)
    <3>1. j = Len(c) /\ c # <<>>
      BY <1>1, <1>3, <1>4, <2>1, <2>3
    <3>2. AtWork(s, c)
      BY <2>1, <2>3, <3>1 DEF AtWork
    <3> QED BY <1>1, <1>4, <2>1, <2>3, <3>1, <3>2
  <2> QED BY <1>1, <1>4, <2>1, <2>2, <2>3
<1>6. ~AtWork(t, c)
  <2>1. SUFFICES ASSUME AtWork(t, c) PROVE FALSE
    OBVIOUS
  <2>2. Len(c) \in 1 .. Len(c)
    <3>1. c # <<>> /\ Len(c) # 0
      BY <2>1 DEF AtWork, Calls, IsSeq
    <3> QED BY <1>3, <3>1
  <2> QED BY <1>1, <1>4, <2>1, <2>2 DEF AtWork
<1>7. ASSUME NEW h, Hidden(s, c, h) PROVE Hidden(t, c, h)
  <2>1. ASSUME NEW i \in 1 .. Len(t), Open(i, t, c) PROVE i \in 1 .. Len(s) /\ Open(i, s, c) /\ t[i] = s[i]
    <3>1. t[i].t = "macro"
      BY <2>1 DEF Open
    <3>2. i \in 1 .. Len(s) /\ t[i] = s[i]
      BY <1>1, <3>1
    <3> QED BY <2>1, <3>2 DEF Open
  <2>2. \A i \in 1 .. Len(t) : Open(i, t, c) => t[i].sym \in h
    BY <1>7, <2>1 DEF Hidden
  <2>3. ASSUME NEW i \in 1 .. Len(t), NEW j \in 1 .. Len(t), i < j, Open(i, t, c)
        PROVE  t[i].sym \notin t[j].hs /\ (t[j].t = "macro" => t[i].sym # t[j].sym)
    <3>1. i \in 1 .. Len(s) /\ Open(i, s, c) /\ t[i] = s[i]
      BY <2>1, <2>3
    <3>2. CASE j \in 1 .. Len(s)
      BY <1>1, <1>7, <2>3, <3>1, <3>2 DEF Hidden
    <3>3. CASE j = Len(s) + 1
      BY <1>1, <3>3
    <3> QED BY <1>1, <3>2, <3>3
  <2> QED BY <2>2, <2>3 DEF Hidden
<1> QED BY <1>5, <1>6, <1>7 DEF t

\* The replacement of a macro that is not hidden, with copymacro() at work on it.
LEMMA PushMacroHolds ==
  ASSUME NEW s, Stack(s), NEW c, Calls(c), Placed(s, c), ~AtWork(s, c),
         NEW x, InputShape(x), x.t = "macro", x.hs = {},
         NEW a, CallShape(a), a.k = "copy", a.sym = x.sym, a.base = Len(s) + 1
  PROVE  /\ Calls(Append(c, a)) /\ Placed(Append(s, x), Append(c, a))
         /\ \A h : Hidden(s, c, h) /\ x.sym \notin h => Hidden(Append(s, x), Append(c, a), h)
         /\ \A j \in 1 .. Len(Append(c, a)) : Append(c, a)[j].k = "pars" =>
              j \in 1 .. Len(c) /\ Append(c, a)[j] = c[j]
<1> DEFINE t == Append(s, x)
           d == Append(c, a)
<1>1. /\ Len(t) = Len(s) + 1 /\ Len(s) \in Nat
      /\ \A i \in 1 .. Len(s) : t[i] = s[i]
      /\ t[Len(s) + 1] = x
  BY PushInput
<1>2. IsSeq(c)
  BY DEF Calls
<1>3. /\ IsSeq(d) /\ Len(d) = Len(c) + 1 /\ Len(c) \in Nat
      /\ \A j \in 1 .. Len(c) : d[j] = c[j]
      /\ d[Len(c) + 1] = a
  BY <1>2, PushSeq
<1> HIDE DEF t, d
<1>4. \A j \in 1 .. Len(d) : j \in 1 .. Len(c) \/ j = Len(c) + 1
  BY <1>3
<1>5. Calls(d)
  BY <1>3, <1>4 DEF Calls
<1>6. ASSUME NEW j \in 1 .. Len(c), c[j].k = "copy"
      PROVE  /\ c[j].base \in 1 .. Len(s) /\ c[j].base < Len(s) /\ c[j].base + 1 \in 1 .. Len(s)
             /\ s[c[j].base].t = "macro" /\ s[c[j].base].sym = c[j].sym
             /\ s[c[j].base + 1].t = "param"
             /\ \A k \in 1 .. Len(c) : j < k /\ c[k].k = "copy" => c[j].base < c[k].base
  <2>1. /\ c[j].base \in 1 .. Len(s)
        /\ s[c[j].base].t = "macro" /\ s[c[j].base].sym = c[j].sym
        /\ c[j].base < Len(s) => s[c[j].base + 1].t = "param"
        /\ j # Len(c) => c[j].base < Len(s)
        /\ \A k \in 1 .. Len(c) : j < k /\ c[k].k = "copy" => c[j].base < c[k].base
    BY <1>6 DEF Placed
  <2>2. c[j].base < Len(s)
    <3>1. SUFFICES ASSUME c[j].base = Len(s) PROVE FALSE
      BY <1>1, <2>1
    <3>2. j = Len(c) /\ c # <<>>
      BY <1>1, <1>3, <2>1, <3>1
    <3> QED BY <1>6, <3>1, <3>2 DEF AtWork
  <2> QED BY <1>1, <2>1, <2>2
<1>7. Placed(t, d)
  <2>1. SUFFICES ASSUME NEW j \in 1 .. Len(d), d[j].k = "copy"
                 PROVE  /\ d[j].base \in 1 .. Len(t)
                        /\ t[d[j].base].t = "macro" /\ t[d[j].base].sym = d[j].sym
                        /\ d[j].base < Len(t) => t[d[j].base + 1].t = "param"
                        /\ j # Len(d) => d[j].base < Len(t)
                        /\ \A k \in 1 .. Len(d) : j < k /\ d[k].k = "copy" => d[j].base < d[k].base
    BY DEF Placed
  <2>2. CASE j \in 1 .. Len(c)
    <3>1. d[j] = c[j] /\ c[j].k = "copy"
      BY <1>3, <2>1, <2>2
    <3>2. /\ d[j].base \in 1 .. Len(t) /\ d[j].base < Len(t)
          /\ t[d[j].base].t = "macro" /\ t[d[j].base].sym = d[j].sym
          /\ t[d[j].base + 1].t = "param"
      BY <1>1, <1>6, <2>2, <3>1
    <3>3. ASSUME NEW k \in 1 .. Len(d), j < k, d[k].k = "copy" PROVE d[j].base < d[k].base
      <4>1. CASE k \in 1 .. Len(c)
        BY <1>3, <1>6, <2>2, <3>1, <3>3, <4>1
      <4>2. CASE k = Len(c) + 1
        BY <1>1, <1>3, <1>6, <2>2, <3>1, <4>2
      <4> QED BY <1>4, <4>1, <4>2
    <3> QED BY <3>2, <3>3
  <2>3. CASE j = Len(c) + 1
    BY <1>1, <1>3, <2>3
  <2> QED BY <1>4, <2>2, <2>3
<1>8. ASSUME NEW h, Hidden(s, c, h), x.sym \notin h PROVE Hidden(t, d, h)
  <2>1. ASSUME NEW i \in 1 .. Len(t), Open(i, t, d) PROVE i \in 1 .. Len(s) /\ Open(i, s, c) /\ t[i] = s[i]
    <3>1. i # Len(s) + 1
      BY <1>3, <2>1 DEF Open
    <3>2. i \in 1 .. Len(s) /\ t[i] = s[i]
      BY <1>1, <3>1
    <3>3. \A j \in 1 .. Len(c) : j \in 1 .. Len(d) /\ d[j] = c[j]
      BY <1>3
    <3> QED BY <2>1, <3>2, <3>3 DEF Open
  <2>2. \A i \in 1 .. Len(t) : Open(i, t, d) => t[i].sym \in h
    BY <1>8, <2>1 DEF Hidden
  <2>3. ASSUME NEW i \in 1 .. Len(t), NEW j \in 1 .. Len(t), i < j, Open(i, t, d)
        PROVE  t[i].sym \notin t[j].hs /\ (t[j].t = "macro" => t[i].sym # t[j].sym)
    <3>1. i \in 1 .. Len(s) /\ Open(i, s, c) /\ t[i] = s[i]
      BY <2>1, <2>3
    <3>2. CASE j \in 1 .. Len(s)
      BY <1>1, <1>8, <2>3, <3>1, <3>2 DEF Hidden
    <3>3. CASE j = Len(s) + 1
      <4>1. t[i].sym \in h
        BY <2>2, <2>3
      <4> QED BY <1>1, <1>8, <3>3, <4>1
    <3> QED BY <1>1, <3>2, <3>3
  <2> QED BY <2>2, <2>3 DEF Hidden
<1>9. \A j \in 1 .. Len(d) : d[j].k = "pars" => j \in 1 .. Len(c) /\ d[j] = c[j]
  BY <1>3, <1>4
<1> QED BY <1>5, <1>7, <1>8, <1>9 DEF t, d

\* parsepars() starts to collect.
LEMMA PushPars ==
  ASSUME NEW s, Stack(s), NEW c, Calls(c), Placed(s, c), ~AtWork(s, c),
         NEW a, CallShape(a), a.k = "pars"
  PROVE  /\ Calls(Append(c, a)) /\ Placed(s, Append(c, a)) /\ ~AtWork(s, Append(c, a))
         /\ Len(Append(c, a)) = Len(c) + 1 /\ Append(c, a)[Len(c) + 1] = a /\ Len(c) \in Nat
         /\ \A j \in 1 .. Len(c) : Append(c, a)[j] = c[j]
         /\ \A h : Hidden(s, c, h) => Hidden(s, Append(c, a), h)
<1> DEFINE d == Append(c, a)
<1>1. IsSeq(c) /\ Len(s) \in Nat
  BY DEF Calls, Stack, IsSeq
<1>2. /\ IsSeq(d) /\ Len(d) = Len(c) + 1 /\ Len(c) \in Nat
      /\ \A j \in 1 .. Len(c) : d[j] = c[j]
      /\ d[Len(c) + 1] = a
  BY <1>1, PushSeq
<1> HIDE DEF d
<1>3. \A j \in 1 .. Len(d) : j \in 1 .. Len(c) \/ j = Len(c) + 1
  BY <1>2
<1>4. Calls(d)
  BY <1>2, <1>3 DEF Calls
<1>5. \A j \in 1 .. Len(d) : d[j].k = "copy" => j \in 1 .. Len(c) /\ d[j] = c[j] /\ c[j].k = "copy"
  BY <1>2, <1>3
<1>6. ASSUME NEW j \in 1 .. Len(c), c[j].k = "copy"
      PROVE  /\ c[j].base \in 1 .. Len(s) /\ c[j].base < Len(s)
             /\ s[c[j].base].t = "macro" /\ s[c[j].base].sym = c[j].sym
             /\ s[c[j].base + 1].t = "param"
             /\ \A k \in 1 .. Len(c) : j < k /\ c[k].k = "copy" => c[j].base < c[k].base
  <2>1. /\ c[j].base \in 1 .. Len(s)
        /\ s[c[j].base].t = "macro" /\ s[c[j].base].sym = c[j].sym
        /\ c[j].base < Len(s) => s[c[j].base + 1].t = "param"
        /\ j # Len(c) => c[j].base < Len(s)
        /\ \A k \in 1 .. Len(c) : j < k /\ c[k].k = "copy" => c[j].base < c[k].base
    BY <1>6 DEF Placed
  <2>2. c[j].base < Len(s)
    <3>1. SUFFICES ASSUME c[j].base = Len(s) PROVE FALSE
      BY <1>1, <2>1
    <3>2. j = Len(c) /\ c # <<>>
      BY <1>1, <1>2, <2>1, <3>1
    <3> QED BY <1>6, <3>1, <3>2 DEF AtWork
  <2> QED BY <2>1, <2>2
<1>7. Placed(s, d)
  <2>1. SUFFICES ASSUME NEW j \in 1 .. Len(d), d[j].k = "copy"
                 PROVE  /\ d[j].base \in 1 .. Len(s)
                        /\ s[d[j].base].t = "macro" /\ s[d[j].base].sym = d[j].sym
                        /\ d[j].base < Len(s) => s[d[j].base + 1].t = "param"
                        /\ j # Len(d) => d[j].base < Len(s)
                        /\ \A k \in 1 .. Len(d) : j < k /\ d[k].k = "copy" => d[j].base < d[k].base
    BY DEF Placed
  <2>2. j \in 1 .. Len(c) /\ d[j] = c[j] /\ c[j].k = "copy"
    BY <1>5, <2>1
  <2>3. \A k \in 1 .. Len(d) : j < k /\ d[k].k = "copy" => d[j].base < d[k].base
    BY <1>5, <1>6, <2>2
  <2> QED BY <1>6, <2>2, <2>3
<1>8. ~AtWork(s, d)
  BY <1>2 DEF AtWork
<1>9. \A i \in 1 .. Len(s) : Open(i, s, d) <=> Open(i, s, c)
  <2>1. \A j \in 1 .. Len(c) : j \in 1 .. Len(d) /\ d[j] = c[j]
    BY <1>2
  <2> QED BY <1>5, <2>1 DEF Open
<1>10. ASSUME NEW h, Hidden(s, c, h) PROVE Hidden(s, d, h)
  BY <1>9, <1>10 DEF Hidden
<1> QED BY <1>2, <1>4, <1>7, <1>8, <1>10 DEF d

\* parsepars() has collected the arguments.
LEMMA DropPars ==
  ASSUME NEW s, Stack(s), NEW c, Calls(c), Placed(s, c), c # <<>>, c[Len(c)].k = "pars"
  PROVE  /\ Calls(Front(c)) /\ Placed(s, Front(c)) /\ ~AtWork(s, Front(c))
         /\ Len(Front(c)) = Len(c) - 1 /\ Len(c) \in Nat \ {0}
         /\ \A j \in 1 .. Len(c) - 1 : Front(c)[j] = c[j]
         /\ \A h : Hidden(s, c, h) => Hidden(s, Front(c), h)
<1> DEFINE d == Front(c)
<1>1. IsSeq(c) /\ Len(s) \in Nat
  BY DEF Calls, Stack, IsSeq
<1>2. /\ IsSeq(d) /\ Len(d) = Len(c) - 1 /\ Len(c) \in Nat \ {0}
      /\ \A j \in 1 .. Len(c) - 1 : d[j] = c[j]
  BY <1>1, PopSeq
<1> HIDE DEF d
<1>3. \A j \in 1 .. Len(d) : j \in 1 .. Len(c) /\ d[j] = c[j] /\ j # Len(c)
  BY <1>2
<1>4. Calls(d)
  BY <1>2, <1>3 DEF Calls
<1>5. \A j \in 1 .. Len(c) : c[j].k = "copy" => j \in 1 .. Len(d)
  <2>1. \A j \in 1 .. Len(c) : c[j].k = "copy" => j # Len(c)
    OBVIOUS
  <2> QED BY <1>2, <2>1
<1>6. Placed(s, d)
  <2>1. SUFFICES ASSUME NEW j \in 1 .. Len(d), d[j].k = "copy"
                 PROVE  /\ d[j].base \in 1 .. Len(s)
                        /\ s[d[j].base].t = "macro" /\ s[d[j].base].sym = d[j].sym
                        /\ d[j].base < Len(s) => s[d[j].base + 1].t = "param"
                        /\ j # Len(d) => d[j].base < Len(s)
                        /\ \A k \in 1 .. Len(d) : j < k /\ d[k].k = "copy" => d[j].base < d[k].base
    BY DEF Placed
  <2>2. /\ d[j].base \in 1 .. Len(s) /\ d[j].base < Len(s)
        /\ s[d[j].base].t = "macro" /\ s[d[j].base].sym = d[j].sym
        /\ s[d[j].base + 1].t = "param"
    BY <1>3, <2>1 DEF Placed
  <2>3. \A k \in 1 .. Len(d) : j < k /\ d[k].k = "copy" => d[j].base < d[k].base
    BY <1>3, <2>1 DEF Placed
  <2> QED BY <2>2, <2>3
<1>7. ~AtWork(s, d)
  <2>1. SUFFICES ASSUME AtWork(s, d) PROVE FALSE
    OBVIOUS
  <2>2. Len(d) \in 1 .. Len(d)
    BY <1>2, <2>1 DEF AtWork, IsSeq
  <2>3. c[Len(d)].base < Len(s) /\ d[Len(d)] = c[Len(d)]
    BY <1>3, <2>1, <2>2 DEF Placed, AtWork
  <2> QED BY <1>1, <2>1, <2>3 DEF AtWork
<1>8. \A i \in 1 .. Len(s) : Open(i, s, d) <=> Open(i, s, c)
  BY <1>3, <1>5 DEF Open
<1>9. ASSUME NEW h, Hidden(s, c, h) PROVE Hidden(s, d, h)
  BY <1>8, <1>9 DEF Hidden
<1> QED BY <1>2, <1>4, <1>6, <1>7, <1>9 DEF d

\* The current input is popped, and what it hid is hidden no longer.
LEMMA PopInput ==
  ASSUME NEW s, Stack(s), s # <<>>, NEW c, Calls(c), Placed(s, c), ~AtWork(s, c),
         s[Len(s)].t = "param" => c = <<>> \/ c[Len(c)].k = "copy"
  PROVE  /\ Stack(Front(s)) /\ Placed(Front(s), c)
         /\ Len(s) \in Nat \ {0} /\ Len(Front(s)) = Len(s) - 1
         /\ \A i \in 1 .. Len(s) - 1 : Front(s)[i] = s[i]
         /\ s[Len(s)].t # "param" => ~AtWork(Front(s), c)
         /\ \A h : Marks(s, h) => Marks(Front(s), h \ s[Len(s)].hs)
         /\ \A h : Hidden(s, c, h) => Hidden(Front(s), c, h \ s[Len(s)].hs)
<1> DEFINE t == Front(s)
           top == s[Len(s)]
<1>1. IsSeq(s) /\ IsSeq(c) /\ Len(c) \in Nat
  BY DEF Calls, Stack, IsSeq
<1>2. /\ IsSeq(t) /\ Len(t) = Len(s) - 1 /\ Len(s) \in Nat \ {0}
      /\ \A i \in 1 .. Len(s) - 1 : t[i] = s[i]
  BY <1>1, PopSeq
<1> HIDE DEF t
<1>3. \A i \in 1 .. Len(t) : i \in 1 .. Len(s) /\ t[i] = s[i] /\ i < Len(s)
  BY <1>2
<1>4. Stack(t)
  BY <1>2, <1>3 DEF Stack
<1>5. ASSUME NEW j \in 1 .. Len(c), c[j].k = "copy"
      PROVE  /\ c[j].base \in 1 .. Len(t)
             /\ s[c[j].base].t = "macro" /\ s[c[j].base].sym = c[j].sym
             /\ s[c[j].base + 1].t = "param"
             /\ top.t # "param" => c[j].base < Len(t)
             /\ j # Len(c) => c[j].base < Len(t)
             /\ \A k \in 1 .. Len(c) : j < k /\ c[k].k = "copy" => c[j].base < c[k].base
  <2>1. /\ c[j].base \in 1 .. Len(s)
        /\ s[c[j].base].t = "macro" /\ s[c[j].base].sym = c[j].sym
        /\ c[j].base < Len(s) => s[c[j].base + 1].t = "param"
        /\ j # Len(c) => c[j].base < Len(s)
        /\ \A k \in 1 .. Len(c) : j < k /\ c[k].k = "copy" => c[j].base < c[k].base
    BY <1>5 DEF Placed
  <2>2. c[j].base < Len(s)
    <3>1. SUFFICES ASSUME c[j].base = Len(s) PROVE FALSE
      BY <1>2, <2>1
    <3>2. j = Len(c) /\ c # <<>>
      BY <1>1, <1>2, <2>1, <3>1
    <3> QED BY <1>5, <3>1, <3>2 DEF AtWork
  <2>3. c[j].base \in 1 .. Len(t) /\ s[c[j].base + 1].t = "param"
    BY <1>2, <2>1, <2>2
  <2>4. top.t # "param" => c[j].base < Len(t)
    <3>1. SUFFICES ASSUME c[j].base = Len(t) PROVE top.t = "param"
      BY <1>2, <2>3
    <3>2. c[j].base + 1 = Len(s)
      BY <1>2, <3>1
    <3> QED BY <2>3, <3>2
  <2>5. j # Len(c) => c[j].base < Len(t)
    <3>1. SUFFICES ASSUME j # Len(c), top.t = "param" PROVE c[j].base < Len(t)
      BY <2>4
    <3>2. c[Len(c)].k = "copy" /\ j < Len(c) /\ Len(c) \in 1 .. Len(c)
      <4>1. c # <<>>
        BY <1>1
      <4> QED BY <1>1, <3>1, <4>1
    <3>3. c[Len(c)].base \in 1 .. Len(s) /\ s[c[Len(c)].base].t = "macro" /\ c[j].base < c[Len(c)].base
      BY <1>5, <3>2 DEF Placed
    <3>4. c[Len(c)].base # Len(s)
      BY <3>1, <3>3
    <3> QED BY <1>2, <2>3, <3>3, <3>4
  <2> QED BY <2>1, <2>3, <2>4, <2>5
<1>6. Placed(t, c)
  <2>1. SUFFICES ASSUME NEW j \in 1 .. Len(c), c[j].k = "copy"
                 PROVE  /\ c[j].base \in 1 .. Len(t)
                        /\ t[c[j].base].t = "macro" /\ t[c[j].base].sym = c[j].sym
                        /\ c[j].base < Len(t) => t[c[j].base + 1].t = "param"
                        /\ j # Len(c) => c[j].base < Len(t)
                        /\ \A k \in 1 .. Len(c) : j < k /\ c[k].k = "copy" => c[j].base < c[k].base
    BY DEF Placed
  <2>2. c[j].base < Len(t) => c[j].base + 1 \in 1 .. Len(t)
    BY <1>2, <1>5, <2>1
  <2> QED BY <1>3, <1>5, <2>1, <2>2
<1>7. top.t # "param" => ~AtWork(t, c)
  <2>1. SUFFICES ASSUME top.t # "param", AtWork(t, c) PROVE FALSE
    OBVIOUS
  <2>2. Len(c) \in 1 .. Len(c)
    BY <1>1, <2>1 DEF AtWork, IsSeq
  <2> QED BY <1>2, <1>5, <2>1, <2>2 DEF AtWork
<1>8. ASSUME NEW h, Marks(s, h) PROVE Marks(t, h \ top.hs)
  <2>1. SUFFICES ASSUME NEW x \in h, x \notin top.hs PROVE \E i \in 1 .. Len(t) : x \in t[i].hs
    BY DEF Marks
  <2>2. PICK i \in 1 .. Len(s) : x \in s[i].hs
    BY <1>8 DEF Marks
  <2>3. i # Len(s)
    BY <2>1, <2>2
  <2>4. i \in 1 .. Len(t) /\ t[i] = s[i]
    BY <1>2, <2>3
  <2> QED BY <2>2, <2>4
<1>9. ASSUME NEW h, Hidden(s, c, h) PROVE Hidden(t, c, h \ top.hs)
  <2>1. \A i \in 1 .. Len(t) : Open(i, t, c) <=> Open(i, s, c)
    BY <1>3 DEF Open
  <2>2. \A i \in 1 .. Len(t) : Open(i, t, c) => t[i].sym \in h \ top.hs
    <3>1. SUFFICES ASSUME NEW i \in 1 .. Len(t), Open(i, s, c) PROVE s[i].sym \in h /\ s[i].sym \notin top.hs
      BY <1>3, <2>1
    <3>2. i \in 1 .. Len(s) /\ i < Len(s) /\ Len(s) \in 1 .. Len(s)
      BY <1>2, <1>3
    <3> QED BY <1>9, <3>1, <3>2 DEF Hidden
  <2>3. ASSUME NEW i \in 1 .. Len(t), NEW j \in 1 .. Len(t), i < j, Open(i, t, c)
        PROVE  t[i].sym \notin t[j].hs /\ (t[j].t = "macro" => t[i].sym # t[j].sym)
    BY <1>3, <1>9, <2>1, <2>3 DEF Hidden
  <2> QED BY <2>2, <2>3 DEF Hidden
<1> QED BY <1>2, <1>4, <1>6, <1>7, <1>8, <1>9 DEF t

\* t is s with the macro x in the hide set of every macro.
Marked(s, x, t) ==
  \A i \in 1 .. Len(s) :
    /\ InputShape(t[i]) /\ t[i].t = s[i].t /\ t[i].sym = s[i].sym
    /\ t[i].hs = IF s[i].t = "macro" THEN s[i].hs \cup {x} ELSE s[i].hs

\* copymacro() is done: its macro is hidden, and joins the hide set of every macro.
LEMMA FinishCopy ==
  ASSUME NEW s, Stack(s), NEW c, Calls(c), Placed(s, c), AtWork(s, c), NEW t, IsSeq(t), Len(t) = Len(s),
         Marked(s, c[Len(c)].sym, t)
  PROVE  /\ Stack(t) /\ Calls(Front(c)) /\ Placed(t, Front(c)) /\ ~AtWork(t, Front(c))
         /\ Len(Front(c)) = Len(c) - 1 /\ Len(c) \in Nat \ {0} /\ Len(s) \in Nat \ {0}
         /\ \A j \in 1 .. Len(c) - 1 : Front(c)[j] = c[j]
         /\ \A h : Marks(s, h) => Marks(t, h \cup t[Len(t)].hs)
         /\ \A h : Hidden(s, c, h) => Hidden(t, Front(c), h \cup t[Len(t)].hs)
<1> DEFINE d == Front(c)
           n == Len(s)
<1>0. \A i \in 1 .. Len(s) :
        /\ InputShape(t[i]) /\ t[i].t = s[i].t /\ t[i].sym = s[i].sym
        /\ t[i].hs = IF s[i].t = "macro" THEN s[i].hs \cup {c[Len(c)].sym} ELSE s[i].hs
  BY DEF Marked
<1> USE <1>0
<1>1. IsSeq(c) /\ Len(s) \in Nat /\ c # <<>> /\ c[Len(c)].k = "copy" /\ c[Len(c)].base = n
  BY DEF Calls, Stack, IsSeq, AtWork
<1>2. /\ IsSeq(d) /\ Len(d) = Len(c) - 1 /\ Len(c) \in Nat \ {0}
      /\ \A j \in 1 .. Len(c) - 1 : d[j] = c[j]
  BY <1>1, PopSeq
<1> HIDE DEF d
<1>3. \A j \in 1 .. Len(d) : j \in 1 .. Len(c) /\ d[j] = c[j] /\ j < Len(c)
  BY <1>2
<1>4. Calls(d)
  BY <1>2, <1>3 DEF Calls
<1>5. Len(c) \in 1 .. Len(c)
  BY <1>2
<1>6. n \in 1 .. n /\ s[n].t = "macro" /\ s[n].sym = c[Len(c)].sym
  BY <1>1, <1>5 DEF Placed
<1>7. Stack(t)
  BY DEF Stack
<1>8. \A j \in 1 .. Len(d) : d[j].k = "copy" =>
        /\ d[j].base \in 1 .. n /\ d[j].base < n /\ d[j].base + 1 \in 1 .. n
        /\ s[d[j].base].t = "macro" /\ s[d[j].base].sym = d[j].sym
        /\ s[d[j].base + 1].t = "param"
        /\ \A k \in 1 .. Len(d) : j < k /\ d[k].k = "copy" => d[j].base < d[k].base
  <2>1. SUFFICES ASSUME NEW j \in 1 .. Len(d), d[j].k = "copy"
                 PROVE  /\ d[j].base \in 1 .. n /\ d[j].base < n /\ d[j].base + 1 \in 1 .. n
                        /\ s[d[j].base].t = "macro" /\ s[d[j].base].sym = d[j].sym
                        /\ s[d[j].base + 1].t = "param"
                        /\ \A k \in 1 .. Len(d) : j < k /\ d[k].k = "copy" => d[j].base < d[k].base
    OBVIOUS
  <2>2. j \in 1 .. Len(c) /\ d[j] = c[j] /\ j # Len(c)
    BY <1>2, <1>3
  <2>3. /\ d[j].base \in 1 .. n /\ d[j].base < n
        /\ s[d[j].base].t = "macro" /\ s[d[j].base].sym = d[j].sym
        /\ s[d[j].base + 1].t = "param"
        /\ \A k \in 1 .. Len(c) : j < k /\ c[k].k = "copy" => d[j].base < c[k].base
    BY <2>1, <2>2 DEF Placed
  <2>4. d[j].base + 1 \in 1 .. n
    BY <1>1, <2>3
  <2> QED BY <1>3, <2>3, <2>4
<1>9. Placed(t, d)
  <2>1. SUFFICES ASSUME NEW j \in 1 .. Len(d), d[j].k = "copy"
                 PROVE  /\ d[j].base \in 1 .. n
                        /\ t[d[j].base].t = "macro" /\ t[d[j].base].sym = d[j].sym
                        /\ d[j].base < n => t[d[j].base + 1].t = "param"
                        /\ j # Len(d) => d[j].base < n
                        /\ \A k \in 1 .. Len(d) : j < k /\ d[k].k = "copy" => d[j].base < d[k].base
    BY DEF Placed
  <2> QED BY <1>8, <2>1
<1>10. ~AtWork(t, d)
  <2>1. SUFFICES ASSUME AtWork(t, d) PROVE FALSE
    OBVIOUS
  <2>2. Len(d) \in 1 .. Len(d)
    BY <1>2, <2>1 DEF AtWork, IsSeq
  <2> QED BY <1>1, <1>8, <2>1, <2>2 DEF AtWork
<1>11. ASSUME NEW i \in 1 .. n, Open(i, t, d) PROVE i = n \/ Open(i, s, c)
  <2>1. SUFFICES ASSUME i # n, NEW j \in 1 .. Len(c), c[j].k = "copy" PROVE c[j].base # i
    BY <1>11 DEF Open
  <2>2. CASE j = Len(c)
    BY <1>1, <2>1, <2>2
  <2>3. CASE j # Len(c)
    <3>1. j \in 1 .. Len(d) /\ d[j] = c[j]
      BY <1>2, <2>3
    <3> QED BY <1>11, <2>1, <3>1 DEF Open
  <2> QED BY <2>2, <2>3
<1>12. ASSUME NEW h, Marks(s, h) PROVE Marks(t, h \cup t[Len(t)].hs)
  <2>1. SUFFICES ASSUME NEW x \in h \cup t[Len(t)].hs PROVE \E i \in 1 .. Len(t) : x \in t[i].hs
    BY DEF Marks
  <2>2. CASE x \in h
    <3>1. PICK i \in 1 .. Len(s) : x \in s[i].hs
      BY <1>12, <2>2 DEF Marks
    <3> QED BY <3>1
  <2> QED BY <1>6, <2>1, <2>2
<1>13. ASSUME NEW h, Hidden(s, c, h) PROVE Hidden(t, d, h \cup t[Len(t)].hs)
  <2>1. ASSUME NEW i \in 1 .. n, Open(i, t, d) PROVE t[i].sym \in h \cup t[Len(t)].hs
    <3>1. CASE i = n
      <4>1. c[Len(c)].sym \in t[n].hs /\ t[i].sym = c[Len(c)].sym
        BY <1>6, <3>1
      <4> QED BY <4>1
    <3>2. CASE Open(i, s, c)
      <4>1. s[i].sym \in h /\ t[i].sym = s[i].sym
        BY <1>13, <3>2 DEF Hidden
      <4> QED BY <4>1
    <3> QED BY <1>11, <2>1, <3>1, <3>2
  <2>2. ASSUME NEW i \in 1 .. n, NEW j \in 1 .. n, i < j, Open(i, t, d)
        PROVE  t[i].sym \notin t[j].hs /\ (t[j].t = "macro" => t[i].sym # t[j].sym)
    <3>1. i # n /\ i < n
      BY <1>1, <2>2
    <3>2. Open(i, s, c)
      BY <1>11, <2>2, <3>1
    <3>3. s[i].sym \notin s[j].hs /\ (s[j].t = "macro" => s[i].sym # s[j].sym)
      BY <1>13, <2>2, <3>2 DEF Hidden
    <3>4. s[i].sym # c[Len(c)].sym
      BY <1>6, <1>13, <3>1, <3>2 DEF Hidden
    <3> QED BY <3>3, <3>4
  <2> QED BY <2>1, <2>2 DEF Hidden
<1> QED BY <1>2, <1>4, <1>6, <1>7, <1>9, <1>10, <1>12, <1>13 DEF d

(***************************************************************************)
(* The line number.                                                        *)
(***************************************************************************)

\* The text of the inputs, and the line kept with the current one, do not matter.
LEMMA PlaceSame ==
  ASSUME NEW s, NEW t, NEW n, Len(s) \in Nat, Located(s, n), Len(t) = Len(s),
         \A i \in 1 .. Len(s) : /\ t[i].t = s[i].t /\ t[i].phys = s[i].phys
                                /\ i # Len(s) => t[i].lno = s[i].lno
  PROVE  Located(t, n)
<1>1. \A i \in 1 .. Len(s) : TopFile(i, t) <=> TopFile(i, s)
  BY DEF TopFile
<1>2. \A i \in 1 .. Len(t) : i < Len(t) /\ t[i].t = "file" => t[i].lno = t[i].phys
  BY DEF Located
<1>3. \A i, k \in 1 .. Len(t) : TopFile(i, t) /\ i < k /\ k < Len(t) => t[k].lno = t[i].phys
  BY <1>1 DEF Located
<1>4. \A i \in 1 .. Len(t) : TopFile(i, t) => n = t[i].phys
  BY <1>1 DEF Located
<1> QED BY <1>2, <1>3, <1>4 DEF Located

\* The current input is a file, and is at another line.
LEMMA PlaceMoved ==
  ASSUME NEW s, NEW t, NEW n, Len(s) \in Nat \ {0}, Located(s, n), Len(t) = Len(s),
         s[Len(s)].t = "file", t[Len(s)].t = "file",
         \A i \in 1 .. Len(s) : i # Len(s) => t[i].t = s[i].t /\ t[i].phys = s[i].phys /\ t[i].lno = s[i].lno
  PROVE  Located(t, t[Len(s)].phys)
<1>1. \A i \in 1 .. Len(t) : TopFile(i, t) => i = Len(s)
  BY DEF TopFile
<1>2. \A i \in 1 .. Len(t) : i < Len(t) /\ t[i].t = "file" => t[i].lno = t[i].phys
  BY DEF Located
<1> QED BY <1>1, <1>2 DEF Located

\* A new input: one that is no file is on the line of what it is read for.
LEMMA PlacePushed ==
  ASSUME NEW s, NEW t, NEW n, NEW m, Len(s) \in Nat \ {0}, Located(s, n), s[Len(s)].lno = n,
         Len(t) = Len(s) + 1, \A i \in 1 .. Len(s) : t[i] = s[i],
         \/ t[Len(t)].t # "file" /\ m = n
         \/ t[Len(t)].t = "file" /\ m = t[Len(t)].phys
  PROVE  Located(t, m)
<1>1. \A i \in 1 .. Len(t) : i \in 1 .. Len(s) \/ i = Len(t)
  OBVIOUS
<1>2. ASSUME NEW i \in 1 .. Len(t), i < Len(t), t[i].t = "file" PROVE t[i].lno = t[i].phys
  <2>1. i \in 1 .. Len(s) /\ t[i] = s[i]
    BY <1>2
  <2>2. CASE i = Len(s)
    <3>1. TopFile(i, s)
      BY <1>2, <2>1, <2>2 DEF TopFile
    <3> QED BY <2>1, <2>2, <3>1 DEF Located
  <2>3. CASE i # Len(s)
    BY <1>2, <2>1, <2>3 DEF Located
  <2> QED BY <2>2, <2>3
<1>3. CASE t[Len(t)].t = "file"
  <2>1. \A i \in 1 .. Len(t) : TopFile(i, t) => i = Len(t)
    BY <1>3 DEF TopFile
  <2> QED BY <1>2, <1>3, <2>1 DEF Located
<1>4. CASE t[Len(t)].t # "file"
  <2>1. \A i \in 1 .. Len(t) : TopFile(i, t) => i \in 1 .. Len(s) /\ TopFile(i, s)
    BY <1>1, <1>4 DEF TopFile
  <2>2. \A i \in 1 .. Len(t) : TopFile(i, t) => m = t[i].phys
    BY <1>4, <2>1 DEF Located
  <2>3. ASSUME NEW i \in 1 .. Len(t), NEW k \in 1 .. Len(t), TopFile(i, t), i < k, k < Len(t)
        PROVE  t[k].lno = t[i].phys
    <3>1. k \in 1 .. Len(s) /\ i \in 1 .. Len(s) /\ TopFile(i, s)
      BY <2>1, <2>3
    <3>2. CASE k = Len(s)
      BY <3>1, <3>2 DEF Located
    <3>3. CASE k # Len(s)
      BY <2>3, <3>1, <3>3 DEF Located
    <3> QED BY <3>2, <3>3
  <2> QED BY <1>2, <2>2, <2>3 DEF Located
<1> QED BY <1>3, <1>4

\* The current input is popped: its line is the one that was kept below it.
LEMMA PlacePopped ==
  ASSUME NEW s, Stack(s), NEW t, NEW n, Len(s) \in Nat \ {0}, Located(s, n), Len(t) = Len(s) - 1,
         \A i \in 1 .. Len(s) - 1 : t[i] = s[i]
  PROVE  Located(t, IF Len(s) > 1 THEN s[Len(s) - 1].lno ELSE n)
<1> DEFINE m == IF Len(s) > 1 THEN s[Len(s) - 1].lno ELSE n
<1>0. \A i \in 1 .. Len(t) : i \in 1 .. Len(s) /\ i < Len(s) /\ t[i] = s[i]
  OBVIOUS
<1>1. \A i \in 1 .. Len(t) : i < Len(t) /\ t[i].t = "file" => t[i].lno = t[i].phys
  BY <1>0 DEF Located
<1>2. CASE s[Len(s)].t = "file"
  <2>1. \A i \in 1 .. Len(t) : t[i].t = "file"
    BY <1>0, <1>2 DEF Stack
  <2>2. \A i \in 1 .. Len(t) : TopFile(i, t) => i = Len(s) - 1
    BY <2>1 DEF TopFile
  <2>3. \A i \in 1 .. Len(t) : TopFile(i, t) => m = t[i].phys
    <3>1. SUFFICES ASSUME NEW i \in 1 .. Len(t), TopFile(i, t) PROVE m = t[i].phys
      OBVIOUS
    <3>2. i = Len(s) - 1 /\ i \in 1 .. Len(s) /\ i < Len(s) /\ s[i].t = "file" /\ t[i] = s[i]
      BY <1>0, <2>1, <2>2, <3>1
    <3>3. s[i].lno = s[i].phys
      BY <3>2 DEF Located
    <3> QED BY <3>2, <3>3
  <2> QED BY <1>1, <2>2, <2>3 DEF Located
<1>3. CASE s[Len(s)].t # "file"
  <2>1. ASSUME NEW i \in 1 .. Len(t), TopFile(i, t) PROVE TopFile(i, s)
    <3> DEFINE n0 == Len(s)
    <3>0. n0 \in Nat /\ Len(t) = n0 - 1
      OBVIOUS
    <3> HIDE DEF n0
    <3>1. \A j \in 1 .. n0 : j \in 1 .. Len(t) \/ j = n0
      BY <3>0
    <3> USE DEF n0
    <3> QED BY <1>0, <1>3, <2>1, <3>1 DEF TopFile
  <2>2. ASSUME NEW i \in 1 .. Len(t), TopFile(i, t) PROVE m = t[i].phys
    <3>0. Len(s) \in Nat /\ i \in Nat /\ 1 <= i /\ i <= Len(s) - 1 /\ t[i] = s[i]
      BY <1>0
    <3>1. Len(s) - 1 \in 1 .. Len(s) /\ Len(s) - 1 < Len(s) /\ m = s[Len(s) - 1].lno /\ t[i] = s[i]
      BY <3>0
    <3>2. CASE i = Len(s) - 1
      BY <2>1, <2>2, <3>1, <3>2 DEF Located, TopFile
    <3>3. CASE i # Len(s) - 1
      <4>1. i < Len(s) - 1 /\ i \in 1 .. Len(s)
        BY <3>3
      <4> QED BY <2>1, <2>2, <3>1, <4>1 DEF Located
    <3> QED BY <3>2, <3>3
  <2>3. \A i, k \in 1 .. Len(t) : TopFile(i, t) /\ i < k /\ k < Len(t) => t[k].lno = t[i].phys
    BY <1>0, <2>1 DEF Located
  <2> QED BY <1>1, <2>2, <2>3 DEF Located
<1> QED BY <1>2, <1>3

(***************************************************************************)
(* The conditional groups.                                                 *)
(***************************************************************************)

\* How many of the first n groups are off.
Off(f, n)      == {i \in 0 .. n - 1 : ~f[i].enabled}
OffCount(f, n) == Cardinality(Off(f, n))

\* How the groups that are off are counted.
LEMMA OffFacts ==
  ASSUME NEW f, NEW g, NEW n \in Nat, \A i \in 0 .. n - 1 : g[i].enabled = f[i].enabled
  PROVE  /\ OffCount(g, n) = OffCount(f, n) /\ OffCount(f, n) \in 0 .. n
         /\ OffCount(g, n + 1) = OffCount(f, n) + (IF g[n].enabled THEN 0 ELSE 1)
<1>1. Off(g, n) = Off(f, n)
  BY DEF Off
<1>2. IsFiniteSet(Off(f, n)) /\ OffCount(f, n) \in Nat /\ OffCount(f, n) <= n
  <2>0. 0 \in Int /\ n - 1 \in Int /\ (IF 0 > n - 1 THEN 0 ELSE (n - 1) - 0 + 1) = n
    OBVIOUS
  <2>1. IsFiniteSet(0 .. n - 1) /\ Cardinality(0 .. n - 1) = n
    BY <2>0, FS_Interval, Zenon
  <2>2. Off(f, n) \in SUBSET (0 .. n - 1)
    BY DEF Off
  <2> QED BY <2>1, <2>2, FS_Subset, FS_CardinalityType DEF OffCount
<1>3. Off(g, n + 1) = IF g[n].enabled THEN Off(f, n) ELSE Off(f, n) \cup {n}
  <2>1. \A i : i \in 0 .. (n + 1) - 1 <=> i \in 0 .. n - 1 \/ i = n
    OBVIOUS
  <2> QED BY <1>1, <2>1 DEF Off
<1>4. n \notin Off(f, n)
  BY DEF Off
<1>5. IF g[n].enabled THEN OffCount(g, n + 1) = OffCount(f, n) ELSE OffCount(g, n + 1) = OffCount(f, n) + 1
  BY <1>2, <1>3, <1>4, FS_AddElement DEF OffCount
<1> QED BY <1>1, <1>2, <1>5 DEF OffCount

Conds ==
  /\ cppctx \in 0 .. NR_COND - 1
  /\ ifstate \in [0 .. NR_COND - 1 -> [enabled : BOOLEAN, iselse : BOOLEAN]]
  /\ cppoff = OffCount(ifstate, cppctx)

\* The state of the last group, and how many are off without it.
LEMMA LastGroup ==
  ASSUME Conds, cppctx # 0
  PROVE  /\ cppctx - 1 \in 0 .. NR_COND - 1 /\ cppctx - 1 \in Nat
         /\ ifstate[cppctx - 1] \in [enabled : BOOLEAN, iselse : BOOLEAN]
         /\ cppoff \in Nat /\ OffCount(ifstate, cppctx - 1) \in 0 .. cppctx - 1
         /\ cppoff = OffCount(ifstate, cppctx - 1) + (IF ifstate[cppctx - 1].enabled THEN 0 ELSE 1)
<1>1. NR_COND \in Nat \ {0} /\ cppctx \in Nat /\ cppctx - 1 \in Nat /\ cppctx - 1 \in 0 .. NR_COND - 1
  BY BoundsAssumption DEF Conds
<1>2. \A i \in 0 .. (cppctx - 1) - 1 : ifstate[i].enabled = ifstate[i].enabled
  OBVIOUS
<1>3. (cppctx - 1) + 1 = cppctx
  BY <1>1
<1>4. /\ OffCount(ifstate, cppctx - 1) \in 0 .. cppctx - 1
      /\ OffCount(ifstate, (cppctx - 1) + 1) =
           OffCount(ifstate, cppctx - 1) + (IF ifstate[cppctx - 1].enabled THEN 0 ELSE 1)
  BY <1>1, <1>2, OffFacts
<1>5. cppoff = OffCount(ifstate, cppctx - 1) + (IF ifstate[cppctx - 1].enabled THEN 0 ELSE 1)
  BY <1>3, <1>4 DEF Conds
<1> QED BY <1>1, <1>4, <1>5 DEF Conds

\* Group n is entered, or set to another state.
LEMMA GroupSet ==
  ASSUME Conds, NEW n \in 0 .. NR_COND - 2, n <= cppctx,
         NEW r \in [enabled : BOOLEAN, iselse : BOOLEAN],
         cppctx' = n + 1, ifstate' = [ifstate EXCEPT ![n] = r],
         cppoff' = OffCount(ifstate, n) + (IF r.enabled THEN 0 ELSE 1)
  PROVE  Conds'
<1>1. NR_COND \in Nat \ {0} /\ n \in Nat /\ n \in 0 .. NR_COND - 1 /\ n + 1 \in 0 .. NR_COND - 1
  BY BoundsAssumption
<1>2. ifstate' \in [0 .. NR_COND - 1 -> [enabled : BOOLEAN, iselse : BOOLEAN]]
  BY <1>1 DEF Conds
<1>3. ifstate'[n] = r /\ \A i \in 0 .. n - 1 : ifstate'[i].enabled = ifstate[i].enabled
  BY <1>1 DEF Conds
<1>4. OffCount(ifstate', n + 1) = OffCount(ifstate, n) + (IF ifstate'[n].enabled THEN 0 ELSE 1)
  <2> DEFINE g == ifstate'
  <2>1. n \in Nat /\ \A i \in 0 .. n - 1 : g[i].enabled = ifstate[i].enabled
    BY <1>1, <1>3
  <2> HIDE DEF g
  <2>2. OffCount(g, n + 1) = OffCount(ifstate, n) + (IF g[n].enabled THEN 0 ELSE 1)
    BY <2>1, OffFacts
  <2> QED BY <2>2 DEF g
<1> QED BY <1>1, <1>2, <1>3, <1>4 DEF Conds

\* A directive keeps the count of the groups that are off.
LEMMA ClauseConds ==
  ASSUME Conds, NEW l, clause(l), ~Wrong(l)
  PROVE  Conds'
<1>0. NR_COND \in Nat \ {0} /\ cppctx \in 0 .. NR_COND - 1 /\ cppctx \in Nat
  BY BoundsAssumption DEF Conds
<1>00. cppoff = OffCount(ifstate, cppctx)
  BY DEF Conds
<1>1. CASE l.d \in {"if", "ifdef", "ifndef"}
  <2> DEFINE on == Status(l) /\ cppoff = 0
             r  == [enabled |-> on, iselse |-> FALSE]
  <2>1. /\ cppctx # NR_COND - 1 /\ cppctx' = cppctx + 1
        /\ cppoff' = (IF on THEN cppoff ELSE cppoff + 1)
        /\ ifstate' = [ifstate EXCEPT ![cppctx] = r]
    BY <1>1 DEF clause, if, ifclause
  <2>2. on \in BOOLEAN
    OBVIOUS
  <2> HIDE DEF on
  <2>3. r \in [enabled : BOOLEAN, iselse : BOOLEAN] /\ r.enabled = on
    BY <2>2
  <2>4. cppctx \in 0 .. NR_COND - 2 /\ cppctx <= cppctx
    BY <1>0, <2>1
  <2>5. OffCount(ifstate, cppctx) \in Nat
    BY <1>0, OffFacts
  <2>6. cppoff' = OffCount(ifstate, cppctx) + (IF r.enabled THEN 0 ELSE 1)
    BY <1>00, <2>1, <2>3, <2>5
  <2> HIDE DEF r
  <2> QED BY <2>1, <2>3, <2>4, <2>6, GroupSet
<1>2. CASE l.d \in {"elif", "else"}
  <2> DEFINE n == cppctx - 1
             was == ifstate[n].enabled
  <2>1. cppctx # 0
    BY <1>2 DEF Wrong
  <2>2. /\ n \in 0 .. NR_COND - 2 /\ n <= cppctx /\ n + 1 = cppctx /\ was \in BOOLEAN
        /\ cppoff \in Nat /\ OffCount(ifstate, n) \in Nat
        /\ cppoff = OffCount(ifstate, n) + (IF was THEN 0 ELSE 1)
    BY <1>0, <2>1, LastGroup
  <2>3. CASE l.d = "else" \/ (l.d = "elif" /\ was)
    <3>1. PICK i \in BOOLEAN : ifstate' = [ifstate EXCEPT ![n] = [enabled |-> ~was, iselse |-> i]]
      BY <2>3 DEF clause, cppelse, elif, elseclause
    <3>2. cppctx' = cppctx /\ cppoff' = (IF was THEN cppoff + 1 ELSE cppoff - 1)
      BY <2>3 DEF clause, cppelse, elif, elseoff
    <3> DEFINE r == [enabled |-> ~was, iselse |-> i]
    <3>3. r \in [enabled : BOOLEAN, iselse : BOOLEAN] /\ r.enabled = ~was
      BY <2>2
    <3>4. ifstate' = [ifstate EXCEPT ![n] = r]
      BY <3>1
    <3> HIDE DEF r
    <3>5. cppoff' = OffCount(ifstate, n) + (IF r.enabled THEN 0 ELSE 1)
      BY <2>2, <3>2, <3>3
    <3> HIDE DEF n, was
    <3> QED BY <2>2, <3>2, <3>3, <3>4, <3>5, GroupSet
  <2>4. CASE l.d = "elif" /\ ~was
    <3> DEFINE on == Status(l) /\ elseoff = 0
               r  == [enabled |-> on, iselse |-> FALSE]
    <3>1. /\ cppctx' = n + 1
          /\ cppoff' = (IF on THEN elseoff ELSE elseoff + 1)
          /\ ifstate' = [ifstate EXCEPT ![n] = r]
      BY <2>4 DEF clause, elif, ifclause
    <3>2. elseoff = OffCount(ifstate, n)
      BY <2>2, <2>4 DEF elseoff
    <3>3. on \in BOOLEAN
      OBVIOUS
    <3> HIDE DEF on
    <3>4. r \in [enabled : BOOLEAN, iselse : BOOLEAN] /\ r.enabled = on
      BY <3>3
    <3>5. ifstate' = [ifstate EXCEPT ![n] = r]
      BY <3>1
    <3> HIDE DEF r
    <3>6. cppoff' = OffCount(ifstate, n) + (IF r.enabled THEN 0 ELSE 1)
      BY <2>2, <3>1, <3>2, <3>4
    <3> HIDE DEF n, was
    <3> QED BY <2>2, <3>1, <3>4, <3>5, <3>6, GroupSet
  <2> QED BY <1>2, <2>3, <2>4
<1>3. CASE l.d = "endif"
  <2>1. cppctx # 0 /\ cppctx' = cppctx - 1 /\ ifstate' = ifstate
        /\ cppoff' = IF ifstate[cppctx - 1].enabled THEN cppoff ELSE cppoff - 1
    BY <1>3 DEF clause, endif
  <2>2. /\ cppctx - 1 \in 0 .. NR_COND - 1 /\ ifstate[cppctx - 1].enabled \in BOOLEAN
        /\ OffCount(ifstate, cppctx - 1) \in Nat
        /\ cppoff = OffCount(ifstate, cppctx - 1) + (IF ifstate[cppctx - 1].enabled THEN 0 ELSE 1)
    BY <1>0, <2>1, LastGroup
  <2>3. cppoff' = OffCount(ifstate, cppctx - 1)
    BY <2>1, <2>2
  <2> QED BY <2>1, <2>2, <2>3 DEF Conds
<1>4. CASE l.d \notin {"if", "ifdef", "ifndef", "elif", "else", "endif"}
  <2>1. UNCHANGED conds
    BY <1>4 DEF clause, define, undef
  <2> QED BY <2>1 DEF Conds, conds
<1> QED BY <1>1, <1>2, <1>3, <1>4

(***************************************************************************)
(* The groups as C has them.                                               *)
(***************************************************************************)

\* The first n groups are on; C has the first n selected; it has them selected as
\* far as elseclause() has not forgotten that one was taken.
Ons(f, n)   == \A i \in 0 .. n - 1 : f[i].enabled
Nows(g, n)  == \A i \in 1 .. n : g[i].now
Known(g, n) == \A i \in 1 .. n : g[i].after <= 1

\* The state st of a group whose outer groups are on, and what C says of it.
Faithful(st, g) ==
  /\ g.after \in Nat
  /\ ~g.taken => ~st.enabled /\ ~g.now /\ g.after = 0
  /\ g.taken /\ g.after = 0 => st.enabled /\ g.now
  /\ g.taken /\ g.after = 1 => ~st.enabled /\ ~g.now

\* Groups inside one that is off are opened and turned on and off as well, but only
\* the states of groups whose outer groups are on say what C says.
GroupsOf(f, g, n) ==
  /\ IsSeq(g) /\ Len(g) = n
  /\ \A i \in 1 .. n : g[i].after \in Nat
  /\ \A i \in 1 .. n : Ons(f, i - 1) => Faithful(f[i - 1], g[i])
  /\ \A i \in 0 .. n : Known(g, i) => (Ons(f, i) <=> Nows(g, i))

Groups == GroupsOf(ifstate, groups, cppctx)

\* No group is off exactly when the count of those that are off is 0.
LEMMA OnsCount == ASSUME NEW f, NEW n \in Nat PROVE OffCount(f, n) = 0 <=> Ons(f, n)
<1>1. IsFiniteSet(Off(f, n))
  <2>1. 0 \in Int /\ n - 1 \in Int
    OBVIOUS
  <2>2. IsFiniteSet(0 .. n - 1)
    BY <2>1, FS_Interval
  <2>3. Off(f, n) \in SUBSET (0 .. n - 1)
    BY DEF Off
  <2> QED BY <2>2, <2>3, FS_Subset
<1>2. OffCount(f, n) = 0 <=> Off(f, n) = {}
  BY <1>1, FS_EmptySet DEF OffCount
<1> QED BY <1>2 DEF Off, Ons

\* What is said of the first n groups depends on them alone.
LEMMA PrefixSame ==
  ASSUME NEW f, NEW e, NEW g, NEW k, NEW n \in Nat,
         \A i \in 0 .. n - 1 : e[i] = f[i], \A i \in 1 .. n : k[i] = g[i]
  PROVE  (Ons(e, n) <=> Ons(f, n)) /\ (Nows(k, n) <=> Nows(g, n)) /\ (Known(k, n) <=> Known(g, n))
BY DEF Ons, Nows, Known

\* One group more.
LEMMA PrefixMore ==
  ASSUME NEW f, NEW g, NEW n \in Nat \ {0}
  PROVE  /\ Ons(f, n) <=> Ons(f, n - 1) /\ f[n - 1].enabled
         /\ Nows(g, n) <=> Nows(g, n - 1) /\ g[n].now
         /\ Known(g, n) <=> Known(g, n - 1) /\ g[n].after <= 1
<1>1. \A i : i \in 0 .. n - 1 <=> i \in 0 .. (n - 1) - 1 \/ i = n - 1
  OBVIOUS
<1>2. \A i : i \in 1 .. n <=> i \in 1 .. n - 1 \/ i = n
  OBVIOUS
<1> QED BY <1>1, <1>2 DEF Ons, Nows, Known

\* Group m, the last one or one more, is given a state.
LEMMA GroupsTop ==
  ASSUME NEW f, NEW g, NEW n \in Nat, GroupsOf(f, g, n), NEW m \in 1 .. n + 1,
         NEW e, NEW k, IsSeq(k), Len(k) = m,
         \A i \in 0 .. m - 2 : e[i] = f[i], \A i \in 1 .. m - 1 : k[i] = g[i],
         k[m].after \in Nat, Ons(f, m - 1) => Faithful(e[m - 1], k[m])
  PROVE  GroupsOf(e, k, m)
<1>1. \A i \in 0 .. m - 1 : (Ons(e, i) <=> Ons(f, i)) /\ (Nows(k, i) <=> Nows(g, i)) /\ (Known(k, i) <=> Known(g, i))
  <2>1. SUFFICES ASSUME NEW i \in 0 .. m - 1
                 PROVE  (Ons(e, i) <=> Ons(f, i)) /\ (Nows(k, i) <=> Nows(g, i)) /\ (Known(k, i) <=> Known(g, i))
    OBVIOUS
  <2>2. i \in Nat /\ (\A j \in 0 .. i - 1 : e[j] = f[j]) /\ (\A j \in 1 .. i : k[j] = g[j])
    OBVIOUS
  <2> QED BY <2>2, PrefixSame
<1>2. \A i \in 1 .. m : i \in 1 .. m - 1 \/ i = m
  OBVIOUS
<1>3. \A i \in 1 .. m - 1 : i \in 1 .. n /\ i - 1 \in 0 .. m - 1 /\ e[i - 1] = f[i - 1] /\ k[i] = g[i]
  OBVIOUS
<1>4. m - 1 \in 0 .. m - 1 /\ m - 1 \in 0 .. n /\ m \in Nat \ {0}
  OBVIOUS
<1>5. \A i \in 1 .. m : k[i].after \in Nat
  BY <1>2, <1>3 DEF GroupsOf
<1>6. \A i \in 1 .. m : Ons(e, i - 1) => Faithful(e[i - 1], k[i])
  BY <1>1, <1>2, <1>3, <1>4 DEF GroupsOf
<1>7. ASSUME NEW i \in 0 .. m, Known(k, i) PROVE Ons(e, i) <=> Nows(k, i)
  <2>1. CASE i \in 0 .. m - 1
    <3>1. i \in 0 .. n
      BY <2>1
    <3> QED BY <1>1, <1>7, <2>1, <3>1 DEF GroupsOf
  <2>2. CASE i = m
    <3>1. /\ Ons(e, m) <=> Ons(e, m - 1) /\ e[m - 1].enabled
          /\ Nows(k, m) <=> Nows(k, m - 1) /\ k[m].now
          /\ Known(k, m) <=> Known(k, m - 1) /\ k[m].after <= 1
      BY <1>4, PrefixMore
    <3>2. Known(k, m - 1) /\ k[m].after \in {0, 1}
      BY <1>7, <2>2, <3>1
    <3>3. Ons(e, m - 1) <=> Nows(k, m - 1)
      BY <1>1, <1>4, <3>2 DEF GroupsOf
    <3>4. Ons(e, m - 1) => (e[m - 1].enabled <=> k[m].now)
      BY <1>1, <1>4, <3>2 DEF Faithful
    <3> QED BY <2>2, <3>1, <3>3, <3>4
  <2>3. i \in 0 .. m - 1 \/ i = m
    OBVIOUS
  <2> QED BY <2>1, <2>2, <2>3
<1> QED BY <1>5, <1>6, <1>7 DEF GroupsOf

\* The last group ends.
LEMMA GroupsCut ==
  ASSUME NEW f, NEW g, NEW n \in Nat \ {0}, GroupsOf(f, g, n)
  PROVE  GroupsOf(f, Front(g), n - 1)
<1> DEFINE k == Front(g)
           m == n - 1
<1>1. IsSeq(g) /\ g # <<>> /\ Len(g) = n
  BY DEF GroupsOf
<1>2. IsSeq(k) /\ Len(k) = m /\ \A i \in 1 .. m : k[i] = g[i]
  BY <1>1, PopSeq
<1> HIDE DEF k
<1>3. \A i \in 1 .. m : i \in 1 .. n
  OBVIOUS
<1>4. \A i \in 0 .. m : i \in 0 .. n /\ (Nows(k, i) <=> Nows(g, i)) /\ (Known(k, i) <=> Known(g, i))
  <2>1. SUFFICES ASSUME NEW i \in 0 .. m
                 PROVE  i \in 0 .. n /\ (Nows(k, i) <=> Nows(g, i)) /\ (Known(k, i) <=> Known(g, i))
    OBVIOUS
  <2>2. i \in Nat /\ i \in 0 .. n /\ (\A j \in 0 .. i - 1 : f[j] = f[j]) /\ (\A j \in 1 .. i : k[j] = g[j])
    BY <1>2
  <2> QED BY <2>2, PrefixSame
<1>5. \A i \in 1 .. m : k[i].after \in Nat
  BY <1>2, <1>3 DEF GroupsOf
<1>6. \A i \in 1 .. m : Ons(f, i - 1) => Faithful(f[i - 1], k[i])
  BY <1>2, <1>3 DEF GroupsOf
<1>7. \A i \in 0 .. m : Known(k, i) => (Ons(f, i) <=> Nows(k, i))
  BY <1>4 DEF GroupsOf
<1>8. GroupsOf(f, k, m)
  BY <1>2, <1>5, <1>6, <1>7 DEF GroupsOf
<1> QED BY <1>8 DEF k

\* What #else and #elif leave of a group whose outer groups are on: v is the
\* condition, TRUE for #else.
LEMMA FaithfulNext ==
  ASSUME NEW st, NEW g, Faithful(st, g), NEW v, NEW e, NEW k,
         k.taken <=> g.taken \/ v, k.now <=> v /\ ~g.taken, k.after = IF g.taken THEN g.after + 1 ELSE 0,
         e.enabled <=> ~st.enabled /\ v
  PROVE  Faithful(e, k)
<1>1. CASE ~g.taken
  BY <1>1 DEF Faithful
<1>2. CASE g.taken
  <2>1. k.after \in Nat \ {0} /\ k.taken /\ ~k.now
    BY <1>2 DEF Faithful
  <2>2. k.after = 1 => ~e.enabled
    BY <1>2 DEF Faithful
  <2> QED BY <2>1, <2>2 DEF Faithful
<1> QED BY <1>1, <1>2

\* What the last group is set to by #else and #elif.
LEMMA NextGroupHas ==
  ASSUME Groups, cppctx \in Nat \ {0}, NEW v, groups' = NextGroup(v)
  PROVE  /\ IsSeq(groups') /\ Len(groups') = cppctx
         /\ \A i \in 1 .. cppctx - 1 : groups'[i] = groups[i]
         /\ groups'[cppctx].taken <=> groups[cppctx].taken \/ v
         /\ groups'[cppctx].now <=> v /\ ~groups[cppctx].taken
         /\ groups'[cppctx].after = IF groups[cppctx].taken THEN groups[cppctx].after + 1 ELSE 0
<1> DEFINE m == Len(groups)
           g == groups[m]
           a == g.taken \/ v
           b == v /\ ~g.taken
           c == IF g.taken THEN g.after + 1 ELSE 0
           r == [taken |-> a, now |-> b, after |-> c]
           k == [groups EXCEPT ![Len(groups)] = r]
<1>1. IsSeq(groups) /\ m = cppctx /\ groups # <<>>
  BY DEF Groups, GroupsOf
<1>2. groups' = k
  BY <1>1 DEF NextGroup, Last
<1>3. (a <=> g.taken \/ v) /\ (b <=> v /\ ~g.taken) /\ c = IF g.taken THEN g.after + 1 ELSE 0
  OBVIOUS
<1> HIDE DEF a, b, c
<1>4. r.taken = a /\ r.now = b /\ r.after = c
  OBVIOUS
<1>5. (r.taken <=> a) /\ (r.now <=> b)
  BY <1>4
<1> HIDE DEF r
<1>6. /\ IsSeq(k) /\ Len(k) = Len(groups) /\ k[Len(groups)] = r
      /\ \A i \in 1 .. Len(groups) : i # Len(groups) => k[i] = groups[i]
  BY <1>1, TopSeq
<1> HIDE DEF k
<1>7. \A i \in 1 .. cppctx - 1 : i \in 1 .. cppctx /\ i # cppctx
  OBVIOUS
<1> QED BY <1>1, <1>2, <1>3, <1>4, <1>5, <1>6, <1>7

\* A new group.
LEMMA OpenGroupHas ==
  ASSUME Groups, cppctx \in Nat, NEW v, groups' = OpenGroup(v)
  PROVE  /\ IsSeq(groups') /\ Len(groups') = cppctx + 1
         /\ \A i \in 1 .. cppctx : groups'[i] = groups[i]
         /\ groups'[cppctx + 1].taken = v /\ groups'[cppctx + 1].now = v /\ groups'[cppctx + 1].after = 0
<1> DEFINE r == [taken |-> v, now |-> v, after |-> 0]
           k == Append(groups, r)
<1>1. IsSeq(groups) /\ Len(groups) = cppctx /\ groups' = k
  BY DEF Groups, GroupsOf, OpenGroup
<1>2. r.taken = v /\ r.now = v /\ r.after = 0
  OBVIOUS
<1> HIDE DEF r
<1>3. /\ IsSeq(k) /\ Len(k) = Len(groups) + 1 /\ k[Len(groups) + 1] = r
      /\ \A i \in 1 .. Len(groups) : k[i] = groups[i]
  BY <1>1, PushSeq
<1> HIDE DEF k
<1> QED BY <1>1, <1>2, <1>3

\* #if and its kind.
LEMMA GroupsIf ==
  ASSUME Conds, Groups, NEW l, if(l) PROVE Groups'
<1> DEFINE v == Status(l)
           f == ifstate
           e == ifstate'
           k == groups'
           n == cppctx
<1>1. /\ n # NR_COND - 1 /\ cppctx' = n + 1 /\ groups' = OpenGroup(v)
      /\ ifstate' = [ifstate EXCEPT ![cppctx] = [enabled |-> v /\ cppoff = 0, iselse |-> FALSE]]
  BY DEF if, ifclause
<1>2. n \in Nat /\ n \in 0 .. NR_COND - 1 /\ NR_COND \in Nat
  BY BoundsAssumption DEF Conds
<1> HIDE DEF v
<1>3. /\ IsSeq(groups') /\ Len(groups') = cppctx + 1
      /\ \A i \in 1 .. cppctx : groups'[i] = groups[i]
      /\ groups'[cppctx + 1].taken = v /\ groups'[cppctx + 1].now = v /\ groups'[cppctx + 1].after = 0
  BY <1>1, <1>2, OpenGroupHas
<1>4. (e[n].enabled <=> v /\ cppoff = 0) /\ \A i \in 0 .. n - 1 : e[i] = f[i]
  <2> DEFINE on == v /\ cppoff = 0
             r  == [enabled |-> on, iselse |-> FALSE]
  <2>1. r.enabled = on
    <3> HIDE DEF on
    <3> QED OBVIOUS
  <2>2. e = [f EXCEPT ![n] = r] /\ DOMAIN f = 0 .. NR_COND - 1
    BY <1>1 DEF Conds
  <2> HIDE DEF e, f, r
  <2>3. e[n] = r /\ \A i \in 0 .. n - 1 : e[i] = f[i]
    BY <1>2, <2>2
  <2> QED BY <2>1, <2>3
<1>5. Ons(f, n) => cppoff = 0
  BY <1>2, OnsCount DEF Conds
<1>6. Ons(f, n) => Faithful(e[n], k[n + 1])
  BY <1>3, <1>4, <1>5 DEF Faithful
<1>7. GroupsOf(f, groups, n)
  BY DEF Groups
<1> DEFINE m == n + 1
<1>8. /\ m \in 1 .. n + 1 /\ IsSeq(k) /\ Len(k) = m /\ (\A i \in 0 .. m - 2 : e[i] = f[i])
      /\ (\A i \in 1 .. m - 1 : k[i] = groups[i]) /\ k[m].after \in Nat /\ m - 1 = n
  BY <1>2, <1>3, <1>4
<1>9. Ons(f, m - 1) => Faithful(e[m - 1], k[m])
  BY <1>6, <1>8
<1> HIDE DEF e, k, m, f
<1>10. GroupsOf(e, k, m)
  BY <1>2, <1>7, <1>8, <1>9, GroupsTop
<1> QED BY <1>1, <1>10 DEF Groups, e, k, m

\* #else and #elif, that set the last group.
LEMMA GroupsNext ==
  ASSUME Conds, Groups, cppctx # 0, cppctx' = cppctx, NEW v, groups' = NextGroup(v),
         \A i \in 0 .. cppctx - 2 : ifstate'[i] = ifstate[i],
         Ons(ifstate, cppctx - 1) => (ifstate'[cppctx - 1].enabled <=> ~ifstate[cppctx - 1].enabled /\ v)
  PROVE  Groups'
<1> DEFINE f == ifstate
           e == ifstate'
           k == groups'
           m == cppctx
<1>1. m \in Nat \ {0} /\ m - 1 \in Nat /\ m \in 1 .. m /\ m \in 1 .. m + 1
  BY BoundsAssumption DEF Conds
<1>2. /\ IsSeq(k) /\ Len(k) = m
      /\ \A i \in 1 .. m - 1 : k[i] = groups[i]
      /\ k[m].taken <=> groups[m].taken \/ v
      /\ k[m].now <=> v /\ ~groups[m].taken
      /\ k[m].after = IF groups[m].taken THEN groups[m].after + 1 ELSE 0
  BY <1>1, NextGroupHas
<1>3. GroupsOf(f, groups, m)
  BY DEF Groups
<1>4. k[m].after \in Nat
  BY <1>1, <1>2, <1>3 DEF GroupsOf
<1>5. ASSUME Ons(f, m - 1) PROVE Faithful(e[m - 1], k[m])
  <2>1. Faithful(f[m - 1], groups[m])
    BY <1>1, <1>3, <1>5 DEF GroupsOf
  <2>2. e[m - 1].enabled <=> ~f[m - 1].enabled /\ v
    BY <1>5
  <2> HIDE DEF e, k, m, f
  <2> QED BY <1>2, <2>1, <2>2, FaithfulNext
<1>6. \A i \in 0 .. m - 2 : e[i] = f[i]
  OBVIOUS
<1> HIDE DEF e, k, f
<1>7. GroupsOf(e, k, m)
  BY <1>1, <1>2, <1>3, <1>4, <1>5, <1>6, GroupsTop
<1> QED BY <1>7 DEF Groups, e, k

\* A directive keeps the groups in step with C's.
LEMMA ClauseGroups ==
  ASSUME Conds, Groups, NEW l, clause(l), ~Wrong(l)
  PROVE  Groups'
<1>1. CASE l.d \in {"if", "ifdef", "ifndef"}
  BY <1>1, GroupsIf DEF clause
<1>2. CASE l.d \in {"elif", "else"}
  <2> DEFINE n == cppctx - 1
  <2>1. cppctx # 0
    BY <1>2 DEF Wrong
  <2>2. n \in 0 .. NR_COND - 1 /\ n \in Nat /\ cppctx \in Nat /\ NR_COND \in Nat
    BY <2>1, LastGroup, BoundsAssumption DEF Conds
  <2>3. ifstate \in [0 .. NR_COND - 1 -> [enabled : BOOLEAN, iselse : BOOLEAN]]
    BY DEF Conds
  <2>4. \A i \in 0 .. cppctx - 2 : i # n /\ i \in 0 .. NR_COND - 1
    BY <2>2
  <2>5. CASE l.d = "else"
    <3>1. /\ ifstate' = [ifstate EXCEPT ![n] = elseclause(TRUE)] /\ cppctx' = cppctx
          /\ groups' = NextGroup(TRUE)
      BY <2>5 DEF clause, cppelse
    <3>2. ifstate'[n].enabled <=> ~ifstate[n].enabled
      BY <2>2, <2>3, <3>1 DEF elseclause
    <3>3. \A i \in 0 .. cppctx - 2 : ifstate'[i] = ifstate[i]
      BY <2>3, <2>4, <3>1
    <3> QED BY <2>1, <3>1, <3>2, <3>3, GroupsNext
  <2>6. CASE l.d = "elif"
    <3> DEFINE v == Status(l)
    <3>1. groups' = NextGroup(v) /\ cppctx' = cppctx
      <4>1. n + 1 = cppctx
        BY <2>2
      <4> QED BY <2>6, <4>1 DEF clause, elif, ifclause
    <3> HIDE DEF v
    <3>2. CASE ifstate[n].enabled
      <4>1. ifstate' = [ifstate EXCEPT ![n] = elseclause(FALSE)]
        BY <2>6, <3>2 DEF clause, elif
      <4>2. ~ifstate'[n].enabled
        BY <2>2, <2>3, <3>2, <4>1 DEF elseclause
      <4>3. \A i \in 0 .. cppctx - 2 : ifstate'[i] = ifstate[i]
        BY <2>3, <2>4, <4>1
      <4> QED BY <2>1, <3>1, <3>2, <4>2, <4>3, GroupsNext
    <3>3. CASE ~ifstate[n].enabled
      <4>1. ifstate' = [ifstate EXCEPT ![n] = [enabled |-> v /\ elseoff = 0, iselse |-> FALSE]]
        BY <2>6, <3>3 DEF clause, elif, ifclause, v
      <4>2. elseoff = OffCount(ifstate, n)
        <5>1. /\ cppoff \in Nat /\ OffCount(ifstate, n) \in 0 .. n
              /\ cppoff = OffCount(ifstate, n) + (IF ifstate[n].enabled THEN 0 ELSE 1)
          BY <2>1, LastGroup
        <5> QED BY <2>2, <3>3, <5>1 DEF elseoff
      <4>3. Ons(ifstate, n) => elseoff = 0
        BY <2>2, <4>2, OnsCount
      <4>4. ifstate'[n].enabled <=> v /\ elseoff = 0
        BY <2>2, <2>3, <4>1
      <4>5. \A i \in 0 .. cppctx - 2 : ifstate'[i] = ifstate[i]
        BY <2>3, <2>4, <4>1
      <4> QED BY <2>1, <3>1, <3>3, <4>3, <4>4, <4>5, GroupsNext
    <3> QED BY <3>2, <3>3
  <2> QED BY <1>2, <2>5, <2>6
<1>3. CASE l.d = "endif"
  <2>1. cppctx # 0 /\ cppctx' = cppctx - 1 /\ ifstate' = ifstate /\ groups' = Front(groups)
    BY <1>3 DEF clause, endif
  <2>2. cppctx \in Nat \ {0}
    BY <2>1, BoundsAssumption DEF Conds
  <2>3. GroupsOf(ifstate, Front(groups), cppctx - 1)
    BY <2>2, GroupsCut DEF Groups
  <2> QED BY <2>1, <2>3 DEF Groups
<1>4. CASE l.d \notin {"if", "ifdef", "ifndef", "elif", "else", "endif"}
  <2>1. ifstate' = ifstate /\ cppctx' = cppctx /\ groups' = groups
    BY <1>4 DEF clause, define, undef, conds, asinc
  <2> QED BY <2>1 DEF Groups
<1> QED BY <1>1, <1>2, <1>3, <1>4

(***************************************************************************)
(* The invariant.                                                          *)
(***************************************************************************)

\* What holds of the stack of any program.
Inputs ==
  /\ Stack(input) /\ Calls(ctl) /\ Placed(input, ctl)
  /\ looking # NoName => ~AtWork(input, ctl)
  /\ hide \subseteq Names /\ looking \in Names \cup {NoName}
  /\ Marks(input, hide) /\ Located(input, lineno)

\* Unless a directive came among arguments: nothing is expanded while arguments are
\* collected, and the macro that is called is not hidden.
Hides ==
  ~broken =>
    /\ Hidden(input, ctl, hide)
    /\ looking # NoName => looking \notin hide /\ ~disexpand
    /\ \A j \in 1 .. Len(ctl) : ctl[j].k = "pars" => j = Len(ctl) /\ disexpand /\ ctl[j].sym \notin hide

Outcomes == outcome \in {"running", "done", "fail", "crash"}

CInv == Inputs /\ Hides /\ Conds /\ Groups /\ Outcomes

stackvars == <<input, expands, lineno, broken>>

\* Steps that leave the stack alone.
LEMMA StackAlone == ASSUME Inputs, Hides, UNCHANGED stackvars PROVE Inputs' /\ Hides'
<1>1. /\ input' = input /\ ctl' = ctl /\ looking' = looking /\ hide' = hide /\ disexpand' = disexpand
      /\ lineno' = lineno /\ broken' = broken
  BY DEF stackvars, expands
<1>2. Inputs'
  BY <1>1 DEF Inputs, Stack, Calls, Placed, AtWork, Marks, Located, TopFile
<1>3. Hides'
  BY <1>1 DEF Hides, Hidden, Open
<1> QED BY <1>2, <1>3

\* A step that changes only what inputs and calls hold, and where the macro that is
\* looked at is either the same or none.
LEMMA SameStep ==
  ASSUME Inputs, Hides, SameStack(input, input'), SameCalls(ctl, ctl'), Located(input', lineno'),
         hide' = hide,
         \/ looking' \in {looking, NoName}
         \/ looking' \in Names /\ ~AtWork(input, ctl) /\ looking' \notin hide /\ ~disexpand /\ ~disexpand',
         ~broken' => ~broken /\ (disexpand' = disexpand \/ (~disexpand' /\ ~Collecting))
  PROVE  Inputs' /\ Hides'
<1>1. /\ Stack(input') /\ Calls(ctl') /\ Len(ctl') = Len(ctl) /\ Len(ctl) \in Nat
      /\ \A j \in 1 .. Len(ctl) : ctl'[j].k = ctl[j].k /\ ctl'[j].sym = ctl[j].sym
  BY DEF SameStack, SameCalls, SameCall, Inputs, Calls, IsSeq
<1>2. /\ Placed(input', ctl') /\ Marks(input', hide)
      /\ \A h : Hidden(input, ctl, h) => Hidden(input', ctl', h)
      /\ AtWork(input', ctl') => AtWork(input, ctl)
  BY SameHolds DEF Inputs
<1>3. Inputs'
  BY <1>1, <1>2 DEF Inputs
<1>4. Hides'
  <2>1. SUFFICES ASSUME ~broken' PROVE Hides'
    BY DEF Hides
  <2>2. /\ Hidden(input', ctl', hide')
        /\ looking' # NoName => looking' \notin hide' /\ ~disexpand'
    BY <1>2, <2>1 DEF Hides
  <2>3. ASSUME NEW j \in 1 .. Len(ctl'), ctl'[j].k = "pars"
        PROVE  j = Len(ctl') /\ disexpand' /\ ctl'[j].sym \notin hide'
    <3>1. j \in 1 .. Len(ctl) /\ ctl[j].k = "pars" /\ ctl'[j].sym = ctl[j].sym
      BY <1>1, <2>3
    <3>2. j = Len(ctl) /\ disexpand /\ ctl[j].sym \notin hide
      BY <2>1, <3>1 DEF Hides
    <3>3. Collecting
      <4>1. ctl # <<>>
        BY <3>1, <1>1
      <4> QED BY <3>1, <3>2, <4>1 DEF Collecting, Last
    <3> QED BY <1>1, <2>1, <3>1, <3>2, <3>3
  <2> QED BY <2>2, <2>3 DEF Hides
<1> QED BY <1>3, <1>4

\* The text of the current input is another one.
LEMMA Retext ==
  ASSUME Inputs, input # <<>>, NEW x
  PROVE  LET t == [input EXCEPT ![Len(input)].toks = x]
         IN /\ SameStack(input, t) /\ t # <<>> /\ Len(t) = Len(input) /\ Len(input) \in Nat \ {0}
            /\ t[Len(input)].t = input[Len(input)].t
            /\ Located(t, lineno)
<1> DEFINE n == Len(input)
           r == [input[n] EXCEPT !.toks = x]
           t == [input EXCEPT ![n] = r]
<1>1. Stack(input) /\ n \in Nat \ {0}
  BY DEF Inputs, Stack, IsSeq
<1>2. InputShape(input[n])
  BY <1>1 DEF Stack
<1>3. InputShape(r) /\ SameInput(r, input[n]) /\ SamePlace(r, input[n])
  BY <1>2, SetInput
<1> HIDE DEF r
<1>4. /\ SameStack(input, t) /\ t # <<>> /\ t[n] = r
      /\ \A i \in 1 .. n : i # n => t[i] = input[i]
  BY <1>1, <1>3, TopInput
<1> HIDE DEF t
<1>5. \A i \in 1 .. n : t[i].t = input[i].t /\ t[i].phys = input[i].phys /\ t[i].lno = input[i].lno
  BY <1>3, <1>4 DEF SamePlace, SameInput
<1>6. Len(t) = Len(input)
  BY <1>4 DEF SameStack
<1>7. Located(t, lineno)
  BY <1>1, <1>5, <1>6, PlaceSame DEF Inputs
<1> QED BY <1>1, <1>3, <1>4, <1>6, <1>7 DEF t, r, SameInput

\* The last call has collected something.
LEMMA Recall ==
  ASSUME Inputs, ctl # <<>>, NEW r, CallShape(r), SameCall(r, ctl[Len(ctl)])
  PROVE  SameCalls(ctl, [ctl EXCEPT ![Len(ctl)] = r])
BY TopCall DEF Inputs

\* Giving a token of the current input leaves the rest of the stack.
LEMMA GiveHolds ==
  ASSUME Inputs, NEW t, Give(t)
  PROVE  SameCalls(ctl, ctl')
<1>1. Calls(ctl)
  BY DEF Inputs
<1>2. CASE ctl = <<>>
  BY <1>1, <1>2, CallsThemselves DEF Give
<1>3. CASE ctl # <<>>
  <2> DEFINE c == ctl[Len(ctl)]
             r == [c EXCEPT !.cur = Append(@, t)]
  <2>1. ctl' = [ctl EXCEPT ![Len(ctl)] = r]
    BY <1>3 DEF Give
  <2>2. Len(ctl) \in 1 .. Len(ctl)
    BY <1>1, <1>3 DEF Calls, IsSeq
  <2>3. CallShape(c)
    BY <1>1, <2>2 DEF Calls
  <2>4. CallShape(r) /\ SameCall(r, c)
    BY <2>3, SetCall
  <2> HIDE DEF r
  <2> QED BY <1>3, <2>1, <2>4, Recall
<1> QED BY <1>2, <1>3

\* u is s with the new input ip on it, the line of the one that is left kept.
Pushed(s, ip, m, u) ==
  \E t, x : /\ u = Append(t, x)
            /\ SameStack(s, t) /\ t # <<>> /\ t[Len(t)].t = s[Len(s)].t
            /\ InputShape(x) /\ SameInput(x, ip)
            /\ Located(Append(t, x), m)

\* A new input, above one whose line is kept.
LEMMA AddInput ==
  ASSUME NEW s, Stack(s), s # <<>>, NEW n, Located(s, n), NEW ip, InputShape(ip), NEW from, NEW m,
         \/ ip.t # "file" /\ m = n
         \/ ip.t = "file" /\ m = ip.phys /\ s[Len(s)].t = "file"
  PROVE  Pushed(s, ip, m, addinput(s, n, ip, from))
<1> DEFINE k == Len(s)
           r == [s[k] EXCEPT !.lno = n]
           t == [s EXCEPT ![k] = r]
           x == [ip EXCEPT !.lno = from]
<1>1. addinput(s, n, ip, from) = Append(t, x)
  BY DEF addinput
<1>2. k \in Nat \ {0} /\ k \in 1 .. Len(s)
  BY DEF Stack, IsSeq
<1>3. InputShape(r) /\ SameInput(r, s[k]) /\ r.lno = n /\ r.phys = s[k].phys
  <2> DEFINE old == s[k]
             new == [old EXCEPT !.lno = n]
  <2>1. InputShape(old)
    BY <1>2 DEF Stack
  <2> HIDE DEF old
  <2>2. InputShape(new) /\ SameInput(new, old) /\ new.lno = n /\ new.phys = old.phys
    BY <2>1, SetLno
  <2> QED BY <2>2 DEF old
<1>4. InputShape(x) /\ SameInput(x, ip) /\ x.phys = ip.phys
  BY SetLno
<1> HIDE DEF r, x
<1>5. /\ SameStack(s, t) /\ t # <<>> /\ t[k] = r
      /\ \A i \in 1 .. k : i # k => t[i] = s[i]
  BY <1>3, TopInput
<1> HIDE DEF t
<1>6. Len(t) = k /\ Stack(t)
  BY <1>5 DEF SameStack
<1>7. Located(t, n)
  <2>1. \A i \in 1 .. k : t[i].t = s[i].t /\ t[i].phys = s[i].phys /\ (i # k => t[i].lno = s[i].lno)
    BY <1>3, <1>5 DEF SameInput
  <2> QED BY <1>2, <1>6, <2>1, PlaceSame
<1>8. t[k].t = s[k].t /\ t[k].lno = n
  BY <1>3, <1>5 DEF SameInput
<1>9. x.t = ip.t
  BY <1>4 DEF SameInput
<1>10. Located(Append(t, x), m)
  <2> DEFINE u == Append(t, x)
  <2>1. /\ Len(u) = Len(t) + 1 /\ \A i \in 1 .. Len(t) : u[i] = t[i]
        /\ u[Len(t) + 1] = x
    <3>1. IsSeq(t)
      BY <1>6 DEF Stack
    <3> QED BY <3>1, PushSeq
  <2> HIDE DEF u
  <2>2. \/ u[Len(u)].t # "file" /\ m = n
        \/ u[Len(u)].t = "file" /\ m = u[Len(u)].phys
    BY <1>4, <1>9, <2>1
  <2>3. Len(t) \in Nat \ {0} /\ t[Len(t)].lno = n
    BY <1>2, <1>6, <1>8
  <2>4. Located(u, m)
    BY <1>7, <2>1, <2>2, <2>3, PlacePushed
  <2> QED BY <2>4 DEF u
<1> QED BY <1>1, <1>4, <1>5, <1>6, <1>8, <1>10 DEF Pushed

\* A step that puts a file or a parameter on the stack.
LEMMA PushStep ==
  ASSUME Inputs, Hides, NEW s, SameStack(input, s), s # <<>>, NEW n, Located(s, n),
         NEW ip, InputShape(ip), ip.t # "macro", ip.hs = {}, NEW from,
         \/ ip.t # "file" /\ lineno' = n
         \/ ip.t = "file" /\ lineno' = ip.phys /\ s[Len(s)].t = "file",
         AtWork(input, ctl) => ip.t = "param",
         input' = addinput(s, n, ip, from), SameCalls(ctl, ctl'), hide' = hide, looking' = looking,
         ~broken' => ~broken /\ (disexpand' = disexpand \/ (~disexpand' /\ ~Collecting))
  PROVE  Inputs' /\ Hides'
<1>0. Stack(s) /\ Calls(ctl) /\ Stack(input)
  BY DEF SameStack, Inputs
<1>1. PICK t, x : /\ input' = Append(t, x)
                  /\ SameStack(s, t) /\ t # <<>> /\ t[Len(t)].t = s[Len(s)].t
                  /\ InputShape(x) /\ SameInput(x, ip)
                  /\ Located(Append(t, x), lineno')
  <2> DEFINE m == lineno'
  <2>1. \/ ip.t # "file" /\ m = n
        \/ ip.t = "file" /\ m = ip.phys /\ s[Len(s)].t = "file"
    OBVIOUS
  <2> HIDE DEF m
  <2>2. Pushed(s, ip, m, input')
    BY <1>0, <2>1, AddInput
  <2>3. Pushed(s, ip, lineno', input')
    BY <2>2 DEF m
  <2> QED BY <2>3 DEF Pushed
<1>2. /\ Stack(t) /\ Placed(t, ctl') /\ Marks(t, hide) /\ Calls(ctl')
      /\ \A h : Hidden(input, ctl, h) => Hidden(t, ctl', h)
      /\ AtWork(t, ctl') => x.t = "param"
      /\ x.t = ip.t /\ x.hs = {}
  <2>1. /\ Placed(s, ctl) /\ Marks(s, hide)
        /\ \A h : Hidden(input, ctl, h) => Hidden(s, ctl, h)
        /\ AtWork(s, ctl) => AtWork(input, ctl)
    BY <1>0, SameHolds, CallsThemselves DEF Inputs
  <2>2. /\ Placed(t, ctl') /\ Marks(t, hide)
        /\ \A h : Hidden(s, ctl, h) => Hidden(t, ctl', h)
        /\ AtWork(t, ctl') => AtWork(s, ctl)
    BY <1>0, <1>1, <2>1, SameHolds
  <2> QED BY <1>1, <2>1, <2>2 DEF SameStack, SameCalls, SameInput
<1>3. x.t = "file" => t # <<>> /\ t[Len(t)].t = "file"
  BY <1>1, <1>2
<1>4. Stack(input') /\ Marks(input', hide)
  BY <1>1, <1>2, <1>3, PushInput
<1>5. /\ Placed(input', ctl') /\ ~AtWork(input', ctl')
      /\ \A h : Hidden(t, ctl', h) => Hidden(input', ctl', h)
  BY <1>1, <1>2, <1>3, PushPlain
<1>6. /\ Len(ctl') = Len(ctl) /\ Len(ctl) \in Nat
      /\ \A j \in 1 .. Len(ctl) : ctl'[j].k = ctl[j].k /\ ctl'[j].sym = ctl[j].sym
  BY <1>0 DEF SameCalls, SameCall, Calls, IsSeq
<1>7. Inputs'
  BY <1>1, <1>2, <1>4, <1>5 DEF Inputs
<1>8. Hides'
  <2>1. SUFFICES ASSUME ~broken' PROVE Hides'
    BY DEF Hides
  <2>2. /\ Hidden(input', ctl', hide')
        /\ looking' # NoName => looking' \notin hide' /\ ~disexpand'
    BY <1>2, <1>5, <2>1 DEF Hides
  <2>3. ASSUME NEW j \in 1 .. Len(ctl'), ctl'[j].k = "pars"
        PROVE  j = Len(ctl') /\ disexpand' /\ ctl'[j].sym \notin hide'
    <3>1. j \in 1 .. Len(ctl) /\ ctl[j].k = "pars" /\ ctl'[j].sym = ctl[j].sym
      BY <1>6, <2>3
    <3>2. j = Len(ctl) /\ disexpand /\ ctl[j].sym \notin hide
      BY <2>1, <3>1 DEF Hides
    <3>3. Collecting
      <4>1. ctl # <<>>
        BY <3>1, <1>6
      <4> QED BY <3>1, <3>2, <4>1 DEF Collecting, Last
    <3> QED BY <1>6, <2>1, <3>1, <3>2, <3>3
  <2> QED BY <2>2, <2>3 DEF Hides
<1> QED BY <1>7, <1>8

\* A step that starts to expand the macro x: c is what remains of the calls.
LEMMA MacroStep ==
  ASSUME Inputs, Hides, NEW s, Stack(s), s # <<>>, Located(s, lineno), Marks(s, hide),
         NEW c, Calls(c), Placed(s, c), ~AtWork(s, c), NEW x \in Names, NEW args,
         PushMacro(x, args, s, c), hide' = hide, looking' = looking, looking = NoName,
         lineno' = lineno, broken' = broken,
         ~broken => Hidden(s, c, hide) /\ x \notin hide /\ \A j \in 1 .. Len(c) : c[j].k # "pars"
  PROVE  Inputs' /\ Hides'
<1> DEFINE ip == Input("macro", x)
           a == [Context("copy", x) EXCEPT !.args = args, !.base = Len(s) + 1]
<1>1. Len(s) \in Nat
  BY DEF Stack, IsSeq
<1>2. InputShape(ip) /\ ip.t = "macro" /\ ip.sym = x /\ ip.hs = {}
  BY DEF Input, InputShape
<1>3. CallShape(a) /\ a.k = "copy" /\ a.sym = x /\ a.base = Len(s) + 1
  BY <1>1 DEF Context, CallShape
<1>4. input' = addinput(s, lineno, ip, lineno) /\ ctl' = Append(c, a)
  BY DEF PushMacro
<1> HIDE DEF ip, a
<1>5. PICK t, y : /\ input' = Append(t, y)
                  /\ SameStack(s, t) /\ t # <<>> /\ t[Len(t)].t = s[Len(s)].t
                  /\ InputShape(y) /\ SameInput(y, ip)
                  /\ Located(Append(t, y), lineno)
  <2>1. Pushed(s, ip, lineno, input')
    BY <1>2, <1>4, AddInput
  <2> QED BY <2>1 DEF Pushed
<1>6. /\ Stack(t) /\ Len(t) = Len(s) /\ Placed(t, c) /\ Marks(t, hide) /\ ~AtWork(t, c)
      /\ \A h : Hidden(s, c, h) => Hidden(t, c, h)
      /\ y.t = "macro" /\ y.sym = x /\ y.hs = {}
  BY <1>2, <1>5, SameHolds, CallsThemselves DEF SameStack, SameInput
<1>7. Stack(input') /\ Marks(input', hide)
  BY <1>5, <1>6, PushInput
<1>8. /\ Calls(ctl') /\ Placed(input', ctl')
      /\ \A h : Hidden(t, c, h) /\ y.sym \notin h => Hidden(input', ctl', h)
      /\ \A j \in 1 .. Len(ctl') : ctl'[j].k = "pars" => j \in 1 .. Len(c) /\ ctl'[j] = c[j]
  BY <1>3, <1>4, <1>5, <1>6, PushMacroHolds
<1>9. Inputs'
  BY <1>5, <1>7, <1>8 DEF Inputs
<1>10. Hides'
  BY <1>6, <1>8 DEF Hides
<1> QED BY <1>9, <1>10

\* A step that pops the current input.
LEMMA PopStep ==
  ASSUME Inputs, Hides, input # <<>>, ~AtWork(input, ctl), delinput,
         Last(input).t = "param" => looking = NoName /\ ~Collecting,
         ctl' = ctl, looking' = looking, disexpand' = disexpand, broken' = broken
  PROVE  Inputs' /\ Hides'
<1> DEFINE top == input[Len(input)]
<1>1. /\ Stack(input) /\ Calls(ctl) /\ Len(ctl) \in Nat /\ Last(input) = top
      /\ input' = Front(input) /\ hide' = hide \ top.hs
      /\ lineno' = IF Len(input) > 1 THEN input[Len(input) - 1].lno ELSE lineno
  BY DEF Inputs, Calls, IsSeq, delinput, delmacro, Last
<1>2. top.t = "param" => ctl = <<>> \/ ctl[Len(ctl)].k = "copy"
  <2>1. SUFFICES ASSUME top.t = "param", ctl # <<>> PROVE ctl[Len(ctl)].k = "copy"
    OBVIOUS
  <2>2. ctl[Len(ctl)].k # "pars"
    BY <1>1, <2>1 DEF Collecting, Last
  <2>3. Len(ctl) \in 1 .. Len(ctl)
    BY <1>1, <2>1 DEF Calls, IsSeq
  <2> QED BY <1>1, <2>2, <2>3 DEF Calls, CallShape
<1>3. /\ Stack(input') /\ Placed(input', ctl)
      /\ Len(input) \in Nat \ {0} /\ Len(input') = Len(input) - 1
      /\ \A i \in 1 .. Len(input) - 1 : input'[i] = input[i]
      /\ top.t # "param" => ~AtWork(input', ctl)
      /\ \A h : Marks(input, h) => Marks(input', h \ top.hs)
      /\ \A h : Hidden(input, ctl, h) => Hidden(input', ctl, h \ top.hs)
  BY <1>1, <1>2, PopInput DEF Inputs
<1>4. Located(input', lineno')
  BY <1>1, <1>3, PlacePopped DEF Inputs
<1>5. Inputs'
  BY <1>1, <1>3, <1>4 DEF Inputs
<1>6. Hides'
  BY <1>1, <1>3 DEF Hides
<1> QED BY <1>5, <1>6

(***************************************************************************)
(* The steps.                                                              *)
(***************************************************************************)

\* The current input is a file and is moved to another line.
LEMMA FileMoved ==
  ASSUME Inputs, input # <<>>, input[Len(input)].t = "file",
         NEW r, InputShape(r), SameInput(r, input[Len(input)])
  PROVE  LET t == [input EXCEPT ![Len(input)] = r]
         IN /\ SameStack(input, t) /\ t # <<>> /\ Len(t) = Len(input) /\ Len(input) \in Nat \ {0}
            /\ t[Len(t)] = r /\ r.t = "file"
            /\ Located(t, r.phys)
<1> DEFINE n == Len(input)
           t == [input EXCEPT ![n] = r]
<1>1. Stack(input) /\ Located(input, lineno)
  BY DEF Inputs
<1>2. /\ SameStack(input, t) /\ t # <<>> /\ t[n] = r /\ n \in Nat \ {0}
      /\ \A i \in 1 .. n : i # n => t[i] = input[i]
  BY <1>1, TopInput
<1> HIDE DEF t
<1>3. Len(t) = n /\ t[Len(t)] = r /\ r.t = "file"
  BY <1>2 DEF SameStack, SameInput
<1>4. Located(t, t[n].phys)
  BY <1>1, <1>2, <1>3, PlaceMoved
<1> QED BY <1>2, <1>3, <1>4 DEF t

\* At the end of a line of a file.
LEMMA AtFile ==
  ASSUME Inputs, AtLineEnd
  PROVE  /\ input # <<>> /\ input[Len(input)].t = "file" /\ Len(input) \in Nat \ {0}
         /\ lineno = input[Len(input)].phys /\ InputShape(input[Len(input)])
         /\ ~AtWork(input, ctl)
<1>1. input # <<>> /\ input[Len(input)].t = "file" /\ Stack(input) /\ Calls(ctl)
  BY DEF AtLineEnd, Last, Inputs
<1>2. Len(input) \in Nat \ {0}
  BY <1>1 DEF Stack, IsSeq
<1>3. TopFile(Len(input), input)
  BY <1>1 DEF TopFile
<1>4. lineno = input[Len(input)].phys
  BY <1>2, <1>3 DEF Inputs, Located
<1>5. ~AtWork(input, ctl)
  <2>1. SUFFICES ASSUME AtWork(input, ctl) PROVE FALSE
    OBVIOUS
  <2>2. Len(ctl) \in 1 .. Len(ctl)
    BY <1>1, <2>1 DEF AtWork, Calls, IsSeq
  <2>3. input[Len(input)].t = "macro"
    BY <2>1, <2>2 DEF AtWork, Placed, Inputs
  <2> QED BY <1>1, <2>3
<1> QED BY <1>1, <1>2, <1>4, <1>5 DEF Stack

\* A line is read.
LEMMA LineRead ==
  ASSUME Inputs, AtLineEnd
  PROVE  /\ SameStack(input, NewLine) /\ NewLine # <<>> /\ NewLine[Len(NewLine)].t = "file"
         /\ Len(NewLine) = Len(input) /\ Located(NewLine, lineno + 1)
<1> DEFINE old == input[Len(input)]
           y   == lineno + 1
           r   == [old EXCEPT !.phys = y]
<1>1. input # <<>> /\ old.t = "file" /\ lineno = old.phys /\ InputShape(old)
  BY AtFile
<1>2. NewLine = [input EXCEPT ![Len(input)] = r]
  BY <1>1 DEF NewLine
<1>3. InputShape(r) /\ SameInput(r, old) /\ r.phys = y
  <2> HIDE DEF old, y
  <2> QED BY <1>1, SetInput
<1> HIDE DEF r
<1> QED BY <1>1, <1>2, <1>3, FileMoved

\* A line of text.
LEMMA StepTextline == ASSUME Inputs, Hides, NEW l, textline(l) PROVE Inputs' /\ Hides'
<1> DEFINE n   == Len(input)
           s   == NewLine
           x   == IF cppoff = 0 THEN l.toks ELSE <<>>
           old == s[n]
           r   == [old EXCEPT !.toks = x]
<1>1. AtLineEnd /\ input' = [s EXCEPT ![n].toks = x] /\ lineno' = lineno + 1 /\ UNCHANGED <<expands, broken>>
  BY DEF textline, readline
<1>2. /\ SameStack(input, s) /\ s # <<>> /\ Len(s) = n /\ Located(s, lineno + 1)
  BY <1>1, LineRead
<1> HIDE DEF x, s
<1>3. Stack(s) /\ n \in Nat \ {0} /\ Calls(ctl)
  BY <1>1, <1>2, AtFile DEF SameStack, Inputs
<1>4. InputShape(old)
  BY <1>2, <1>3 DEF Stack
<1>5. InputShape(r) /\ SameInput(r, old) /\ SamePlace(r, old)
  <2> HIDE DEF old
  <2> QED BY <1>4, SetInput
<1> DEFINE t == [s EXCEPT ![Len(s)] = r]
<1>6. input' = t
  BY <1>1, <1>2
<1>61. InputShape(r) /\ SameInput(r, s[Len(s)])
  BY <1>2, <1>5
<1> HIDE DEF r, n
<1>7. /\ SameStack(s, t) /\ t[Len(s)] = r /\ \A i \in 1 .. Len(s) : i # Len(s) => t[i] = s[i]
  BY <1>2, <1>3, <1>61, TopInput
<1> HIDE DEF t
<1>8. Len(t) = n /\ n = Len(input)
  BY <1>2, <1>7 DEF SameStack, n
<1>9. SameStack(input, t)
  BY <1>2, <1>7, <1>8 DEF SameStack, SameInput
<1>10. \A i \in 1 .. Len(s) : t[i].t = s[i].t /\ t[i].phys = s[i].phys /\ t[i].lno = s[i].lno
  BY <1>2, <1>5, <1>7 DEF SameInput, SamePlace
<1>11. Located(t, lineno + 1)
  BY <1>2, <1>3, <1>8, <1>10, PlaceSame
<1> QED BY <1>1, <1>3, <1>6, <1>9, <1>11, SameStep, CallsThemselves DEF expands

\* A line with a directive.
LEMMA StepLine == ASSUME Inputs, Hides, NEW l, cpp(l) PROVE Inputs' /\ Hides'
<1>1. /\ AtLineEnd /\ UNCHANGED <<ctl, looking, hide>> /\ ~disexpand' /\ broken' = (broken \/ Collecting)
      /\ IF l.d = "include" /\ cppoff = 0 THEN include
         ELSE IF l.d = "line" /\ cppoff = 0 THEN line(l)
         ELSE input' = NewLine /\ lineno' = lineno + 1
  BY DEF cpp, readline
<1>2. /\ Calls(ctl) /\ SameCalls(ctl, ctl')
      /\ ~broken' => ~broken /\ (disexpand' = disexpand \/ (~disexpand' /\ ~Collecting))
  BY <1>1, CallsThemselves DEF Inputs
<1>3. CASE include
  <2> DEFINE ip == Input("file", NoName)
             s  == NewLine
  <2>1. /\ SameStack(input, s) /\ s # <<>> /\ s[Len(s)].t = "file" /\ Located(s, lineno + 1)
        /\ ~AtWork(input, ctl)
    BY <1>1, LineRead, AtFile
  <2>2. input' = addinput(s, lineno + 1, ip, 0) /\ lineno' = 0
    BY <1>3 DEF include
  <2>3. InputShape(ip) /\ ip.t = "file" /\ ip.hs = {} /\ ip.phys = 0
    BY DEF Input, InputShape
  <2> HIDE DEF ip, s
  <2> QED BY <1>1, <1>2, <2>1, <2>2, <2>3, PushStep
<1>4. CASE line(l)
  <2> DEFINE old == input[Len(input)]
             v == l.val - 1
             q == [old EXCEPT !.lno = v]
             r == [q EXCEPT !.phys = v]
             t == [input EXCEPT ![Len(input)] = r]
  <2>1. input # <<>> /\ old.t = "file" /\ InputShape(old)
    BY <1>1, AtFile
  <2>2. input' = t /\ lineno' = v
    BY <1>4 DEF line, setloc
  <2> HIDE DEF v
  <2>3. InputShape(q) /\ SameInput(q, old)
    <3> HIDE DEF old
    <3> QED BY <2>1, SetInput
  <2>4. InputShape(r) /\ SameInput(r, q) /\ r.phys = v
    <3> HIDE DEF q
    <3> QED BY <2>3, SetInput
  <2>5. SameInput(r, old)
    BY <2>3, <2>4 DEF SameInput
  <2> HIDE DEF r
  <2>6. SameStack(input, t) /\ Located(t, v)
    BY <2>1, <2>4, <2>5, FileMoved
  <2> HIDE DEF t
  <2> QED BY <1>1, <1>2, <2>2, <2>6, SameStep
<1>5. CASE input' = NewLine /\ lineno' = lineno + 1
  <2>1. SameStack(input, input') /\ Located(input', lineno')
    BY <1>1, <1>5, LineRead
  <2> QED BY <1>1, <1>2, <2>1, SameStep
<1> QED BY <1>1, <1>3, <1>4, <1>5

\* The end of a file.
LEMMA StepEndfile == ASSUME Inputs, Hides, endfile PROVE Inputs' /\ Hides'
<1> DEFINE old == input[Len(input)]
           r   == [old EXCEPT !.eof = TRUE]
           t   == [input EXCEPT ![Len(input)] = r]
<1>1. /\ AtLineEnd /\ input' = t
      /\ UNCHANGED <<ctl, looking, hide, disexpand, lineno, broken>>
  BY DEF endfile, expands, ghost
<1>2. input # <<>> /\ old.t = "file" /\ InputShape(old) /\ lineno = old.phys
  BY <1>1, AtFile
<1>3. InputShape(r) /\ SameInput(r, old) /\ r.phys = old.phys
  <2> HIDE DEF old
  <2> QED BY <1>2 DEF InputShape, SameInput
<1> HIDE DEF r
<1>4. SameStack(input, t) /\ Located(t, lineno)
  BY <1>2, <1>3, FileMoved
<1> HIDE DEF t
<1>5. SameCalls(ctl, ctl')
  BY <1>1, CallsThemselves DEF Inputs
<1> QED BY <1>1, <1>4, <1>5, SameStep

\* copymacro() is at work on the current input, or it is not.
LEMMA CopyingAtWork == ASSUME Inputs PROVE Copying <=> AtWork(input, ctl)
BY DEF Copying, AtWork, Last

\* moreinput() pops inputs that are empty.
LEMMA StepMoreinput == ASSUME Inputs, Hides, moreinput PROVE Inputs' /\ Hides'
<1>1. /\ input # <<>> /\ ~AtWork(input, ctl) /\ delinput
      /\ Last(input).t = "macro" \/ Last(input).eof
      /\ UNCHANGED <<ctl, looking, disexpand, broken>>
  BY CopyingAtWork DEF moreinput, ghost
<1>2. Last(input).t # "param"
  <2>1. Len(input) \in 1 .. Len(input)
    BY <1>1 DEF Inputs, Stack, IsSeq
  <2>2. InputShape(Last(input))
    BY <2>1 DEF Inputs, Stack, Last
  <2> QED BY <1>1, <2>2 DEF InputShape
<1> QED BY <1>1, <1>2, PopStep

\* The expansion of an argument begins or ends.
LEMMA StepExpandarg == ASSUME Inputs, Hides, expandarg PROVE Inputs' /\ Hides'
<1>1. /\ input # <<>> /\ Last(input).t = "param" /\ looking = NoName /\ ~Collecting /\ delinput
      /\ UNCHANGED <<ctl, looking, disexpand, broken>>
  BY DEF expandarg, ghost
<1>2. ~AtWork(input, ctl)
  <2>1. SUFFICES ASSUME AtWork(input, ctl) PROVE FALSE
    OBVIOUS
  <2>2. Len(ctl) \in 1 .. Len(ctl)
    BY <2>1 DEF AtWork, Calls, IsSeq, Inputs
  <2>3. input[Len(input)].t = "macro"
    BY <2>1, <2>2 DEF AtWork, Placed, Inputs
  <2> QED BY <1>1, <2>3 DEF Last
<1> QED BY <1>1, <1>2, PopStep

\* The token at the top is taken: nothing else changes in the stack.
LEMMA ConsumeHolds ==
  ASSUME Inputs, HasToken
  PROVE  /\ SameStack(input, Consume) /\ Consume # <<>> /\ Located(Consume, lineno)
         /\ Stack(Consume) /\ Placed(Consume, ctl) /\ Marks(Consume, hide) /\ ~AtWork(Consume, ctl)
         /\ \A h : Hidden(input, ctl, h) => Hidden(Consume, ctl, h)
         /\ Calls(ctl) /\ SameCalls(ctl, ctl) /\ ~AtWork(input, ctl)
<1> DEFINE x == Tail(input[Len(input)].toks)
           t == [input EXCEPT ![Len(input)].toks = x]
<1>1. input # <<>> /\ Consume = t /\ ~AtWork(input, ctl)
  BY CopyingAtWork DEF HasToken, Consume
<1> HIDE DEF x
<1>2. SameStack(input, t) /\ t # <<>> /\ Located(t, lineno)
  BY <1>1, Retext
<1> HIDE DEF t
<1>3. Stack(input) /\ Stack(t) /\ Calls(ctl) /\ SameCalls(ctl, ctl) /\ Placed(input, ctl) /\ Marks(input, hide)
  BY <1>2, CallsThemselves DEF Inputs, SameStack
<1>4. /\ Placed(t, ctl) /\ Marks(t, hide) /\ ~AtWork(t, ctl)
      /\ \A h : Hidden(input, ctl, h) => Hidden(t, ctl, h)
  BY <1>1, <1>2, <1>3, SameHolds
<1> QED BY <1>1, <1>2, <1>3, <1>4

\* expand() finds a macro.
LEMMA StepExpand == ASSUME Inputs, Hides, expand PROVE Inputs' /\ Hides'
<1> DEFINE x == Tok
           s == Consume
<1>1. /\ HasToken /\ looking = NoName /\ x \in Names /\ ~disexpand /\ x \notin hide
      /\ UNCHANGED <<hide, disexpand, lineno, broken>>
  BY DEF expand, Expandable, IsMacro, ghost
<1>2. /\ SameStack(input, s) /\ s # <<>> /\ Located(s, lineno)
      /\ Stack(s) /\ Placed(s, ctl) /\ Marks(s, hide) /\ ~AtWork(s, ctl)
      /\ \A h : Hidden(input, ctl, h) => Hidden(s, ctl, h)
      /\ Calls(ctl) /\ SameCalls(ctl, ctl) /\ ~AtWork(input, ctl)
  BY <1>1, ConsumeHolds
<1>3. CASE looking' = x /\ input' = s /\ UNCHANGED ctl
  BY <1>1, <1>2, <1>3, SameStep
<1>4. CASE PushMacro(x, <<>>, s, ctl) /\ UNCHANGED looking
  <2>1. ~broken => Hidden(s, ctl, hide) /\ x \notin hide /\ \A j \in 1 .. Len(ctl) : ctl[j].k # "pars"
    BY <1>1, <1>2 DEF Hides
  <2> HIDE DEF x, s
  <2> QED BY <1>1, <1>2, <1>4, <2>1, MacroStep
<1> QED BY <1>3, <1>4 DEF expand

\* parsepars() finds the parenthesis.
LEMMA StepParsepars == ASSUME Inputs, Hides, parsepars PROVE Inputs' /\ Hides'
<1> DEFINE a == Context("pars", looking)
           s == Consume
           d == Append(ctl, a)
<1>1. /\ HasToken /\ looking # NoName /\ input' = s /\ ctl' = d /\ looking' = NoName /\ disexpand'
      /\ UNCHANGED <<hide, lineno, broken>>
  BY DEF parsepars, ghost
<1>2. /\ SameStack(input, s) /\ Located(s, lineno)
      /\ Stack(s) /\ Placed(s, ctl) /\ Marks(s, hide) /\ ~AtWork(s, ctl)
      /\ \A h : Hidden(input, ctl, h) => Hidden(s, ctl, h)
      /\ Calls(ctl)
  BY <1>1, ConsumeHolds
<1>3. CallShape(a) /\ a.k = "pars" /\ a.sym = looking
  BY <1>1 DEF Context, CallShape, Inputs
<1> HIDE DEF a, s
<1>4. /\ Calls(d) /\ Placed(s, d) /\ ~AtWork(s, d)
      /\ Len(d) = Len(ctl) + 1 /\ d[Len(ctl) + 1] = a /\ Len(ctl) \in Nat
      /\ \A j \in 1 .. Len(ctl) : d[j] = ctl[j]
      /\ \A h : Hidden(s, ctl, h) => Hidden(s, d, h)
  BY <1>2, <1>3, PushPars
<1> HIDE DEF d
<1>5. Inputs'
  BY <1>1, <1>2, <1>4 DEF Inputs
<1>6. Hides'
  <2>1. SUFFICES ASSUME ~broken' PROVE Hides'
    BY DEF Hides
  <2>2. Hidden(s, d, hide) /\ looking \notin hide /\ \A j \in 1 .. Len(ctl) : ctl[j].k # "pars"
    BY <1>1, <1>2, <1>4, <2>1 DEF Hides
  <2>3. \A j \in 1 .. Len(d) : j \in 1 .. Len(ctl) \/ j = Len(d)
    BY <1>4
  <2>4. \A j \in 1 .. Len(d) : d[j].k = "pars" => j = Len(d) /\ d[j].sym \notin hide
    BY <1>3, <1>4, <2>2, <2>3
  <2> QED BY <1>1, <2>2, <2>4 DEF Hides
<1> QED BY <1>5, <1>6

\* A token is taken.
LEMMA StepGive ==
  ASSUME Inputs, Hides, NEW t, Give(t), UNCHANGED <<hide, disexpand, lineno, broken>>,
         looking' \in {looking, NoName},
         SameStack(input, input'), Located(input', lineno)
  PROVE  Inputs' /\ Hides'
<1>1. SameCalls(ctl, ctl')
  BY GiveHolds
<1> QED BY <1>1, SameStep

\* No parenthesis follows the name of the macro.
LEMMA StepNotcalled == ASSUME Inputs, Hides, notcalled PROVE Inputs' /\ Hides'
<1> DEFINE t == IF stale THEN JUNK ELSE looking
<1>1. Give(t) /\ input' = input /\ looking' = NoName /\ UNCHANGED <<hide, disexpand, lineno, broken>>
  BY DEF notcalled, ghost
<1>2. SameStack(input, input') /\ Located(input', lineno)
  BY <1>1, StackItself DEF Inputs
<1> HIDE DEF t
<1> QED BY <1>1, <1>2, StepGive

\* next() gives a token.
LEMMA StepNext == ASSUME Inputs, Hides, next PROVE Inputs' /\ Hides'
<1>1. /\ HasToken /\ Give(Tok) /\ input' = Consume
      /\ UNCHANGED <<looking, hide, disexpand, lineno, broken>>
  BY DEF next, ghost
<1>2. SameStack(input, input') /\ Located(input', lineno)
  BY <1>1, ConsumeHolds
<1> QED BY <1>1, <1>2, StepGive

\* The last call, on a step that only adds to what it has collected.
LEMMA LastCall ==
  ASSUME Inputs, ctl # <<>>
  PROVE  CallShape(Last(ctl)) /\ Last(ctl) = ctl[Len(ctl)]
<1>1. Len(ctl) \in 1 .. Len(ctl)
  BY DEF Inputs, Calls, IsSeq
<1> QED BY <1>1 DEF Inputs, Calls, Last

\* parameter() takes one token of an argument.
LEMMA StepParameter == ASSUME Inputs, Hides, parameter PROVE Inputs' /\ Hides'
<1> DEFINE c == Last(ctl)
           s == Consume
<1>1. HasToken /\ looking = NoName /\ Collecting /\ ctl # <<>> /\ c.k = "pars" /\ CallShape(c) /\ c = ctl[Len(ctl)]
  BY LastCall DEF parameter, Collecting
<1>2. /\ SameStack(input, s) /\ s # <<>> /\ Located(s, lineno)
      /\ Stack(s) /\ Placed(s, ctl) /\ Marks(s, hide) /\ ~AtWork(s, ctl)
      /\ \A h : Hidden(input, ctl, h) => Hidden(s, ctl, h)
      /\ Calls(ctl)
  BY <1>1, ConsumeHolds
<1>3. CASE /\ PushMacro(c.sym, Args(c), s, Front(ctl)) /\ disexpand' = FALSE
           /\ UNCHANGED <<looking, hide, lineno, broken>>
  <2> DEFINE d == Front(ctl)
             x == c.sym
             args == Args(c)
  <2>1. /\ Calls(d) /\ Placed(s, d) /\ ~AtWork(s, d)
        /\ Len(d) = Len(ctl) - 1 /\ Len(ctl) \in Nat \ {0}
        /\ \A j \in 1 .. Len(ctl) - 1 : d[j] = ctl[j]
        /\ \A h : Hidden(s, ctl, h) => Hidden(s, d, h)
    BY <1>1, <1>2, DropPars
  <2>2. x \in Names
    BY <1>1 DEF CallShape
  <2>3. ASSUME ~broken PROVE Hidden(s, d, hide) /\ x \notin hide /\ \A j \in 1 .. Len(d) : d[j].k # "pars"
    <3>1. Hidden(s, d, hide)
      BY <1>2, <2>1, <2>3 DEF Hides
    <3>2. Len(ctl) \in 1 .. Len(ctl)
      BY <2>1
    <3>3. x \notin hide
      BY <1>1, <2>3, <3>2 DEF Hides
    <3>4. \A j \in 1 .. Len(d) : j \in 1 .. Len(ctl) /\ j # Len(ctl) /\ d[j] = ctl[j]
      BY <2>1
    <3> QED BY <2>3, <3>1, <3>3, <3>4 DEF Hides
  <2> HIDE DEF d, x, args, s
  <2>4. PushMacro(x, args, s, d)
    BY <1>3 DEF d, x, args
  <2> QED BY <1>1, <1>2, <1>3, <2>1, <2>2, <2>3, <2>4, MacroStep
<1>4. CASE Fails
  <2>1. UNCHANGED stackvars
    BY <1>4 DEF Fails, stackvars, ghost
  <2> QED BY <2>1, StackAlone
<1>5. ASSUME NEW r, CallShape(r), SameCall(r, c), ctl' = [ctl EXCEPT ![Len(ctl)] = r], input' = s,
             UNCHANGED <<looking, hide, disexpand, lineno, broken>>
      PROVE  Inputs' /\ Hides'
  <2>1. SameCalls(ctl, ctl')
    BY <1>1, <1>5, Recall
  <2> QED BY <1>2, <1>5, <2>1, SameStep
<1>6. CASE /\ input' = s
           /\ ctl' = [ctl EXCEPT ![Len(ctl)].args = Append(@, c.cur), ![Len(ctl)].cur = <<>>]
           /\ UNCHANGED <<looking, hide, disexpand, lineno, broken>>
  <2> DEFINE y == Append(c.args, c.cur)
             q == [c EXCEPT !.args = y]
             r == [q EXCEPT !.cur = <<>>]
  <2>1. ctl' = [ctl EXCEPT ![Len(ctl)] = r]
    BY <1>1, <1>6
  <2> HIDE DEF y, c
  <2>2. CallShape(q) /\ SameCall(q, c)
    BY <1>1, SetCall
  <2> HIDE DEF q
  <2>3. CallShape(r) /\ SameCall(r, q)
    BY <2>2, SetCall
  <2>4. SameCall(r, c)
    BY <2>2, <2>3 DEF SameCall
  <2> HIDE DEF r
  <2> QED BY <1>5, <1>6, <2>1, <2>3, <2>4
<1>7. CASE /\ input' = s
           /\ ctl' = [ctl EXCEPT ![Len(ctl)].cur = Append(@, Tok),
                        ![Len(ctl)].depth = IF Tok = "(" THEN @ + 1 ELSE IF Tok = ")" THEN @ - 1 ELSE @]
           /\ UNCHANGED <<looking, hide, disexpand, lineno, broken>>
  <2> DEFINE y == Append(c.cur, Tok)
             z == IF Tok = "(" THEN c.depth + 1 ELSE IF Tok = ")" THEN c.depth - 1 ELSE c.depth
             q == [c EXCEPT !.cur = y]
             r == [q EXCEPT !.depth = z]
  <2>1. ctl' = [ctl EXCEPT ![Len(ctl)] = r]
    <3>1. q.depth = c.depth
      BY <1>1 DEF CallShape
    <3> QED BY <1>1, <1>7, <3>1
  <2> HIDE DEF y, z, c
  <2>2. CallShape(q) /\ SameCall(q, c)
    BY <1>1, SetCall
  <2> HIDE DEF q
  <2>3. CallShape(r) /\ SameCall(r, q)
    BY <2>2, SetCall
  <2>4. SameCall(r, c)
    BY <2>2, <2>3 DEF SameCall
  <2> HIDE DEF r
  <2> QED BY <1>5, <1>7, <2>1, <2>3, <2>4
<1>8. \/ PushMacro(c.sym, Args(c), s, Front(ctl)) /\ disexpand' = FALSE /\ UNCHANGED <<looking, hide, lineno, broken>>
      \/ Fails
      \/ /\ input' = s
         /\ ctl' = [ctl EXCEPT ![Len(ctl)].args = Append(@, c.cur), ![Len(ctl)].cur = <<>>]
         /\ UNCHANGED <<looking, hide, disexpand, lineno, broken>>
      \/ /\ input' = s
         /\ ctl' = [ctl EXCEPT ![Len(ctl)].cur = Append(@, Tok),
                      ![Len(ctl)].depth = IF Tok = "(" THEN @ + 1 ELSE IF Tok = ")" THEN @ - 1 ELSE @]
         /\ UNCHANGED <<looking, hide, disexpand, lineno, broken>>
  BY DEF parameter, ghost
<1> QED BY <1>3, <1>4, <1>6, <1>7, <1>8

\* copymacro() moves one item of the body.
LEMMA StepCopymacro == ASSUME Inputs, Hides, copymacro PROVE Inputs' /\ Hides'
<1> DEFINE c == Last(ctl)
           b == Head(c.items)
<1>1. /\ AtWork(input, ctl) /\ ctl # <<>> /\ CallShape(c) /\ c = ctl[Len(ctl)]
      /\ UNCHANGED <<looking, hide, disexpand, lineno, broken>>
  BY CopyingAtWork, LastCall DEF copymacro, AtWork, ghost
<1>2. Stack(input) /\ SameStack(input, input) /\ Located(input, lineno) /\ input # <<>>
  <2>1. Stack(input) /\ Located(input, lineno)
    BY DEF Inputs
  <2>2. Len(ctl) \in 1 .. Len(ctl)
    BY <1>1 DEF Inputs, Calls, IsSeq
  <2>3. Len(input) \in 1 .. Len(input)
    BY <1>1, <2>2 DEF Inputs, Placed, AtWork
  <2> QED BY <2>1, <2>3, StackItself
<1>3. ASSUME NEW x, UNCHANGED input,
             ctl' = [ctl EXCEPT ![Len(ctl)].items = Tail(@), ![Len(ctl)].cur = @ \o x]
      PROVE  Inputs' /\ Hides'
  <2> DEFINE y == Tail(c.items)
             z == c.cur \o x
             q == [c EXCEPT !.items = y]
             r == [q EXCEPT !.cur = z]
  <2>1. ctl' = [ctl EXCEPT ![Len(ctl)] = r]
    <3>1. q.cur = c.cur
      BY <1>1 DEF CallShape
    <3> QED BY <1>1, <1>3, <3>1
  <2> HIDE DEF y, z, c
  <2>2. CallShape(q) /\ SameCall(q, c)
    BY <1>1, SetCall
  <2> HIDE DEF q
  <2>3. CallShape(r) /\ SameCall(r, q)
    BY <2>2, SetCall
  <2>4. SameCall(r, c)
    BY <2>2, <2>3 DEF SameCall
  <2> HIDE DEF r
  <2>5. SameCalls(ctl, ctl')
    BY <1>1, <2>1, <2>3, <2>4, Recall
  <2> QED BY <1>1, <1>2, <1>3, <2>5, SameStep
<1>4. ASSUME NEW x, ctl' = [ctl EXCEPT ![Len(ctl)].items = Tail(@)],
             input' = addinput(input, lineno, [Input("param", NoName) EXCEPT !.toks = x], lineno)
      PROVE  Inputs' /\ Hides'
  <2> DEFINE y == Tail(c.items)
             r == [c EXCEPT !.items = y]
             ip == [Input("param", NoName) EXCEPT !.toks = x]
  <2>1. ctl' = [ctl EXCEPT ![Len(ctl)] = r]
    BY <1>1, <1>4
  <2> HIDE DEF y, c
  <2>2. CallShape(r) /\ SameCall(r, c)
    BY <1>1, SetCall
  <2> HIDE DEF r
  <2>3. SameCalls(ctl, ctl')
    BY <1>1, <2>1, <2>2, Recall
  <2>4. InputShape(ip) /\ ip.t = "param" /\ ip.hs = {}
    BY DEF Input, InputShape
  <2>5. input' = addinput(input, lineno, ip, lineno)
    BY <1>4
  <2> HIDE DEF ip
  <2> QED BY <1>1, <1>2, <2>3, <2>4, <2>5, PushStep
<1> QED BY <1>3, <1>4 DEF copymacro

\* A function on the places of a sequence is a sequence.
LEMMA MapSeq ==
  ASSUME NEW s, IsSeq(s), NEW t, t = [i \in DOMAIN s |-> t[i]]
  PROVE  IsSeq(t) /\ Len(s) \in Nat /\ Len(t) = Len(s) /\ DOMAIN s = 1 .. Len(s)
<1> DEFINE S == {t[i] : i \in DOMAIN s}
<1>1. Len(s) \in Nat /\ DOMAIN s = 1 .. Len(s)
  BY DEF IsSeq
<1>2. t \in [1 .. Len(s) -> S]
  BY <1>1
<1> HIDE DEF S
<1>3. t \in Seq(S) /\ Len(t) = Len(s)
  BY <1>1, <1>2
<1> QED BY <1>1, <1>3, OwnElements

\* copymacro() has the whole body.
LEMMA StepExpanded == ASSUME Inputs, Hides, expanded PROVE Inputs' /\ Hides'
<1> DEFINE c  == Last(ctl)
           d  == Front(ctl)
           n  == Len(input)
           ip == addhideset(c.sym)
           x  == c.cur
           t  == [ip EXCEPT ![Len(ip)].toks = x]
<1>1. /\ AtWork(input, ctl) /\ ctl # <<>> /\ CallShape(c) /\ c = ctl[Len(ctl)]
      /\ Stack(input) /\ Calls(ctl) /\ Placed(input, ctl) /\ IsSeq(input) /\ Located(input, lineno)
  BY CopyingAtWork, LastCall DEF expanded, AtWork, Inputs, Stack
<1>2. CASE Fails
  <2>1. UNCHANGED stackvars
    BY <1>2 DEF Fails, stackvars, ghost
  <2> QED BY <2>1, StackAlone
<1>3. CASE /\ input' = t /\ hide' = hide \cup Last(ip).hs /\ ctl' = d
           /\ UNCHANGED <<looking, disexpand, lineno, broken>>
  <2>1. /\ IsSeq(ip) /\ n \in Nat /\ Len(ip) = n /\ DOMAIN input = 1 .. n
        /\ \A i \in 1 .. n : ip[i] = IF input[i].t = "macro" THEN [input[i] EXCEPT !.hs = @ \cup {c.sym}] ELSE input[i]
    <3>1. ip = [i \in DOMAIN input |-> ip[i]]
      BY DEF addhideset
    <3>2. \A i \in DOMAIN input : ip[i] = IF input[i].t = "macro" THEN [input[i] EXCEPT !.hs = @ \cup {c.sym}] ELSE input[i]
      BY DEF addhideset
    <3> HIDE DEF ip
    <3>3. IsSeq(ip) /\ n \in Nat /\ Len(ip) = n /\ DOMAIN input = 1 .. n
      BY <1>1, <3>1, MapSeq
    <3> QED BY <3>2, <3>3
  <2>2. c.sym \in Names
    BY <1>1 DEF CallShape
  <2> HIDE DEF ip, c, x
  <2>3. \A i \in 1 .. n : /\ InputShape(ip[i]) /\ ip[i].t = input[i].t /\ ip[i].sym = input[i].sym
                          /\ ip[i].phys = input[i].phys /\ ip[i].lno = input[i].lno
                          /\ ip[i].hs = IF input[i].t = "macro" THEN input[i].hs \cup {c.sym} ELSE input[i].hs
    <3>1. SUFFICES ASSUME NEW i \in 1 .. n
                   PROVE  /\ InputShape(ip[i]) /\ ip[i].t = input[i].t /\ ip[i].sym = input[i].sym
                          /\ ip[i].phys = input[i].phys /\ ip[i].lno = input[i].lno
                          /\ ip[i].hs = IF input[i].t = "macro" THEN input[i].hs \cup {c.sym} ELSE input[i].hs
      OBVIOUS
    <3> DEFINE old == input[i]
               S   == old.hs \cup {c.sym}
               new == [old EXCEPT !.hs = S]
    <3>2. InputShape(old)
      BY <1>1, <3>1 DEF Stack
    <3>3. ip[i] = IF old.t = "macro" THEN new ELSE old
      BY <2>1, <3>1
    <3>4. S \subseteq Names
      BY <2>2, <3>2 DEF InputShape
    <3> HIDE DEF old, S
    <3>5. old.t = "macro" => InputShape(new) /\ new.t = old.t /\ new.sym = old.sym
                             /\ new.phys = old.phys /\ new.lno = old.lno /\ new.hs = S
      BY <3>2, <3>4 DEF InputShape
    <3> HIDE DEF new
    <3> QED BY <3>2, <3>3, <3>5 DEF old, S
  <2>4. n \in 1 .. n /\ ip # <<>>
    <3>1. Len(ctl) \in 1 .. Len(ctl)
      BY <1>1 DEF Calls, IsSeq
    <3>2. n \in 1 .. n
      BY <1>1, <3>1 DEF AtWork, Placed
    <3> QED BY <2>1, <3>2
  <2> DEFINE old == ip[n]
             r == [old EXCEPT !.toks = x]
             u == [ip EXCEPT ![Len(ip)] = r]
  <2>5. InputShape(r) /\ SameInput(r, old) /\ SamePlace(r, old)
    <3>1. InputShape(old)
      BY <2>3, <2>4
    <3> HIDE DEF old
    <3> QED BY <3>1, SetInput
  <2>6. t = u
    BY <2>1
  <2> HIDE DEF r
  <2>7. /\ IsSeq(u) /\ Len(u) = Len(ip) /\ u[Len(ip)] = r
        /\ \A i \in 1 .. Len(ip) : i # Len(ip) => u[i] = ip[i]
    BY <2>1, <2>4, TopSeq
  <2> HIDE DEF u
  <2>8. \A i \in 1 .. n : /\ InputShape(u[i]) /\ u[i].t = ip[i].t /\ u[i].sym = ip[i].sym /\ u[i].hs = ip[i].hs
                          /\ u[i].phys = ip[i].phys /\ u[i].lno = ip[i].lno
    BY <2>1, <2>3, <2>5, <2>7 DEF SameInput, SamePlace
  <2>9. \A i \in 1 .. n :
           /\ InputShape(u[i]) /\ u[i].t = input[i].t /\ u[i].sym = input[i].sym
           /\ u[i].phys = input[i].phys /\ u[i].lno = input[i].lno
           /\ u[i].hs = IF input[i].t = "macro" THEN input[i].hs \cup {ctl[Len(ctl)].sym} ELSE input[i].hs
    BY <1>1, <2>3, <2>8
  <2>10. Len(u) = n
    BY <2>1, <2>7
  <2>11. /\ Stack(u) /\ Calls(d) /\ Placed(u, d) /\ ~AtWork(u, d)
         /\ Len(d) = Len(ctl) - 1 /\ Len(ctl) \in Nat \ {0}
         /\ \A j \in 1 .. Len(ctl) - 1 : d[j] = ctl[j]
         /\ \A h : Marks(input, h) => Marks(u, h \cup u[Len(u)].hs)
         /\ \A h : Hidden(input, ctl, h) => Hidden(u, d, h \cup u[Len(u)].hs)
    <3> HIDE DEF n
    <3>1. Len(u) = Len(input)
      BY <2>10 DEF n
    <3>2. Marked(input, ctl[Len(ctl)].sym, u)
      BY <2>9 DEF n, Marked
    <3> QED BY <1>1, <2>7, <3>1, <3>2, FinishCopy
  <2>12. Located(u, lineno)
    BY <1>1, <2>1, <2>9, <2>10, PlaceSame
  <2>13. input' = u /\ hide' = hide \cup u[Len(u)].hs /\ u[Len(u)].hs \subseteq Names
    <3>1. Last(ip) = ip[n] /\ Len(u) = n
      BY <2>1, <2>7 DEF Last
    <3>2. u[n].hs = ip[n].hs /\ u[n].hs \subseteq Names
      BY <2>4, <2>8 DEF InputShape
    <3> QED BY <1>3, <2>6, <3>1, <3>2
  <2>14. looking = NoName
    BY <1>1 DEF Inputs
  <2>15. Inputs'
    <3> HIDE DEF d
    <3> QED BY <1>3, <2>11, <2>12, <2>13, <2>14 DEF Inputs
  <2>16. Hides'
    <3>1. SUFFICES ASSUME ~broken PROVE Hides'
      BY <1>3 DEF Hides
    <3>2. \A j \in 1 .. Len(d) : j \in 1 .. Len(ctl) /\ j # Len(ctl) /\ d[j] = ctl[j]
      BY <2>11
    <3>3. \A j \in 1 .. Len(d) : d[j].k # "pars"
      BY <3>1, <3>2 DEF Hides
    <3>4. Hidden(u, d, hide')
      BY <2>11, <2>13, <3>1 DEF Hides
    <3> HIDE DEF d
    <3> QED BY <1>3, <2>13, <2>14, <3>3, <3>4 DEF Hides
  <2> QED BY <2>15, <2>16
<1> QED BY <1>2, <1>3 DEF expanded, ghost

\* Steps that leave the stack alone.
LEMMA StepAlone ==
  ASSUME Inputs, Hides,
         \/ endfile \/ ahead \/ unterminated \/ eof \/ Stopped
         \/ \E l \in Lines : cppfails(l) \/ textfails(l)
  PROVE  Inputs' /\ Hides'
<1>1. CASE endfile
  BY <1>1, StepEndfile
<1>2. CASE \/ ahead \/ unterminated \/ eof \/ Stopped
           \/ \E l \in Lines : cppfails(l) \/ textfails(l)
  <2>1. UNCHANGED stackvars
    BY <1>2 DEF ahead, unterminated, eof, Stopped, cppfails, textfails, Fails, Crashes, stackvars, vars, ghost
  <2> QED BY <2>1, StackAlone
<1> QED BY <1>1, <1>2

\* Every step keeps the stack and the marks.
LEMMA StepInputs == ASSUME Inputs, Hides, Next PROVE Inputs' /\ Hides'
<1>1. CASE \E l \in Lines : cpp(l) \/ textline(l)
  BY <1>1, StepLine, StepTextline
<1>2. CASE moreinput \/ expand \/ parsepars \/ notcalled \/ parameter
  BY <1>2, StepMoreinput, StepExpand, StepParsepars, StepNotcalled, StepParameter
<1>3. CASE next \/ copymacro \/ expandarg \/ expanded
  BY <1>3, StepNext, StepCopymacro, StepExpandarg, StepExpanded
<1>4. CASE \/ endfile \/ ahead \/ unterminated \/ eof \/ Stopped
           \/ \E l \in Lines : cppfails(l) \/ textfails(l)
  BY <1>4, StepAlone
<1> QED BY <1>1, <1>2, <1>3, <1>4 DEF Next

\* Every step keeps the groups.
LEMMA StepConds == ASSUME Conds, Groups, Next PROVE Conds' /\ Groups'
<1>1. ASSUME NEW l \in Lines, cpp(l) PROVE Conds' /\ Groups'
  <2>1. clause(l) /\ ~Wrong(l)
    BY <1>1 DEF cpp
  <2> QED BY <2>1, ClauseConds, ClauseGroups
<1>2. CASE UNCHANGED conds /\ UNCHANGED groups
  BY <1>2 DEF Conds, conds, OffCount, Off, Groups
<1>3. CASE \/ \E l \in Lines : cppfails(l) \/ textline(l) \/ textfails(l)
           \/ endfile \/ ahead \/ unterminated \/ eof \/ Stopped
  <2>1. UNCHANGED conds /\ UNCHANGED groups
    BY <1>3 DEF cppfails, textline, textfails, endfile, ahead, unterminated, eof, Stopped, Fails, Crashes, vars,
                ghost, asinc
  <2> QED BY <1>2, <2>1
<1>4. CASE moreinput \/ expand \/ parsepars \/ notcalled \/ next \/ expandarg
  <2>1. UNCHANGED conds /\ UNCHANGED groups
    BY <1>4 DEF moreinput, expand, parsepars, notcalled, next, expandarg, ghost, asinc
  <2> QED BY <1>2, <2>1
<1>5. CASE parameter \/ copymacro \/ expanded
  <2>1. UNCHANGED conds /\ UNCHANGED groups
    BY <1>5 DEF parameter, copymacro, expanded, Fails, ghost, asinc
  <2> QED BY <1>2, <2>1
<1> QED BY <1>1, <1>3, <1>4, <1>5 DEF Next

\* Every step keeps the outcomes.
LEMMA StepOutcomes == ASSUME Outcomes, Next PROVE Outcomes'
<1>1. ASSUME NEW l \in Lines, cpp(l) \/ cppfails(l) \/ textline(l) \/ textfails(l) PROVE Outcomes'
  BY <1>1 DEF Outcomes, cpp, cppfails, textline, textfails
<1>2. CASE endfile \/ ahead \/ unterminated \/ eof \/ Stopped
  BY <1>2 DEF Outcomes, endfile, ahead, unterminated, eof, Stopped, Fails, Crashes, vars
<1>3. CASE moreinput \/ expand \/ parsepars \/ notcalled \/ next \/ expandarg
  BY <1>3 DEF Outcomes, moreinput, expand, parsepars, notcalled, next, expandarg
<1>4. CASE parameter \/ copymacro \/ expanded
  BY <1>4 DEF Outcomes, parameter, copymacro, expanded, Fails
<1> QED BY <1>1, <1>2, <1>3, <1>4 DEF Next

\* The inputs at the start: one file.
LEMMA CInit == Init => CInv
<1> SUFFICES ASSUME Init PROVE CInv
  OBVIOUS
<1> DEFINE ip == Input("file", NoName)
<1>1. /\ input = <<ip>> /\ ctl = <<>> /\ groups = <<>> /\ looking = NoName /\ hide = {}
      /\ cppctx = 0 /\ cppoff = 0 /\ lineno = 0 /\ outcome = "running"
      /\ ifstate = [i \in 0 .. NR_COND - 1 |-> [enabled |-> FALSE, iselse |-> FALSE]]
  BY DEF Init
<1>2. InputShape(ip) /\ ip.t = "file" /\ ip.phys = 0
  BY DEF Input, InputShape
<1> HIDE DEF ip
<1>3. IsSeq(input) /\ IsSeq(ctl) /\ IsSeq(groups) /\ Len(input) = 1 /\ Len(ctl) = 0 /\ input[1] = ip
  <2>1. input \in Seq({ip}) /\ ctl \in Seq({ip}) /\ groups \in Seq({ip})
    BY <1>1
  <2>2. IsSeq(input) /\ IsSeq(ctl) /\ IsSeq(groups)
    BY <2>1, OwnElements
  <2> QED BY <1>1, <2>2
<1>4. Stack(input) /\ Calls(ctl) /\ Placed(input, ctl)
  BY <1>2, <1>3 DEF Stack, Calls, Placed
<1>5. Located(input, lineno)
  BY <1>1, <1>2, <1>3 DEF Located
<1>6. Marks(input, hide) /\ Hidden(input, ctl, hide)
  BY <1>1, <1>2, <1>3 DEF Marks, Hidden, Open
<1>7. Inputs
  BY <1>1, <1>4, <1>5, <1>6 DEF Inputs
<1>8. Hides
  BY <1>1, <1>3, <1>6 DEF Hides
<1>9. Conds
  <2>1. \A i \in 0 .. 0 - 1 : ifstate[i].enabled = ifstate[i].enabled
    OBVIOUS
  <2>2. OffCount(ifstate, 0) \in 0 .. 0
    BY <2>1, OffFacts
  <2> QED BY <1>1, <2>2, BoundsAssumption DEF Conds
<1>10. Groups
  <2>1. cppctx = 0 /\ groups = <<>> /\ Len(groups) = 0 /\ IsSeq(groups)
    BY <1>1, <1>3
  <2> QED BY <2>1 DEF Groups, GroupsOf, Ons, Nows
<1> QED BY <1>1, <1>7, <1>8, <1>9, <1>10 DEF CInv, Outcomes

\* The invariant of the inputs is inductive.
LEMMA CNext == CInv /\ [Next]_vars => CInv'
<1> SUFFICES ASSUME CInv, [Next]_vars PROVE CInv'
  OBVIOUS
<1>1. CASE Next
  <2>1. Inputs' /\ Hides'
    BY <1>1, StepInputs DEF CInv
  <2>2. Conds' /\ Groups'
    BY <1>1, StepConds DEF CInv
  <2>3. Outcomes'
    BY <1>1, StepOutcomes DEF CInv
  <2> QED BY <2>1, <2>2, <2>3 DEF CInv
<1>2. CASE UNCHANGED vars
  <2>1. UNCHANGED stackvars /\ UNCHANGED conds /\ UNCHANGED groups /\ UNCHANGED outcome
    BY <1>2 DEF vars, stackvars, ghost, asinc
  <2>2. Inputs' /\ Hides'
    BY <2>1, StackAlone DEF CInv
  <2>3. Conds' /\ Groups' /\ Outcomes'
    BY <2>1 DEF CInv, Conds, conds, OffCount, Off, Groups, Outcomes
  <2> QED BY <2>2, <2>3 DEF CInv
<1> QED BY <1>1, <1>2

\* It is as strong as the property.
LEMMA CAgrees == CInv => InputsAgree
<1> SUFFICES ASSUME CInv PROVE InputsAgree
  OBVIOUS
<1>1. DOMAIN input = 1 .. Len(input) /\ DOMAIN ctl = 1 .. Len(ctl) /\ Len(input) \in Nat
  BY DEF CInv, Inputs, Stack, Calls, IsSeq
<1>2. TypeOK
  <2>1. \A i \in DOMAIN input : input[i].t \in {"file", "macro", "param"} /\ input[i].hs \subseteq Names
    BY <1>1 DEF CInv, Inputs, Stack, InputShape
  <2>2. cppctx \in 0 .. NR_COND - 1 /\ cppoff \in 0 .. cppctx
    <3>1. cppctx \in Nat /\ \A i \in 0 .. cppctx - 1 : ifstate[i].enabled = ifstate[i].enabled
      BY BoundsAssumption DEF CInv, Conds
    <3>2. OffCount(ifstate, cppctx) \in 0 .. cppctx
      BY <3>1, OffFacts
    <3> QED BY <3>2 DEF CInv, Conds
  <2>3. hide \subseteq Names /\ looking \in Names \cup {NoName}
    BY DEF CInv, Inputs
  <2>4. Running \/ outcome \in {"done", "fail", "crash"}
    BY DEF CInv, Outcomes, Running
  <2> QED BY <2>1, <2>2, <2>3, <2>4 DEF TypeOK
<1>3. OpenIsHidden
  BY <1>1 DEF CInv, Hides, Hidden, Open, OpenIsHidden
<1>4. HiddenByOpen
  <2>1. \A x \in hide : \E i \in DOMAIN input : x \in input[i].hs
    BY <1>1 DEF CInv, Inputs, Marks
  <2>2. AtLineEnd => \A i \in DOMAIN input : input[i].hs = {}
    <3>1. SUFFICES ASSUME AtLineEnd, NEW i \in 1 .. Len(input) PROVE input[i].hs = {}
      BY <1>1
    <3>2. Stack(input) /\ input[Len(input)].t = "file"
      BY <3>1 DEF CInv, Inputs, AtLineEnd, Last
    <3>3. Len(input) \in 1 .. Len(input) /\ (i = Len(input) \/ i < Len(input))
      <4> DEFINE n == Len(input)
      <4>1. n \in Nat /\ i \in 1 .. n
        BY <1>1, <3>1
      <4> HIDE DEF n
      <4>2. n \in 1 .. n /\ (i = n \/ i < n)
        BY <4>1
      <4> QED BY <4>2 DEF n
    <3>4. input[i].t = "file"
      BY <3>2, <3>3 DEF Stack
    <3> QED BY <3>2, <3>4 DEF Stack, InputShape
  <2> QED BY <2>1, <2>2 DEF HiddenByOpen
<1>5. LocationRight
  BY <1>1 DEF CInv, Inputs, Located, TopFile, LocationRight
<1>6. GroupsAsInC
  <2> DEFINE n == cppctx
  <2>1. n \in Nat /\ n \in 0 .. n /\ cppoff = OffCount(ifstate, n)
    BY BoundsAssumption DEF CInv, Conds
  <2>2. Len(groups) = n /\ DOMAIN groups = 1 .. n /\ GroupsOf(ifstate, groups, n)
    BY DEF CInv, Groups, GroupsOf, IsSeq
  <2>3. ~Odd => Known(groups, n)
    BY <2>2 DEF Odd, Known, GroupsOf
  <2>4. ~Odd => (Ons(ifstate, n) <=> Nows(groups, n))
    BY <2>1, <2>2, <2>3 DEF GroupsOf
  <2>5. cppoff = 0 <=> Ons(ifstate, n)
    BY <2>1, OnsCount
  <2>6. Live <=> Nows(groups, n)
    BY <2>2 DEF Live, Nows
  <2> QED BY <2>1, <2>2, <2>4, <2>5, <2>6 DEF GroupsAsInC, OffCount, Off
<1> QED BY <1>2, <1>3, <1>4, <1>5, <1>6 DEF InputsAgree

\* Whatever the macros, the lines and the depth of nesting: a macro being read is
\* hidden (unless a directive came among the arguments of a call), every mark is
\* that of an input on the stack, none is left when addinput() and delinput() are
\* back at a line of a file, the line number is that of the file being read, and
\* cppoff and ifstate[] say of a group what C says of it.
THEOREM InputsTogether == Spec => []InputsAgree
<1>1. Spec => []CInv
  BY CInit, CNext, PTL DEF Spec
<1> QED BY <1>1, CAgrees, PTL

(***************************************************************************)
(* The expansion that C defines of object-like macros.  In what follows m  *)
(* is a table of macros and f the expansion of every name by it.           *)
(***************************************************************************)

\* What the parser may be given.
Words == Names \cup Token
\* The tokens of the body of an object-like macro.
Toks(b) == [i \in DOMAIN b |-> b[i].tok]

\* What a token becomes inside the macros of S, and a sequence of tokens.
Word(f, S, t) == IF t \in Names THEN f[S][t] ELSE <<t>>
WordsOf(f, S, toks) == [i \in DOMAIN toks |-> Word(f, S, toks[i])]
TextOf(f, S, toks) == FlattenSeq(WordsOf(f, S, toks))

\* What name t becomes inside the macros of S.
Unfolded(f, m, S, t) ==
  IF t \in S \/ ~m[t].def THEN <<t>> ELSE TextOf(f, S \cup {t}, Toks(m[t].body))

\* f expands names by m, where no more than n of them are left to be hidden.
Deep(f, m, n) ==
  \A S \in SUBSET Names : Cardinality(Names \ S) < n => \A t \in Names : f[S][t] = Unfolded(f, m, S, t)
Typed(f, n) ==
  \A S \in SUBSET Names : Cardinality(Names \ S) < n => \A t \in Names : f[S][t] \in Seq(Words)
Expands(f, m) ==
  \A S \in SUBSET Names : \A t \in Names : f[S][t] \in Seq(Words) /\ f[S][t] = Unfolded(f, m, S, t)

\* A text depends only on what its names become.
LEMMA SameText ==
  ASSUME NEW f, NEW g, NEW S, NEW toks, \A b \in Names : f[S][b] = g[S][b]
  PROVE  TextOf(f, S, toks) = TextOf(g, S, toks)
<1>1. \A x : Word(f, S, x) = Word(g, S, x)
  BY DEF Word
<1>2. WordsOf(f, S, toks) = WordsOf(g, S, toks)
  BY <1>1 DEF WordsOf
<1> QED BY <1>2 DEF TextOf

\* The words of a text, one for each token.
LEMMA WordsTyped ==
  ASSUME NEW f, NEW S, NEW toks \in Seq(Token), \A b \in Names : f[S][b] \in Seq(Words)
  PROVE  /\ WordsOf(f, S, toks) \in Seq(Seq(Words)) /\ TextOf(f, S, toks) \in Seq(Words)
         /\ Len(WordsOf(f, S, toks)) = Len(toks)
         /\ \A i \in 1 .. Len(toks) : WordsOf(f, S, toks)[i] = Word(f, S, toks[i])
<1>1. ASSUME NEW t \in Token PROVE Word(f, S, t) \in Seq(Words)
  <2>1. t \in Words
    BY DEF Words
  <2> HIDE DEF Words
  <2>2. <<t>> \in Seq(Words)
    BY <2>1
  <2> QED BY <2>2 DEF Word
<1> DEFINE w == WordsOf(f, S, toks)
           n == Len(toks)
<1>2. n \in Nat /\ DOMAIN toks = 1 .. n /\ \A i \in 1 .. n : toks[i] \in Token
  OBVIOUS
<1>3. w \in [1 .. n -> Seq(Words)] /\ \A i \in 1 .. n : w[i] = Word(f, S, toks[i])
  BY <1>1, <1>2 DEF WordsOf
<1> HIDE DEF w, n
<1> DEFINE T == Seq(Words)
<1> HIDE DEF T
<1>4. w \in [1 .. n -> T]
  BY <1>3 DEF T
<1>5. w \in Seq(T) /\ Len(w) = n
  BY <1>2, <1>4
<1>6. FlattenSeq(w) \in Seq(Words)
  BY <1>5, FlattenSeqs DEF T
<1> QED BY <1>3, <1>5, <1>6 DEF w, n, T, TextOf

\* A text is that of its first token and that of the others.
LEMMA TextHead ==
  ASSUME NEW f, NEW S, NEW toks \in Seq(Token), toks # <<>>, \A b \in Names : f[S][b] \in Seq(Words)
  PROVE  TextOf(f, S, toks) = Word(f, S, Head(toks)) \o TextOf(f, S, Tail(toks))
<1> DEFINE n == Len(toks)
           r == Tail(toks)
           w == WordsOf(f, S, toks)
           v == WordsOf(f, S, r)
<1>1. n \in Nat \ {0} /\ r \in Seq(Token) /\ Len(r) = n - 1 /\ Head(toks) = toks[1]
      /\ \A i \in 1 .. n - 1 : r[i] = toks[i + 1]
  OBVIOUS
<1>2. w \in Seq(Seq(Words)) /\ Len(w) = n /\ \A i \in 1 .. n : w[i] = Word(f, S, toks[i])
  BY WordsTyped
<1> HIDE DEF r
<1>3. v \in Seq(Seq(Words)) /\ Len(v) = n - 1 /\ \A i \in 1 .. n - 1 : v[i] = Word(f, S, r[i])
  BY <1>1, WordsTyped
<1> HIDE DEF n, w, v
<1> DEFINE T == Seq(Words)
           u == Tail(w)
<1> HIDE DEF T
<1>4. w \in Seq(T) /\ v \in Seq(T)
  BY <1>2, <1>3 DEF T
<1>5. u \in Seq(T) /\ Len(u) = n - 1 /\ w # <<>> /\ Head(w) = w[1] /\ \A i \in 1 .. n - 1 : u[i] = w[i + 1]
  BY <1>1, <1>2, <1>4
<1> HIDE DEF u
<1>6. \A i \in 1 .. n - 1 : i + 1 \in 1 .. n /\ u[i] = v[i]
  BY <1>1, <1>2, <1>3, <1>5
<1>7. u = v
  BY <1>1, <1>3, <1>4, <1>5, <1>6
<1>8. FlattenSeq(w) = Head(w) \o FlattenSeq(u)
  BY <1>2, <1>5, FlattenHead DEF u
<1>9. Head(w) = Word(f, S, Head(toks))
  BY <1>1, <1>2, <1>5
<1> QED BY <1>7, <1>8, <1>9 DEF TextOf, w, v, r

\* No token, no text.
LEMMA TextEmpty == ASSUME NEW f, NEW S PROVE TextOf(f, S, <<>>) = <<>>
<1>1. WordsOf(f, S, <<>>) = <<>>
  BY DEF WordsOf
<1> QED BY <1>1, FlattenEmpty DEF TextOf

\* The tokens of a replacement list.
LEMMA ToksTyped ==
  ASSUME NEW b \in Seq(Item)
  PROVE  /\ Toks(b) \in Seq(Token) /\ Len(Toks(b)) = Len(b)
         /\ DOMAIN Toks(b) = DOMAIN b /\ \A i \in DOMAIN b : Toks(b)[i] = b[i].tok
<1>1. Len(b) \in Nat /\ DOMAIN b = 1 .. Len(b) /\ \A i \in 1 .. Len(b) : b[i] \in Item
  OBVIOUS
<1>2. \A i \in 1 .. Len(b) : b[i].tok \in Token
  BY <1>1 DEF Item
<1>3. Toks(b) \in [1 .. Len(b) -> Token] /\ \A i \in DOMAIN b : Toks(b)[i] = b[i].tok
  BY <1>1, <1>2 DEF Toks
<1> DEFINE x == Toks(b)
           n == Len(b)
<1> HIDE DEF x
<1>4. x \in Seq(Token) /\ Len(x) = n
  <2>1. x \in [1 .. n -> Token] /\ n \in Nat
    BY <1>1, <1>3 DEF x
  <2> HIDE DEF n
  <2> QED BY <2>1
<1> QED BY <1>1, <1>3, <1>4 DEF x

\* One name more is hidden.
LEMMA OneMore ==
  ASSUME NEW S \in SUBSET Names, NEW t \in Names, t \notin S, NEW n \in Nat, Cardinality(Names \ S) < n + 1
  PROVE  S \cup {t} \in SUBSET Names /\ Cardinality(Names \ (S \cup {t})) < n
<1> DEFINE R == Names \ S
<1>1. IsFiniteSet(R)
  BY NamesAssumption, FS_Subset
<1>2. t \in R /\ Names \ (S \cup {t}) = R \ {t}
  OBVIOUS
<1> HIDE DEF R
<1>3. Cardinality(R \ {t}) = Cardinality(R) - 1 /\ Cardinality(R) \in Nat
  BY <1>1, <1>2, FS_RemoveElement, FS_CardinalityType
<1>4. Cardinality(R) < n + 1
  BY DEF R
<1>5. Cardinality(R \ {t}) < n
  BY <1>3, <1>4
<1> QED BY <1>2, <1>5

\* The recursion is well defined: every name in it is hidden once.
LEMMA DeepExists ==
  ASSUME NEW m, NEW n \in Nat
  PROVE  \E f : Deep(f, m, n)
<1> DEFINE I == {k \in Nat : \E f : Deep(f, m, k)}
<1>1. 0 \in I
  <2>1. ASSUME NEW S \in SUBSET Names PROVE ~(Cardinality(Names \ S) < 0)
    <3>1. IsFiniteSet(Names \ S)
      BY NamesAssumption, FS_Subset
    <3>2. Cardinality(Names \ S) \in Nat
      BY <3>1, FS_CardinalityType
    <3> QED BY <3>2
  <2>2. Deep(<<>>, m, 0)
    BY <2>1 DEF Deep
  <2> QED BY <2>2
<1>2. ASSUME NEW k \in Nat, k \in I PROVE k + 1 \in I
  <2>1. PICK f : Deep(f, m, k)
    BY <1>2
  <2> DEFINE g == [S \in SUBSET Names |-> [t \in Names |-> Unfolded(f, m, S, t)]]
  <2>2. \A S \in SUBSET Names : \A t \in Names : g[S][t] = Unfolded(f, m, S, t)
    OBVIOUS
  <2> HIDE DEF g
  <2>3. ASSUME NEW S \in SUBSET Names, Cardinality(Names \ S) < k + 1, NEW t \in Names
        PROVE  g[S][t] = Unfolded(g, m, S, t)
    <3>1. CASE t \in S \/ ~m[t].def
      BY <2>2, <3>1 DEF Unfolded
    <3>2. CASE ~(t \in S \/ ~m[t].def)
      <4> DEFINE R == S \cup {t}
      <4>1. R \in SUBSET Names /\ Cardinality(Names \ R) < k
        BY <2>3, <3>2, OneMore
      <4> HIDE DEF R
      <4>2. \A b \in Names : f[R][b] = g[R][b]
        BY <2>1, <2>2, <4>1 DEF Deep
      <4>3. TextOf(f, R, Toks(m[t].body)) = TextOf(g, R, Toks(m[t].body))
        BY <4>2, SameText
      <4> QED BY <2>2, <3>2, <4>3 DEF Unfolded, R
    <3> QED BY <3>1, <3>2
  <2>4. Deep(g, m, k + 1)
    BY <2>3 DEF Deep
  <2> QED BY <2>4
<1> HIDE DEF I
<1>3. n \in I
  BY <1>1, <1>2, AllNumbers
<1> QED BY <1>3 DEF I

\* Expansions are sequences of words, by induction on what is left to be hidden.
LEMMA DeepTyped ==
  ASSUME NEW m \in [Names -> Macro], NEW f, NEW n \in Nat, Deep(f, m, n)
  PROVE  Typed(f, n)
<1> DEFINE I == {k \in Nat : k <= n => Typed(f, k)}
<1>1. 0 \in I
  <2>1. ASSUME NEW S \in SUBSET Names PROVE ~(Cardinality(Names \ S) < 0)
    <3>1. IsFiniteSet(Names \ S)
      BY NamesAssumption, FS_Subset
    <3>2. Cardinality(Names \ S) \in Nat
      BY <3>1, FS_CardinalityType
    <3> QED BY <3>2
  <2> QED BY <2>1 DEF Typed
<1>2. ASSUME NEW k \in Nat, k \in I PROVE k + 1 \in I
  <2>0. SUFFICES ASSUME k + 1 <= n PROVE Typed(f, k + 1)
    OBVIOUS
  <2>1. SUFFICES ASSUME NEW S \in SUBSET Names, Cardinality(Names \ S) < k + 1, NEW t \in Names
                 PROVE  f[S][t] \in Seq(Words)
    BY DEF Typed
  <2>2. Typed(f, k)
    BY <1>2, <2>0
  <2>3. f[S][t] = Unfolded(f, m, S, t)
    <3>1. IsFiniteSet(Names \ S)
      BY NamesAssumption, FS_Subset
    <3>2. Cardinality(Names \ S) \in Nat
      BY <3>1, FS_CardinalityType
    <3>3. Cardinality(Names \ S) < n
      BY <2>0, <2>1, <3>2
    <3> QED BY <3>3 DEF Deep
  <2>4. CASE t \in S \/ ~m[t].def
    <3>1. t \in Words
      BY DEF Words
    <3> HIDE DEF Words
    <3>2. <<t>> \in Seq(Words)
      BY <3>1
    <3> QED BY <2>3, <2>4, <3>2 DEF Unfolded
  <2>5. CASE ~(t \in S \/ ~m[t].def)
    <3> DEFINE R == S \cup {t}
    <3>1. R \in SUBSET Names /\ Cardinality(Names \ R) < k
      BY <2>1, <2>5, OneMore
    <3> HIDE DEF R
    <3>2. \A b \in Names : f[R][b] \in Seq(Words)
      BY <2>2, <3>1 DEF Typed
    <3>3. m[t].body \in Seq(Item)
      BY DEF Macro
    <3>4. Toks(m[t].body) \in Seq(Token)
      BY <3>3, ToksTyped
    <3>5. TextOf(f, R, Toks(m[t].body)) \in Seq(Words)
      BY <3>2, <3>4, WordsTyped
    <3> QED BY <2>3, <2>5, <3>5 DEF Unfolded, R
  <2> QED BY <2>4, <2>5
<1> HIDE DEF I
<1>3. n \in I
  BY <1>1, <1>2, AllNumbers
<1> QED BY <1>3 DEF I

\* Full as an operator of the table of macros.
FullIn(m) ==
  LET Full_m[S \in SUBSET Names] ==
        [t \in Names |->
           IF t \in S \/ ~m[t].def THEN <<t>>
           ELSE FlattenSeq([i \in DOMAIN m[t].body |->
                  LET b == m[t].body[i].tok IN
                  IF b \in Names THEN Full_m[S \cup {t}][b] ELSE <<b>>])]
  IN Full_m

\* The reference is that of the table of macros.
LEMMA FullIsIn == Full = FullIn(macro) /\ Full' = FullIn(macro')
BY DEF Full, FullIn

\* The reference is well defined: each name is hidden once on the way down.
LEMMA FullExpands ==
  ASSUME NEW m \in [Names -> Macro]
  PROVE  Expands(FullIn(m), m)
<1> DEFINE F[S \in SUBSET Names] ==
        [t \in Names |->
           IF t \in S \/ ~m[t].def THEN <<t>>
           ELSE FlattenSeq([i \in DOMAIN m[t].body |->
                  LET b == m[t].body[i].tok IN
                  IF b \in Names THEN F[S \cup {t}][b] ELSE <<b>>])]
           G(f) == [S \in SUBSET Names |->
        [t \in Names |->
           IF t \in S \/ ~m[t].def THEN <<t>>
           ELSE FlattenSeq([i \in DOMAIN m[t].body |->
                  LET b == m[t].body[i].tok IN
                  IF b \in Names THEN f[S \cup {t}][b] ELSE <<b>>])]]
           n == Cardinality(Names) + 1
<1>1. n \in Nat /\ \A S \in SUBSET Names : Cardinality(Names \ S) < n
  <2>1. Cardinality(Names) \in Nat
    BY NamesAssumption, FS_CardinalityType
  <2>2. ASSUME NEW S \in SUBSET Names PROVE Cardinality(Names \ S) < n
    <3>1. IsFiniteSet(Names \ S) /\ Cardinality(Names \ S) <= Cardinality(Names)
      BY NamesAssumption, FS_Subset
    <3>2. Cardinality(Names \ S) \in Nat
      BY <3>1, FS_CardinalityType
    <3> QED BY <2>1, <3>1, <3>2
  <2> QED BY <2>1, <2>2
<1>2. ASSUME NEW f PROVE \A S \in SUBSET Names : \A t \in Names : G(f)[S][t] = Unfolded(f, m, S, t)
  <2>1. SUFFICES ASSUME NEW S \in SUBSET Names, NEW t \in Names PROVE G(f)[S][t] = Unfolded(f, m, S, t)
    OBVIOUS
  <2> DEFINE R == S \cup {t}
             B == m[t].body
             w == [i \in DOMAIN B |-> LET b == B[i].tok IN IF b \in Names THEN f[R][b] ELSE <<b>>]
  <2>2. G(f)[S][t] = IF t \in S \/ ~m[t].def THEN <<t>> ELSE FlattenSeq(w)
    OBVIOUS
  <2>3. B \in Seq(Item)
    BY DEF Macro
  <2> HIDE DEF R, G
  <2>4. w = WordsOf(f, R, Toks(B))
    <3> HIDE DEF B
    <3>1. DOMAIN Toks(B) = DOMAIN B /\ \A i \in DOMAIN B : Toks(B)[i] = B[i].tok
      BY <2>3, ToksTyped
    <3>2. \A i \in DOMAIN B : w[i] = Word(f, R, Toks(B)[i])
      BY <3>1 DEF Word
    <3>3. w = [i \in DOMAIN B |-> w[i]]
      OBVIOUS
    <3> HIDE DEF w
    <3> QED BY <3>1, <3>2, <3>3 DEF WordsOf
  <2> HIDE DEF w
  <2>5. Unfolded(f, m, S, t) = IF t \in S \/ ~m[t].def THEN <<t>> ELSE FlattenSeq(w)
    BY <2>4 DEF Unfolded, TextOf, R, B
  <2> QED BY <2>2, <2>5
<1>3. F = G(F)
  <2>1. PICK f : Deep(f, m, n)
    BY <1>1, DeepExists
  <2> DEFINE g == [S \in SUBSET Names |-> [t \in Names |-> f[S][t]]]
  <2>2. g = G(g)
    <3>1. ASSUME NEW S \in SUBSET Names, NEW t \in Names PROVE g[S][t] = G(g)[S][t]
      <4>1. f[S][t] = Unfolded(f, m, S, t) /\ g[S][t] = f[S][t]
        BY <1>1, <2>1 DEF Deep
      <4>2. t \notin S => S \cup {t} \in SUBSET Names
        OBVIOUS
      <4>3. t \notin S => \A b \in Names : f[S \cup {t}][b] = g[S \cup {t}][b]
        BY <4>2
      <4> HIDE DEF g, G
      <4>4. t \notin S => TextOf(f, S \cup {t}, Toks(m[t].body)) = TextOf(g, S \cup {t}, Toks(m[t].body))
        BY <4>3, SameText
      <4>5. Unfolded(f, m, S, t) = Unfolded(g, m, S, t)
        BY <4>4 DEF Unfolded
      <4> QED BY <1>2, <4>1, <4>5
    <3>2. /\ g = [S \in SUBSET Names |-> [t \in Names |-> g[S][t]]]
          /\ G(g) = [S \in SUBSET Names |-> [t \in Names |-> G(g)[S][t]]]
      OBVIOUS
    <3> HIDE DEF g, G
    <3> QED BY <3>1, <3>2
  <2> HIDE DEF g
  <2>3. \E x : x = G(x)
    BY <2>2
  <2>4. F = CHOOSE x : x = G(x)
    OBVIOUS
  <2> HIDE DEF F, G
  <2> QED BY <2>3, <2>4
<1>4. FullIn(m) = F
  BY DEF FullIn
<1> HIDE DEF F, G, n
<1>5. \A S \in SUBSET Names : \A t \in Names : F[S][t] = Unfolded(F, m, S, t)
  BY <1>2, <1>3
<1>6. Deep(F, m, n)
  BY <1>5 DEF Deep
<1>7. Typed(F, n)
  BY <1>1, <1>6, DeepTyped
<1>8. \A S \in SUBSET Names : \A t \in Names : F[S][t] \in Seq(Words)
  BY <1>1, <1>7 DEF Typed
<1> QED BY <1>4, <1>5, <1>8 DEF Expands

(***************************************************************************)
(* What has been read and not been given yet.                              *)
(***************************************************************************)

\* The macros among the inputs up to i, and what input i has left: that of the one
\* at which copymacro() is at work is still in the call.
Below(s, i) == {s[j].sym : j \in {j \in 1 .. i : s[j].t = "macro"}}
Content(s, c, i) == IF c # <<>> /\ i = Len(s) THEN c[1].cur \o Toks(c[1].items) ELSE s[i].toks

\* p[i] is what the parser should get from the inputs up to i, expanded by f; r is
\* all that it should get when it has o.
Pending(p, f, s, c) ==
  /\ p \in [0 .. Len(s) -> Seq(Words)] /\ p[0] = <<>>
  /\ \A i \in 1 .. Len(s) : p[i] = TextOf(f, Below(s, i), Content(s, c, i)) \o p[i - 1]
Rest(r, o, f, s, c) == \E p : Pending(p, f, s, c) /\ r = o \o p[Len(s)]

\* s and t have the same macros up to i.
Like(s, t, n) == \A i \in 1 .. n : t[i].t = s[i].t /\ t[i].sym = s[i].sym

\* The macros below an input depend only on the names of the inputs.
LEMMA BelowSame ==
  ASSUME NEW s, NEW t, NEW n \in Nat, Like(s, t, n), NEW i \in 0 .. n
  PROVE  Below(t, i) = Below(s, i)
<1>1. \A j \in 1 .. i : t[j].t = s[j].t /\ t[j].sym = s[j].sym
  BY DEF Like
<1> QED BY <1>1 DEF Below

\* The macros below an input, one input at a time.
LEMMA BelowFacts ==
  ASSUME NEW s, Stack(s)
  PROVE  /\ Below(s, 0) = {} /\ Len(s) \in Nat
         /\ \A i \in 0 .. Len(s) : Below(s, i) \in SUBSET Names
         /\ \A i \in 1 .. Len(s) : Below(s, i) = Below(s, i - 1) \cup (IF s[i].t = "macro" THEN {s[i].sym} ELSE {})
<1>1. Len(s) \in Nat
  BY DEF Stack, IsSeq
<1>2. Below(s, 0) = {}
  BY DEF Below
<1>3. ASSUME NEW i \in 0 .. Len(s) PROVE Below(s, i) \in SUBSET Names
  <2>1. \A j \in 1 .. i : j \in 1 .. Len(s)
    BY <1>1
  <2>2. \A j \in 1 .. i : s[j].t = "macro" => s[j].sym \in Names
    BY <2>1 DEF Stack, InputShape
  <2> QED BY <2>2 DEF Below
<1>4. ASSUME NEW i \in 1 .. Len(s)
      PROVE  Below(s, i) = Below(s, i - 1) \cup (IF s[i].t = "macro" THEN {s[i].sym} ELSE {})
  <2>1. \A j : j \in 1 .. i <=> j \in 1 .. i - 1 \/ j = i
    BY <1>1
  <2> QED BY <2>1 DEF Below
<1> QED BY <1>1, <1>2, <1>3, <1>4

\* The macros and what is left are the same.
LEMMA RestSame ==
  ASSUME NEW f, NEW s, NEW t, NEW c, NEW d, NEW r, NEW o, Rest(r, o, f, s, c),
         Len(s) \in Nat, Len(t) = Len(s), Like(s, t, Len(s)),
         \A i \in 1 .. Len(s) : Content(t, d, i) = Content(s, c, i)
  PROVE  Rest(r, o, f, t, d)
<1>1. PICK p : Pending(p, f, s, c) /\ r = o \o p[Len(s)]
  BY DEF Rest
<1>2. \A i \in 1 .. Len(s) : i \in 0 .. Len(s)
  OBVIOUS
<1>3. \A i \in 1 .. Len(s) : Below(t, i) = Below(s, i)
  BY <1>2, BelowSame
<1>4. Pending(p, f, t, d)
  BY <1>1, <1>3 DEF Pending
<1> QED BY <1>1, <1>4 DEF Rest

\* Nothing is left.
LEMMA RestNothing ==
  ASSUME NEW f, NEW s, NEW c, NEW r, NEW o \in Seq(Words), Len(s) \in Nat,
         \A i \in 1 .. Len(s) : Content(s, c, i) = <<>>
  PROVE  Rest(r, o, f, s, c) <=> r = o
<1> DEFINE n == Len(s)
           e == [i \in 0 .. n |-> <<>>]
<1>1. o \o <<>> = o
  OBVIOUS
<1>2. \A i \in 1 .. n : TextOf(f, Below(s, i), Content(s, c, i)) = <<>>
  BY TextEmpty
<1>3. <<>> \o <<>> = <<>>
  OBVIOUS
<1>4. ASSUME r = o PROVE Rest(r, o, f, s, c)
  <2>0. n \in Nat /\ <<>> \in Seq(Words)
    OBVIOUS
  <2>1. e \in [0 .. n -> Seq(Words)] /\ e[0] = <<>> /\ e[n] = <<>> /\ \A i \in 1 .. n : e[i] = <<>> /\ e[i - 1] = <<>>
    BY <2>0
  <2> HIDE DEF e
  <2>2. Pending(e, f, s, c)
    BY <1>2, <1>3, <2>1 DEF Pending
  <2>3. r = o \o e[Len(s)]
    BY <1>1, <1>4, <2>1
  <2> QED BY <2>2, <2>3 DEF Rest
<1>5. ASSUME Rest(r, o, f, s, c) PROVE r = o
  <2>1. PICK p : Pending(p, f, s, c) /\ r = o \o p[Len(s)]
    BY <1>5 DEF Rest
  <2>2. p[0] = <<>> /\ \A i \in 1 .. n : p[i] = TextOf(f, Below(s, i), Content(s, c, i)) \o p[i - 1]
    BY <2>1 DEF Pending
  <2>3. GoAlike(p, e, n)
    <3>1. e[0] = <<>> /\ \A i \in 1 .. n : e[i] = <<>> /\ e[i - 1] = <<>>
      OBVIOUS
    <3> HIDE DEF e
    <3> QED BY <1>2, <1>3, <2>2, <3>1 DEF GoAlike
  <2>4. n \in Nat /\ n \in 0 .. n /\ e[n] = <<>>
    OBVIOUS
  <2> HIDE DEF e
  <2>5. p[n] = <<>>
    BY <2>3, <2>4, SameRun
  <2> QED BY <1>1, <2>1, <2>5
<1> QED BY <1>4, <1>5

\* Only what is left of the current input changes.
Carries(f, B, r, o, x, r2, o2, y) ==
  \A q \in Seq(Words) : r = o \o (TextOf(f, B, x) \o q) => r2 = o2 \o (TextOf(f, B, y) \o q)

\* When only the current input changes, what is pending below it does not.
LEMMA RestTop ==
  ASSUME NEW m, NEW f, Expands(f, m), NEW s, Stack(s), s # <<>>, NEW t, NEW c, NEW d, NEW r, NEW o, NEW r2, NEW o2,
         Rest(r, o, f, s, c), Len(t) = Len(s), Like(s, t, Len(s)),
         \A i \in 1 .. Len(s) : i # Len(s) => Content(t, d, i) = Content(s, c, i),
         Content(t, d, Len(s)) \in Seq(Token),
         Carries(f, Below(s, Len(s)), r, o, Content(s, c, Len(s)), r2, o2, Content(t, d, Len(s)))
  PROVE  Rest(r2, o2, f, t, d)
<1> DEFINE n == Len(s)
           B == Below(s, n)
           y == Content(t, d, n)
<1>1. n \in Nat /\ n # 0 /\ n \in 0 .. n /\ n \in 1 .. n /\ n - 1 \in 0 .. n
  BY DEF Stack, IsSeq
<1>2. PICK p : Pending(p, f, s, c) /\ r = o \o p[n]
  BY DEF Rest
<1>3. /\ \A i \in 0 .. n : p[i] \in Seq(Words)
      /\ p[0] = <<>>
      /\ \A i \in 1 .. n : p[i] = TextOf(f, Below(s, i), Content(s, c, i)) \o p[i - 1]
  BY <1>2 DEF Pending
<1>4. TextOf(f, B, y) \in Seq(Words)
  <2>1. B \in SUBSET Names
    BY <1>1, BelowFacts
  <2> HIDE DEF B, y
  <2>2. \A b \in Names : f[B][b] \in Seq(Words)
    BY <2>1 DEF Expands
  <2>3. y \in Seq(Token)
    BY DEF y
  <2> QED BY <2>2, <2>3, WordsTyped
<1>5. \A i \in 1 .. n : Below(t, i) = Below(s, i)
  <2>1. \A i \in 1 .. n : i \in 0 .. n
    OBVIOUS
  <2> QED BY <1>1, <2>1, BelowSame
<1> DEFINE z == TextOf(f, B, y) \o p[n - 1]
           q == [i \in 0 .. n |-> IF i = n THEN z ELSE p[i]]
<1>6. z \in Seq(Words)
  <2> DEFINE a == TextOf(f, B, y)
             b == p[n - 1]
  <2>1. a \in Seq(Words) /\ b \in Seq(Words)
    BY <1>1, <1>3, <1>4
  <2> HIDE DEF a, b
  <2>2. a \o b \in Seq(Words)
    BY <2>1
  <2> QED BY <2>2 DEF a, b
<1>7. r2 = o2 \o z
  <2>1. r = o \o (TextOf(f, B, Content(s, c, n)) \o p[n - 1]) /\ p[n - 1] \in Seq(Words)
    BY <1>1, <1>2, <1>3
  <2> QED BY <2>1 DEF Carries
<1> HIDE DEF z, y, B, n
<1>8. /\ q \in [0 .. n -> Seq(Words)] /\ q[0] = <<>> /\ q[n] = z /\ q[n - 1] = p[n - 1]
      /\ \A i \in 1 .. n : i # n => q[i] = p[i] /\ q[i - 1] = p[i - 1]
  BY <1>1, <1>3, <1>6
<1> HIDE DEF q
<1>9. ASSUME NEW i \in 1 .. n PROVE q[i] = TextOf(f, Below(t, i), Content(t, d, i)) \o q[i - 1]
  <2>1. CASE i = n
    <3>1. Below(t, i) = B
      BY <1>5, <2>1 DEF B
    <3> QED BY <1>8, <2>1, <3>1 DEF y, z
  <2>2. CASE i # n
    <3>1. Content(t, d, i) = Content(s, c, i)
      BY <2>2 DEF n
    <3> QED BY <1>3, <1>5, <1>8, <2>2, <3>1
  <2> QED BY <2>1, <2>2
<1>10. Pending(q, f, t, d)
  BY <1>8, <1>9 DEF Pending, n
<1> QED BY <1>7, <1>8, <1>10 DEF Rest, n

\* An input with nothing left is popped.
LEMMA RestPop ==
  ASSUME NEW m, NEW f, Expands(f, m), NEW s, Stack(s), s # <<>>, NEW t, NEW r, NEW o,
         Rest(r, o, f, s, <<>>), s[Len(s)].toks = <<>>,
         Len(t) = Len(s) - 1, \A i \in 1 .. Len(s) - 1 : t[i] = s[i]
  PROVE  Rest(r, o, f, t, <<>>)
<1> DEFINE n == Len(s)
<1>1. n \in Nat /\ n # 0 /\ n \in 1 .. n /\ n - 1 \in 0 .. n /\ n - 1 \in Nat
  BY DEF Stack, IsSeq
<1>2. PICK p : Pending(p, f, s, <<>>) /\ r = o \o p[n]
  BY DEF Rest
<1>3. /\ \A i \in 0 .. n : p[i] \in Seq(Words)
      /\ p[0] = <<>>
      /\ \A i \in 1 .. n : p[i] = TextOf(f, Below(s, i), Content(s, <<>>, i)) \o p[i - 1]
  BY <1>2 DEF Pending
<1>4. p[n] = p[n - 1]
  <2>1. Content(s, <<>>, n) = <<>>
    BY DEF Content
  <2>2. TextOf(f, Below(s, n), Content(s, <<>>, n)) = <<>>
    BY <2>1, TextEmpty
  <2>3. p[n] = <<>> \o p[n - 1] /\ p[n - 1] \in Seq(Words)
    BY <1>1, <1>3, <2>2
  <2> QED BY <2>3
<1> HIDE DEF n
<1> DEFINE q == [i \in 0 .. n - 1 |-> p[i]]
<1>5. /\ q \in [0 .. n - 1 -> Seq(Words)] /\ q[0] = <<>> /\ q[n - 1] = p[n - 1]
      /\ \A i \in 1 .. n - 1 : q[i] = p[i] /\ q[i - 1] = p[i - 1] /\ i \in 1 .. n /\ i \in 0 .. n - 1
  BY <1>1, <1>3
<1> HIDE DEF q
<1>6. \A i \in 1 .. n - 1 : Content(t, <<>>, i) = Content(s, <<>>, i)
  BY DEF Content, n
<1>7. \A i \in 1 .. n - 1 : Below(t, i) = Below(s, i)
  <2>1. Like(s, t, n - 1)
    BY DEF Like, n
  <2> QED BY <1>1, <1>5, <2>1, BelowSame
<1>8. Pending(q, f, t, <<>>)
  BY <1>3, <1>5, <1>6, <1>7 DEF Pending, n
<1>9. r = o \o q[Len(t)]
  BY <1>2, <1>4, <1>5 DEF n
<1> QED BY <1>8, <1>9 DEF Rest

\* A macro is read: its replacement is pushed and takes the place of its name.
LEMMA RestPush ==
  ASSUME NEW m \in [Names -> Macro], NEW f, Expands(f, m), NEW s, Stack(s), s # <<>>, NEW t, NEW d, NEW r, NEW o,
         Rest(r, o, f, s, <<>>), Len(t) = Len(s) + 1, Like(s, t, Len(s)),
         \A i \in 1 .. Len(s) : i # Len(s) => Content(t, d, i) = s[i].toks,
         s[Len(s)].toks \in Seq(Token), s[Len(s)].toks # <<>>,
         Content(t, d, Len(s)) = Tail(s[Len(s)].toks),
         NEW x \in Names, x = Head(s[Len(s)].toks), m[x].def, x \notin Below(s, Len(s)),
         t[Len(s) + 1].t = "macro", t[Len(s) + 1].sym = x,
         Content(t, d, Len(s) + 1) = Toks(m[x].body)
  PROVE  Rest(r, o, f, t, d)
<1> DEFINE n == Len(s)
           B == Below(s, n)
           y == s[n].toks
           b == Toks(m[x].body)
           R == B \cup {x}
<1>1. n \in Nat /\ n # 0 /\ n \in 0 .. n /\ n \in 1 .. n /\ n - 1 \in 0 .. n
  BY DEF Stack, IsSeq
<1>2. PICK p : Pending(p, f, s, <<>>) /\ r = o \o p[n]
  BY DEF Rest
<1>3. /\ \A i \in 0 .. n : p[i] \in Seq(Words)
      /\ p[0] = <<>>
      /\ \A i \in 1 .. n : p[i] = TextOf(f, Below(s, i), s[i].toks) \o p[i - 1]
  <2>1. \A i \in 1 .. n : Content(s, <<>>, i) = s[i].toks
    BY DEF Content
  <2> QED BY <1>2, <2>1 DEF Pending
<1>4. B \in SUBSET Names /\ R \in SUBSET Names
  BY <1>1, BelowFacts
<1>5. /\ \A i \in 1 .. n : Below(t, i) = Below(s, i)
      /\ Below(t, n + 1) = R
  <2>1. \A i \in 1 .. n : i \in 0 .. n
    OBVIOUS
  <2>2. \A i \in 1 .. n : Below(t, i) = Below(s, i)
    BY <1>1, <2>1, BelowSame
  <2>3. Below(t, n + 1) = Below(t, n) \cup {x}
    <3>1. \A j : j \in 1 .. n + 1 <=> j \in 1 .. n \/ j = n + 1
      BY <1>1
    <3> HIDE DEF n
    <3> QED BY <3>1 DEF Below, n
  <2> QED BY <1>1, <2>2, <2>3
<1>6. \A S \in SUBSET Names : \A w \in Names : f[S][w] \in Seq(Words) /\ f[S][w] = Unfolded(f, m, S, w)
  BY DEF Expands
<1>7. b \in Seq(Token) /\ y \in Seq(Token) /\ Tail(y) \in Seq(Token)
  <2>1. m[x].body \in Seq(Item)
    BY DEF Macro
  <2>2. b \in Seq(Token)
    BY <2>1, ToksTyped
  <2> HIDE DEF b
  <2> QED BY <2>2
<1> DEFINE u == TextOf(f, R, b)
           v == TextOf(f, B, Tail(y))
           w == p[n - 1]
<1>8. p[n] = (u \o v) \o w
  <2>1. p[n] = TextOf(f, B, y) \o w
    BY <1>1, <1>3
  <2>2. TextOf(f, B, y) = Word(f, B, x) \o v
    <3>1. \A a \in Names : f[B][a] \in Seq(Words)
      BY <1>4, <1>6
    <3> HIDE DEF B
    <3> QED BY <1>7, <3>1, TextHead
  <2>3. Word(f, B, x) = u
    <3>1. Word(f, B, x) = f[B][x]
      BY DEF Word
    <3>2. f[B][x] = Unfolded(f, m, B, x)
      BY <1>4, <1>6
    <3> QED BY <3>1, <3>2 DEF Unfolded
  <2> QED BY <2>1, <2>2, <2>3
<1>9. u \in Seq(Words) /\ v \in Seq(Words) /\ w \in Seq(Words)
  <2>1. \A a \in Names : f[B][a] \in Seq(Words) /\ f[R][a] \in Seq(Words)
    BY <1>4, <1>6
  <2> HIDE DEF B, R, b, y
  <2>2. u \in Seq(Words) /\ v \in Seq(Words)
    BY <1>7, <2>1, WordsTyped
  <2> QED BY <1>1, <1>3, <2>2
<1> HIDE DEF u, v, w
<1>10. (u \o v) \o w = u \o (v \o w) /\ v \o w \in Seq(Words) /\ u \o (v \o w) \in Seq(Words)
  <2> DEFINE a == v \o w
  <2>0. Join(Join(u, v), w) = Join(u, Join(v, w))
    BY <1>9, JoinAssoc
  <2>1. (u \o v) \o w = u \o a
    BY <2>0 DEF Join
  <2>2. a \in Seq(Words)
    BY <1>9
  <2> HIDE DEF a
  <2>3. u \o a \in Seq(Words)
    BY <1>9, <2>2
  <2> QED BY <2>1, <2>2, <2>3 DEF a
<1> DEFINE z1 == v \o w
           z2 == u \o z1
           q == [i \in 0 .. n + 1 |-> IF i = n + 1 THEN z2 ELSE IF i = n THEN z1 ELSE p[i]]
<1> HIDE DEF n, z1, z2
<1>11. /\ q \in [0 .. n + 1 -> Seq(Words)] /\ q[0] = <<>> /\ q[n + 1] = z2 /\ q[n] = z1 /\ q[n - 1] = p[n - 1]
       /\ \A i \in 1 .. n : i # n => q[i] = p[i] /\ q[i - 1] = p[i - 1]
  BY <1>1, <1>3, <1>10 DEF z1, z2
<1> HIDE DEF q
<1>12. ASSUME NEW i \in 1 .. n + 1 PROVE q[i] = TextOf(f, Below(t, i), Content(t, d, i)) \o q[i - 1]
  <2>0. i = n + 1 \/ i = n \/ (i \in 1 .. n /\ i # n)
    BY <1>1
  <2>1. CASE i = n + 1
    <3>1. Content(t, d, i) = b /\ Below(t, i) = R /\ i - 1 = n
      BY <1>1, <1>5, <2>1 DEF n
    <3> QED BY <1>11, <2>1, <3>1 DEF z1, z2, u
  <2>2. CASE i = n
    <3>1. Content(t, d, i) = Tail(y) /\ Below(t, i) = B
      BY <1>1, <1>5, <2>2 DEF n
    <3> QED BY <1>11, <2>2, <3>1 DEF z1, v, w
  <2>3. CASE i \in 1 .. n /\ i # n
    <3>1. Content(t, d, i) = s[i].toks
      BY <2>3 DEF n
    <3> QED BY <1>3, <1>5, <1>11, <2>3, <3>1
  <2> QED BY <2>0, <2>1, <2>2, <2>3
<1>13. Pending(q, f, t, d)
  BY <1>11, <1>12 DEF Pending, n
<1>14. r = o \o q[Len(t)]
  BY <1>2, <1>8, <1>10, <1>11 DEF z1, z2, n
<1> QED BY <1>13, <1>14 DEF Rest

ObjectLike(m) == \A n \in Names : m[n].def => m[n].npars = OBJLIKE

\* The call c[1] is copymacro(), which has come to the current input.
AtCopy(s, c) ==
  /\ Len(c) = 1 /\ c[1].k = "copy" /\ c[1].base = Len(s) /\ c[1].sym = s[Len(s)].sym
  /\ s # <<>> /\ s[Len(s)].t = "macro" /\ s[Len(s)].toks = <<>> /\ s[Len(s)].hs = {}
  /\ c[1].cur \in Seq(Token) /\ c[1].items \in Seq(Item) /\ \A i \in 1 .. Len(c[1].items) : c[1].items[i].k = "tok"

\* With object-like macros no parameter is read, a file is left at the end of a line
\* only and every macro but the last is in its own hide set.
Plain(s, c) ==
  /\ c = <<>> \/ AtCopy(s, c)
  /\ \A i \in 1 .. Len(s) : s[i].t # "param" /\ s[i].toks \in Seq(Token)
  /\ \A i, j \in 1 .. Len(s) : i < j /\ s[j].t = "file" => s[i].toks = <<>>
  /\ \A i \in 1 .. Len(s) : s[i].t = "macro" /\ ~(c # <<>> /\ i = Len(s)) => s[i].sym \in s[i].hs
Read(s, c) == IF c = <<>> THEN Len(s) ELSE Len(s) - 1

Quiet ==
  /\ looking = NoName /\ ~disexpand /\ ~broken /\ ~Odd
  /\ macro \in [Names -> Macro] /\ ObjectLike(macro)

Texts ==
  /\ Quiet /\ out \in Seq(Words)
  /\ Plain(input, ctl) /\ hide = Below(input, Read(input, ctl))
  /\ Rest(ref, out, Full, input, ctl)
  /\ outcome = "done" => out = ref

\* Two inputs that hold the same.
SameHeld(a, b) == a.t = b.t /\ a.sym = b.sym /\ a.hs = b.hs /\ a.toks = b.toks

\* Steps that leave the macros and the groups alone.
LEMMA QuietSame ==
  ASSUME Quiet, UNCHANGED <<looking, disexpand, broken, groups, macro>>
  PROVE  Quiet' /\ Full' = Full
<1>1. Full' = Full
  <2>1. macro' = macro
    OBVIOUS
  <2> QED BY <2>1, FullIsIn
<1>2. Odd' <=> Odd
  BY DEF Odd
<1> QED BY <1>1, <1>2 DEF Quiet, ObjectLike

\* The reference, for the macros defined now.
LEMMA FullOK == ASSUME Quiet PROVE Expands(Full, macro) /\ macro \in [Names -> Macro]
<1>1. macro \in [Names -> Macro]
  BY DEF Quiet
<1>2. Expands(FullIn(macro), macro)
  BY <1>1, FullExpands
<1> QED BY <1>1, <1>2, FullIsIn

\* Steps that leave the text alone.
LEMMA TextsAlone ==
  ASSUME Texts, UNCHANGED <<input, ctl, looking, disexpand, hide, broken, groups, macro, out, ref>>,
         outcome' = "done" => out = ref
  PROVE  Texts'
<1>1. Quiet' /\ Full' = Full
  BY QuietSame DEF Texts
<1>2. /\ input' = input /\ ctl' = ctl /\ hide' = hide /\ out' = out /\ ref' = ref
  OBVIOUS
<1>3. Rest(ref', out', Full', input', ctl') /\ Plain(input', ctl') /\ hide' = Below(input', Read(input', ctl'))
  BY <1>1, <1>2 DEF Texts
<1> QED BY <1>1, <1>2, <1>3 DEF Texts

\* A step of the stack and of the calls.
LEMMA TextsStep ==
  ASSUME Texts, UNCHANGED <<looking, disexpand, broken, groups, macro, outcome>>, Running,
         out' \in Seq(Words), Plain(input', ctl'), hide' = Below(input', Read(input', ctl')),
         Rest(ref', out', Full, input', ctl')
  PROVE  Texts'
<1>1. Quiet' /\ Full' = Full
  BY QuietSame DEF Texts
<1>2. Rest(ref', out', Full', input', ctl')
  BY <1>1
<1>3. outcome' # "done"
  BY DEF Running
<1> QED BY <1>1, <1>2, <1>3 DEF Texts

\* The inputs hold the same.
Alike(s, t) == Len(t) = Len(s) /\ \A i \in 1 .. Len(s) : SameHeld(t[i], s[i])

\* Stacks that hold the same have the same text pending.
LEMMA AlikeHolds ==
  ASSUME NEW s, NEW t, NEW c, Stack(s), Alike(s, t), Plain(s, c), t # <<>>
  PROVE  /\ Plain(t, c) /\ Below(t, Read(t, c)) = Below(s, Read(s, c)) /\ Below(t, Len(t)) = Below(s, Len(s))
         /\ \A r, o, f : Rest(r, o, f, s, c) => Rest(r, o, f, t, c)
<1> DEFINE n == Len(s)
<1>1. n \in Nat /\ Len(t) = n /\ (s # <<>> => n # 0)
  BY DEF Stack, IsSeq, Alike
<1>2. \A i \in 1 .. n : t[i].t = s[i].t /\ t[i].sym = s[i].sym /\ t[i].hs = s[i].hs /\ t[i].toks = s[i].toks
  BY DEF Alike, SameHeld
<1>3. Plain(t, c)
  <2>1. ASSUME AtCopy(s, c) PROVE AtCopy(t, c)
    <3>1. n \in 1 .. n
      BY <1>1, <2>1 DEF AtCopy
    <3>2. t[n].t = s[n].t /\ t[n].sym = s[n].sym /\ t[n].hs = s[n].hs /\ t[n].toks = s[n].toks
      BY <1>2, <3>1
    <3> QED BY <1>1, <2>1, <3>2 DEF AtCopy
  <2> QED BY <1>1, <1>2, <2>1 DEF Plain
<1>4. Like(s, t, n)
  BY <1>2 DEF Like
<1>5. \A i \in 0 .. n : Below(t, i) = Below(s, i)
  BY <1>1, <1>4, BelowSame
<1>6. Read(s, c) \in 0 .. n /\ Read(t, c) = Read(s, c) /\ n \in 0 .. n
  <2>1. c # <<>> => n # 0
    BY <1>1 DEF Plain, AtCopy
  <2> QED BY <1>1, <2>1 DEF Read
<1>7. ASSUME NEW r, NEW o, NEW f, Rest(r, o, f, s, c) PROVE Rest(r, o, f, t, c)
  <2>1. \A i \in 1 .. n : Content(t, c, i) = Content(s, c, i)
    BY <1>1, <1>2 DEF Content
  <2> QED BY <1>1, <1>4, <1>7, <2>1, RestSame
<1> QED BY <1>1, <1>3, <1>5, <1>6, <1>7

\* A step that changes other members of the inputs only.
LEMMA AlikeStep ==
  ASSUME Inputs, Texts, UNCHANGED <<looking, disexpand, broken, groups, macro, outcome, ctl, hide, out, ref>>, Running,
         Alike(input, input'), input' # <<>>
  PROVE  Texts'
<1>1. Stack(input) /\ Plain(input, ctl) /\ ctl' = ctl /\ hide' = hide /\ out' = out /\ ref' = ref
  BY DEF Inputs, Texts
<1>2. /\ Plain(input', ctl) /\ Below(input', Read(input', ctl)) = Below(input, Read(input, ctl))
      /\ \A r, o, f : Rest(r, o, f, input, ctl) => Rest(r, o, f, input', ctl)
  BY <1>1, AlikeHolds
<1>3. hide' = Below(input', Read(input', ctl')) /\ Plain(input', ctl') /\ out' \in Seq(Words)
  BY <1>1, <1>2 DEF Texts
<1>4. Rest(ref', out', Full, input', ctl')
  BY <1>1, <1>2 DEF Texts
<1> QED BY <1>3, <1>4, TextsStep

\* The current input is another record that holds the same.
LEMMA TopAlike ==
  ASSUME NEW s, Stack(s), s # <<>>, NEW r, SameHeld(r, s[Len(s)])
  PROVE  LET t == [s EXCEPT ![Len(s)] = r]
         IN Alike(s, t) /\ t # <<>> /\ Len(t) = Len(s) /\ t[Len(s)] = r
<1> DEFINE t == [s EXCEPT ![Len(s)] = r]
<1>1. /\ t # <<>> /\ Len(s) \in Nat \ {0} /\ Len(t) = Len(s) /\ t[Len(s)] = r
      /\ \A i \in 1 .. Len(s) : i # Len(s) => t[i] = s[i]
  BY TopSeq DEF Stack
<1> HIDE DEF t
<1>2. \A i \in 1 .. Len(s) : SameHeld(t[i], s[i])
  BY <1>1 DEF SameHeld
<1> QED BY <1>1, <1>2 DEF Alike, t

\* At the end of a line of a file nothing is left to be read.
LEMMA NothingLeft ==
  ASSUME Inputs, Texts, AtLineEnd
  PROVE  /\ ctl = <<>> /\ hide = {} /\ ref = out
         /\ \A i \in 1 .. Len(input) : input[i].t = "file" /\ input[i].toks = <<>>
         /\ \A i \in 0 .. Len(input) : Below(input, i) = {}
<1> DEFINE n == Len(input)
<1>1. /\ input # <<>> /\ input[n].t = "file" /\ n \in Nat \ {0} /\ ~AtWork(input, ctl)
  BY AtFile
<1>2. input[n].toks = <<>> /\ Stack(input) /\ Plain(input, ctl)
  BY DEF AtLineEnd, Last, Inputs, Texts
<1>3. ctl = <<>>
  <2>1. ~AtCopy(input, ctl)
    BY <1>1 DEF AtCopy
  <2> QED BY <1>2, <2>1 DEF Plain
<1>4. ASSUME NEW i \in 1 .. n PROVE input[i].t = "file" /\ input[i].toks = <<>>
  <2>1. i = n \/ (i < n /\ n \in 1 .. n)
    BY <1>1
  <2> QED BY <1>1, <1>2, <2>1 DEF Stack, Plain
<1>5. ASSUME NEW i \in 0 .. n PROVE Below(input, i) = {}
  <2>1. \A j \in 1 .. i : j \in 1 .. n
    BY <1>1
  <2>2. \A j \in 1 .. i : input[j].t # "macro"
    BY <1>4, <2>1
  <2> QED BY <2>2 DEF Below
<1>6. hide = {}
  <2>1. n \in 0 .. n
    BY <1>1
  <2> QED BY <1>3, <1>5, <2>1 DEF Texts, Read
<1>7. ref = out
  <2>1. \A i \in 1 .. n : Content(input, ctl, i) = <<>>
    BY <1>3, <1>4 DEF Content
  <2> QED BY <1>1, <2>1, RestNothing DEF Texts
<1> QED BY <1>3, <1>4, <1>5, <1>6, <1>7

\* The end of an included file.
LEMMA TextEndfile == ASSUME Inputs, Texts, endfile PROVE Texts'
<1> DEFINE old == input[Len(input)]
           r   == [old EXCEPT !.eof = TRUE]
           t   == [input EXCEPT ![Len(input)] = r]
<1>1. AtLineEnd /\ input' = t /\ Running
      /\ UNCHANGED <<looking, disexpand, broken, groups, macro, outcome, ctl, hide, out, ref>>
  BY DEF endfile, expands, ghost, asinc, AtLineEnd
<1>2. input # <<>> /\ InputShape(old) /\ Stack(input)
  BY <1>1, AtFile DEF Inputs
<1>3. SameHeld(r, old)
  <2> HIDE DEF old
  <2> QED BY <1>2 DEF InputShape, SameHeld
<1> HIDE DEF r
<1>4. Alike(input, t) /\ t # <<>>
  BY <1>2, <1>3, TopAlike
<1> HIDE DEF t
<1> QED BY <1>1, <1>4, AlikeStep

\* moreinput() pops inputs that are empty.
LEMMA TextMoreinput == ASSUME Inputs, Hides, Texts, moreinput PROVE Texts'
<1> DEFINE n == Len(input)
           top == input[n]
           t == Front(input)
<1>1. /\ Running /\ input # <<>> /\ ~AtWork(input, ctl) /\ top.toks = <<>>
      /\ UNCHANGED <<looking, disexpand, broken, groups, macro, outcome, ctl, out, ref>>
      /\ input' = t /\ hide' = hide \ top.hs
  BY CopyingAtWork DEF moreinput, ghost, asinc, delinput, delmacro, Last
<1>2. Stack(input) /\ IsSeq(input) /\ Plain(input, ctl)
  BY DEF Inputs, Stack, Texts
<1>3. ctl = <<>>
  <2>1. SUFFICES ASSUME ctl # <<>> PROVE FALSE
    OBVIOUS
  <2>2. AtCopy(input, ctl)
    BY <1>2, <2>1 DEF Plain
  <2>3. AtWork(input, ctl)
    BY <2>1, <2>2 DEF AtWork, AtCopy
  <2> QED BY <1>1, <2>3
<1>4. n \in Nat \ {0} /\ Len(t) = n - 1 /\ \A i \in 1 .. n - 1 : t[i] = input[i]
  BY <1>1, <1>2, PopSeq
<1> HIDE DEF t
<1>5. Like(input, t, n - 1)
  BY <1>4 DEF Like
<1>6. n - 1 \in Nat /\ n - 1 \in 0 .. n - 1 /\ n - 1 \in 0 .. n /\ n \in 0 .. n /\ n \in 1 .. n
  BY <1>4
<1>7. Below(t, n - 1) = Below(input, n - 1)
  BY <1>5, <1>6, BelowSame
<1>8. hide \ top.hs = Below(input, n - 1)
  <2>1. hide = Below(input, n)
    BY <1>3 DEF Texts, Read
  <2>2. Below(input, n) = Below(input, n - 1) \cup (IF top.t = "macro" THEN {top.sym} ELSE {})
    BY <1>2, <1>6, BelowFacts
  <2>3. top.t = "macro" => top.sym \in top.hs
    BY <1>2, <1>3, <1>6 DEF Plain
  <2>4. ASSUME NEW x \in Below(input, n - 1) PROVE x \notin top.hs
    <3>1. PICK j \in 1 .. n - 1 : input[j].t = "macro" /\ input[j].sym = x
      BY DEF Below
    <3>2. Open(j, input, ctl)
      <4>1. Len(ctl) = 0
        BY <1>3
      <4> QED BY <3>1, <4>1 DEF Open
    <3>3. Hidden(input, ctl, hide)
      BY DEF Hides, Texts, Quiet
    <3>4. j \in 1 .. n /\ j < n
      BY <1>6
    <3>5. input[j].sym \notin input[n].hs
      BY <1>6, <3>2, <3>3, <3>4 DEF Hidden
    <3> QED BY <3>1, <3>5
  <2> HIDE DEF n, top
  <2> QED BY <2>1, <2>2, <2>3, <2>4
<1>9. Plain(t, <<>>)
  <2>1. /\ \A i \in 1 .. n - 1 : i \in 1 .. n /\ t[i] = input[i]
    BY <1>4
  <2> QED BY <1>2, <1>3, <1>4, <2>1 DEF Plain
<1>10. Expands(Full, macro)
  BY FullOK DEF Texts
<1>11. Rest(ref, out, Full, t, <<>>)
  <2>1. Rest(ref, out, Full, input, <<>>)
    BY <1>3 DEF Texts
  <2> QED BY <1>1, <1>2, <1>4, <1>10, <2>1, RestPop
<1>12. /\ out' \in Seq(Words) /\ Plain(input', ctl') /\ hide' = Below(input', Read(input', ctl'))
       /\ Rest(ref', out', Full, input', ctl')
  BY <1>1, <1>3, <1>4, <1>7, <1>8, <1>9, <1>11 DEF Read, Texts
<1> QED BY <1>1, <1>12, TextsStep

\* The current input with its first token read.
LEMMA ConsumeText ==
  ASSUME Inputs, Texts, HasToken
  PROVE  /\ ctl = <<>> /\ Len(input) \in Nat \ {0} /\ Stack(input) /\ Plain(input, ctl) /\ hide = Below(input, Len(input))
         /\ IsSeq(Consume) /\ Consume # <<>> /\ Len(Consume) = Len(input)
         /\ \A i \in 1 .. Len(input) : i # Len(input) => Consume[i] = input[i]
         /\ LET old == input[Len(input)]
                new == Consume[Len(input)]
            IN /\ InputShape(old) /\ InputShape(new) /\ SameInput(new, old)
               /\ new.toks = Tail(old.toks) /\ old.toks # <<>> /\ Tok = Head(old.toks)
               /\ old.toks \in Seq(Token) /\ new.toks \in Seq(Token) /\ Tok \in Token
<1> DEFINE n == Len(input)
           old == input[n]
           x == Tail(old.toks)
           r == [old EXCEPT !.toks = x]
<1>1. input # <<>> /\ old.toks # <<>> /\ Tok = Head(old.toks) /\ ~AtWork(input, ctl) /\ Consume = [input EXCEPT ![n] = r]
  BY CopyingAtWork DEF HasToken, Tok, Last, Consume
<1>2. Stack(input) /\ IsSeq(input) /\ Plain(input, ctl)
  BY DEF Inputs, Stack, Texts
<1>3. ctl = <<>>
  <2>1. SUFFICES ASSUME ctl # <<>> PROVE FALSE
    OBVIOUS
  <2>2. AtCopy(input, ctl)
    BY <1>2, <2>1 DEF Plain
  <2>3. AtWork(input, ctl)
    BY <2>1, <2>2 DEF AtWork, AtCopy
  <2> QED BY <1>1, <2>3
<1>4. hide = Below(input, n)
  BY <1>3 DEF Texts, Read
<1> HIDE DEF r
<1>5. /\ IsSeq(Consume) /\ Consume # <<>> /\ Len(Consume) = n /\ n \in Nat \ {0} /\ Consume[n] = r
      /\ \A i \in 1 .. n : i # n => Consume[i] = input[i]
  <2> DEFINE u == [input EXCEPT ![n] = r]
  <2>1. /\ IsSeq(u) /\ u # <<>> /\ Len(u) = n /\ n \in Nat \ {0} /\ u[n] = r
        /\ \A i \in 1 .. n : i # n => u[i] = input[i]
    BY <1>1, <1>2, TopSeq
  <2> HIDE DEF u
  <2>2. Consume = u
    BY <1>1 DEF u
  <2> QED BY <2>1, <2>2
<1>6. InputShape(old) /\ old.toks \in Seq(Token)
  BY <1>2, <1>5 DEF Stack, Plain
<1>7. x \in Seq(Token) /\ Head(old.toks) \in Token
  <2> DEFINE y == old.toks
  <2>1. y \in Seq(Token) /\ y # <<>>
    BY <1>1, <1>6
  <2> HIDE DEF y
  <2>2. Tail(y) \in Seq(Token) /\ Head(y) \in Token
    BY <2>1
  <2> QED BY <2>2 DEF y
<1>8. InputShape(r) /\ SameInput(r, old) /\ r.toks = x
  <2> HIDE DEF old, x
  <2> QED BY <1>6 DEF r, InputShape, SameInput
<1> HIDE DEF x
<1> QED BY <1>1, <1>2, <1>3, <1>4, <1>5, <1>6, <1>7, <1>8 DEF x

\* The names that are not expanded stand for themselves.
LEMMA StandsForItself ==
  ASSUME Texts, NEW B \in SUBSET Names, hide = B, NEW t, ~Expandable(t)
  PROVE  Word(Full, B, t) = <<t>>
<1>1. Expands(Full, macro)
  BY FullOK DEF Texts
<1>2. ~(t \in Names /\ macro[t].def) \/ t \in B
  BY DEF Texts, Quiet, Expandable, IsMacro
<1>3. t \in Names => Full[B][t] = Unfolded(Full, macro, B, t)
  BY <1>1 DEF Expands
<1> QED BY <1>2, <1>3 DEF Word, Unfolded

\* next() gives a token that is not expanded to the parser.
LEMMA TextNext == ASSUME Inputs, Texts, next PROVE Texts'
<1> DEFINE n == Len(input)
           old == input[n]
           t == Consume
           B == Below(input, n)
<1>1. HasToken /\ ~Expandable(Tok) /\ input' = t /\ Running /\ Give(Tok)
      /\ UNCHANGED <<looking, disexpand, broken, groups, macro, outcome, hide, ref>>
  BY DEF next, ghost, asinc, HasToken
<1>2. /\ ctl = <<>> /\ n \in Nat \ {0} /\ Stack(input) /\ Plain(input, ctl) /\ hide = B
      /\ IsSeq(t) /\ t # <<>> /\ Len(t) = n /\ input # <<>>
      /\ \A i \in 1 .. n : i # n => t[i] = input[i]
      /\ InputShape(old) /\ SameInput(t[n], old)
      /\ t[n].toks = Tail(old.toks) /\ old.toks # <<>> /\ Tok = Head(old.toks)
      /\ old.toks \in Seq(Token) /\ t[n].toks \in Seq(Token) /\ Tok \in Token
  BY <1>1, ConsumeText DEF HasToken
<1>3. out' = Append(out, Tok) /\ ctl' = ctl /\ ctl' = <<>>
  BY <1>1, <1>2 DEF Give
<1>4. n \in 1 .. n /\ n \in 0 .. n
  BY <1>2
<1>5. B \in SUBSET Names
  BY <1>2, <1>4, BelowFacts
<1>6. Word(Full, B, Tok) = <<Tok>>
  BY <1>1, <1>2, <1>5, StandsForItself
<1>7. Expands(Full, macro)
  BY FullOK DEF Texts
<1> DEFINE x == old.toks
           y == t[n].toks
<1>8. TextOf(Full, B, x) = <<Tok>> \o TextOf(Full, B, y) /\ TextOf(Full, B, y) \in Seq(Words)
  <2>1. \A b \in Names : Full[B][b] \in Seq(Words)
    BY <1>5, <1>7 DEF Expands
  <2> HIDE DEF B
  <2>2. TextOf(Full, B, x) = Word(Full, B, Head(x)) \o TextOf(Full, B, Tail(x))
    BY <1>2, <2>1, TextHead
  <2>3. TextOf(Full, B, y) \in Seq(Words)
    BY <1>2, <2>1, WordsTyped
  <2> QED BY <1>2, <1>6, <2>2, <2>3
<1>9. Tok \in Words /\ out \in Seq(Words)
  BY <1>2 DEF Words, Texts
<1>10. out' \in Seq(Words) /\ <<Tok>> \in Seq(Words) /\ out' = out \o <<Tok>>
  <2> DEFINE k == Tok
  <2>1. k \in Words
    BY <1>9
  <2> HIDE DEF k
  <2>2. Append(out, k) \in Seq(Words) /\ <<k>> \in Seq(Words) /\ Append(out, k) = out \o <<k>>
    BY <1>9, <2>1
  <2> QED BY <1>3, <2>2 DEF k
<1> DEFINE a == TextOf(Full, B, y)
           k == <<Tok>>
<1>11. Carries(Full, B, ref, out, x, ref', out', y)
  <2>1. SUFFICES ASSUME NEW q \in Seq(Words), ref = out \o (TextOf(Full, B, x) \o q)
                 PROVE  ref' = out' \o (a \o q)
    BY DEF Carries
  <2>2. ref = out \o ((k \o a) \o q)
    BY <1>8, <2>1
  <2>3. a \in Seq(Words) /\ k \in Seq(Words) /\ ref' = ref /\ out' = out \o k
    BY <1>1, <1>8, <1>10
  <2> HIDE DEF a, k
  <2>4. Join(out, Join(Join(k, a), q)) = Join(Join(out, k), Join(a, q))
    BY <1>9, <2>3, JoinMove
  <2> QED BY <2>2, <2>3, <2>4 DEF Join
<1> HIDE DEF B
<1>12. Like(input, t, n) /\ \A i \in 1 .. n : i # n => Content(t, ctl, i) = Content(input, ctl, i)
  <2>1. \A i \in 1 .. n : t[i].t = input[i].t /\ t[i].sym = input[i].sym
    BY <1>2 DEF SameInput
  <2> QED BY <1>2, <2>1 DEF Like, Content
<1>13. Content(t, ctl, n) = y /\ Content(input, ctl, n) = x
  BY <1>2 DEF Content
<1>14. Rest(ref, out, Full, input, ctl)
  BY DEF Texts
<1>15. Rest(ref', out', Full, t, ctl)
  BY <1>2, <1>7, <1>11, <1>12, <1>13, <1>14, RestTop DEF B
<1>16. Plain(t, ctl)
  <2>1. \A i \in 1 .. n : t[i].t = input[i].t /\ t[i].sym = input[i].sym /\ t[i].hs = input[i].hs
    BY <1>2 DEF SameInput
  <2>2. \A i \in 1 .. n : t[i].toks \in Seq(Token)
    BY <1>2 DEF Plain
  <2>3. \A i, j \in 1 .. n : i < j /\ t[j].t = "file" => t[i].toks = <<>>
    <3>1. \A i, j \in 1 .. n : i < j => i # n
      BY <1>2
    <3> QED BY <1>2, <2>1, <3>1 DEF Plain
  <2> QED BY <1>2, <2>1, <2>2, <2>3 DEF Plain
<1>17. hide' = Below(t, n)
  <2>1. Below(t, n) = Below(input, n)
    BY <1>2, <1>4, <1>12, BelowSame
  <2> QED BY <1>1, <1>2, <2>1 DEF B
<1>18. /\ out' \in Seq(Words) /\ Plain(input', ctl') /\ hide' = Below(input', Read(input', ctl'))
       /\ Rest(ref', out', Full, input', ctl')
  BY <1>1, <1>2, <1>3, <1>10, <1>15, <1>16, <1>17 DEF Read
<1> HIDE DEF t
<1> QED BY <1>1, <1>3, <1>18, TextsStep

\* expand() starts to read the replacement of a macro.
LEMMA TextExpand == ASSUME Inputs, Texts, expand PROVE Texts'
<1> DEFINE n == Len(input)
           old == input[n]
           x == Tok
           u == Consume
           B == Below(input, n)
<1>1. HasToken /\ Expandable(x) /\ x \in Names /\ macro[x].def /\ x \notin hide /\ Running
      /\ UNCHANGED <<disexpand, broken, groups, macro, outcome, hide, out, ref>>
      /\ IF FUNLIKE(macro[x].npars) THEN TRUE ELSE PushMacro(x, <<>>, u, ctl) /\ looking' = looking
  BY DEF expand, ghost, asinc, HasToken, Expandable, IsMacro
<1>2. /\ ctl = <<>> /\ n \in Nat \ {0} /\ Stack(input) /\ Plain(input, ctl) /\ hide = B
      /\ IsSeq(u) /\ u # <<>> /\ Len(u) = n /\ input # <<>>
      /\ \A i \in 1 .. n : i # n => u[i] = input[i]
      /\ InputShape(old) /\ InputShape(u[n]) /\ SameInput(u[n], old)
      /\ u[n].toks = Tail(old.toks) /\ old.toks # <<>> /\ x = Head(old.toks)
      /\ old.toks \in Seq(Token) /\ u[n].toks \in Seq(Token)
  BY <1>1, ConsumeText DEF HasToken
<1>3. ~FUNLIKE(macro[x].npars)
  BY <1>1 DEF Texts, Quiet, ObjectLike, FUNLIKE, OBJLIKE
<1> DEFINE ip == Input("macro", x)
           c == [Context("copy", x) EXCEPT !.args = <<>>, !.base = n + 1]
           r == [u[n] EXCEPT !.lno = lineno]
           y == [ip EXCEPT !.lno = lineno]
           v == [u EXCEPT ![Len(u)] = r]
<1>4. input' = Append(v, y) /\ ctl' = Append(ctl, c) /\ looking' = looking
  BY <1>1, <1>2, <1>3 DEF PushMacro, addinput
<1>5. SameHeld(r, u[n])
  <2> DEFINE w == u[n]
             w2 == [w EXCEPT !.lno = lineno]
  <2>1. InputShape(w)
    BY <1>2
  <2> HIDE DEF w
  <2>2. SameHeld(w2, w)
    BY <2>1 DEF InputShape, SameHeld
  <2> QED BY <2>2 DEF w
<1>6. y.t = "macro" /\ y.sym = x /\ y.toks = <<>> /\ y.hs = {}
  BY DEF Input
<1>7. c.k = "copy" /\ c.sym = x /\ c.base = n + 1 /\ c.cur = <<>> /\ c.items = macro[x].body
  BY DEF Context
<1> HIDE DEF y, c, r, u
<1>8. /\ IsSeq(v) /\ Len(v) = n /\ v[n] = r /\ \A i \in 1 .. n : i # n => v[i] = u[i]
  BY <1>2, TopSeq
<1> HIDE DEF v
<1> DEFINE t == Append(v, y)
           d == Append(ctl, c)
<1>9. /\ Len(t) = n + 1 /\ t[n + 1] = y /\ \A i \in 1 .. n : t[i] = v[i]
  BY <1>8, PushSeq
<1>10. /\ Len(d) = 1 /\ d[1] = c /\ d # <<>>
  BY <1>2
<1> HIDE DEF t, d
<1>11. t[n].t = old.t /\ t[n].sym = old.sym /\ t[n].hs = old.hs /\ t[n].toks = Tail(old.toks)
  <2>1. t[n] = r
    BY <1>2, <1>8, <1>9
  <2> QED BY <1>2, <1>5, <2>1 DEF SameHeld, SameInput
<1>12. \A i \in 1 .. n : i # n => t[i] = input[i]
  BY <1>2, <1>8, <1>9
<1> HIDE DEF old
<1>13. Like(input, t, n)
  BY <1>11, <1>12 DEF Like, old
<1>14. macro \in [Names -> Macro] /\ Expands(Full, macro)
  BY FullOK DEF Texts
<1>15. macro[x].body \in Seq(Item) /\ \A i \in 1 .. Len(macro[x].body) : macro[x].body[i].k = "tok"
  <2>1. macro[x] \in Macro
    BY <1>1, <1>14
  <2>2. macro[x].npars = OBJLIKE
    BY <1>1 DEF Texts, Quiet, ObjectLike
  <2>3. macro[x].body \in Seq(Item) /\ \A i \in DOMAIN macro[x].body : macro[x].body[i].k = "tok"
    BY <2>1, <2>2 DEF Macro
  <2> QED BY <2>3
<1>16. Content(t, d, n + 1) = Toks(macro[x].body)
  <2> DEFINE b == Toks(macro[x].body)
  <2>1. b \in Seq(Token)
    BY <1>15, ToksTyped
  <2> HIDE DEF b
  <2>2. <<>> \o b = b
    BY <2>1
  <2> QED BY <1>7, <1>9, <1>10, <2>2 DEF Content, b
<1>17. \A i \in 1 .. n : Content(t, d, i) = t[i].toks
  <2>1. \A i \in 1 .. n : i # n + 1
    BY <1>2
  <2> QED BY <1>9, <2>1 DEF Content
<1>18. n \in 1 .. n /\ n \in 0 .. n /\ n + 1 \in 1 .. n + 1
  BY <1>2
<1>19. Rest(ref, out, Full, t, d)
  <2>1. Rest(ref, out, Full, input, <<>>)
    BY <1>2 DEF Texts
  <2>2. \A i \in 1 .. n : i # n => Content(t, d, i) = input[i].toks
    BY <1>12, <1>17
  <2>3. Content(t, d, n) = Tail(input[n].toks)
    BY <1>11, <1>17, <1>18 DEF old
  <2>4. x \notin Below(input, n)
    BY <1>1, <1>2
  <2>5. input[n].toks \in Seq(Token) /\ input[n].toks # <<>> /\ x = Head(input[n].toks)
    BY <1>2 DEF old
  <2>6. t[n + 1].t = "macro" /\ t[n + 1].sym = x
    BY <1>6, <1>9
  <2> HIDE DEF n, x, B
  <2> QED BY <1>1, <1>2, <1>9, <1>13, <1>14, <1>16, <2>1, <2>2, <2>3, <2>4, <2>5, <2>6, RestPush DEF n
<1>20. Plain(t, d)
  <2>1. t # <<>>
    BY <1>2, <1>9
  <2>2. AtCopy(t, d)
    <3>1. <<>> \in Seq(Token)
      OBVIOUS
    <3> QED BY <1>6, <1>7, <1>9, <1>10, <1>15, <2>1, <3>1 DEF AtCopy
  <2>3. \A i \in 1 .. n + 1 : i = n + 1 \/ i \in 1 .. n
    BY <1>2
  <2>4. \A i \in 1 .. n : t[i].t = input[i].t /\ t[i].sym = input[i].sym /\ t[i].hs = input[i].hs
    BY <1>11, <1>12 DEF old
  <2>5. \A i \in 1 .. n : t[i].toks \in Seq(Token)
    <3>1. Tail(old.toks) \in Seq(Token)
      BY <1>2
    <3> QED BY <1>2, <1>11, <1>12, <3>1 DEF Plain
  <2>6. \A i \in 1 .. n + 1 : t[i].t # "param" /\ t[i].toks \in Seq(Token)
    <3>1. <<>> \in Seq(Token)
      OBVIOUS
    <3> QED BY <1>2, <1>6, <1>9, <2>3, <2>4, <2>5, <3>1 DEF Plain
  <2>7. \A i, j \in 1 .. n + 1 : i < j /\ t[j].t = "file" => t[i].toks = <<>>
    <3>1. SUFFICES ASSUME NEW i \in 1 .. n + 1, NEW j \in 1 .. n + 1, i < j, t[j].t = "file" PROVE t[i].toks = <<>>
      OBVIOUS
    <3>2. j # n + 1
      BY <1>6, <1>9, <3>1
    <3>3. i \in 1 .. n /\ j \in 1 .. n /\ i # n
      BY <1>2, <3>1, <3>2
    <3> QED BY <1>2, <1>12, <2>4, <3>1, <3>3 DEF Plain
  <2>8. \A i \in 1 .. n + 1 : t[i].t = "macro" /\ ~(d # <<>> /\ i = n + 1) => t[i].sym \in t[i].hs
    BY <1>2, <1>10, <2>3, <2>4 DEF Plain
  <2> QED BY <1>9, <2>2, <2>6, <2>7, <2>8 DEF Plain
<1>21. hide' = Below(t, Read(t, d))
  <2>1. Read(t, d) = n
    BY <1>2, <1>9, <1>10 DEF Read
  <2>2. Below(t, n) = Below(input, n)
    BY <1>2, <1>13, <1>18, BelowSame
  <2> QED BY <1>1, <1>2, <2>1, <2>2
<1>22. /\ out' \in Seq(Words) /\ Plain(input', ctl') /\ hide' = Below(input', Read(input', ctl'))
       /\ Rest(ref', out', Full, input', ctl')
  BY <1>1, <1>4, <1>19, <1>20, <1>21 DEF t, d, Texts
<1> QED BY <1>1, <1>4, <1>22, TextsStep

\* The one call there may be.
LEMMA TheCall ==
  ASSUME Inputs, Texts, ctl # <<>>
  PROVE  /\ AtCopy(input, ctl) /\ Last(ctl) = ctl[1] /\ Len(ctl) = 1 /\ ~Collecting
         /\ Plain(input, ctl) /\ Stack(input) /\ Len(input) \in Nat \ {0} /\ CallShape(ctl[1])
<1>1. AtCopy(input, ctl) /\ Plain(input, ctl) /\ Stack(input)
  BY DEF Texts, Plain, Inputs
<1>2. Len(ctl) = 1 /\ Last(ctl) = ctl[1] /\ ctl[1].k = "copy"
  BY <1>1 DEF AtCopy, Last
<1>3. Len(input) \in Nat \ {0}
  BY <1>1 DEF AtCopy, Stack, IsSeq
<1>4. CallShape(ctl[1])
  BY <1>2 DEF Inputs, Calls
<1> QED BY <1>1, <1>2, <1>3, <1>4 DEF Collecting

\* The first token of a replacement list, and the others.
LEMMA ToksHead ==
  ASSUME NEW b \in Seq(Item), b # <<>>, NEW x \in Seq(Token)
  PROVE  (x \o <<Head(b).tok>>) \o Toks(Tail(b)) = x \o Toks(b)
<1> DEFINE k == Head(b).tok
           v == Tail(b)
           r == Toks(v)
<1>1. v \in Seq(Item) /\ Len(b) \in Nat \ {0} /\ Len(v) = Len(b) - 1 /\ Head(b) = b[1]
      /\ \A i \in 1 .. Len(b) - 1 : v[i] = b[i + 1]
  OBVIOUS
<1> HIDE DEF v
<1>2. /\ Toks(b) \in Seq(Token) /\ Len(Toks(b)) = Len(b) /\ \A i \in 1 .. Len(b) : Toks(b)[i] = b[i].tok
      /\ r \in Seq(Token) /\ Len(r) = Len(b) - 1 /\ \A i \in 1 .. Len(b) - 1 : r[i] = v[i].tok
  <2>1. Len(b) \in Nat /\ DOMAIN b = 1 .. Len(b) /\ DOMAIN v = 1 .. Len(b) - 1
    BY <1>1
  <2>2. /\ Toks(b) \in Seq(Token) /\ Len(Toks(b)) = Len(b) /\ \A i \in DOMAIN b : Toks(b)[i] = b[i].tok
    BY ToksTyped
  <2>3. /\ r \in Seq(Token) /\ Len(r) = Len(v) /\ \A i \in DOMAIN v : r[i] = v[i].tok
    BY <1>1, ToksTyped
  <2> QED BY <1>1, <2>1, <2>2, <2>3
<1> HIDE DEF r
<1>3. k \in Token
  <2>1. b[1] \in Item
    BY <1>1
  <2> QED BY <1>1, <2>1 DEF Item
<1>4. Toks(b) = <<k>> \o r
  <2> DEFINE u == Toks(b)
             w == <<k>> \o r
             n == Len(b)
  <2>1. u \in Seq(Token) /\ Len(u) = n /\ n \in Nat \ {0} /\ u[1] = k /\ \A i \in 1 .. n - 1 : u[i + 1] = r[i]
    <3>1. \A i \in 1 .. n - 1 : i + 1 \in 1 .. n
      BY <1>1
    <3>2. 1 \in 1 .. n
      BY <1>1
    <3>3. u[1] = k
      BY <1>1, <1>2, <3>2
    <3>4. \A i \in 1 .. n - 1 : u[i + 1] = b[i + 1].tok
      BY <1>2, <3>1
    <3>5. \A i \in 1 .. n - 1 : b[i + 1].tok = r[i]
      BY <1>1, <1>2
    <3> QED BY <1>1, <1>2, <3>3, <3>4, <3>5
  <2> HIDE DEF u, k, n
  <2>2. w \in Seq(Token) /\ Len(w) = n /\ w[1] = k /\ \A i \in 1 .. n - 1 : w[i + 1] = r[i]
    BY <1>2, <1>3, <2>1 DEF n
  <2> HIDE DEF w
  <2>3. \A i \in 1 .. n : i = 1 \/ (i - 1 \in 1 .. n - 1 /\ (i - 1) + 1 = i)
    BY <2>1
  <2>4. \A i \in 1 .. n : u[i] = w[i]
    BY <2>1, <2>2, <2>3
  <2>5. u = w
    BY <2>1, <2>2, <2>4
  <2> QED BY <2>5 DEF u, w
<1> HIDE DEF k
<1> DEFINE a == <<k>>
<1>5. a \in Seq(Token)
  BY <1>3
<1> HIDE DEF a
<1>6. Join(Join(x, a), r) = Join(x, Join(a, r))
  BY <1>2, <1>5, JoinAssoc
<1> QED BY <1>4, <1>6 DEF Join, k, r, a, v

\* copymacro() moves one item of the body.
LEMMA TextCopymacro == ASSUME Inputs, Texts, copymacro PROVE Texts'
<1> DEFINE n == Len(input)
           c == ctl[1]
           b == c.items
           y == Tail(b)
           z == c.cur \o <<Head(b).tok>>
           q == [c EXCEPT !.items = y]
           r == [q EXCEPT !.cur = z]
           d == [ctl EXCEPT ![1] = r]
<1>1. /\ Running /\ ctl # <<>> /\ Last(ctl).items # <<>>
      /\ UNCHANGED <<looking, disexpand, broken, groups, macro, outcome, hide, out, ref>>
  BY DEF copymacro, ghost, asinc, Copying
<1>2. /\ AtCopy(input, ctl) /\ Last(ctl) = c /\ Len(ctl) = 1 /\ Plain(input, ctl) /\ Stack(input) /\ n \in Nat \ {0}
      /\ CallShape(c)
  BY <1>1, TheCall
<1>3. b \in Seq(Item) /\ b # <<>> /\ c.cur \in Seq(Token) /\ Head(b).k = "tok" /\ Head(b).tok \in Token
  <2>1. b \in Seq(Item) /\ b # <<>> /\ c.cur \in Seq(Token) /\ \A i \in 1 .. Len(b) : b[i].k = "tok"
    BY <1>1, <1>2 DEF AtCopy
  <2> HIDE DEF b
  <2>2. Head(b) = b[1] /\ 1 \in 1 .. Len(b) /\ b[1] \in Item
    BY <2>1
  <2> QED BY <2>1, <2>2 DEF Item
<1>4. input' = input /\ ctl' = [ctl EXCEPT ![Len(ctl)].items = Tail(@), ![Len(ctl)].cur = @ \o <<Head(b).tok>>]
  <2>1. Head(Last(ctl).items).k = "tok"
    BY <1>2, <1>3
  <2> QED BY <1>2, <2>1 DEF copymacro
<1>5. ctl' = d
  <2>1. q.cur = c.cur
    BY <1>2 DEF CallShape
  <2> QED BY <1>2, <1>4, <2>1
<1>6. z \in Seq(Token) /\ y \in Seq(Item)
  <2> DEFINE k == Head(b).tok
             x == c.cur
  <2>1. k \in Token /\ x \in Seq(Token) /\ b \in Seq(Item) /\ b # <<>>
    BY <1>3
  <2> HIDE DEF k, x, b
  <2>2. x \o <<k>> \in Seq(Token) /\ Tail(b) \in Seq(Item)
    BY <2>1
  <2> QED BY <2>2 DEF k, x
<1> HIDE DEF y, z
<1>7. r.k = c.k /\ r.sym = c.sym /\ r.base = c.base /\ r.cur = z /\ r.items = y
  <2>1. CallShape(q) /\ SameCall(q, c) /\ q.items = y
    <3> HIDE DEF c
    <3> QED BY <1>2 DEF CallShape, SameCall
  <2> HIDE DEF q
  <2>2. SameCall(r, q) /\ r.cur = z /\ r.items = q.items
    BY <2>1 DEF CallShape, SameCall
  <2> QED BY <2>1, <2>2 DEF SameCall
<1> HIDE DEF r
<1>8. Len(d) = 1 /\ d[1] = r /\ d # <<>>
  <2>1. IsSeq(ctl)
    BY DEF Inputs, Calls
  <2> QED BY <1>1, <1>2, <2>1, TopSeq
<1> HIDE DEF d
<1>9. AtCopy(input, d)
  <2>1. \A i \in 1 .. Len(y) : y[i].k = "tok"
    <3>1. \A i \in 1 .. Len(b) : b[i].k = "tok"
      BY <1>2 DEF AtCopy
    <3> HIDE DEF b
    <3>2. Len(b) \in Nat /\ Len(y) = Len(b) - 1 /\ \A i \in 1 .. Len(b) - 1 : y[i] = b[i + 1] /\ i + 1 \in 1 .. Len(b)
      BY <1>3 DEF y
    <3> QED BY <3>1, <3>2
  <2> QED BY <1>2, <1>6, <1>7, <1>8, <2>1 DEF AtCopy
<1>10. Plain(input, d)
  BY <1>1, <1>2, <1>8, <1>9 DEF Plain
<1>11. Read(input, d) = Read(input, ctl)
  BY <1>1, <1>8 DEF Read
<1>12. \A i \in 1 .. n : Content(input, d, i) = Content(input, ctl, i)
  <2>1. z \o Toks(y) = c.cur \o Toks(b)
    <3> HIDE DEF b, c
    <3> QED BY <1>3, ToksHead DEF y, z
  <2> QED BY <1>1, <1>7, <1>8, <2>1 DEF Content
<1>13. Like(input, input, n)
  BY DEF Like
<1>14. Rest(ref, out, Full, input, d)
  <2>1. Rest(ref, out, Full, input, ctl)
    BY DEF Texts
  <2> QED BY <1>2, <1>12, <1>13, <2>1, RestSame
<1>15. /\ out' \in Seq(Words) /\ Plain(input', ctl') /\ hide' = Below(input', Read(input', ctl'))
       /\ Rest(ref', out', Full, input', ctl')
  BY <1>1, <1>4, <1>5, <1>10, <1>11, <1>14 DEF Texts
<1> QED BY <1>1, <1>15, TextsStep

\* copymacro() has the whole body, and the current input is refilled.
LEMMA TextExpanded == ASSUME Inputs, Texts, expanded PROVE Texts'
<1> DEFINE n == Len(input)
           c == ctl[1]
           ip == addhideset(c.sym)
           x == c.cur
           t == [ip EXCEPT ![Len(ip)].toks = x]
<1>1. Running /\ ctl # <<>> /\ Last(ctl).items = <<>> /\ IsSeq(ctl)
  BY DEF expanded, Copying, Inputs, Calls
<1>2. /\ AtCopy(input, ctl) /\ Last(ctl) = c /\ Len(ctl) = 1 /\ Plain(input, ctl) /\ Stack(input) /\ n \in Nat \ {0}
      /\ CallShape(c) /\ IsSeq(input)
  BY <1>1, TheCall DEF Stack
<1>3. CASE Fails
  BY <1>1, <1>3, TextsAlone DEF Fails, expands, ghost, asinc
<1>4. CASE /\ input' = t /\ hide' = hide \cup Last(ip).hs /\ ctl' = Front(ctl)
           /\ UNCHANGED <<looking, disexpand, broken, groups, macro, outcome, out, ref>>
  <2>1. /\ IsSeq(ip) /\ Len(ip) = n /\ DOMAIN input = 1 .. n
        /\ \A i \in 1 .. n : ip[i] = IF input[i].t = "macro" THEN [input[i] EXCEPT !.hs = @ \cup {c.sym}] ELSE input[i]
    <3>1. ip = [i \in DOMAIN input |-> ip[i]]
      BY DEF addhideset
    <3>2. \A i \in DOMAIN input : ip[i] = IF input[i].t = "macro" THEN [input[i] EXCEPT !.hs = @ \cup {c.sym}] ELSE input[i]
      BY DEF addhideset
    <3> HIDE DEF ip
    <3>3. IsSeq(ip) /\ Len(ip) = n /\ DOMAIN input = 1 .. n
      BY <1>2, <3>1, MapSeq
    <3> QED BY <3>2, <3>3
  <2> HIDE DEF ip
  <2>2. \A i \in 1 .. n : /\ DOMAIN ip[i] = DOMAIN input[i]
                          /\ ip[i].t = input[i].t /\ ip[i].sym = input[i].sym /\ ip[i].toks = input[i].toks
                          /\ ip[i].hs = IF input[i].t = "macro" THEN input[i].hs \cup {c.sym} ELSE input[i].hs
    <3>1. SUFFICES ASSUME NEW i \in 1 .. n
                   PROVE  /\ DOMAIN ip[i] = DOMAIN input[i]
                          /\ ip[i].t = input[i].t /\ ip[i].sym = input[i].sym /\ ip[i].toks = input[i].toks
                          /\ ip[i].hs = IF input[i].t = "macro" THEN input[i].hs \cup {c.sym} ELSE input[i].hs
      OBVIOUS
    <3> DEFINE old == input[i]
               S   == old.hs \cup {c.sym}
               new == [old EXCEPT !.hs = S]
    <3>2. InputShape(old)
      BY <1>2 DEF Stack
    <3>3. ip[i] = IF old.t = "macro" THEN new ELSE old
      BY <2>1
    <3> HIDE DEF old, S
    <3>4. DOMAIN new = DOMAIN old /\ new.t = old.t /\ new.sym = old.sym /\ new.toks = old.toks /\ new.hs = S
      BY <3>2 DEF InputShape
    <3> HIDE DEF new
    <3> QED BY <3>3, <3>4 DEF old, S
  <2>3. n \in 1 .. n /\ ip # <<>> /\ n - 1 \in 0 .. n /\ n \in 0 .. n
    BY <1>2, <2>1
  <2> DEFINE old == ip[n]
             r == [old EXCEPT !.toks = x]
             u == [ip EXCEPT ![Len(ip)] = r]
  <2>4. r.t = old.t /\ r.sym = old.sym /\ r.hs = old.hs /\ r.toks = x
    <3>1. DOMAIN old = {"t", "sym", "toks", "hs", "eof", "lno", "phys"}
      <4>1. InputShape(input[n])
        BY <1>2, <2>3 DEF Stack
      <4> QED BY <2>2, <2>3, <4>1 DEF InputShape
    <3> HIDE DEF old
    <3> QED BY <3>1
  <2>5. t = u
    BY <2>1
  <2> HIDE DEF r
  <2>6. IsSeq(u) /\ u # <<>> /\ Len(u) = n /\ u[n] = r /\ \A i \in 1 .. n : i # n => u[i] = ip[i]
    BY <2>1, <2>3, TopSeq
  <2> HIDE DEF u, t
  <2>7. \A i \in 1 .. n : /\ u[i].t = input[i].t /\ u[i].sym = input[i].sym
                          /\ u[i].hs = IF input[i].t = "macro" THEN input[i].hs \cup {c.sym} ELSE input[i].hs
                          /\ u[i].toks = IF i = n THEN x ELSE input[i].toks
    BY <2>2, <2>3, <2>4, <2>6
  <2>8. ctl' = <<>>
    <3> HIDE DEF n, c, x, old
    <3>0. IsSeq(Front(ctl)) /\ Len(Front(ctl)) = Len(ctl) - 1
      BY <1>1, PopSeq
    <3> DEFINE d == Front(ctl)
    <3>1. IsSeq(d) /\ Len(d) = 0
      BY <1>2, <3>0
    <3> HIDE DEF d
    <3>2. d = <<>>
      BY <3>1 DEF IsSeq
    <3> QED BY <1>4, <3>2 DEF d
  <2>9. input[n].t = "macro" /\ input[n].toks = <<>> /\ input[n].hs = {} /\ c.sym = input[n].sym /\ x \in Seq(Token)
    BY <1>2 DEF AtCopy
  <2>10. Plain(u, <<>>)
    <3>1. \A i \in 1 .. n : u[i].t # "param" /\ u[i].toks \in Seq(Token)
      BY <1>2, <2>7, <2>9 DEF Plain
    <3>2. ASSUME NEW i \in 1 .. n, NEW j \in 1 .. n, i < j, u[j].t = "file" PROVE u[i].toks = <<>>
      <4>1. i # n
        BY <1>2, <3>2
      <4> QED BY <1>2, <2>7, <3>2, <4>1 DEF Plain
    <3>3. ASSUME NEW i \in 1 .. n, u[i].t = "macro" PROVE u[i].sym \in u[i].hs
      <4>1. CASE i = n
        BY <2>7, <2>9, <3>3, <4>1
      <4>2. CASE i # n
        BY <1>2, <2>7, <3>3, <4>2 DEF Plain
      <4> QED BY <4>1, <4>2
    <3> QED BY <2>6, <3>1, <3>2, <3>3 DEF Plain
  <2>11. Like(input, u, n)
    BY <2>7 DEF Like
  <2>12. hide' = Below(u, n)
    <3>1. hide = Below(input, n - 1)
      BY <1>1 DEF Texts, Read
    <3>2. Below(input, n) = Below(input, n - 1) \cup {input[n].sym}
      BY <1>2, <2>3, <2>9, BelowFacts
    <3>3. Below(u, n) = Below(input, n)
      BY <1>2, <2>3, <2>11, BelowSame
    <3>4. Last(ip).hs = {c.sym}
      BY <2>1, <2>2, <2>3, <2>9 DEF Last
    <3> HIDE DEF n, c
    <3> QED BY <1>4, <2>9, <3>1, <3>2, <3>3, <3>4
  <2>13. \A i \in 1 .. n : Content(u, <<>>, i) = Content(input, ctl, i)
    <3>1. Toks(c.items) = <<>>
      BY <1>1, <1>2 DEF Toks
    <3>2. x \o <<>> = x
      BY <2>9
    <3> QED BY <1>1, <2>6, <2>7, <3>1, <3>2 DEF Content
  <2>14. Rest(ref, out, Full, u, <<>>)
    <3>1. Rest(ref, out, Full, input, ctl)
      BY DEF Texts
    <3> QED BY <1>2, <2>6, <2>11, <2>13, <3>1, RestSame
  <2>15. /\ out' \in Seq(Words) /\ Plain(input', ctl') /\ hide' = Below(input', Read(input', ctl'))
         /\ Rest(ref', out', Full, input', ctl')
    BY <1>4, <2>5, <2>6, <2>8, <2>10, <2>12, <2>14 DEF Read, Texts
  <2> QED BY <1>1, <1>4, <2>15, TextsStep
<1>5. \/ Fails
      \/ /\ input' = t /\ hide' = hide \cup Last(ip).hs /\ ctl' = Front(ctl)
         /\ UNCHANGED <<looking, disexpand, broken, groups, macro, outcome, out, ref>>
  BY <1>2 DEF expanded, ghost, asinc
<1> QED BY <1>3, <1>4, <1>5

\* The end of the last file: everything was given.
LEMMA TextEof == ASSUME Inputs, Texts, eof PROVE Texts'
<1>1. /\ input = <<>> /\ UNCHANGED <<input, ctl, looking, disexpand, hide, broken, groups, macro, out, ref>>
  BY DEF eof, expands, ghost, asinc
<1>2. ref = out
  <2>1. Len(input) = 0 /\ Len(input) \in Nat /\ \A i \in 1 .. Len(input) : Content(input, ctl, i) = <<>>
    BY <1>1
  <2> QED BY <2>1, RestNothing DEF Texts
<1> QED BY <1>1, <1>2, TextsAlone

\* Steps of macros with parameters.
LEMMA TextParameters ==
  ASSUME Inputs, Texts, parsepars \/ notcalled \/ ahead \/ parameter \/ unterminated \/ expandarg
  PROVE  FALSE
<1>1. looking = NoName
  BY DEF Texts, Quiet
<1>2. ~Collecting
  BY TheCall DEF Collecting
<1>3. input # <<>> => Last(input).t # "param"
  <2>1. SUFFICES ASSUME input # <<>> PROVE input[Len(input)].t # "param"
    BY DEF Last
  <2>2. Len(input) \in 1 .. Len(input)
    BY <2>1 DEF Inputs, Stack, IsSeq
  <2> QED BY <2>2 DEF Texts, Plain
<1> QED BY <1>1, <1>2, <1>3 DEF parsepars, notcalled, ahead, parameter, unterminated, expandarg

\* A line of text.
LEMMA TextTextline == ASSUME CInv, Texts, NEW l \in Lines, textline(l) PROVE Texts'
<1> DEFINE n == Len(input)
           old == input[n]
           p == old.phys + 1
           q == [old EXCEPT !.phys = p]
           x == IF cppoff = 0 THEN l.toks ELSE <<>>
           r == [q EXCEPT !.toks = x]
           t == [input EXCEPT ![n] = r]
           e == TextOf(Full, {}, l.toks)
<1>1. /\ AtLineEnd /\ Running /\ input' = [NewLine EXCEPT ![n].toks = x]
      /\ ref' = (IF Live THEN ref \o Expansion(l.toks) ELSE ref)
      /\ UNCHANGED <<looking, disexpand, broken, groups, macro, outcome, ctl, hide, out>>
  BY DEF textline, readline, expands, AtLineEnd
<1>2. /\ ctl = <<>> /\ hide = {} /\ ref = out
      /\ \A i \in 1 .. n : input[i].t = "file" /\ input[i].toks = <<>>
      /\ \A i \in 0 .. n : Below(input, i) = {}
  BY <1>1, NothingLeft DEF CInv
<1>3. input # <<>> /\ n \in Nat \ {0} /\ InputShape(old) /\ Stack(input) /\ IsSeq(input)
  BY <1>1, AtFile DEF CInv, Inputs, Stack
<1>4. l.toks \in Seq(Token)
  BY LinesAssumption DEF Line
<1>5. input' = t
  <2> DEFINE u == [input EXCEPT ![n] = q]
  <2>1. NewLine = u
    BY <1>3 DEF NewLine
  <2>2. u[n] = q
    BY <1>3, TopSeq
  <2> HIDE DEF u, x, q
  <2>3. [u EXCEPT ![n].toks = x] = [u EXCEPT ![n] = r]
    BY <2>2
  <2> HIDE DEF r
  <2>4. [u EXCEPT ![n] = r] = t
    BY DEF u
  <2> QED BY <1>1, <2>1, <2>3, <2>4
<1>6. r.t = old.t /\ r.sym = old.sym /\ r.hs = old.hs /\ r.toks = x
  <2> HIDE DEF old, p, x
  <2>1. DOMAIN q = DOMAIN old /\ q.t = old.t /\ q.sym = old.sym /\ q.hs = old.hs
    BY <1>3 DEF InputShape
  <2>2. DOMAIN q = {"t", "sym", "toks", "hs", "eof", "lno", "phys"}
    BY <1>3, <2>1 DEF InputShape
  <2> HIDE DEF q
  <2> QED BY <2>1, <2>2
<1> HIDE DEF r
<1>7. t # <<>> /\ Len(t) = n /\ t[n] = r /\ \A i \in 1 .. n : i # n => t[i] = input[i]
  BY <1>3, TopSeq
<1> HIDE DEF t
<1>8. n \in 1 .. n /\ n \in 0 .. n
  BY <1>3
<1>9. cppoff = 0 <=> Live
  <2>1. InputsAgree /\ ~Odd
    BY CAgrees DEF Texts, Quiet
  <2> QED BY <2>1 DEF InputsAgree, GroupsAsInC
<1>10. CASE cppoff # 0
  <2>1. SameHeld(r, old)
    BY <1>2, <1>6, <1>8, <1>10 DEF SameHeld
  <2>2. Alike(input, t) /\ t # <<>>
    BY <1>3, <2>1, TopAlike DEF t
  <2>3. ref' = ref
    BY <1>1, <1>9, <1>10
  <2> QED BY <1>1, <1>5, <2>2, <2>3, AlikeStep DEF CInv
<1>11. CASE cppoff = 0
  <2>1. x = l.toks
    BY <1>11
  <2>2. ref' = out \o e
    <3>1. Expansion(l.toks) = e
      BY DEF Expansion, TextOf, WordsOf, Word
    <3> QED BY <1>1, <1>2, <1>9, <1>11, <3>1
  <2>3. Expands(Full, macro) /\ out \in Seq(Words)
    BY FullOK DEF Texts
  <2>4. e \in Seq(Words)
    <3>1. \A b \in Names : Full[{}][b] \in Seq(Words)
      BY <2>3 DEF Expands
    <3> QED BY <1>4, <3>1, WordsTyped
  <2> HIDE DEF e
  <2>5. Carries(Full, {}, ref, out, <<>>, ref', out, l.toks)
    <3>1. SUFFICES ASSUME NEW k \in Seq(Words), ref = out \o (TextOf(Full, {}, <<>>) \o k)
                   PROVE  ref' = out \o (e \o k)
      BY DEF Carries, e
    <3>2. <<>> \o k = k /\ e \o <<>> = e
      BY <2>4
    <3>3. out = out \o k
      BY <1>2, <3>1, <3>2, TextEmpty
    <3>4. k = <<>>
      BY <2>3, <3>3, ConcatEqualIffEmpty
    <3> QED BY <2>2, <3>2, <3>4
  <2>6. Like(input, t, n)
    BY <1>6, <1>7 DEF Like
  <2>7. /\ \A i \in 1 .. n : i # n => Content(t, <<>>, i) = Content(input, <<>>, i)
        /\ Content(t, <<>>, n) = l.toks /\ Content(input, <<>>, n) = <<>>
    BY <1>2, <1>6, <1>7, <1>8, <2>1 DEF Content
  <2>8. Rest(ref', out, Full, t, <<>>)
    <3>1. Rest(ref, out, Full, input, <<>>)
      BY <1>2 DEF Texts
    <3>2. Below(input, n) = {}
      BY <1>2, <1>8
    <3>3. Carries(Full, Below(input, n), ref, out, Content(input, <<>>, n), ref', out, Content(t, <<>>, n))
      BY <2>5, <2>7, <3>2
    <3> QED BY <1>3, <1>4, <1>7, <2>3, <2>6, <2>7, <3>1, <3>3, RestTop
  <2>9. Plain(t, <<>>)
    <3>1. \A i \in 1 .. n : t[i].t = "file"
      BY <1>2, <1>6, <1>7, <1>8
    <3>2. \A i \in 1 .. n : i # n => t[i].toks = <<>>
      BY <1>2, <1>7
    <3>3. \A i \in 1 .. n : t[i].toks \in Seq(Token)
      <4>1. <<>> \in Seq(Token) /\ t[n].toks = l.toks
        BY <1>6, <1>7, <2>1
      <4> QED BY <1>4, <3>2, <4>1
    <3>4. \A i, j \in 1 .. n : i < j => i # n
      BY <1>3
    <3> QED BY <1>7, <3>1, <3>2, <3>3, <3>4 DEF Plain
  <2>10. Below(t, n) = {}
    BY <1>2, <1>3, <1>8, <2>6, BelowSame
  <2>11. /\ out' \in Seq(Words) /\ Plain(input', ctl') /\ hide' = Below(input', Read(input', ctl'))
         /\ Rest(ref', out', Full, input', ctl')
    BY <1>1, <1>2, <1>5, <1>7, <2>3, <2>8, <2>9, <2>10 DEF Read
  <2> QED BY <1>1, <2>11, TextsStep
<1> QED BY <1>10, <1>11

\* What a directive does to macros and groups while every macro is object-like.
LEMMA ClauseQuiet ==
  ASSUME CInv, Quiet, exact, NEW l \in Lines, clause(l), ~Wrong(l), exact'
  PROVE  ~Odd' /\ macro' \in [Names -> Macro] /\ ObjectLike(macro') /\ ref' = ref
<1>1. /\ IsSeq(groups) /\ Len(groups) = cppctx /\ cppctx \in Nat /\ DOMAIN groups = 1 .. cppctx
      /\ \A i \in 1 .. cppctx : groups[i].after \in Nat /\ ~(groups[i].after > 1)
  <2>1. IsSeq(groups) /\ Len(groups) = cppctx /\ \A i \in 1 .. cppctx : groups[i].after \in Nat
    BY DEF CInv, Groups, GroupsOf
  <2>2. DOMAIN groups = 1 .. cppctx /\ cppctx \in Nat
    BY <2>1 DEF IsSeq
  <2> QED BY <2>1, <2>2 DEF Quiet, Odd
<1>2. macro \in [Names -> Macro] /\ ObjectLike(macro) /\ l \in Line
  BY LinesAssumption DEF Quiet
<1>3. CASE l.d \in {"if", "ifdef", "ifndef"}
  <2> DEFINE v == Status(l)
  <2>1. groups' = OpenGroup(v) /\ macro' = macro /\ ref' = ref
    BY <1>3 DEF clause, if
  <2> HIDE DEF v
  <2>2. /\ IsSeq(groups') /\ Len(groups') = cppctx + 1
        /\ \A i \in 1 .. cppctx : groups'[i] = groups[i]
        /\ groups'[cppctx + 1].after = 0
    BY <1>1, <2>1, OpenGroupHas DEF CInv
  <2>3. ~Odd'
    <3>1. DOMAIN groups' = 1 .. cppctx + 1
      BY <2>2 DEF IsSeq
    <3>2. \A i \in 1 .. cppctx + 1 : i \in 1 .. cppctx \/ i = cppctx + 1
      BY <1>1
    <3> QED BY <1>1, <2>2, <3>1, <3>2 DEF Odd
  <2> QED BY <1>2, <2>1, <2>3
<1>4. CASE l.d \in {"else", "elif"}
  <2>1. PICK v : groups' = NextGroup(v)
    BY <1>4 DEF clause, cppelse, elif
  <2>2. macro' = macro /\ ref' = ref /\ Last(groups').after <= 1
    BY <1>4 DEF clause, cppelse, elif
  <2>3. cppctx \in Nat \ {0}
    BY <1>1, <1>4 DEF Wrong
  <2>4. /\ IsSeq(groups') /\ Len(groups') = cppctx
        /\ \A i \in 1 .. cppctx - 1 : groups'[i] = groups[i]
        /\ groups'[cppctx].after = IF groups[cppctx].taken THEN groups[cppctx].after + 1 ELSE 0
    BY <2>1, <2>3, NextGroupHas DEF CInv
  <2>5. ~Odd'
    <3>1. DOMAIN groups' = 1 .. cppctx /\ Last(groups') = groups'[cppctx]
      BY <2>4 DEF IsSeq, Last
    <3>2. \A i \in 1 .. cppctx : i \in 1 .. cppctx - 1 \/ i = cppctx
      BY <2>3
    <3>3. groups'[cppctx].after \in Nat
      BY <1>1, <2>3, <2>4
    <3>4. ~(groups'[cppctx].after > 1)
      BY <2>2, <3>1, <3>3
    <3>5. \A i \in 1 .. cppctx - 1 : ~(groups'[i].after > 1)
      <4>1. \A i \in 1 .. cppctx - 1 : i \in 1 .. cppctx
        BY <2>3
      <4> QED BY <1>1, <2>4, <4>1
    <3> QED BY <3>1, <3>2, <3>4, <3>5 DEF Odd
  <2> QED BY <1>2, <2>2, <2>5
<1>5. CASE l.d = "endif"
  <2>1. groups' = Front(groups) /\ macro' = macro /\ ref' = ref
    BY <1>5 DEF clause, endif
  <2>2. cppctx # 0 /\ groups # <<>>
    BY <1>1, <1>5 DEF Wrong
  <2>3. /\ IsSeq(groups') /\ Len(groups') = cppctx - 1
        /\ \A i \in 1 .. cppctx - 1 : groups'[i] = groups[i]
    BY <1>1, <2>1, <2>2, PopSeq
  <2>4. ~Odd'
    <3>1. DOMAIN groups' = 1 .. cppctx - 1 /\ \A i \in 1 .. cppctx - 1 : i \in 1 .. cppctx
      BY <1>1, <2>3 DEF IsSeq
    <3> QED BY <1>1, <2>3, <3>1 DEF Odd
  <2> QED BY <1>2, <2>1, <2>4
<1>6. CASE l.d = "define"
  <2>1. /\ macro' = (IF cppoff = 0 THEN [macro EXCEPT ![l.name] = l.mac] ELSE macro)
        /\ groups' = groups /\ ref' = ref /\ ~(cppoff = 0 /\ FUNLIKE(l.mac.npars))
    BY <1>6 DEF clause, define
  <2>2. l.mac \in Macro /\ l.mac.npars \in Nat \cup {OBJLIKE}
    BY <1>2 DEF Line, Macro
  <2>3. cppoff = 0 => l.mac.npars = OBJLIKE
    BY <2>1, <2>2 DEF FUNLIKE, OBJLIKE
  <2>4. ~Odd'
    BY <2>1 DEF Quiet, Odd
  <2> DEFINE w == l.mac
             m == [macro EXCEPT ![l.name] = w]
  <2> HIDE DEF w
  <2>5. m \in [Names -> Macro] /\ \A a \in Names : m[a] = IF a = l.name THEN w ELSE macro[a]
    BY <1>2, <2>2 DEF w
  <2> HIDE DEF m
  <2>6. w.npars = OBJLIKE => ObjectLike(m)
    BY <1>2, <2>5 DEF ObjectLike
  <2> QED BY <1>2, <2>1, <2>3, <2>4, <2>5, <2>6 DEF m, w
<1>7. CASE l.d = "undef"
  <2>1. /\ macro' = (IF cppoff = 0 THEN [macro EXCEPT ![l.name].def = FALSE] ELSE macro)
        /\ groups' = groups /\ ref' = ref
    BY <1>7 DEF clause, undef, asinc
  <2>2. ~Odd'
    BY <2>1 DEF Quiet, Odd
  <2> DEFINE old == macro[l.name]
             new == [old EXCEPT !.def = FALSE]
             m == [macro EXCEPT ![l.name] = new]
  <2>3. [macro EXCEPT ![l.name].def = FALSE] = m
    BY <1>2
  <2>4. l.name \in Names => new \in Macro /\ new.def = FALSE
    <3>1. SUFFICES ASSUME l.name \in Names PROVE new \in Macro /\ new.def = FALSE
      OBVIOUS
    <3>2. old \in Macro
      BY <1>2, <3>1
    <3> HIDE DEF old
    <3>3. new.def = FALSE /\ new.npars = old.npars /\ new.body = old.body
          /\ new \in [def : BOOLEAN, npars : Nat \cup {OBJLIKE}, body : Seq(Item)]
      BY <3>2 DEF Macro
    <3> HIDE DEF new
    <3> QED BY <3>2, <3>3 DEF Macro
  <2> HIDE DEF new
  <2>5. m \in [Names -> Macro] /\ \A a \in Names : m[a] = IF a = l.name THEN new ELSE macro[a]
    BY <1>2, <2>4
  <2> HIDE DEF m
  <2>6. ObjectLike(m)
    BY <1>2, <2>4, <2>5 DEF ObjectLike
  <2> QED BY <1>2, <2>1, <2>2, <2>3, <2>5, <2>6
<1>8. CASE l.d \notin {"if", "ifdef", "ifndef", "elif", "else", "endif", "define", "undef"}
  <2>1. UNCHANGED <<macro, groups, ref>>
    BY <1>8 DEF clause, asinc
  <2> QED BY <1>2, <2>1 DEF Quiet, Odd
<1> QED BY <1>3, <1>4, <1>5, <1>6, <1>7, <1>8

\* The stack of inputs holds files that are at the end of a line.
AllRead(s) == \A i \in 1 .. Len(s) : s[i].t = "file" /\ s[i].toks = <<>>

\* With nothing to read, nothing is pending.
LEMMA TextsOfNothing ==
  ASSUME NEW s, IsSeq(s), AllRead(s), NEW o \in Seq(Words), NEW f
  PROVE  Plain(s, <<>>) /\ Below(s, Read(s, <<>>)) = {} /\ Rest(o, o, f, s, <<>>)
<1>1. Len(s) \in Nat /\ <<>> \in Seq(Token)
  BY DEF IsSeq
<1>2. Plain(s, <<>>)
  BY <1>1 DEF Plain, AllRead
<1>3. Below(s, Read(s, <<>>)) = {}
  BY DEF Below, Read, AllRead
<1>4. Rest(o, o, f, s, <<>>)
  <2>1. \A i \in 1 .. Len(s) : Content(s, <<>>, i) = <<>>
    BY DEF Content, AllRead
  <2> QED BY <1>1, <2>1, RestNothing
<1> QED BY <1>2, <1>3, <1>4

\* A line with a directive.
LEMMA TextLine ==
  ASSUME CInv, Texts, exact, exact', NEW l \in Lines, cpp(l)
  PROVE  Texts'
<1>1. /\ AtLineEnd /\ Running /\ clause(l) /\ ~Wrong(l) /\ ~disexpand' /\ broken' = (broken \/ Collecting)
      /\ UNCHANGED <<ctl, looking, hide, out, outcome>>
      /\ IF l.d = "include" /\ cppoff = 0 THEN include
         ELSE IF l.d = "line" /\ cppoff = 0 THEN line(l)
         ELSE input' = NewLine
  BY DEF cpp, readline, AtLineEnd
<1>2. ctl = <<>> /\ hide = {} /\ ref = out /\ AllRead(input)
  BY <1>1, NothingLeft DEF CInv, AllRead
<1>3. Quiet'
  <2>1. ~Odd' /\ macro' \in [Names -> Macro] /\ ObjectLike(macro')
    BY <1>1, ClauseQuiet DEF Texts
  <2>2. ~Collecting
    BY <1>2 DEF Collecting
  <2> QED BY <1>1, <2>1, <2>2 DEF Quiet, Texts, ObjectLike
<1>4. ref' = ref
  BY <1>1, ClauseQuiet DEF Texts
<1> DEFINE n == Len(input)
           old == input[n]
<1>5. input # <<>> /\ n \in Nat \ {0} /\ InputShape(old) /\ IsSeq(input) /\ n \in 1 .. n
  BY <1>1, AtFile DEF CInv, Inputs, Stack
<1>6. ASSUME NEW r, r.t = old.t, r.toks = old.toks
      PROVE  LET t == [input EXCEPT ![n] = r] IN IsSeq(t) /\ Len(t) = n /\ AllRead(t)
  <2> DEFINE t == [input EXCEPT ![n] = r]
  <2>1. IsSeq(t) /\ Len(t) = n /\ t[n] = r /\ \A i \in 1 .. n : i # n => t[i] = input[i]
    BY <1>5, TopSeq
  <2> HIDE DEF t
  <2>2. \A i \in 1 .. n : t[i].t = input[i].t /\ t[i].toks = input[i].toks
    BY <1>6, <2>1
  <2>3. AllRead(t)
    BY <1>2, <2>1, <2>2 DEF AllRead
  <2> QED BY <2>1, <2>3 DEF t
<1>7. IsSeq(NewLine) /\ AllRead(NewLine) /\ Len(NewLine) = n
  <2> DEFINE p == old.phys + 1
             r == [old EXCEPT !.phys = p]
  <2>1. NewLine = [input EXCEPT ![n] = r]
    BY <1>5 DEF NewLine
  <2>2. r.t = old.t /\ r.toks = old.toks
    <3> HIDE DEF old, p
    <3> QED BY <1>5 DEF InputShape
  <2> HIDE DEF r
  <2> QED BY <1>6, <2>1, <2>2
<1>8. IsSeq(input') /\ AllRead(input')
  <2>1. CASE include
    <3> DEFINE s == NewLine
               w == s[n]
               v == lineno + 1
               r == [w EXCEPT !.lno = v]
               u == [s EXCEPT ![Len(s)] = r]
               y == [Input("file", NoName) EXCEPT !.lno = 0]
    <3>1. input' = Append(u, y)
      BY <1>7, <2>1 DEF include, addinput
    <3>2. y.t = "file" /\ y.toks = <<>>
      BY DEF Input
    <3>3. r.t = w.t /\ r.toks = w.toks
      <4>1. /\ SameStack(input, s) /\ Stack(s)
        BY <1>1, LineRead DEF CInv, SameStack
      <4>2. InputShape(w)
        BY <1>5, <1>7, <4>1 DEF Stack
      <4> HIDE DEF w, v
      <4> QED BY <4>2 DEF InputShape
    <3> HIDE DEF s, y, r
    <3>4. s # <<>>
      BY <1>5, <1>7 DEF s
    <3>5. IsSeq(u) /\ Len(u) = Len(s) /\ u[Len(s)] = r /\ \A i \in 1 .. Len(s) : i # Len(s) => u[i] = s[i]
      BY <1>7, <3>4, TopSeq DEF s
    <3> HIDE DEF u
    <3>6. AllRead(u)
      <4>1. \A i \in 1 .. n : u[i].t = s[i].t /\ u[i].toks = s[i].toks
        BY <1>7, <3>3, <3>5 DEF s
      <4> QED BY <1>7, <3>5, <4>1 DEF AllRead, s
    <3> DEFINE t == Append(u, y)
    <3>7. IsSeq(t) /\ Len(u) \in Nat /\ Len(t) = Len(u) + 1 /\ t[Len(u) + 1] = y /\ \A i \in 1 .. Len(u) : t[i] = u[i]
      BY <3>5, PushSeq
    <3> HIDE DEF t
    <3>8. \A i \in 1 .. Len(u) + 1 : i \in 1 .. Len(u) \/ i = Len(u) + 1
      BY <3>7
    <3>9. AllRead(t)
      BY <3>2, <3>6, <3>7, <3>8 DEF AllRead
    <3> QED BY <3>1, <3>7, <3>9 DEF t
  <2>2. CASE line(l)
    <3> DEFINE v == l.val - 1
               q == [old EXCEPT !.lno = v]
               r == [q EXCEPT !.phys = v]
    <3>1. input' = [input EXCEPT ![n] = r]
      BY <2>2 DEF line, setloc
    <3>2. r.t = old.t /\ r.toks = old.toks
      <4> HIDE DEF old, v
      <4>1. DOMAIN q = DOMAIN old /\ q.t = old.t /\ q.toks = old.toks
        BY <1>5 DEF InputShape
      <4>2. DOMAIN q = {"t", "sym", "toks", "hs", "eof", "lno", "phys"}
        BY <1>5, <4>1 DEF InputShape
      <4> HIDE DEF q
      <4> QED BY <4>1, <4>2
    <3> HIDE DEF r
    <3> QED BY <1>6, <3>1, <3>2
  <2>3. CASE input' = NewLine
    BY <1>7, <2>3
  <2> QED BY <1>1, <2>1, <2>2, <2>3
<1>9. out \in Seq(Words) /\ outcome' # "done"
  BY <1>1 DEF Texts, Running
<1>10. Plain(input', <<>>) /\ Below(input', Read(input', <<>>)) = {} /\ Rest(out, out, Full', input', <<>>)
  BY <1>8, <1>9, TextsOfNothing
<1>11. /\ out' \in Seq(Words) /\ Plain(input', ctl') /\ hide' = Below(input', Read(input', ctl'))
       /\ Rest(ref', out', Full', input', ctl')
  BY <1>1, <1>2, <1>4, <1>9, <1>10
<1> QED BY <1>3, <1>9, <1>11 DEF Texts

TInv == exact => Texts

\* The first state.
LEMMA TInit == Init => TInv
<1> SUFFICES ASSUME Init, exact PROVE Texts
  BY DEF TInv
<1> DEFINE ip == Input("file", NoName)
<1>1. /\ input = <<ip>> /\ ctl = <<>> /\ hide = {} /\ out = <<>> /\ ref = <<>> /\ outcome = "running"
      /\ looking = NoName /\ ~disexpand /\ ~broken /\ groups = <<>> /\ macro \in Predefined
      /\ \A n \in Names : macro[n].def => macro[n].npars = OBJLIKE
  BY DEF Init
<1>2. Quiet
  <2>1. ~Odd
    BY <1>1 DEF Odd
  <2> QED BY <1>1, <2>1, LinesAssumption DEF Quiet, ObjectLike
<1>3. ip.t = "file" /\ ip.toks = <<>>
  BY DEF Input
<1> HIDE DEF ip
<1>4. IsSeq(input) /\ AllRead(input)
  <2>1. input \in Seq({ip}) /\ Len(input) = 1 /\ input[1] = ip
    BY <1>1
  <2>2. IsSeq(input)
    BY <2>1, OwnElements
  <2>3. \A i \in 1 .. Len(input) : i = 1
    BY <2>1
  <2> QED BY <1>3, <2>1, <2>2, <2>3 DEF AllRead
<1>5. <<>> \in Seq(Words)
  OBVIOUS
<1>6. Plain(input, <<>>) /\ Below(input, Read(input, <<>>)) = {} /\ Rest(<<>>, <<>>, Full, input, <<>>)
  BY <1>4, <1>5, TextsOfNothing
<1> QED BY <1>1, <1>2, <1>5, <1>6 DEF Texts

\* Every step keeps the invariant of the text.
LEMMA TNext == CInv /\ TInv /\ [Next]_vars => TInv'
<1> SUFFICES ASSUME CInv, TInv, [Next]_vars, exact' PROVE Texts'
  BY DEF TInv
<1>1. Inputs /\ Hides
  BY DEF CInv
<1>2. ASSUME NEW l \in Lines, cpp(l) PROVE Texts'
  <2>1. exact
    BY <1>2 DEF cpp, clause, if, cppelse, elif, endif, define, undef, asinc
  <2> QED BY <1>2, <2>1, TextLine DEF TInv
<1>3. ASSUME NEW l \in Lines, textline(l) PROVE Texts'
  <2>1. exact
    BY <1>3 DEF textline
  <2> QED BY <1>3, <2>1, TextTextline DEF TInv
<1>4. ASSUME NEW l \in Lines, cppfails(l) \/ textfails(l) PROVE Texts'
  <2>1. exact /\ UNCHANGED <<input, ctl, looking, disexpand, hide, broken, groups, macro, out, ref>> /\ outcome' # "done"
    BY <1>4 DEF cppfails, textfails, ghost, asinc, expands
  <2> QED BY <2>1, TextsAlone DEF TInv
<1>5. CASE endfile \/ moreinput \/ expand
  <2>1. exact
    BY <1>5 DEF endfile, moreinput, expand, ghost, asinc
  <2> QED BY <1>1, <1>5, <2>1, TextEndfile, TextMoreinput, TextExpand DEF TInv
<1>6. CASE next \/ copymacro \/ expanded
  <2>1. exact
    BY <1>6 DEF next, copymacro, expanded, Fails, ghost, asinc
  <2> QED BY <1>1, <1>6, <2>1, TextNext, TextCopymacro, TextExpanded DEF TInv
<1>7. CASE eof
  <2>1. exact
    BY <1>7 DEF eof, ghost, asinc
  <2> QED BY <1>1, <1>7, <2>1, TextEof DEF TInv
<1>8. CASE parsepars \/ notcalled \/ ahead \/ parameter \/ unterminated \/ expandarg
  <2>1. exact
    BY <1>8 DEF parsepars, notcalled, ahead, parameter, unterminated, expandarg, Fails, Crashes, ghost, asinc
  <2> QED BY <1>1, <1>8, <2>1, TextParameters DEF TInv
<1>9. CASE UNCHANGED vars
  <2>1. exact /\ UNCHANGED <<input, ctl, looking, disexpand, hide, broken, groups, macro, out, ref, outcome>>
    BY <1>9 DEF vars, expands, ghost, asinc
  <2> QED BY <2>1, TextsAlone DEF TInv, Texts
<1> QED BY <1>2, <1>3, <1>4, <1>5, <1>6, <1>7, <1>8, <1>9 DEF Next, Stopped

\* The invariant of the text is as strong as the property.
LEMMA TRight == CInv /\ TInv => TextAsInC
<1> SUFFICES ASSUME CInv, Texts PROVE IsPrefix(out, ref) /\ (outcome = "done" => out = ref)
  BY DEF TInv, TextAsInC
<1>1. Len(input) \in Nat /\ Len(input) \in 0 .. Len(input) /\ out \in Seq(Words)
  BY DEF CInv, Inputs, Stack, IsSeq, Texts
<1>2. PICK p : Pending(p, Full, input, ctl) /\ ref = out \o p[Len(input)]
  BY DEF Texts, Rest
<1> DEFINE q == p[Len(input)]
<1>3. q \in Seq(Words)
  BY <1>1, <1>2 DEF Pending
<1> HIDE DEF q
<1>4. ref = out \o q
  BY <1>2 DEF q
<1>5. IsPrefix(out, out \o q)
  <2> DEFINE s == out \o q
  <2>1. s \in Seq(Words) /\ Len(out) \in Nat /\ Len(out) <= Len(s) /\ \A i \in 1 .. Len(out) : s[i] = out[i]
    BY <1>1, <1>3
  <2> HIDE DEF s
  <2>2. SubSeq(out, 1, Len(out)) = [i \in 1 .. Len(out) |-> out[i]]
    BY <1>1
  <2>3. SubSeq(s, 1, Len(out)) = [i \in 1 .. Len(out) |-> s[i]]
    BY <1>1, <2>1
  <2> QED BY <2>1, <2>2, <2>3 DEF IsPrefix, s
<1> QED BY <1>4, <1>5 DEF Texts

\* Whatever the object-like macros, the lines and the nesting of groups and files:
\* what next() gives the parser is, token by token, the expansion that C defines of
\* the lines of the selected groups that have been read, and at the end all of it.
THEOREM TextIsAsInC == Spec => []TextAsInC
<1>1. CInv /\ TInv /\ [Next]_vars => CInv' /\ TInv'
  BY CNext, TNext
<1>2. Spec => [](CInv /\ TInv)
  BY CInit, TInit, <1>1, PTL DEF Spec
<1> QED BY <1>2, TRight, PTL
=============================================================================
