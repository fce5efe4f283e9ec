--------------------------- MODULE MakeFilesProofs ---------------------------
(***************************************************************************)
(* What the makefiles leave behind.  The precedence of the sources of a    *)
(* macro and what a make that make starts is told, for any set of macros,  *)
(* of values and of options and for any number of arguments, definitions   *)
(* and nested makes; the database of targets, for any names and recipes    *)
(* and any number of rules with any number of targets and prerequisites.   *)
(***************************************************************************)
EXTENDS MakeMacros, MakeRules, FoldLemmas, SequenceTheorems, TLAPS

Value == Seq(Words)
Token == [name : Macros \cup {UNSET}, word : Words]

\* The types that the argument needs.
Typed ==
  /\ macro \in [Macros -> [value : Value, where : Origins \cup {UNDEF}]]
  /\ environ \in [Macros -> Value \cup {UNSET}]
  /\ inherited \in [Macros -> Value \cup {UNSET}]
  /\ given \in [Origins -> [Macros -> Value \cup {UNSET}]]
  /\ todo \in Seq(Token) /\ makeflags \in Seq(Token)
  /\ eflag \in BOOLEAN
  /\ phase \in {"defaults", "makeflags", "makefiles", "usage"}

\* What the table knows of the macro n is what the strongest source but the
\* environment said of it.
Entry(n) ==
  LET c == given[CMDLINE][n]
      f == given[MAKEFLAGS][n]
      m == given[MAKEFILE][n]
      i == given[INTERNAL][n]
      e == macro[n]
  IN /\ c # UNSET => e.where = CMDLINE /\ e.value = c /\ (n # SHELL => environ[n] = c)
     /\ c = UNSET => environ[n] = inherited[n]
     /\ c = UNSET /\ f # UNSET => e.where = MAKEFLAGS /\ e.value = f
     /\ c = UNSET /\ f = UNSET /\ m # UNSET /\ ~(eflag /\ Env(n) # UNSET) =>
          e.where = MAKEFILE /\ e.value = m
     /\ c = UNSET /\ f = UNSET /\ (m = UNSET \/ (eflag /\ Env(n) # UNSET)) =>
          \/ e.where = INTERNAL /\ e.value = i /\ i # UNSET
          \/ e.where = UNDEF /\ e.value = <<>> /\ (i = UNSET \/ Env(n) # UNSET)
     /\ m # UNSET => phase = "makefiles"

\* Before the defaults are injected the table is empty.
Fresh ==
  phase = "defaults" =>
    /\ environ = inherited /\ eflag = FALSE
    /\ \A n \in Macros : macro[n] = [value |-> <<>>, where |-> UNDEF]
    /\ \A w \in Origins, n \in Macros : given[w][n] = UNSET

\* The variable MAKEFLAGS is read before the command line.
FlagsFirst == todo # <<>> => \A n \in Macros : given[CMDLINE][n] = UNSET

MInv == Typed /\ Fresh /\ FlagsFirst /\ (phase # "defaults" => \A n \in Macros : Entry(n))

\* A sequence of one element.
LEMMA OneElement == ASSUME NEW S, NEW x \in S PROVE <<x>> \in Seq(S)
OBVIOUS

\* The words of an argument are well formed.
LEMMA WordsTyped ==
  ASSUME NEW n \in Macros, NEW v \in Value
  PROVE  AsWords(n, v) \in Seq(Token)
<1>1. CASE v = <<>>
  <2>1. [name |-> n, word |-> EMPTY] \in Token
    BY WordsAssumption DEF Token
  <2>2. <<[name |-> n, word |-> EMPTY]>> \in Seq(Token)
    BY <2>1, OneElement
  <2> QED BY <1>1, <2>2 DEF AsWords
<1>2. CASE v # <<>>
  <2>1. Head(v) \in Words /\ Len(v) \in Nat /\ Len(v) >= 1
    BY <1>2 DEF Value
  <2>2. <<[name |-> n, word |-> Head(v)]>> \in Seq(Token)
    BY <2>1 DEF Token
  <2>3. \A i \in 1 .. Len(v) - 1 : Word(v[i + 1]) \in Token
    BY <2>1 DEF Word, Token, Value
  <2> DEFINE rest == [i \in 1 .. Len(v) - 1 |-> Word(v[i + 1])]
  <2>4. rest \in Seq(Token)
    BY <2>1, <2>3
  <2> HIDE DEF rest
  <2>5. <<[name |-> n, word |-> Head(v)]>> \o rest \in Seq(Token)
    BY <2>2, <2>4
  <2> QED BY <2>5, <1>2 DEF AsWords, rest
<1> QED BY <1>1, <1>2

\* A make starts with an empty table.
LEMMA InitMacros == Init => MInv
<1>1. SUFFICES ASSUME Init PROVE MInv
  OBVIOUS
<1>2. todo \in Seq(Token)
  <2>1. CASE todo = <<>>
    BY <2>1
  <2>2. CASE todo # <<>>
    <3>1. PICK n \in Macros, v \in Values : todo = AsWords(n, v)
      BY <1>1, <2>2 DEF Init
    <3> QED BY <3>1, WordsTyped, ValuesAssumption DEF Value
  <2> QED BY <2>1, <2>2
<1>3. Typed
  <2>1. <<>> \in Value
    BY DEF Value
  <2>2. environ \in [Macros -> Value \cup {UNSET}] /\ inherited = environ
    BY <1>1, ValuesAssumption DEF Init, Value
  <2>3. macro \in [Macros -> [value : Value, where : Origins \cup {UNDEF}]]
    BY <1>1, <2>1 DEF Init
  <2>4. given \in [Origins -> [Macros -> Value \cup {UNSET}]]
    BY <1>1 DEF Init, Nothing
  <2>5. makeflags \in Seq(Token) /\ phase \in {"defaults", "makeflags", "makefiles", "usage"}
    BY <1>1 DEF Init
  <2>6. eflag \in BOOLEAN
    BY <1>1 DEF Init
  <2> QED BY <1>2, <2>2, <2>3, <2>4, <2>5, <2>6 DEF Typed
<1>4. Fresh /\ FlagsFirst
  BY <1>1 DEF Init, Fresh, FlagsFirst, Nothing, Origins
<1> QED BY <1>1, <1>3, <1>4 DEF MInv, Init

\* What may be asked of setmacro(): the makefiles come after everything else,
\* and only the command line exports.
Asked(where, export) ==
  \/ where = MAKEFLAGS /\ export = FALSE /\ phase = "makeflags" /\ todo # <<>>
  \/ where = CMDLINE   /\ export = TRUE  /\ phase = "makeflags"
  \/ where = MAKEFILE  /\ export = FALSE /\ phase = "makefiles"

\* setmacro() leaves every entry of the table right.
LEMMA SetKeepsEntries ==
  ASSUME MInv, NEW n \in Macros, NEW v \in Value, NEW where, NEW export,
         Asked(where, export), setmacro(n, v, where, export),
         phase' = phase, eflag' = eflag, inherited' = inherited
  PROVE  /\ macro' \in [Macros -> [value : Value, where : Origins \cup {UNDEF}]]
         /\ environ' \in [Macros -> Value \cup {UNSET}]
         /\ given' \in [Origins -> [Macros -> Value \cup {UNSET}]]
         /\ \A k \in Macros : Entry(k)'
<1> DEFINE new == [value |-> v, where |-> where]
<1>0. /\ Typed /\ where \in Origins /\ v # UNSET
      /\ \A k \in Macros : Entry(k)
  BY UnsetAssumption DEF MInv, Asked, Origins, Value
<1>1. /\ given' = [given EXCEPT ![where][n] = v]
      /\ \/ Overrides(where, wherefrom(n)) /\ macro' = [macro EXCEPT ![n] = new]
            /\ environ' = IF export /\ n # SHELL THEN [environ EXCEPT ![n] = v] ELSE environ
         \/ ~Overrides(where, wherefrom(n)) /\ macro' = macro /\ environ' = environ
  BY DEF setmacro
<1>2. new \in [value : Value, where : Origins \cup {UNDEF}]
  BY <1>0
<1>3. macro' \in [Macros -> [value : Value, where : Origins \cup {UNDEF}]]
  BY <1>0, <1>1, <1>2 DEF Typed
<1>4. environ' \in [Macros -> Value \cup {UNSET}]
  BY <1>0, <1>1 DEF Typed
<1>5. given' \in [Origins -> [Macros -> Value \cup {UNSET}]]
  BY <1>0, <1>1 DEF Typed
<1>6. ASSUME NEW k \in Macros, k # n PROVE Entry(k)'
  <2>1. macro'[k] = macro[k] /\ environ'[k] = environ[k]
    BY <1>0, <1>1, <1>6 DEF Typed
  <2>2. \A w \in Origins : given'[w][k] = given[w][k]
    BY <1>0, <1>1, <1>6 DEF Typed
  <2>3. CMDLINE \in Origins /\ MAKEFLAGS \in Origins /\ MAKEFILE \in Origins /\ INTERNAL \in Origins
    BY DEF Origins
  <2>4. Env(k)' = Env(k)
    BY DEF Env
  <2>5. Entry(k)
    BY <1>0
  <2> QED BY <2>1, <2>2, <2>3, <2>4, <2>5 DEF Entry
<1>7. Entry(n)'
  <2>1. given'[where][n] = v /\ \A w \in Origins : w # where => given'[w][n] = given[w][n]
    BY <1>0, <1>1 DEF Typed
  <2>2. Env(n)' = Env(n) /\ Entry(n)
    BY <1>0 DEF Env
  <2>3. \/ Overrides(where, wherefrom(n)) /\ macro'[n] = new
           /\ environ'[n] = IF export /\ n # SHELL THEN v ELSE environ[n]
        \/ ~Overrides(where, wherefrom(n)) /\ macro'[n] = macro[n] /\ environ'[n] = environ[n]
    BY <1>0, <1>1 DEF Typed
  <2>4. CASE where = CMDLINE
    <3>1. Overrides(where, wherefrom(n))
      BY <2>4, <1>0 DEF Overrides, wherefrom, Typed, Origins, UNDEF, INTERNAL, MAKEFILE, MAKEFLAGS, CMDLINE, ENVIRON
    <3> QED BY <1>0, <2>1, <2>2, <2>3, <2>4, <3>1
            DEF Entry, Asked, Origins, UNDEF, INTERNAL, MAKEFILE, MAKEFLAGS, CMDLINE
  <2>5. CASE where = MAKEFLAGS
    <3>1. given[CMDLINE][n] = UNSET
      BY <2>5 DEF MInv, FlagsFirst, Asked, MAKEFLAGS, MAKEFILE, CMDLINE
    <3>2. Overrides(where, wherefrom(n))
      BY <2>5, <2>2, <1>0, <3>1 DEF Entry, Overrides, wherefrom, Typed, Origins, UNDEF, INTERNAL, MAKEFILE, MAKEFLAGS, CMDLINE, ENVIRON
    <3>3. macro'[n] = new /\ environ'[n] = environ[n]
      BY <2>3, <3>2, <2>5 DEF Asked, MAKEFLAGS, MAKEFILE, CMDLINE
    <3> QED BY <1>0, <2>1, <2>2, <2>5, <3>1, <3>3
            DEF Entry, Asked, Origins, UNDEF, INTERNAL, MAKEFILE, MAKEFLAGS, CMDLINE
  <2>6. CASE where = MAKEFILE
    <3>0. phase = "makefiles" /\ export = FALSE
      BY <2>6 DEF Asked, MAKEFILE, MAKEFLAGS, CMDLINE
    <3>1. environ'[n] = environ[n]
      BY <2>3, <3>0
    <3>2. CASE given[CMDLINE][n] # UNSET \/ given[MAKEFLAGS][n] # UNSET
      <4>1. macro[n].where \in {CMDLINE, MAKEFLAGS}
        BY <3>2, <2>2 DEF Entry
      <4>2. ~Overrides(where, wherefrom(n))
        BY <4>1, <2>6, <1>0 DEF Overrides, wherefrom, Shown, Typed, UNDEF, INTERNAL, MAKEFILE, MAKEFLAGS, CMDLINE, ENVIRON
      <4> QED BY <1>0, <2>1, <2>2, <2>3, <2>6, <3>0, <3>1, <3>2, <4>2
              DEF Entry, Origins, UNDEF, INTERNAL, MAKEFILE, MAKEFLAGS, CMDLINE
    <3>3. CASE given[CMDLINE][n] = UNSET /\ given[MAKEFLAGS][n] = UNSET
      <4>1. environ[n] = inherited[n]
        BY <3>3, <2>2 DEF Entry
      <4>2. CASE eflag /\ Env(n) # UNSET
        <5>1. ~Overrides(where, wherefrom(n))
          BY <4>1, <4>2, <2>6 DEF Overrides, wherefrom, Shown, Env, UNDEF, INTERNAL, MAKEFILE, MAKEFLAGS, CMDLINE, ENVIRON
        <5> QED BY <1>0, <2>1, <2>2, <2>3, <2>6, <3>0, <3>1, <3>3, <4>2, <5>1
                DEF Entry, Origins, UNDEF, INTERNAL, MAKEFILE, MAKEFLAGS, CMDLINE
      <4>3. CASE ~(eflag /\ Env(n) # UNSET)
        <5>1. macro[n].where \in {UNDEF, INTERNAL, MAKEFILE}
          BY <3>3, <4>3, <2>2 DEF Entry
        <5>2. Overrides(where, wherefrom(n))
          BY <5>1, <4>1, <4>3, <2>6 DEF Overrides, wherefrom, Shown, Env, UNDEF, INTERNAL, MAKEFILE, MAKEFLAGS, CMDLINE, ENVIRON
        <5>3. macro'[n] = new
          BY <2>3, <5>2
        <5> QED BY <1>0, <2>1, <2>2, <2>6, <3>0, <3>1, <3>3, <4>3, <5>3
                DEF Entry, Origins, UNDEF, INTERNAL, MAKEFILE, MAKEFLAGS, CMDLINE
      <4> QED BY <4>2, <4>3
    <3> QED BY <3>2, <3>3
  <2> QED BY <2>4, <2>5, <2>6 DEF Asked
<1> QED BY <1>3, <1>4, <1>5, <1>6, <1>7

\* A definition on the command line or in MAKEFLAGS keeps the invariant.
LEMMA AssignInv ==
  ASSUME MInv, NEW n \in Macros, NEW v \in Value, NEW where, NEW export,
         Asked(where, export), where # MAKEFILE, assign(n, v, where, export),
         phase' = phase, inherited' = inherited,
         todo' \in Seq(Token), todo' # <<>> => todo # <<>> /\ where = MAKEFLAGS
  PROVE  MInv'
<1>1. setmacro(n, v, where, export) /\ eflag' = eflag
  BY DEF assign
<1>2. /\ macro' \in [Macros -> [value : Value, where : Origins \cup {UNDEF}]]
      /\ environ' \in [Macros -> Value \cup {UNSET}]
      /\ given' \in [Origins -> [Macros -> Value \cup {UNSET}]]
      /\ \A k \in Macros : Entry(k)'
  BY <1>1, SetKeepsEntries
<1>3. makeflags' \in Seq(Token)
  <2>1. makeflags \in Seq(Token) /\ AsWords(n, v) \in Seq(Token)
    BY WordsTyped DEF MInv, Typed
  <2> QED BY <2>1 DEF assign, appendmakeflags
<1>4. Typed'
  BY <1>1, <1>2, <1>3 DEF MInv, Typed
<1>5. Fresh'
  BY DEF Fresh, Asked
<1>6. FlagsFirst'
  <2>1. SUFFICES ASSUME todo' # <<>>, NEW k \in Macros PROVE given'[CMDLINE][k] = UNSET
    BY DEF FlagsFirst
  <2>2. given[CMDLINE][k] = UNSET /\ where = MAKEFLAGS
    BY <2>1 DEF MInv, FlagsFirst
  <2>3. given'[CMDLINE] = given[CMDLINE]
    BY <1>1, <2>2 DEF setmacro, MInv, Typed, Origins, CMDLINE, MAKEFLAGS
  <2> QED BY <2>2, <2>3
<1> QED BY <1>2, <1>4, <1>5, <1>6 DEF MInv

\* An option keeps the invariant: the makefiles have not been read.
LEMMA OptionInv ==
  ASSUME MInv, NEW w \in Words, parseflag(w), phase = "makeflags",
         phase' \in {"makeflags", "usage"}, inherited' = inherited,
         todo' \in Seq(Token), todo' # <<>> => todo # <<>>
  PROVE  MInv'
<1>1. /\ macro' = macro /\ environ' = environ /\ given' = given
      /\ eflag' \in BOOLEAN /\ makeflags' \in Seq(Token)
  <2>1. Word(w) \in Token
    BY DEF Word, Token
  <2>2. <<Word(w)>> \in Seq(Token)
    BY <2>1, OneElement
  <2>3. makeflags \in Seq(Token) /\ eflag \in BOOLEAN
    BY DEF MInv, Typed
  <2>4. makeflags' \in Seq(Token)
    <3> DEFINE text == <<Word(w)>>
    <3> HIDE DEF text
    <3>1. makeflags \o text \in Seq(Token)
      BY <2>2, <2>3 DEF text
    <3>2. makeflags' = makeflags \/ makeflags' = makeflags \o text
      BY DEF parseflag, appendmakeflags, text
    <3> QED BY <2>3, <3>1, <3>2
  <2>5. eflag' \in BOOLEAN
    BY <2>3 DEF parseflag
  <2> QED BY <2>4, <2>5 DEF parseflag
<1>2. Typed' /\ Fresh' /\ FlagsFirst'
  BY <1>1 DEF MInv, Typed, Fresh, FlagsFirst
<1>3. ASSUME NEW k \in Macros PROVE Entry(k)'
  <2>1. Entry(k) /\ Env(k)' = Env(k)
    BY DEF MInv, Env
  <2>2. given[MAKEFILE][k] = UNSET
    BY <2>1 DEF Entry
  <2> QED BY <1>1, <2>1, <2>2 DEF Entry
<1> QED BY <1>2, <1>3 DEF MInv

\* The defaults keep the invariant: what the environment defines, they do not.
LEMMA InjectInv == ASSUME MInv, inject PROVE MInv'
<1>1. /\ Typed /\ phase = "defaults" /\ environ = inherited /\ eflag = FALSE
      /\ \A n \in Macros : macro[n] = [value |-> <<>>, where |-> UNDEF]
      /\ \A w \in Origins, n \in Macros : given[w][n] = UNSET
  BY DEF MInv, Fresh, inject
<1>2. <<BUILTIN>> \in Value /\ <<BUILTIN>> # UNSET
  BY WordsAssumption, OneElement, UnsetAssumption DEF Value
<1>3. INTERNAL \in Origins /\ CMDLINE \in Origins /\ MAKEFLAGS \in Origins /\ MAKEFILE \in Origins
      /\ INTERNAL # CMDLINE /\ INTERNAL # MAKEFLAGS /\ INTERNAL # MAKEFILE
  BY DEF Origins, INTERNAL, CMDLINE, MAKEFLAGS, MAKEFILE
<1> DEFINE built == [value |-> <<BUILTIN>>, where |-> INTERNAL]
           base  == [n \in Macros |-> IF n \in Builtin THEN <<BUILTIN>> ELSE UNSET]
<1>4. macro' \in [Macros -> [value : Value, where : Origins \cup {UNDEF}]]
  <2>1. built \in [value : Value, where : Origins \cup {UNDEF}]
    BY <1>2, <1>3
  <2>2. \A n \in Macros : macro[n] \in [value : Value, where : Origins \cup {UNDEF}]
    BY <1>1 DEF Typed
  <2> QED BY <2>1, <2>2 DEF inject
<1>5. given' = [given EXCEPT ![INTERNAL] = base] /\ base \in [Macros -> Value \cup {UNSET}]
  BY <1>2 DEF inject
<1>6. given' \in [Origins -> [Macros -> Value \cup {UNSET}]]
  BY <1>1, <1>5 DEF Typed
<1>7. Typed' /\ Fresh'
  BY <1>1, <1>4, <1>6 DEF Typed, Fresh, inject
<1>8. /\ \A n \in Macros : given'[INTERNAL][n] = base[n]
      /\ \A w \in Origins, n \in Macros : w # INTERNAL => given'[w][n] = UNSET
  <2>1. given \in [Origins -> [Macros -> Value \cup {UNSET}]]
    BY <1>1 DEF Typed
  <2> HIDE DEF base
  <2>2. given'[INTERNAL] = base /\ \A w \in Origins : w # INTERNAL => given'[w] = given[w]
    BY <1>3, <1>5, <2>1
  <2> QED BY <1>1, <2>2
<1>9. FlagsFirst'
  BY <1>3, <1>8 DEF FlagsFirst
<1>10. ASSUME NEW n \in Macros PROVE Entry(n)'
  <2>1. /\ environ'[n] = inherited'[n] /\ Env(n)' = Env(n)
        /\ given'[CMDLINE][n] = UNSET /\ given'[MAKEFLAGS][n] = UNSET /\ given'[MAKEFILE][n] = UNSET
    BY <1>1, <1>3, <1>8 DEF inject, Env
  <2>2. macro'[n] = IF n \in Builtin /\ Overrides(INTERNAL, wherefrom(n)) THEN built ELSE macro[n]
    BY DEF inject
  <2>3. Overrides(INTERNAL, wherefrom(n)) <=> Env(n) = UNSET
    <3>1. macro[n].where = UNDEF /\ environ[n] = inherited[n]
      BY <1>1
    <3>2. Shown(n) <=> Env(n) # UNSET
      BY <3>1 DEF Shown, Env
    <3>3. wherefrom(n) = IF Env(n) # UNSET THEN ENVIRON ELSE UNDEF
      BY <3>1, <3>2 DEF wherefrom
    <3> QED BY <3>3 DEF Overrides, UNDEF, INTERNAL, MAKEFILE, MAKEFLAGS, CMDLINE, ENVIRON
  <2>4. given'[INTERNAL][n] = IF n \in Builtin THEN <<BUILTIN>> ELSE UNSET
    BY <1>8
  <2>5. macro[n] = [value |-> <<>>, where |-> UNDEF]
    BY <1>1
  <2> QED BY <1>2, <2>1, <2>2, <2>3, <2>4, <2>5 DEF Entry
<1> QED BY <1>7, <1>9, <1>10 DEF MInv

\* Every step keeps the invariant.
LEMMA NextMacros == ASSUME MInv, [Next]_vars PROVE MInv'
<1>1. CASE inject
  BY <1>1, InjectInv
<1>2. CASE parsemakeflags
  <2> DEFINE t == Head(todo)
  <2>1. /\ phase = "makeflags" /\ todo # <<>> /\ todo \in Seq(Token) /\ inherited' = inherited
        /\ t \in Token /\ Tail(todo) \in Seq(Token)
    BY <1>2 DEF parsemakeflags, MInv, Typed
  <2>2. todo' \in Seq(Token)
    BY <2>1, <1>2 DEF parsemakeflags
  <2>3. t.word \in Words /\ t.name \in Macros \cup {UNSET}
    BY <2>1 DEF Token
  <2>4. CASE t.name # UNSET
    <3> DEFINE v == IF t.word = EMPTY THEN <<>> ELSE <<t.word>>
    <3>1. v \in Value
      BY <2>3, OneElement DEF Value
    <3>2. assign(t.name, v, MAKEFLAGS, FALSE) /\ phase' = phase
      BY <1>2, <2>4 DEF parsemakeflags
    <3>3. Asked(MAKEFLAGS, FALSE)
      BY <2>1 DEF Asked
    <3>4. t.name \in Macros /\ MAKEFLAGS # MAKEFILE
      BY <2>3, <2>4 DEF MAKEFLAGS, MAKEFILE
    <3> HIDE DEF v, t
    <3> QED BY <2>1, <2>2, <3>1, <3>2, <3>3, <3>4, AssignInv
  <2>5. CASE t.name = UNSET
    <3>1. parseflag(t.word) /\ phase' \in {"makeflags", "usage"}
      BY <1>2, <2>1, <2>5 DEF parsemakeflags
    <3> HIDE DEF t
    <3> QED BY <2>1, <2>2, <2>3, <3>1, OptionInv
  <2> QED BY <2>4, <2>5
<1>3. CASE argument
  <2>1. phase = "makeflags" /\ phase' = phase /\ todo = <<>> /\ todo' = todo /\ inherited' = inherited
        /\ todo' \in Seq(Token)
    BY <1>3 DEF argument, MInv, Typed
  <2>2. CASE \E w \in Options : parseflag(w)
    BY <2>1, <2>2, OptionInv, WordsAssumption
  <2>3. CASE \E n \in Macros, v \in Values : assign(n, v, CMDLINE, TRUE)
    <3>1. PICK n \in Macros, v \in Values : assign(n, v, CMDLINE, TRUE)
      BY <2>3
    <3>2. v \in Value /\ Asked(CMDLINE, TRUE) /\ CMDLINE # MAKEFILE
      BY <2>1, ValuesAssumption DEF Value, Asked, CMDLINE, MAKEFILE
    <3> QED BY <2>1, <3>1, <3>2, AssignInv
  <2> QED BY <1>3, <2>2, <2>3 DEF argument
<1>4. CASE parsemakefiles
  <2>1. Typed' /\ Fresh' /\ FlagsFirst'
    BY <1>4 DEF parsemakefiles, MInv, Typed, Fresh, FlagsFirst
  <2>2. ASSUME NEW n \in Macros PROVE Entry(n)'
    <3>1. Entry(n) /\ Env(n)' = Env(n)
      BY <1>4 DEF MInv, Env, parsemakefiles
    <3> QED BY <1>4, <3>1 DEF Entry, parsemakefiles
  <2> QED BY <2>1, <2>2 DEF MInv
<1>5. CASE definition
  <2>1. PICK n \in Macros, v \in Values : setmacro(n, v, MAKEFILE, FALSE)
    BY <1>5 DEF definition
  <2>2. v \in Value /\ Asked(MAKEFILE, FALSE) /\ phase = "makefiles"
        /\ phase' = phase /\ eflag' = eflag /\ inherited' = inherited
        /\ todo' = todo /\ makeflags' = makeflags
    BY <1>5, ValuesAssumption DEF definition, Value, Asked
  <2>3. /\ macro' \in [Macros -> [value : Value, where : Origins \cup {UNDEF}]]
        /\ environ' \in [Macros -> Value \cup {UNSET}]
        /\ given' \in [Origins -> [Macros -> Value \cup {UNSET}]]
        /\ \A k \in Macros : Entry(k)'
    BY <2>1, <2>2, SetKeepsEntries
  <2>4. given'[CMDLINE] = given[CMDLINE]
    BY <2>1 DEF setmacro, MInv, Typed, Origins, CMDLINE, MAKEFILE
  <2>5. Typed' /\ Fresh' /\ FlagsFirst'
    BY <2>2, <2>3, <2>4 DEF MInv, Typed, Fresh, FlagsFirst
  <2> QED BY <2>3, <2>5 DEF MInv
<1>6. CASE submake
  <2>1. /\ phase' = "defaults" /\ environ' = environ /\ inherited' = environ /\ eflag' = FALSE
        /\ macro' = [n \in Macros |-> [value |-> <<>>, where |-> UNDEF]]
        /\ given' = [w \in Origins |-> Nothing]
        /\ todo' = makeflags /\ makeflags' = <<>>
    BY <1>6 DEF submake
  <2>2. Fresh' /\ FlagsFirst'
    BY <2>1 DEF Fresh, FlagsFirst, Nothing, Origins
  <2>3. macro' \in [Macros -> [value : Value, where : Origins \cup {UNDEF}]]
    <3>1. <<>> \in Value
      BY DEF Value
    <3> QED BY <2>1, <3>1
  <2>4. given' \in [Origins -> [Macros -> Value \cup {UNSET}]]
    BY <2>1 DEF Nothing
  <2>5. todo' \in Seq(Token) /\ makeflags' \in Seq(Token) /\ environ' \in [Macros -> Value \cup {UNSET}]
    BY <2>1 DEF MInv, Typed
  <2>6. eflag' \in BOOLEAN /\ phase' \in {"defaults", "makeflags", "makefiles", "usage"}
    BY <2>1
  <2>7. Typed'
    BY <2>1, <2>3, <2>4, <2>5, <2>6 DEF Typed
  <2> QED BY <2>1, <2>2, <2>7 DEF MInv
<1>7. CASE UNCHANGED vars
  <2>1. Typed' /\ Fresh' /\ FlagsFirst'
    BY <1>7 DEF vars, MInv, Typed, Fresh, FlagsFirst
  <2>2. ASSUME NEW n \in Macros, phase # "defaults" PROVE Entry(n)'
    <3>1. Entry(n) /\ Env(n)' = Env(n)
      BY <1>7, <2>2 DEF MInv, Env, vars
    <3> QED BY <1>7, <3>1 DEF Entry, vars
  <2> QED BY <1>7, <2>1, <2>2 DEF MInv, vars
<1> QED BY <1>1, <1>2, <1>3, <1>4, <1>5, <1>6, <1>7 DEF Next

\* Once the makefiles are read every macro has the value of its strongest
\* source, but for the definitions of MAKEFLAGS that -e hides.
THEOREM PrecedenceHolds == Spec => []MacroPrecedenceButHidden
<1>1. MInv => MacroPrecedenceButHidden
  <2>1. SUFFICES ASSUME MInv, phase = "makefiles", NEW n \in Macros, ~Hidden(n)
                 PROVE  getmacro(n) = Wanted(n)
    BY DEF MacroPrecedenceButHidden
  <2>2. Entry(n)
    BY <2>1 DEF MInv
  <2>3. UNSET # <<>>
    <3>1. <<>> \in Seq(Words)
      OBVIOUS
    <3> QED BY <3>1, UnsetAssumption
  <2>4. CASE given[CMDLINE][n] # UNSET
    BY <2>2, <2>4 DEF Entry, getmacro, Shown, Wanted, UNDEF, INTERNAL, CMDLINE
  <2>5. CASE given[CMDLINE][n] = UNSET /\ given[MAKEFLAGS][n] # UNSET
    BY <2>1, <2>2, <2>5 DEF Entry, Hidden, getmacro, Shown, Wanted, Env, UNDEF, INTERNAL, MAKEFLAGS
  <2>6. CASE given[CMDLINE][n] = UNSET /\ given[MAKEFLAGS][n] = UNSET
    BY <2>2, <2>3, <2>6 DEF Entry, getmacro, Shown, Wanted, Env, UNDEF, INTERNAL, MAKEFILE
  <2> QED BY <2>4, <2>5, <2>6
<1> QED BY <1>1, InitMacros, NextMacros, PTL DEF Spec

(***************************************************************************)
(* What a make started by make understands of the MAKEFLAGS it is handed.  *)
(***************************************************************************)

\* No value has several words: the text of MAKEFLAGS is split at the blanks, and
\* only the first word of a value would reach the other make.
SingleWords == \A v \in Values : Len(v) <= 1 /\ v # <<EMPTY>>

\* The value that the token t gives to its macro.
Meant(t) == IF t.word = EMPTY THEN <<>> ELSE <<t.word>>

\* The words ts speak of n; the last of them that does gives it the value v.
Mentioned(ts, n) == \E i \in 1 .. Len(ts) : ts[i].name = n
Gives(ts, n, v) ==
  \E i \in 1 .. Len(ts) :
    /\ ts[i].name = n /\ Meant(ts[i]) = v
    /\ \A j \in 1 .. Len(ts) : j > i => ts[j].name # n

\* The words ts hold options and definitions only; they hold -e.
Sane(ts) == \A i \in 1 .. Len(ts) : ts[i].name = UNSET => ts[i].word \in Options
HasE(ts) == \E i \in 1 .. Len(ts) : ts[i].name = UNSET /\ ts[i].word = "-e"

\* What the command line, or else MAKEFLAGS, said of n.
Said(n) == IF given[CMDLINE][n] # UNSET THEN given[CMDLINE][n] ELSE given[MAKEFLAGS][n]

\* The words of MAKEFLAGS that this make has so far tell all that was said.
Told(n) == IF Said(n) = UNSET THEN ~Mentioned(makeflags, n) ELSE Gives(makeflags, n, Said(n))

\* The value of n when MAKEFLAGS or the command line gave it v.
Seen(n, e, v) == IF n # SHELL /\ e /\ environ[n] # UNSET THEN environ[n] ELSE v

\* The words that were handed down, those read and those still to be read, give
\* n the value that the make above used.
Passed(n) == \E v \in Value : /\ Gives(makeflags \o todo, n, v)
                              /\ above.value[n] = Seen(n, above.eflag, v)

Handed ==
  /\ phase # "usage"
  /\ phase = "makefiles" => todo = <<>>
  /\ phase = "defaults" => makeflags = <<>>
  /\ Sane(makeflags) /\ Sane(todo)
  /\ eflag <=> HasE(makeflags)
  /\ \A n \in Macros : Told(n)
  /\ level \in Nat
  /\ level > 1 => /\ above.eflag <=> HasE(makeflags \o todo)
                  /\ above.eflag \in BOOLEAN
                  /\ above.fixed \subseteq Macros
                  /\ \A n \in above.fixed : Passed(n)

\* A definition with a value of at most one word is one word.
LEMMA OneWordArgument ==
  ASSUME NEW n \in Macros, NEW v \in Value, Len(v) <= 1, v # <<EMPTY>>
  PROVE  \E t \in Token : AsWords(n, v) = <<t>> /\ t.name = n /\ Meant(t) = v
<1>1. CASE v = <<>>
  <2> DEFINE t == [name |-> n, word |-> EMPTY]
  <2>1. t \in Token /\ t.name = n /\ Meant(t) = v
    BY <1>1, WordsAssumption DEF Token, Meant
  <2>2. AsWords(n, v) = <<t>>
    BY <1>1 DEF AsWords
  <2> QED BY <2>1, <2>2
<1>2. CASE v # <<>>
  <2>1. Len(v) = 1 /\ Head(v) = v[1] /\ v[1] \in Words /\ v = <<v[1]>>
    <3>1. v \in Seq(Words) /\ Len(v) \in Nat /\ Len(v) # 0
      BY <1>2 DEF Value
    <3>2. Len(v) = 1 /\ Head(v) = v[1] /\ v[1] \in Words
      <4>1. Len(v) = 1
        <5> DEFINE l == Len(v)
        <5>1. l \in Nat /\ l # 0 /\ l <= 1
          BY <3>1
        <5> HIDE DEF l
        <5>2. l = 1
          BY <5>1
        <5> QED BY <5>2 DEF l
      <4>2. v[1] \in Words
        BY <3>1, <4>1
      <4>3. Head(v) = v[1]
        BY <1>2, <3>1
      <4> QED BY <4>1, <4>2, <4>3
    <3>3. <<v[1]>> \in Seq(Words) /\ Len(<<v[1]>>) = 1 /\ <<v[1]>>[1] = v[1]
      BY <3>2, OneElement
    <3>4. \A i \in 1 .. Len(v) : v[i] = <<v[1]>>[i]
      BY <3>2, <3>3
    <3> QED BY <3>1, <3>2, <3>3, <3>4, SeqEqual
  <2> DEFINE t == [name |-> n, word |-> v[1]]
  <2>2. t \in Token /\ t.name = n
    BY <2>1 DEF Token
  <2>3. Meant(t) = v
    BY <2>1 DEF Meant
  <2>4. [i \in 1 .. Len(v) - 1 |-> Word(v[i + 1])] = <<>>
    BY <2>1
  <2>5. AsWords(n, v) = <<t>>
    <3>1. <<t>> \in Seq(Token)
      BY <2>2, OneElement
    <3>2. <<t>> \o <<>> = <<t>>
      BY <3>1, ConcatEmptySeq
    <3> QED BY <1>2, <2>1, <2>4, <3>2 DEF AsWords
  <2> QED BY <2>2, <2>3, <2>5
<1> QED BY <1>1, <1>2

\* The elements of a sequence with one more.
LEMMA OneMore ==
  ASSUME NEW ts \in Seq(Token), NEW t \in Token
  PROVE  /\ ts \o <<t>> \in Seq(Token) /\ Len(ts) \in Nat
         /\ Len(ts \o <<t>>) = Len(ts) + 1
         /\ \A i \in 1 .. Len(ts) : (ts \o <<t>>)[i] = ts[i]
         /\ (ts \o <<t>>)[Len(ts) + 1] = t
<1>1. <<t>> \in Seq(Token) /\ Len(<<t>>) = 1 /\ <<t>>[1] = t /\ Len(ts) \in Nat
  BY OneElement
<1> QED BY <1>1, ConcatProperties

\* What one word more tells.
LEMMA WordTells ==
  ASSUME NEW ts \in Seq(Token), NEW t \in Token, NEW us, us = ts \o <<t>>
  PROVE  /\ Sane(ts) /\ (t.name = UNSET => t.word \in Options) => Sane(us)
         /\ HasE(us) <=> HasE(ts) \/ (t.name = UNSET /\ t.word = "-e")
         /\ t.name # UNSET => Gives(us, t.name, Meant(t))
<1> DEFINE l == Len(ts)
<1>1. l \in Nat /\ Len(us) = l + 1 /\ us[l + 1] = t /\ \A i \in 1 .. l : us[i] = ts[i]
  BY OneMore
<1> HIDE DEF l
<1>2. l = Len(ts)
  BY DEF l
<1>3. \A i \in 1 .. l + 1 : i \in 1 .. l \/ i = l + 1
  BY <1>1
<1>4. Sane(ts) /\ (t.name = UNSET => t.word \in Options) => Sane(us)
  BY <1>1, <1>2, <1>3 DEF Sane
<1>5. HasE(us) <=> HasE(ts) \/ (t.name = UNSET /\ t.word = "-e")
  <2>1. l + 1 \in 1 .. l + 1 /\ \A i \in 1 .. l : i \in 1 .. l + 1
    BY <1>1
  <2> QED BY <1>1, <1>2, <1>3, <2>1 DEF HasE
<1>6. Gives(us, t.name, Meant(t))
  <2>1. l + 1 \in 1 .. Len(us) /\ ~ \E j \in 1 .. Len(us) : j > l + 1
    BY <1>1
  <2> QED BY <1>1, <2>1 DEF Gives
<1> QED BY <1>4, <1>5, <1>6

\* A word that does not speak of n changes nothing for n.
LEMMA OtherWord ==
  ASSUME NEW ts \in Seq(Token), NEW t \in Token, NEW n, t.name # n,
         NEW us, us = ts \o <<t>>
  PROVE  /\ Mentioned(us, n) => Mentioned(ts, n)
         /\ \A v : Gives(ts, n, v) => Gives(us, n, v)
<1> DEFINE l == Len(ts)
<1>1. l \in Nat /\ Len(us) = l + 1 /\ us[l + 1] = t /\ \A i \in 1 .. l : us[i] = ts[i]
  BY OneMore
<1> HIDE DEF l
<1>2. l = Len(ts)
  BY DEF l
<1>3. (\A i \in 1 .. l + 1 : i \in 1 .. l \/ i = l + 1) /\ \A i \in 1 .. l : i \in 1 .. l + 1
  BY <1>1
<1>4. Mentioned(us, n) => Mentioned(ts, n)
  BY <1>1, <1>2, <1>3 DEF Mentioned
<1>5. ASSUME NEW v, Gives(ts, n, v) PROVE Gives(us, n, v)
  <2>1. PICK i \in 1 .. l : /\ ts[i].name = n /\ Meant(ts[i]) = v
                            /\ \A j \in 1 .. l : j > i => ts[j].name # n
    BY <1>2, <1>5 DEF Gives
  <2>2. us[i].name = n /\ Meant(us[i]) = v /\ i \in 1 .. Len(us)
    BY <1>1, <1>3, <2>1
  <2>3. \A j \in 1 .. Len(us) : j > i => us[j].name # n
    BY <1>1, <1>3, <2>1
  <2> QED BY <2>2, <2>3 DEF Gives
<1> QED BY <1>4, <1>5

\* Only one value is given last.
LEMMA GivesOnce ==
  ASSUME NEW ts \in Seq(Token), NEW n, NEW v, NEW w, Gives(ts, n, v), Gives(ts, n, w)
  PROVE  v = w /\ Mentioned(ts, n)
<1>1. Len(ts) \in Nat
  OBVIOUS
<1>2. PICK i \in 1 .. Len(ts) : ts[i].name = n /\ Meant(ts[i]) = v
                                /\ \A j \in 1 .. Len(ts) : j > i => ts[j].name # n
  BY DEF Gives
<1>3. PICK k \in 1 .. Len(ts) : ts[k].name = n /\ Meant(ts[k]) = w
                                /\ \A j \in 1 .. Len(ts) : j > k => ts[j].name # n
  BY DEF Gives
<1>4. ~(i > k) /\ ~(k > i)
  BY <1>2, <1>3
<1>5. i = k
  BY <1>1, <1>4
<1> QED BY <1>2, <1>3, <1>5 DEF Mentioned

\* Reading a word leaves what is read and what is not together the same.
LEMMA ReadOne ==
  ASSUME NEW ts \in Seq(Token), NEW us \in Seq(Token), us # <<>>
  PROVE  /\ Head(us) \in Token /\ Tail(us) \in Seq(Token)
         /\ (ts \o <<Head(us)>>) \o Tail(us) = ts \o us
         /\ Sane(us) => Sane(Tail(us)) /\ (Head(us).name = UNSET => Head(us).word \in Options)
<1>1. /\ Head(us) \in Token /\ Tail(us) \in Seq(Token) /\ Head(us) = us[1]
      /\ Len(us) \in Nat /\ Len(us) >= 1 /\ Len(Tail(us)) = Len(us) - 1
      /\ \A i \in 1 .. Len(us) - 1 : Tail(us)[i] = us[i + 1]
  OBVIOUS
<1>2. <<Head(us)>> \in Seq(Token)
  BY <1>1, OneElement
<1>3. <<Head(us)>> \o Tail(us) = us
  <2> DEFINE h == <<Head(us)>>
             rest == Tail(us)
             both == h \o rest
  <2>1. h \in Seq(Token) /\ Len(h) = 1 /\ h[1] = us[1]
    BY <1>1, <1>2
  <2>0. rest \in Seq(Token) /\ Len(rest) = Len(us) - 1 /\ rest = Tail(us)
    BY <1>1
  <2> HIDE DEF h, rest
  <2>2. /\ both \in Seq(Token) /\ Len(both) = 1 + Len(rest)
        /\ \A i \in 1 .. 1 + Len(rest) : both[i] = IF i <= 1 THEN h[i] ELSE rest[i - 1]
    <3>1. /\ both \in Seq(Token) /\ Len(both) = Len(h) + Len(rest)
          /\ \A i \in 1 .. Len(h) + Len(rest) :
               both[i] = IF i <= Len(h) THEN h[i] ELSE rest[i - Len(h)]
      BY <2>0, <2>1, ConcatProperties
    <3> QED BY <2>1, <3>1
  <2> HIDE DEF both
  <2>3. Len(both) = Len(us)
    BY <1>1, <2>0, <2>2
  <2>4. ASSUME NEW i \in 1 .. Len(us) PROVE both[i] = us[i]
    <3>1. CASE i = 1
      BY <1>1, <2>0, <2>1, <2>2, <3>1
    <3>2. CASE i # 1
      <4>1. i \in 1 .. 1 + Len(rest) /\ ~(i <= 1) /\ i - 1 \in 1 .. Len(us) - 1 /\ (i - 1) + 1 = i
        BY <1>1, <2>0, <3>2
      <4>2. both[i] = rest[i - 1]
        BY <2>2, <4>1
      <4>3. rest[i - 1] = us[(i - 1) + 1]
        BY <1>1, <2>0, <4>1
      <4> QED BY <4>1, <4>2, <4>3
    <3> QED BY <3>1, <3>2
  <2>5. both = us
    BY <2>2, <2>3, <2>4, SeqEqual
  <2> QED BY <2>5 DEF both, h, rest
<1>4. (ts \o <<Head(us)>>) \o Tail(us) = ts \o us
  <2>1. (ts \o <<Head(us)>>) \o Tail(us) = ts \o (<<Head(us)>> \o Tail(us))
    BY <1>1, <1>2, ConcatAssociative
  <2> QED BY <1>3, <2>1
<1>5. Sane(us) => Sane(Tail(us)) /\ (Head(us).name = UNSET => Head(us).word \in Options)
  <2>1. \A i \in 1 .. Len(us) - 1 : i + 1 \in 1 .. Len(us)
    BY <1>1
  <2>2. 1 \in 1 .. Len(us)
    BY <1>1
  <2> QED BY <1>1, <2>1, <2>2 DEF Sane
<1> QED BY <1>1, <1>4, <1>5

\* A definition that is handed down says all there is to say.
LEMMA AssignHanded ==
  ASSUME MInv, Handed, NEW n \in Macros, NEW v \in Value, NEW where, NEW export, NEW t \in Token,
         where \in {CMDLINE, MAKEFLAGS}, Asked(where, export), setmacro(n, v, where, export),
         t.name = n, Meant(t) = v, makeflags' = makeflags \o <<t>>, eflag' = eflag
  PROVE  /\ Sane(makeflags') /\ (eflag' <=> HasE(makeflags'))
         /\ \A k \in Macros : Told(k)'
<1>1. /\ t.name # UNSET /\ v # UNSET /\ makeflags \in Seq(Token)
      /\ CMDLINE \in Origins /\ MAKEFLAGS \in Origins /\ CMDLINE # MAKEFLAGS
      /\ given \in [Origins -> [Macros -> Value \cup {UNSET}]]
      /\ given' = [given EXCEPT ![where][n] = v]
  BY UnsetAssumption DEF MInv, Typed, Value, setmacro, Origins, CMDLINE, MAKEFLAGS
<1>2. Sane(makeflags') /\ (eflag' <=> HasE(makeflags'))
  BY <1>1, WordTells DEF Handed
<1>3. Told(n)'
  <2>1. given'[where][n] = v /\ \A w \in Origins : w # where => given'[w][n] = given[w][n]
    BY <1>1
  <2>2. where = MAKEFLAGS => given[CMDLINE][n] = UNSET
    BY <1>1 DEF MInv, FlagsFirst, Asked, MAKEFLAGS, CMDLINE, MAKEFILE
  <2>3. Said(n)' = v
    BY <1>1, <2>1, <2>2 DEF Said
  <2>4. Gives(makeflags', n, v)
    BY <1>1, WordTells
  <2> QED BY <1>1, <2>3, <2>4 DEF Told
<1>4. ASSUME NEW k \in Macros, k # n PROVE Told(k)'
  <2>1. \A w \in Origins : given'[w][k] = given[w][k]
    BY <1>1, <1>4
  <2>2. Said(k)' = Said(k)
    BY <1>1, <2>1 DEF Said
  <2>3. t.name # k /\ Told(k)
    BY <1>4 DEF Handed
  <2>4. Mentioned(makeflags', k) => Mentioned(makeflags, k)
    BY <1>1, <2>3, OtherWord
  <2>5. Gives(makeflags, k, Said(k)) => Gives(makeflags', k, Said(k))
    BY <1>1, <2>3, OtherWord
  <2> QED BY <2>2, <2>3, <2>4, <2>5 DEF Told
<1> QED BY <1>2, <1>3, <1>4

\* An option that is handed down says it too.
LEMMA OptionHanded ==
  ASSUME MInv, Handed, NEW w \in Options, parseflag(w)
  PROVE  /\ makeflags' = makeflags \o <<Word(w)>> /\ environ' = environ
         /\ Sane(makeflags') /\ (eflag' <=> HasE(makeflags'))
         /\ \A k \in Macros : Told(k)'
<1> DEFINE t == Word(w)
<1>1. /\ t \in Token /\ t.name = UNSET /\ t.word = w /\ makeflags \in Seq(Token)
      /\ given' = given /\ environ' = environ
      /\ makeflags' = makeflags \o <<t>>
  BY WordsAssumption DEF MInv, Typed, Token, Word, parseflag, appendmakeflags
<1>2. eflag' = (eflag \/ w = "-e")
  BY DEF parseflag
<1> HIDE DEF t
<1>3. Sane(makeflags') /\ (eflag' <=> HasE(makeflags'))
  <2>1. eflag \in BOOLEAN /\ Sane(makeflags) /\ (eflag <=> HasE(makeflags))
    BY DEF MInv, Typed, Handed
  <2>2. Sane(makeflags')
    BY <1>1, <2>1, WordTells
  <2>3. HasE(makeflags') <=> HasE(makeflags) \/ w = "-e"
    BY <1>1, WordTells
  <2> QED BY <1>2, <2>1, <2>2, <2>3
<1>4. ASSUME NEW k \in Macros PROVE Told(k)'
  <2>1. t.name # k /\ Told(k) /\ Said(k)' = Said(k)
    BY <1>1, UnsetAssumption DEF Handed, Said
  <2>2. Mentioned(makeflags', k) => Mentioned(makeflags, k)
    BY <1>1, <2>1, OtherWord
  <2>3. Gives(makeflags, k, Said(k)) => Gives(makeflags', k, Said(k))
    BY <1>1, <2>1, OtherWord
  <2> QED BY <2>1, <2>2, <2>3 DEF Told
<1> QED BY <1>1, <1>3, <1>4 DEF t

\* The first state hands nothing down, and is handed words it understands.
LEMMA InitHanded == ASSUME SingleWords, Init PROVE Handed
<1>1. /\ makeflags = <<>> /\ eflag = FALSE /\ phase = "defaults" /\ level = 1
      /\ given = [w \in Origins |-> Nothing]
  BY DEF Init
<1>2. Sane(makeflags) /\ ~HasE(makeflags) /\ \A n \in Macros : ~Mentioned(makeflags, n)
  BY <1>1 DEF Sane, HasE, Mentioned
<1>3. ASSUME NEW n \in Macros PROVE Told(n)
  <2>1. Said(n) = UNSET
    BY <1>1 DEF Said, Nothing, Origins, CMDLINE, MAKEFLAGS
  <2> QED BY <1>2, <2>1 DEF Told
<1>4. Sane(todo)
  <2>1. CASE todo = <<>>
    BY <2>1 DEF Sane
  <2>2. CASE todo # <<>>
    <3>1. PICK n \in Macros, v \in Values : todo = AsWords(n, v)
      BY <2>2 DEF Init
    <3>2. v \in Value /\ Len(v) <= 1 /\ v # <<EMPTY>>
      BY ValuesAssumption DEF SingleWords, Value
    <3>3. PICK t \in Token : AsWords(n, v) = <<t>> /\ t.name = n
      BY <3>2, OneWordArgument
    <3>4. Len(todo) = 1 /\ todo[1] = t /\ n # UNSET
      BY <3>1, <3>3, UnsetAssumption
    <3> QED BY <3>3, <3>4 DEF Sane
  <2> QED BY <2>1, <2>2
<1> QED BY <1>1, <1>2, <1>3, <1>4 DEF Handed

\* What make was handed stays the same while the environment does and no word
\* is lost.
LEMMA PassedKept ==
  ASSUME above' = above, environ' = environ, makeflags' \o todo' = makeflags \o todo,
         NEW n, Passed(n)
  PROVE  Passed(n)'
<1>1. PICK v \in Value : /\ Gives(makeflags \o todo, n, v)
                         /\ above.value[n] = Seen(n, above.eflag, v)
  BY DEF Passed
<1>2. (Gives(makeflags \o todo, n, v) /\ above.value[n] = Seen(n, above.eflag, v))'
  BY <1>1 DEF Seen
<1> QED BY <1>2 DEF Passed

\* While a make reads, the invariant holds on if what was handed to it stays.
LEMMA ReadingHanded ==
  ASSUME Handed, above' = above, level' = level,
         phase' = "makeflags" \/ (phase' = "makefiles" /\ todo' = <<>>),
         level > 1 => environ' = environ /\ makeflags' \o todo' = makeflags \o todo,
         Sane(makeflags'), Sane(todo'), eflag' <=> HasE(makeflags'),
         \A k \in Macros : Told(k)'
  PROVE  Handed'
<1>1. ASSUME level > 1, NEW n \in above.fixed PROVE Passed(n)'
  BY <1>1, PassedKept DEF Handed
<1> QED BY <1>1 DEF Handed

\* Every step hands down what this make knows, and loses nothing of what the
\* make above knew.
LEMMA NextHanded == ASSUME SingleWords, MInv, Handed, [Next]_vars PROVE Handed'
<1>0. /\ todo \in Seq(Token) /\ makeflags \in Seq(Token) /\ eflag \in BOOLEAN
      /\ Sane(makeflags) /\ Sane(todo) /\ level \in Nat
      /\ eflag <=> HasE(makeflags)
      /\ \A n \in Macros : Told(n)
  BY DEF MInv, Typed, Handed
<1>1. CASE inject
  <2>1. /\ phase = "defaults" /\ phase' = "makeflags" /\ makeflags' = makeflags
        /\ todo' = todo /\ environ' = environ /\ eflag' = eflag /\ level' = level /\ above' = above
    BY <1>1 DEF inject
  <2>2. ASSUME NEW k \in Macros PROVE Told(k)'
    <3>1. given'[CMDLINE] = given[CMDLINE] /\ given'[MAKEFLAGS] = given[MAKEFLAGS]
      BY <1>1 DEF inject, MInv, Typed, Origins, INTERNAL, CMDLINE, MAKEFLAGS
    <3>2. Said(k)' = Said(k)
      BY <3>1 DEF Said
    <3> QED BY <1>0, <2>1, <3>2 DEF Told
  <2> QED BY <1>0, <2>1, <2>2, ReadingHanded
<1>2. CASE parsemakeflags
  <2> DEFINE t == Head(todo)
  <2>1. /\ phase = "makeflags" /\ todo # <<>> /\ level' = level /\ above' = above
    BY <1>2 DEF parsemakeflags
  <2>2. /\ t \in Token /\ (makeflags \o <<t>>) \o Tail(todo) = makeflags \o todo
        /\ Sane(Tail(todo)) /\ (t.name = UNSET => t.word \in Options)
    BY <1>0, <2>1, ReadOne
  <2>3. todo' = Tail(todo) /\ phase' = "makeflags"
    BY <1>2, <2>1, <2>2, OptionsAssumption DEF parsemakeflags
  <2>4. CASE t.name # UNSET
    <3> DEFINE v == IF t.word = EMPTY THEN <<>> ELSE <<t.word>>
    <3>1. assign(t.name, v, MAKEFLAGS, FALSE)
      BY <1>2, <2>4 DEF parsemakeflags
    <3>2. t.name \in Macros /\ t.word \in Words /\ t = [name |-> t.name, word |-> t.word]
      BY <2>2, <2>4 DEF Token
    <3>3. v \in Value /\ Len(v) <= 1 /\ v # <<EMPTY>> /\ v = Meant(t)
      BY <3>2, OneElement DEF Value, Meant
    <3> HIDE DEF v, t
    <3>4. PICK u \in Token : AsWords(t.name, v) = <<u>> /\ u.name = t.name /\ Meant(u) = v
      BY <3>2, <3>3, OneWordArgument
    <3>5. u.word = t.word
      BY <3>3, <3>4 DEF Meant
    <3>6. u = t
      BY <2>2, <3>4, <3>5 DEF Token
    <3>7. /\ makeflags' = makeflags \o <<t>> /\ eflag' = eflag
          /\ setmacro(t.name, v, MAKEFLAGS, FALSE)
      BY <3>1, <3>4, <3>6 DEF assign, appendmakeflags
    <3>8. environ' = environ
      BY <3>7 DEF setmacro
    <3>9. Asked(MAKEFLAGS, FALSE)
      BY <2>1 DEF Asked
    <3>10. /\ Sane(makeflags') /\ (eflag' <=> HasE(makeflags'))
           /\ \A k \in Macros : Told(k)'
      BY <2>2, <3>2, <3>3, <3>7, <3>9, AssignHanded
    <3>11. makeflags' \o todo' = makeflags \o todo
      BY <2>2, <2>3, <3>7
    <3> QED BY <2>1, <2>2, <2>3, <3>8, <3>10, <3>11, ReadingHanded
  <2>5. CASE t.name = UNSET
    <3>1. parseflag(t.word) /\ t.word \in Options /\ t = Word(t.word)
      <4>1. t = [name |-> t.name, word |-> t.word]
        BY <2>2 DEF Token
      <4> QED BY <1>2, <2>2, <2>5, <4>1 DEF parsemakeflags, Word
    <3> HIDE DEF t
    <3>2. /\ makeflags' = makeflags \o <<t>> /\ environ' = environ
          /\ Sane(makeflags') /\ (eflag' <=> HasE(makeflags'))
          /\ \A k \in Macros : Told(k)'
      BY <3>1, OptionHanded
    <3>3. makeflags' \o todo' = makeflags \o todo
      BY <2>2, <2>3, <3>2
    <3> QED BY <2>1, <2>2, <2>3, <3>2, <3>3, ReadingHanded
  <2> QED BY <2>4, <2>5
<1>3. CASE argument
  <2>1. /\ phase = "makeflags" /\ phase' = "makeflags" /\ todo = <<>> /\ todo' = todo
        /\ level = 1 /\ level' = level /\ above' = above
    BY <1>3 DEF argument
  <2>2. CASE \E w \in Options : parseflag(w)
    <3>1. PICK w \in Options : parseflag(w)
      BY <2>2
    <3>2. /\ Sane(makeflags') /\ (eflag' <=> HasE(makeflags'))
          /\ \A k \in Macros : Told(k)'
      BY <3>1, OptionHanded
    <3> QED BY <1>0, <2>1, <3>2, ReadingHanded
  <2>3. CASE \E n \in Macros, v \in Values : assign(n, v, CMDLINE, TRUE)
    <3>1. PICK n \in Macros, v \in Values : assign(n, v, CMDLINE, TRUE)
      BY <2>3
    <3>2. v \in Value /\ Len(v) <= 1 /\ v # <<EMPTY>>
      BY ValuesAssumption DEF SingleWords, Value
    <3>3. PICK t \in Token : AsWords(n, v) = <<t>> /\ t.name = n /\ Meant(t) = v
      BY <3>2, OneWordArgument
    <3>4. makeflags' = makeflags \o <<t>> /\ eflag' = eflag /\ setmacro(n, v, CMDLINE, TRUE)
      BY <3>1, <3>3 DEF assign, appendmakeflags
    <3>5. Asked(CMDLINE, TRUE)
      BY <2>1 DEF Asked
    <3>6. /\ Sane(makeflags') /\ (eflag' <=> HasE(makeflags'))
          /\ \A k \in Macros : Told(k)'
      BY <3>2, <3>3, <3>4, <3>5, AssignHanded
    <3> QED BY <1>0, <2>1, <3>6, ReadingHanded
  <2> QED BY <1>3, <2>2, <2>3 DEF argument
<1>4. CASE parsemakefiles
  <2>1. /\ phase' = "makefiles" /\ todo' = <<>> /\ todo' = todo /\ makeflags' = makeflags
        /\ environ' = environ /\ eflag' = eflag /\ given' = given
        /\ level' = level /\ above' = above
    BY <1>4 DEF parsemakefiles
  <2>2. \A k \in Macros : Told(k)'
    BY <1>0, <2>1 DEF Told, Said
  <2> QED BY <1>0, <2>1, <2>2, ReadingHanded
<1>5. CASE definition
  <2>1. /\ phase = "makefiles" /\ phase' = phase /\ todo' = todo /\ makeflags' = makeflags
        /\ eflag' = eflag /\ level' = level /\ above' = above
    BY <1>5 DEF definition
  <2>2. PICK n \in Macros, v \in Values : setmacro(n, v, MAKEFILE, FALSE)
    BY <1>5 DEF definition
  <2>3. environ' = environ
    BY <2>2 DEF setmacro
  <2>4. given'[CMDLINE] = given[CMDLINE] /\ given'[MAKEFLAGS] = given[MAKEFLAGS]
    BY <2>2 DEF setmacro, MInv, Typed, Origins, MAKEFILE, CMDLINE, MAKEFLAGS
  <2>5. ASSUME NEW k \in Macros PROVE Told(k)'
    <3>1. Said(k)' = Said(k)
      BY <2>4 DEF Said
    <3> QED BY <1>0, <2>1, <3>1 DEF Told
  <2>6. todo' = <<>>
    BY <2>1 DEF Handed
  <2> QED BY <1>0, <2>1, <2>3, <2>5, <2>6, ReadingHanded
<1>6. CASE submake
  <2>1. /\ phase = "makefiles" /\ phase' = "defaults" /\ environ' = environ /\ eflag' = FALSE
        /\ given' = [w \in Origins |-> Nothing] /\ level' = level + 1
        /\ todo' = makeflags /\ makeflags' = <<>>
        /\ above' = [eflag |-> eflag, value |-> [n \in Macros |-> getmacro(n)], fixed |-> Fixed]
    BY <1>6 DEF submake
  <2>2. Sane(makeflags') /\ ~HasE(makeflags') /\ \A n \in Macros : ~Mentioned(makeflags', n)
    BY <2>1 DEF Sane, HasE, Mentioned
  <2>3. ASSUME NEW n \in Macros PROVE Told(n)'
    <3>1. Said(n)' = UNSET
      BY <2>1 DEF Said, Nothing, Origins, CMDLINE, MAKEFLAGS
    <3> QED BY <2>2, <3>1 DEF Told
  <2>4. makeflags' \o todo' = makeflags
    BY <1>0, <2>1, ConcatEmptySeq
  <2>5. above'.eflag = eflag /\ above'.fixed = Fixed /\ Fixed \subseteq Macros
        /\ \A n \in Macros : above'.value[n] = getmacro(n)
    BY <2>1 DEF Fixed
  <2>6. ASSUME NEW n \in Fixed PROVE Passed(n)'
    <3>1. n \in Macros /\ Said(n) # UNSET /\ Entry(n) /\ Told(n)
      BY <1>0, <2>1 DEF Fixed, Said, MInv
    <3>2. /\ Gives(makeflags, n, Said(n)) /\ Said(n) \in Value
      BY <3>1 DEF Told, Said, MInv, Typed, Origins, CMDLINE, MAKEFLAGS
    <3>3. macro[n].where \in {CMDLINE, MAKEFLAGS} /\ macro[n].value = Said(n)
      BY <3>1 DEF Entry, Said
    <3>4. getmacro(n) = Seen(n, eflag, Said(n))
      BY <3>3 DEF getmacro, Shown, Seen, UNDEF, INTERNAL, CMDLINE, MAKEFLAGS
    <3>5. /\ Gives(makeflags' \o todo', n, Said(n))
          /\ above'.value[n] = IF n # SHELL /\ above'.eflag /\ environ'[n] # UNSET
                               THEN environ'[n] ELSE Said(n)
      BY <2>1, <2>4, <2>5, <3>1, <3>2, <3>4 DEF Seen
    <3> DEFINE said == Said(n)
    <3>6. said \in Value /\ Gives(makeflags' \o todo', n, said)
          /\ above'.value[n] = IF n # SHELL /\ above'.eflag /\ environ'[n] # UNSET
                               THEN environ'[n] ELSE said
      BY <3>2, <3>5
    <3> HIDE DEF said
    <3> QED BY <3>6 DEF Passed, Seen
  <2> QED BY <1>0, <2>1, <2>2, <2>3, <2>4, <2>5, <2>6 DEF Handed
<1>7. CASE UNCHANGED vars
  <2>1. ASSUME NEW k \in Macros PROVE Told(k)'
    BY <1>0, <1>7 DEF Told, Said, vars
  <2>2. ASSUME level > 1, NEW n \in above.fixed PROVE Passed(n)'
    BY <1>7, <2>2, PassedKept DEF Handed, vars
  <2> QED BY <1>7, <2>1, <2>2 DEF Handed, vars
<1> QED BY <1>1, <1>2, <1>3, <1>4, <1>5, <1>6, <1>7 DEF Next

\* When no value has several words, a make started by make reads the MAKEFLAGS
\* it is handed without a complaint, and -e and the macros of the command line
\* mean in it what they meant above.
THEOREM SubMakeUnderstands == SingleWords => (Spec => []SubMakeAgrees)
<1> SUFFICES ASSUME SingleWords PROVE Spec => []SubMakeAgrees
  OBVIOUS
<1>1. Init => MInv /\ Handed
  BY InitMacros, InitHanded
<1>2. MInv /\ Handed /\ [Next]_vars => (MInv /\ Handed)'
  BY NextMacros, NextHanded
<1>3. MInv /\ Handed => SubMakeAgrees
  <2>1. SUFFICES ASSUME MInv, Handed, level > 1, phase = "makefiles"
                 PROVE  eflag = above.eflag /\ \A n \in above.fixed : getmacro(n) = above.value[n]
    BY DEF Handed, SubMakeAgrees
  <2>2. todo = <<>> /\ makeflags \in Seq(Token) /\ makeflags \o todo = makeflags
    BY <2>1, ConcatEmptySeq DEF Handed, MInv, Typed
  <2>3. eflag = above.eflag
    BY <2>1, <2>2 DEF Handed, MInv, Typed
  <2>4. ASSUME NEW n \in above.fixed PROVE getmacro(n) = above.value[n]
    <3>1. PICK v \in Value : Gives(makeflags, n, v) /\ above.value[n] = Seen(n, eflag, v)
      BY <2>1, <2>2, <2>3 DEF Handed, Passed
    <3>2. n \in Macros /\ Told(n) /\ Entry(n)
      BY <2>1 DEF Handed, MInv
    <3>3. Mentioned(makeflags, n)
      BY <2>2, <3>1, GivesOnce
    <3>4. Said(n) # UNSET /\ Gives(makeflags, n, Said(n))
      BY <3>2, <3>3 DEF Told
    <3>5. v = Said(n)
      BY <2>2, <3>1, <3>4, GivesOnce
    <3>6. macro[n].where \in {CMDLINE, MAKEFLAGS} /\ macro[n].value = Said(n)
      BY <3>2, <3>4 DEF Entry, Said
    <3> QED BY <3>1, <3>5, <3>6 DEF getmacro, Shown, Seen, UNDEF, INTERNAL, CMDLINE, MAKEFLAGS
  <2> QED BY <2>3, <2>4
<1> QED BY <1>1, <1>2, <1>3, PTL DEF Spec

(***************************************************************************)
(* The database of rules.                                                  *)
(***************************************************************************)
Recipe == Recipes \cup {NONE}
Database ==
  [deps : [Names -> Seq(Names)], defined : SUBSET Names, actions : [Names -> Recipe],
   deftarget : Targets \cup {NONE}, sflag : BOOLEAN, iflag : BOOLEAN]

\* No target is a prerequisite of itself.
NoSelf(d) == \A n \in Names : n \notin ToSet(d.deps[n])

\* The elements of ds that are new are added to s.
AddAll(s, ds) == FoldLeft(AddNew, s, ds)

\* g is how AddAll(s, ds) comes about.
AddRun(g, s, ds) ==
  /\ g \in [0 .. Len(ds) -> Seq(Names)] /\ g[0] = s
  /\ \A k \in 1 .. Len(ds) : g[k] = AddNew(g[k - 1], ds[k])

LEMMA AddNewTyped ==
  ASSUME NEW s \in Seq(Names), NEW x \in Names
  PROVE  /\ AddNew(s, x) \in Seq(Names)
         /\ ToSet(AddNew(s, x)) = ToSet(s) \cup {x}
<1> DEFINE r == Append(s, x)
<1>1. r \in Seq(Names) /\ Len(r) = Len(s) + 1 /\ Len(s) \in Nat
      /\ (\A i \in 1 .. Len(s) : r[i] = s[i]) /\ r[Len(s) + 1] = x
  OBVIOUS
<1> HIDE DEF r
<1>2. DOMAIN r = 1 .. Len(r) /\ DOMAIN s = 1 .. Len(s)
  BY <1>1
<1>3. ToSet(r) = ToSet(s) \cup {x}
  <2>1. \A i \in 1 .. Len(r) : i \in 1 .. Len(s) \/ i = Len(s) + 1
    BY <1>1
  <2>2. (\A i \in 1 .. Len(s) : i \in 1 .. Len(r)) /\ Len(s) + 1 \in 1 .. Len(r)
    BY <1>1
  <2> QED BY <1>1, <1>2, <2>1, <2>2 DEF ToSet
<1> QED BY <1>1, <1>3 DEF AddNew, r

LEMMA AddAllRuns ==
  ASSUME NEW s \in Seq(Names), NEW ds \in Seq(Names)
  PROVE  \E g : AddRun(g, s, ds) /\ AddAll(s, ds) = g[Len(ds)]
<1> DEFINE n == Len(ds)
           B == Seq(Names)
           step == [k \in 1 .. n |-> [x \in B |-> AddNew(x, ds[k])]]
           Eq(h) == h = [t \in SUBSET DOMAIN ds |->
                           IF t = {} THEN s ELSE AddNew(h[t \ {Max(t)}], ds[Max(t)])]
           it == CHOOSE h : Eq(h)
<1>1. n \in Nat /\ DOMAIN ds = 1 .. n /\ \A k \in 1 .. n : ds[k] \in Names
  OBVIOUS
<1>2. AddAll(s, ds) = it[DOMAIN ds]
  BY DEF AddAll, FoldLeft, MapThenFoldSet
<1> HIDE DEF n
<1>3. step \in [1 .. n -> [B -> B]]
  BY <1>1, AddNewTyped
<1>4. \A k \in 1 .. n : \A x \in B : step[k][x] = AddNew(x, ds[k])
  OBVIOUS
<1> HIDE DEF step
<1>5. PICK h : Folding(h, n, B, s, step)
  BY <1>1, <1>3, FoldingExists
<1>6. Eq(h)
  <2>1. ASSUME NEW t \in SUBSET (1 .. n), t # {}
        PROVE  h[t] = AddNew(h[t \ {Max(t)}], ds[Max(t)])
    <3>1. Max(t) \in 1 .. n /\ t \ {Max(t)} \in SUBSET (1 .. n)
      BY <1>1, <2>1, HasGreatest
    <3>2. h[t \ {Max(t)}] \in B
      BY <1>5, <3>1 DEF Folding
    <3> QED BY <1>4, <1>5, <2>1, <3>1, <3>2 DEF Folding
  <2>2. h = [t \in SUBSET (1 .. n) |-> h[t]] /\ h[{}] = s
    BY <1>5 DEF Folding
  <2> QED BY <1>1, <2>1, <2>2
<1>7. Eq(it)
  BY <1>6
<1> HIDE DEF it
<1>8. Unfolds(it, n, B, s, step)
  <2>1. it[{}] = s
    BY <1>1, <1>7
  <2>2. ASSUME NEW t \in SUBSET (1 .. n), t # {}, it[t \ {Max(t)}] \in B
        PROVE  it[t] = step[Max(t)][it[t \ {Max(t)}]]
    <3>1. Max(t) \in 1 .. n
      BY <1>1, <2>2, HasGreatest
    <3>2. it[t] = AddNew(it[t \ {Max(t)}], ds[Max(t)])
      BY <1>1, <1>7, <2>2
    <3> QED BY <1>4, <2>2, <3>1, <3>2
  <2> QED BY <2>1, <2>2 DEF Unfolds
<1>9. s \in B
  OBVIOUS
<1> HIDE DEF Eq, B
<1>10. PICK g : Run(g, n, B, s, step) /\ it[1 .. n] = g[n]
  <2>1. Arrives(it, n, B, s, step)
    BY <1>1, <1>3, <1>8, <1>9, FoldIsRun
  <2> QED BY <2>1 DEF Arrives
<1>11. AddRun(g, s, ds)
  <2>1. g \in [0 .. n -> B] /\ g[0] = s
    BY <1>10 DEF Run
  <2>2. ASSUME NEW k \in 1 .. n PROVE g[k] = AddNew(g[k - 1], ds[k])
    <3>1. k - 1 \in 0 .. n
      BY <1>1
    <3>2. g[k - 1] \in B
      BY <2>1, <3>1
    <3> QED BY <1>4, <1>10, <3>2 DEF Run
  <2> QED BY <2>1, <2>2 DEF AddRun, B, n
<1> QED BY <1>1, <1>2, <1>10, <1>11 DEF n

\* What is added to s are the elements of ds.
LEMMA AddAllSet ==
  ASSUME NEW s \in Seq(Names), NEW ds \in Seq(Names)
  PROVE  /\ AddAll(s, ds) \in Seq(Names)
         /\ ToSet(AddAll(s, ds)) = ToSet(s) \cup ToSet(ds)
<1> DEFINE n == Len(ds)
<1>1. n \in Nat /\ DOMAIN ds = 1 .. n /\ \A k \in 1 .. n : ds[k] \in Names
  OBVIOUS
<1>2. PICK g : AddRun(g, s, ds) /\ AddAll(s, ds) = g[n]
  BY AddAllRuns
<1> HIDE DEF n
<1>3. /\ g \in [0 .. n -> Seq(Names)] /\ g[0] = s
      /\ \A k \in 1 .. n : g[k] = AddNew(g[k - 1], ds[k])
  BY <1>2 DEF AddRun, n
<1> DEFINE I == {k \in Nat : k <= n => ToSet(g[k]) = ToSet(s) \cup {ds[j] : j \in 1 .. k}}
<1>4. 0 \in I
  <2>1. 1 .. 0 = {}
    OBVIOUS
  <2> QED BY <1>3, <2>1
<1>5. ASSUME NEW k \in Nat, k \in I PROVE k + 1 \in I
  <2>1. SUFFICES ASSUME k + 1 <= n
                 PROVE  ToSet(g[k + 1]) = ToSet(s) \cup {ds[j] : j \in 1 .. k + 1}
    OBVIOUS
  <2>2. k <= n /\ k \in 0 .. n /\ k + 1 \in 1 .. n /\ (k + 1) - 1 = k
    BY <1>1, <2>1
  <2>3. g[k + 1] = AddNew(g[k], ds[k + 1]) /\ g[k] \in Seq(Names) /\ ds[k + 1] \in Names
    BY <1>1, <1>3, <2>2
  <2>4. ToSet(g[k + 1]) = ToSet(g[k]) \cup {ds[k + 1]}
    BY <2>3, AddNewTyped
  <2>5. 1 .. k + 1 = (1 .. k) \cup {k + 1}
    OBVIOUS
  <2> QED BY <1>5, <2>2, <2>4, <2>5
<1> HIDE DEF I
<1>6. n \in I
  BY <1>1, <1>4, <1>5, AllNumbers
<1>7. ToSet(g[n]) = ToSet(s) \cup ToSet(ds)
  <2>1. ToSet(ds) = {ds[j] : j \in 1 .. n}
    BY <1>1 DEF ToSet
  <2>2. n <= n
    BY <1>1
  <2> QED BY <1>6, <2>1, <2>2 DEF I
<1>8. n \in 0 .. n
  BY <1>1
<1> QED BY <1>2, <1>3, <1>7, <1>8

\* Elements that are there are not added again.
LEMMA AddAllKeeps ==
  ASSUME NEW s \in Seq(Names), NEW ds \in Seq(Names), ToSet(ds) \subseteq ToSet(s)
  PROVE  AddAll(s, ds) = s
<1> DEFINE n == Len(ds)
<1>1. n \in Nat /\ \A k \in 1 .. n : ds[k] \in ToSet(s)
  <2>1. n \in Nat /\ DOMAIN ds = 1 .. n
    OBVIOUS
  <2> HIDE DEF n
  <2> QED BY <2>1 DEF ToSet
<1>2. PICK g : AddRun(g, s, ds) /\ AddAll(s, ds) = g[n]
  BY AddAllRuns
<1> HIDE DEF n
<1>3. g[0] = s /\ \A k \in 1 .. n : g[k] = AddNew(g[k - 1], ds[k])
  BY <1>2 DEF AddRun, n
<1> DEFINE f == [k \in 0 .. n |-> s]
<1>4. GoAlike(g, f, n)
  <2>1. g[0] = f[0]
    BY <1>1, <1>3
  <2>2. ASSUME NEW k \in 1 .. n, g[k - 1] = f[k - 1] PROVE g[k] = f[k]
    <3>1. k - 1 \in 0 .. n /\ k \in 0 .. n
      BY <1>1
    <3>2. g[k - 1] = s /\ f[k] = s
      BY <2>2, <3>1
    <3> QED BY <1>1, <1>3, <3>2 DEF AddNew
  <2> QED BY <2>1, <2>2 DEF GoAlike
<1>5. n \in 0 .. n
  BY <1>1
<1>6. f[n] = s
  BY <1>5
<1> HIDE DEF f
<1>7. g[n] = f[n]
  BY <1>1, <1>4, <1>5, SameRun
<1> QED BY <1>2, <1>6, <1>7

\* Adding a and then b is adding both.
LEMMA AddAllConcat ==
  ASSUME NEW s \in Seq(Names), NEW a \in Seq(Names), NEW b \in Seq(Names)
  PROVE  AddAll(s, a \o b) = AddAll(AddAll(s, a), b)
<1> DEFINE n == Len(a)
           m == Len(b)
           c == a \o b
           r == AddAll(s, a)
<1>1. /\ n \in Nat /\ m \in Nat /\ c \in Seq(Names) /\ Len(c) = n + m
      /\ (\A k \in 1 .. n : c[k] = a[k]) /\ \A k \in 1 .. m : c[n + k] = b[k]
  <2>1. c \in Seq(Names) /\ Len(c) = n + m /\ n \in Nat /\ m \in Nat
        /\ \A i \in 1 .. n + m : c[i] = IF i <= n THEN a[i] ELSE b[i - n]
    BY ConcatProperties
  <2> HIDE DEF n, m, c
  <2>2. ASSUME NEW k \in 1 .. m PROVE c[n + k] = b[k]
    <3>1. n + k \in 1 .. n + m /\ ~(n + k <= n) /\ (n + k) - n = k
      BY <2>1
    <3> QED BY <2>1, <3>1
  <2>3. ASSUME NEW k \in 1 .. n PROVE c[k] = a[k]
    <3>1. k \in 1 .. n + m /\ k <= n
      BY <2>1
    <3> QED BY <2>1, <3>1
  <2> QED BY <2>1, <2>2, <2>3
<1>2. r \in Seq(Names)
  BY AddAllSet
<1>3. PICK f : AddRun(f, s, a) /\ r = f[n]
  BY AddAllRuns
<1>4. PICK g : AddRun(g, r, b) /\ AddAll(r, b) = g[m]
  BY <1>2, AddAllRuns
<1>5. PICK h : AddRun(h, s, c) /\ AddAll(s, c) = h[n + m]
  BY <1>1, AddAllRuns
<1>6. /\ f[0] = s /\ \A k \in 1 .. n : f[k] = AddNew(f[k - 1], a[k])
      /\ g[0] = r /\ \A k \in 1 .. m : g[k] = AddNew(g[k - 1], b[k])
      /\ h[0] = s /\ \A k \in 1 .. n + m : h[k] = AddNew(h[k - 1], c[k])
  <2>1. f[0] = s /\ \A k \in 1 .. n : f[k] = AddNew(f[k - 1], a[k])
    BY <1>3 DEF AddRun
  <2>2. g[0] = r /\ \A k \in 1 .. m : g[k] = AddNew(g[k - 1], b[k])
    BY <1>4 DEF AddRun
  <2> HIDE DEF n, m, c
  <2>3. h[0] = s /\ \A k \in 1 .. n + m : h[k] = AddNew(h[k - 1], c[k])
    BY <1>1, <1>5 DEF AddRun
  <2> QED BY <2>1, <2>2, <2>3 DEF n, m
<1> HIDE DEF n, m, c, r
<1>7. GoAlike(h, f, n)
  <2>1. ASSUME NEW k \in 1 .. n, h[k - 1] = f[k - 1] PROVE h[k] = f[k]
    <3>1. k \in 1 .. n + m
      BY <1>1
    <3> QED BY <1>1, <1>6, <2>1, <3>1
  <2> QED BY <1>6, <2>1 DEF GoAlike
<1>8. h[n] = r
  <2>1. n \in 0 .. n
    BY <1>1
  <2> QED BY <1>1, <1>3, <1>7, <2>1, SameRun
<1> DEFINE e == [k \in 0 .. m |-> h[n + k]]
<1>9. GoAlike(e, g, m)
  <2>1. e[0] = g[0]
    <3>1. 0 \in 0 .. m /\ n + 0 = n
      BY <1>1
    <3> QED BY <1>6, <1>8, <3>1
  <2>2. ASSUME NEW k \in 1 .. m, e[k - 1] = g[k - 1] PROVE e[k] = g[k]
    <3>1. k \in 0 .. m /\ k - 1 \in 0 .. m /\ n + k \in 1 .. n + m /\ (n + k) - 1 = n + (k - 1)
      BY <1>1
    <3>2. e[k] = h[n + k] /\ h[n + (k - 1)] = g[k - 1]
      BY <2>2, <3>1
    <3>3. h[n + k] = AddNew(h[n + (k - 1)], c[n + k])
      BY <1>6, <3>1
    <3> QED BY <1>1, <1>6, <3>2, <3>3
  <2> QED BY <2>1, <2>2 DEF GoAlike
<1>10. m \in 0 .. m
  BY <1>1
<1>11. e[m] = h[n + m]
  BY <1>10
<1> HIDE DEF e
<1>12. e[m] = g[m]
  BY <1>1, <1>9, <1>10, SameRun
<1> QED BY <1>4, <1>5, <1>11, <1>12 DEF c, r

\* d with the prerequisites s for t.
WithDeps(d, t, s) == [d EXCEPT !.deps[t] = s]

\* e differs from d in the prerequisites of t only, which are s.
DepsSet(e, d, t, s) ==
  /\ e \in Database
  /\ e.deps = [d.deps EXCEPT ![t] = s] /\ e.deps[t] = s
  /\ \A u \in Names : u # t => e.deps[u] = d.deps[u]
  /\ e.actions = d.actions /\ e.deftarget = d.deftarget

LEMMA WithDepsTyped ==
  ASSUME NEW d \in Database, NEW t \in Names, NEW s \in Seq(Names)
  PROVE  DepsSet(WithDeps(d, t, s), d, t, s) /\ WithDeps(d, t, d.deps[t]) = d
<1>1. /\ d.deps \in [Names -> Seq(Names)] /\ d.defined \in SUBSET Names
      /\ d.actions \in [Names -> Recipe] /\ d.deftarget \in Targets \cup {NONE}
      /\ d.sflag \in BOOLEAN /\ d.iflag \in BOOLEAN
      /\ DOMAIN d = {"deps", "defined", "actions", "deftarget", "sflag", "iflag"}
  BY DEF Database
<1>2. [d.deps EXCEPT ![t] = s] \in [Names -> Seq(Names)]
  BY <1>1
<1>3. WithDeps(d, t, s) = [d EXCEPT !.deps = [d.deps EXCEPT ![t] = s]]
  BY <1>1 DEF WithDeps
<1>4. WithDeps(d, t, s) \in Database
  BY <1>1, <1>2, <1>3 DEF Database
<1>5. WithDeps(d, t, s).deps = [d.deps EXCEPT ![t] = s]
  BY <1>1, <1>3
<1>6. WithDeps(d, t, s).actions = d.actions /\ WithDeps(d, t, s).deftarget = d.deftarget
  BY <1>1, <1>3
<1>7. WithDeps(d, t, d.deps[t]) = d
  <2>1. [d.deps EXCEPT ![t] = d.deps[t]] = d.deps
    BY <1>1
  <2>2. WithDeps(d, t, d.deps[t]) = [d EXCEPT !.deps = d.deps]
    BY <1>1, <2>1 DEF WithDeps
  <2> QED BY <2>2 DEF Database
<1> QED BY <1>1, <1>4, <1>5, <1>6, <1>7 DEF DepsSet

LEMMA WithDepsTwice ==
  ASSUME NEW d \in Database, NEW t \in Names, NEW s \in Seq(Names), NEW r \in Seq(Names)
  PROVE  WithDeps(WithDeps(d, t, s), t, r) = WithDeps(d, t, r)
<1> DEFINE e == WithDeps(d, t, s)
<1>1. /\ e.deps = [d.deps EXCEPT ![t] = s] /\ e \in Database
      /\ d.deps \in [Names -> Seq(Names)]
  <2>1. e.deps = [d.deps EXCEPT ![t] = s] /\ e \in Database
    BY WithDepsTyped DEF DepsSet
  <2>2. d.deps \in [Names -> Seq(Names)]
    BY DEF Database
  <2> QED BY <2>1, <2>2
<1>2. e = [d EXCEPT !.deps = [d.deps EXCEPT ![t] = s]]
  BY DEF WithDeps
<1> HIDE DEF e
<1>3. [e.deps EXCEPT ![t] = r] = [d.deps EXCEPT ![t] = r]
  BY <1>1
<1>4. WithDeps(e, t, r) = [e EXCEPT !.deps = [e.deps EXCEPT ![t] = r]]
  BY <1>1 DEF WithDeps, Database
<1>5. WithDeps(d, t, r) = [d EXCEPT !.deps = [d.deps EXCEPT ![t] = r]]
  BY <1>1 DEF WithDeps, Database
<1>6. [e EXCEPT !.deps = [e.deps EXCEPT ![t] = r]] = [d EXCEPT !.deps = [e.deps EXCEPT ![t] = r]]
  BY <1>2 DEF Database
<1> QED BY <1>3, <1>4, <1>5, <1>6 DEF e

\* adddep() adds one prerequisite, when it is new and no target is its own.
LEMMA AdddepIs ==
  ASSUME NEW d \in Database, NEW t \in Names, NEW s \in Seq(Names), NEW x \in Names
  PROVE  /\ \E r \in Seq(Names) : adddep(WithDeps(d, t, s), t, x) = WithDeps(d, t, r)
         /\ NoSelf(d) /\ x # t => adddep(WithDeps(d, t, s), t, x) = WithDeps(d, t, AddNew(s, x))
<1> DEFINE e == WithDeps(d, t, s)
<1>1. e \in Database /\ e.deps[t] = s /\ \A u \in Names : u # t => e.deps[u] = d.deps[u]
  <2>1. DepsSet(e, d, t, s)
    BY WithDepsTyped
  <2> QED BY <2>1 DEF DepsSet
<1>0. Append(s, x) \in Seq(Names)
  OBVIOUS
<1>3. WithDeps(e, t, Append(s, x)) = WithDeps(d, t, Append(s, x))
  BY <1>0, WithDepsTwice
<1> HIDE DEF e
<1>2. adddep(e, t, x) = IF depends(e, x, t) \/ x \in ToSet(s) THEN e ELSE WithDeps(e, t, Append(s, x))
  BY <1>1 DEF adddep, WithDeps, ToSet, Database
<1>4. ASSUME NoSelf(d), x # t PROVE ~depends(e, x, t)
  BY <1>1, <1>4 DEF NoSelf, depends, ToSet
<1>5. e = WithDeps(d, t, s)
  BY DEF e
<1>6. \E r \in Seq(Names) : adddep(e, t, x) = WithDeps(d, t, r)
  <2>1. Append(s, x) \in Seq(Names)
    OBVIOUS
  <2> QED BY <1>2, <1>3, <1>5, <2>1
<1>7. NoSelf(d) /\ x # t => adddep(e, t, x) = WithDeps(d, t, AddNew(s, x))
  BY <1>2, <1>3, <1>4, <1>5 DEF AddNew
<1> QED BY <1>6, <1>7 DEF e

\* g is how adddeps(d, t, ds) comes about.
DepRun(g, d, t, ds) ==
  /\ g \in [0 .. Len(ds) -> Database] /\ g[0] = d
  /\ \A k \in 1 .. Len(ds) : g[k] = adddep(g[k - 1], t, ds[k])

LEMMA AdddepTyped ==
  ASSUME NEW d \in Database, NEW t \in Names, NEW x \in Names
  PROVE  adddep(d, t, x) \in Database
<1>1. d.deps[t] \in Seq(Names)
  BY DEF Database
<1>2. WithDeps(d, t, d.deps[t]) = d
  BY <1>1, WithDepsTyped
<1>3. PICK r \in Seq(Names) : adddep(d, t, x) = WithDeps(d, t, r)
  <2> DEFINE s == d.deps[t]
  <2>1. s \in Seq(Names) /\ WithDeps(d, t, s) = d
    BY <1>1, <1>2
  <2> HIDE DEF s
  <2>2. \E r \in Seq(Names) : adddep(WithDeps(d, t, s), t, x) = WithDeps(d, t, r)
    BY <2>1, AdddepIs
  <2> QED BY <2>1, <2>2
<1>4. WithDeps(d, t, r) \in Database
  BY WithDepsTyped DEF DepsSet
<1> QED BY <1>3, <1>4

LEMMA AdddepsRuns ==
  ASSUME NEW d \in Database, NEW t \in Names, NEW ds \in Seq(Names)
  PROVE  \E g : DepRun(g, d, t, ds) /\ adddeps(d, t, ds) = g[Len(ds)]
<1> DEFINE n == Len(ds)
           B == Database
           step == [k \in 1 .. n |-> [x \in B |-> adddep(x, t, ds[k])]]
           Eq(h) == h = [u \in SUBSET DOMAIN ds |->
                           IF u = {} THEN d ELSE adddep(h[u \ {Max(u)}], t, ds[Max(u)])]
           it == CHOOSE h : Eq(h)
<1>1. n \in Nat /\ DOMAIN ds = 1 .. n /\ \A k \in 1 .. n : ds[k] \in Names
  OBVIOUS
<1>2. adddeps(d, t, ds) = it[DOMAIN ds]
  BY DEF adddeps, FoldLeft, MapThenFoldSet
<1> HIDE DEF n
<1>3. step \in [1 .. n -> [B -> B]]
  BY <1>1, AdddepTyped
<1>4. \A k \in 1 .. n : \A x \in B : step[k][x] = adddep(x, t, ds[k])
  OBVIOUS
<1> HIDE DEF step
<1>5. PICK h : Folding(h, n, B, d, step)
  BY <1>1, <1>3, FoldingExists
<1>6. Eq(h)
  <2>1. ASSUME NEW u \in SUBSET (1 .. n), u # {}
        PROVE  h[u] = adddep(h[u \ {Max(u)}], t, ds[Max(u)])
    <3>1. Max(u) \in 1 .. n /\ u \ {Max(u)} \in SUBSET (1 .. n)
      BY <1>1, <2>1, HasGreatest
    <3>2. h[u \ {Max(u)}] \in B
      BY <1>5, <3>1 DEF Folding
    <3> QED BY <1>4, <1>5, <2>1, <3>1, <3>2 DEF Folding
  <2>2. h = [u \in SUBSET (1 .. n) |-> h[u]] /\ h[{}] = d
    BY <1>5 DEF Folding
  <2> QED BY <1>1, <2>1, <2>2
<1>7. Eq(it)
  BY <1>6
<1> HIDE DEF it
<1>8. Unfolds(it, n, B, d, step)
  <2>1. it[{}] = d
    BY <1>1, <1>7
  <2>2. ASSUME NEW u \in SUBSET (1 .. n), u # {}, it[u \ {Max(u)}] \in B
        PROVE  it[u] = step[Max(u)][it[u \ {Max(u)}]]
    <3>1. Max(u) \in 1 .. n
      BY <1>1, <2>2, HasGreatest
    <3>2. it[u] = adddep(it[u \ {Max(u)}], t, ds[Max(u)])
      BY <1>1, <1>7, <2>2
    <3> QED BY <1>4, <2>2, <3>1, <3>2
  <2> QED BY <2>1, <2>2 DEF Unfolds
<1>9. d \in B
  OBVIOUS
<1> HIDE DEF Eq, B
<1>10. PICK g : Run(g, n, B, d, step) /\ it[1 .. n] = g[n]
  <2>1. Arrives(it, n, B, d, step)
    BY <1>1, <1>3, <1>8, <1>9, FoldIsRun
  <2> QED BY <2>1 DEF Arrives
<1>11. DepRun(g, d, t, ds)
  <2>1. g \in [0 .. n -> B] /\ g[0] = d
    BY <1>10 DEF Run
  <2>2. ASSUME NEW k \in 1 .. n PROVE g[k] = adddep(g[k - 1], t, ds[k])
    <3>1. k - 1 \in 0 .. n
      BY <1>1
    <3>2. g[k - 1] \in B
      BY <2>1, <3>1
    <3> QED BY <1>4, <1>10, <3>2 DEF Run
  <2> QED BY <2>1, <2>2 DEF DepRun, B, n
<1> QED BY <1>1, <1>2, <1>10, <1>11 DEF n

\* All the prerequisites of a line are added.
LEMMA AdddepsIs ==
  ASSUME NEW d \in Database, NEW t \in Names, NEW ds \in Seq(Names)
  PROVE  /\ \E r \in Seq(Names) : adddeps(d, t, ds) = WithDeps(d, t, r)
         /\ NoSelf(d) /\ t \notin ToSet(ds) => adddeps(d, t, ds) = WithDeps(d, t, AddAll(d.deps[t], ds))
<1> DEFINE n == Len(ds)
           s == d.deps[t]
<1>1. /\ n \in Nat /\ DOMAIN ds = 1 .. n /\ (\A k \in 1 .. n : ds[k] \in Names) /\ s \in Seq(Names)
      /\ WithDeps(d, t, s) = d
  <2>1. s \in Seq(Names)
    BY DEF Database
  <2>2. WithDeps(d, t, s) = d
    BY <2>1, WithDepsTyped
  <2> QED BY <2>1, <2>2
<1>2. PICK g : DepRun(g, d, t, ds) /\ adddeps(d, t, ds) = g[n]
  BY AdddepsRuns
<1>3. PICK a : AddRun(a, s, ds) /\ AddAll(s, ds) = a[n]
  BY <1>1, AddAllRuns
<1> HIDE DEF n, s
<1>4. /\ g[0] = d /\ \A k \in 1 .. n : g[k] = adddep(g[k - 1], t, ds[k])
      /\ a \in [0 .. n -> Seq(Names)] /\ a[0] = s /\ \A k \in 1 .. n : a[k] = AddNew(a[k - 1], ds[k])
  BY <1>2, <1>3 DEF DepRun, AddRun, n
<1>5. n \in 0 .. n
  BY <1>1
<1>6. \E r \in Seq(Names) : adddeps(d, t, ds) = WithDeps(d, t, r)
  <2> DEFINE I == {k \in Nat : k <= n => \E r \in Seq(Names) : g[k] = WithDeps(d, t, r)}
  <2>1. 0 \in I
    BY <1>1, <1>4
  <2>2. ASSUME NEW k \in Nat, k \in I PROVE k + 1 \in I
    <3>1. SUFFICES ASSUME k + 1 <= n PROVE \E r \in Seq(Names) : g[k + 1] = WithDeps(d, t, r)
      OBVIOUS
    <3>2. k <= n /\ k + 1 \in 1 .. n /\ (k + 1) - 1 = k
      BY <1>1, <3>1
    <3>3. PICK q \in Seq(Names) : g[k] = WithDeps(d, t, q)
      BY <2>2, <3>2
    <3>4. g[k + 1] = adddep(WithDeps(d, t, q), t, ds[k + 1]) /\ ds[k + 1] \in Names
      BY <1>1, <1>4, <3>2, <3>3
    <3> QED BY <3>4, AdddepIs
  <2> HIDE DEF I
  <2>3. n \in I
    BY <1>1, <2>1, <2>2, AllNumbers
  <2>4. n <= n
    BY <1>1
  <2> QED BY <1>2, <2>3, <2>4 DEF I
<1>7. ASSUME NoSelf(d), t \notin ToSet(ds) PROVE adddeps(d, t, ds) = WithDeps(d, t, AddAll(s, ds))
  <2> DEFINE f == [k \in 0 .. n |-> WithDeps(d, t, a[k])]
  <2>1. GoAlike(g, f, n)
    <3>1. g[0] = f[0]
      <4>1. 0 \in 0 .. n
        BY <1>1
      <4> QED BY <1>1, <1>4, <4>1
    <3>2. ASSUME NEW k \in 1 .. n, g[k - 1] = f[k - 1] PROVE g[k] = f[k]
      <4>1. k \in 0 .. n /\ k - 1 \in 0 .. n
        BY <1>1
      <4>2. g[k] = adddep(WithDeps(d, t, a[k - 1]), t, ds[k]) /\ f[k] = WithDeps(d, t, a[k])
        BY <1>4, <3>2, <4>1
      <4>3. a[k - 1] \in Seq(Names) /\ ds[k] \in Names /\ ds[k] # t
        BY <1>1, <1>4, <1>7, <4>1 DEF ToSet
      <4>4. adddep(WithDeps(d, t, a[k - 1]), t, ds[k]) = WithDeps(d, t, AddNew(a[k - 1], ds[k]))
        BY <1>7, <4>3, AdddepIs
      <4> QED BY <1>4, <4>2, <4>4
    <3> QED BY <3>1, <3>2 DEF GoAlike
  <2>2. f[n] = WithDeps(d, t, a[n])
    BY <1>5
  <2> HIDE DEF f
  <2>3. g[n] = f[n]
    BY <1>1, <1>5, <2>1, SameRun
  <2> QED BY <1>2, <1>3, <2>2, <2>3
<1> QED BY <1>6, <1>7 DEF s

\* The prerequisites of t when a line with the prerequisites ds has been entered.
Grown(t, s, ds) == IF t = SUFFIXES /\ ds = <<>> THEN <<>> ELSE AddAll(s, ds)

\* What a line enters for the target t.
TargetEntered(e, d, t, line) ==
  /\ e \in Database
  /\ e.actions = IF line.recipe = NONE THEN d.actions ELSE [d.actions EXCEPT ![t] = line.recipe]
  /\ e.deftarget = IF d.deftarget = NONE /\ t \in Targets THEN t ELSE d.deftarget
  /\ NoSelf(d) /\ t \notin ToSet(line.deps) =>
       e.deps = [d.deps EXCEPT ![t] = Grown(t, d.deps[t], line.deps)]

\* addtarget() but for the prerequisites of .SUFFIXES.
LEMMA AddtargetIs ==
  ASSUME NEW d \in Database, NEW t \in Names, NEW n
  PROVE  LET e == addtarget(d, t, n)
         IN /\ e \in Database /\ e.actions = d.actions
            /\ e.deftarget = IF d.deftarget = NONE /\ t \in Targets THEN t ELSE d.deftarget
            /\ e.deps = IF t = SUFFIXES /\ n = 0 THEN [d.deps EXCEPT ![SUFFIXES] = <<>>] ELSE d.deps
<1> DEFINE e == addtarget(d, t, n)
           c == [d EXCEPT !.defined = @ \cup {t}]
           cleared == [d.deps EXCEPT ![SUFFIXES] = <<>>]
<1>1. /\ d.deps \in [Names -> Seq(Names)] /\ d.defined \in SUBSET Names
      /\ d.actions \in [Names -> Recipe] /\ d.deftarget \in Targets \cup {NONE}
      /\ d.sflag \in BOOLEAN /\ d.iflag \in BOOLEAN
  BY DEF Database
<1>2. /\ c \in Database /\ c.deps = d.deps /\ c.actions = d.actions /\ c.deftarget = d.deftarget
  <2>1. d.defined \cup {t} \in SUBSET Names
    BY <1>1
  <2> QED BY <2>1 DEF Database
<1>3. cleared \in [Names -> Seq(Names)]
  <2>1. <<>> \in Seq(Names)
    OBVIOUS
  <2> QED BY <1>1, <2>1
<1>4. /\ SUFFIXES \notin Targets /\ SILENT \notin Targets /\ IGNORE \notin Targets
      /\ SUFFIXES # SILENT /\ SUFFIXES # IGNORE /\ SILENT # IGNORE
  BY ApartAssumption DEF Specials, SUFFIXES, SILENT, IGNORE
<1> HIDE DEF c
<1>5. e = CASE d.deftarget = NONE /\ t \in Targets -> [c EXCEPT !.deftarget = t]
            [] t = SUFFIXES /\ n = 0 -> [c EXCEPT !.deps[SUFFIXES] = <<>>]
            [] t = SILENT /\ n = 0 -> [c EXCEPT !.sflag = TRUE]
            [] t = IGNORE /\ n = 0 -> [c EXCEPT !.iflag = TRUE]
            [] OTHER -> c
  BY <1>2 DEF addtarget, c
<1> HIDE DEF e
<1>6. \/ d.deftarget = NONE /\ t \in Targets /\ e = [c EXCEPT !.deftarget = t]
      \/ ~(d.deftarget = NONE /\ t \in Targets) /\ t = SUFFIXES /\ n = 0 /\ e = [c EXCEPT !.deps[SUFFIXES] = <<>>]
      \/ ~(d.deftarget = NONE /\ t \in Targets) /\ ~(t = SUFFIXES /\ n = 0)
         /\ (e = [c EXCEPT !.sflag = TRUE] \/ e = [c EXCEPT !.iflag = TRUE] \/ e = c)
  BY <1>4, <1>5
<1>7. CASE d.deftarget = NONE /\ t \in Targets /\ e = [c EXCEPT !.deftarget = t]
  BY <1>2, <1>4, <1>7 DEF Database, e
<1>8. CASE ~(d.deftarget = NONE /\ t \in Targets) /\ t = SUFFIXES /\ n = 0 /\ e = [c EXCEPT !.deps[SUFFIXES] = <<>>]
  <2>1. e = [c EXCEPT !.deps = cleared]
    BY <1>2, <1>8 DEF Database
  <2> QED BY <1>2, <1>3, <1>8, <2>1 DEF Database, e
<1>9. CASE ~(d.deftarget = NONE /\ t \in Targets) /\ ~(t = SUFFIXES /\ n = 0)
           /\ (e = [c EXCEPT !.sflag = TRUE] \/ e = [c EXCEPT !.iflag = TRUE] \/ e = c)
  BY <1>2, <1>9 DEF Database, e
<1> QED BY <1>6, <1>7, <1>8, <1>9 DEF e

\* rule() enters a line for one of its targets.
LEMMA EnteredIs ==
  ASSUME NEW d \in Database, NEW t \in Names, NEW line \in Line
  PROVE  TargetEntered(Entered(d, t, line), d, t, line)
<1> DEFINE ds == line.deps
           a == addtarget(d, t, Len(ds))
           e == adddeps(a, t, ds)
           x == Entered(d, t, line)
<1>1. ds \in Seq(Names) /\ (Len(ds) = 0 <=> ds = <<>>) /\ line.recipe \in Recipe
  BY DEF Line, Recipe
<1>2. /\ a \in Database /\ a.actions = d.actions
      /\ a.deftarget = IF d.deftarget = NONE /\ t \in Targets THEN t ELSE d.deftarget
      /\ a.deps = IF t = SUFFIXES /\ Len(ds) = 0 THEN [d.deps EXCEPT ![SUFFIXES] = <<>>] ELSE d.deps
  BY AddtargetIs
<1>3. x = IF line.recipe = NONE THEN e ELSE [e EXCEPT !.actions[t] = line.recipe]
  BY DEF Entered, addrule
<1> HIDE DEF ds, a
<1>4. PICK r \in Seq(Names) : e = WithDeps(a, t, r)
  BY <1>1, <1>2, AdddepsIs
<1>5. DepsSet(e, a, t, r)
  BY <1>2, <1>4, WithDepsTyped
<1>6. /\ e \in Database /\ e.actions = d.actions /\ e.actions \in [Names -> Recipe]
      /\ e.deftarget = IF d.deftarget = NONE /\ t \in Targets THEN t ELSE d.deftarget
  BY <1>2, <1>5 DEF DepsSet, Database
<1>7. ASSUME NoSelf(d), t \notin ToSet(ds)
      PROVE  e.deps = [d.deps EXCEPT ![t] = Grown(t, d.deps[t], ds)]
  <2>1. d.deps \in [Names -> Seq(Names)]
    BY DEF Database
  <2>2. NoSelf(a)
    BY <1>2, <1>7, <2>1 DEF NoSelf, ToSet
  <2>3. e = WithDeps(a, t, AddAll(a.deps[t], ds))
    BY <1>1, <1>2, <1>7, <2>2, AdddepsIs
  <2>4. a.deps \in [Names -> Seq(Names)] /\ a.deps[t] \in Seq(Names)
    BY <1>2 DEF Database
  <2>5. AddAll(a.deps[t], ds) \in Seq(Names)
    BY <1>1, <2>4, AddAllSet
  <2>6. e.deps = [a.deps EXCEPT ![t] = AddAll(a.deps[t], ds)]
    BY <1>2, <2>3, <2>5, WithDepsTyped DEF DepsSet
  <2>7. CASE t = SUFFIXES /\ ds = <<>>
    <3>1. a.deps = [d.deps EXCEPT ![t] = <<>>] /\ a.deps[t] = <<>>
      BY <1>1, <1>2, <2>1, <2>7
    <3>2. AddAll(a.deps[t], ds) = <<>>
      <4>1. <<>> \in Seq(Names) /\ ToSet(<<>>) \subseteq ToSet(<<>>)
        OBVIOUS
      <4> QED BY <2>7, <3>1, <4>1, AddAllKeeps
    <3>3. Grown(t, d.deps[t], ds) = <<>>
      BY <2>7 DEF Grown
    <3> QED BY <2>1, <2>6, <3>1, <3>2, <3>3
  <2>8. CASE ~(t = SUFFIXES /\ ds = <<>>)
    <3>1. a.deps = d.deps
      BY <1>1, <1>2, <2>8
    <3>2. Grown(t, d.deps[t], ds) = AddAll(d.deps[t], ds)
      BY <2>8 DEF Grown
    <3> QED BY <2>6, <3>1, <3>2
  <2> QED BY <2>7, <2>8
<1> HIDE DEF e, x
<1>8. /\ x \in Database /\ x.deps = e.deps /\ x.deftarget = e.deftarget
      /\ x.actions = IF line.recipe = NONE THEN e.actions ELSE [e.actions EXCEPT ![t] = line.recipe]
  <2>1. CASE line.recipe = NONE
    BY <1>3, <1>6, <2>1
  <2>2. CASE line.recipe # NONE
    <3> DEFINE acts == [e.actions EXCEPT ![t] = line.recipe]
    <3>1. acts \in [Names -> Recipe] /\ x = [e EXCEPT !.actions = acts]
      BY <1>1, <1>3, <1>6, <2>2 DEF Database
    <3> HIDE DEF acts
    <3>2. x \in Database /\ x.deps = e.deps /\ x.deftarget = e.deftarget /\ x.actions = acts
      BY <1>6, <3>1 DEF Database
    <3> QED BY <2>2, <3>2 DEF acts
  <2> QED BY <2>1, <2>2
<1>9. TargetEntered(x, d, t, line)
  BY <1>6, <1>7, <1>8 DEF TargetEntered, ds
<1> QED BY <1>9 DEF x

\* g is how EnterRule(d, line) comes about.
EntryRun(g, d, line) ==
  /\ g \in [0 .. Len(line.targets) -> Database] /\ g[0] = d
  /\ \A k \in 1 .. Len(line.targets) : g[k] = Entered(g[k - 1], line.targets[k], line)

LEMMA EnterRuns ==
  ASSUME NEW d \in Database, NEW line \in Line
  PROVE  \E g : EntryRun(g, d, line) /\ EnterRule(d, line) = g[Len(line.targets)]
<1> DEFINE ts == line.targets
           n == Len(ts)
           B == Database
           step == [k \in 1 .. n |-> [x \in B |-> Entered(x, ts[k], line)]]
           Eq(h) == h = [u \in SUBSET DOMAIN ts |->
                           IF u = {} THEN d ELSE Entered(h[u \ {Max(u)}], ts[Max(u)], line)]
           it == CHOOSE h : Eq(h)
<1>1. n \in Nat /\ DOMAIN ts = 1 .. n /\ \A k \in 1 .. n : ts[k] \in Names
  BY DEF Line
<1>2. EnterRule(d, line) = it[DOMAIN ts]
  BY DEF EnterRule, FoldLeft, MapThenFoldSet
<1> HIDE DEF n, ts
<1>3. step \in [1 .. n -> [B -> B]]
  BY <1>1, EnteredIs DEF TargetEntered
<1>4. \A k \in 1 .. n : \A x \in B : step[k][x] = Entered(x, ts[k], line)
  OBVIOUS
<1> HIDE DEF step
<1>5. PICK h : Folding(h, n, B, d, step)
  BY <1>1, <1>3, FoldingExists
<1>6. Eq(h)
  <2>1. ASSUME NEW u \in SUBSET (1 .. n), u # {}
        PROVE  h[u] = Entered(h[u \ {Max(u)}], ts[Max(u)], line)
    <3>1. Max(u) \in 1 .. n /\ u \ {Max(u)} \in SUBSET (1 .. n)
      BY <1>1, <2>1, HasGreatest
    <3>2. h[u \ {Max(u)}] \in B
      BY <1>5, <3>1 DEF Folding
    <3> QED BY <1>4, <1>5, <2>1, <3>1, <3>2 DEF Folding
  <2>2. h = [u \in SUBSET (1 .. n) |-> h[u]] /\ h[{}] = d
    BY <1>5 DEF Folding
  <2> QED BY <1>1, <2>1, <2>2
<1>7. Eq(it)
  BY <1>6
<1> HIDE DEF it
<1>8. Unfolds(it, n, B, d, step)
  <2>1. it[{}] = d
    BY <1>1, <1>7
  <2>2. ASSUME NEW u \in SUBSET (1 .. n), u # {}, it[u \ {Max(u)}] \in B
        PROVE  it[u] = step[Max(u)][it[u \ {Max(u)}]]
    <3>1. Max(u) \in 1 .. n
      BY <1>1, <2>2, HasGreatest
    <3>2. it[u] = Entered(it[u \ {Max(u)}], ts[Max(u)], line)
      BY <1>1, <1>7, <2>2
    <3> QED BY <1>4, <2>2, <3>1, <3>2
  <2> QED BY <2>1, <2>2 DEF Unfolds
<1>9. d \in B
  OBVIOUS
<1> HIDE DEF Eq, B
<1>10. PICK g : Run(g, n, B, d, step) /\ it[1 .. n] = g[n]
  <2>1. Arrives(it, n, B, d, step)
    BY <1>1, <1>3, <1>8, <1>9, FoldIsRun
  <2> QED BY <2>1 DEF Arrives
<1>11. EntryRun(g, d, line)
  <2>1. g \in [0 .. n -> B] /\ g[0] = d
    BY <1>10 DEF Run
  <2>2. ASSUME NEW k \in 1 .. n PROVE g[k] = Entered(g[k - 1], ts[k], line)
    <3>1. k - 1 \in 0 .. n
      BY <1>1
    <3>2. g[k - 1] \in B
      BY <2>1, <3>1
    <3> QED BY <1>4, <1>10, <3>2 DEF Run
  <2> QED BY <2>1, <2>2 DEF EntryRun, B, n, ts
<1> QED BY <1>1, <1>2, <1>10, <1>11 DEF n, ts

\* Entering a line again adds nothing.
LEMMA GrownFacts ==
  ASSUME NEW t, NEW s \in Seq(Names), NEW ds \in Seq(Names)
  PROVE  /\ Grown(t, s, ds) \in Seq(Names)
         /\ ToSet(Grown(t, s, ds)) \subseteq ToSet(s) \cup ToSet(ds)
         /\ Grown(t, Grown(t, s, ds), ds) = Grown(t, s, ds)
<1>1. CASE t = SUFFIXES /\ ds = <<>>
  BY <1>1 DEF Grown, ToSet
<1>2. CASE ~(t = SUFFIXES /\ ds = <<>>)
  <2> DEFINE r == AddAll(s, ds)
  <2>1. r \in Seq(Names) /\ ToSet(r) = ToSet(s) \cup ToSet(ds)
    BY AddAllSet
  <2>2. \A q : Grown(t, q, ds) = AddAll(q, ds)
    BY <1>2 DEF Grown
  <2> HIDE DEF r
  <2>3. AddAll(r, ds) = r
    BY <2>1, AddAllKeeps
  <2> QED BY <2>1, <2>2, <2>3 DEF r
<1> QED BY <1>1, <1>2

\* What a line enters for the targets in done.
LineEntered(e, d, line, done) ==
  /\ e \in Database
  /\ \A u \in Names :
       e.actions[u] = IF line.recipe # NONE /\ u \in done THEN line.recipe ELSE d.actions[u]
  /\ (d.deftarget # NONE \/ done \cap Targets = {}) => e.deftarget = d.deftarget
  /\ NoSelf(d) /\ done \cap ToSet(line.deps) = {} =>
       \A u \in Names :
         e.deps[u] = IF u \in done THEN Grown(u, d.deps[u], line.deps) ELSE d.deps[u]

\* The first k targets of a line.
Firsts(line, k) == {line.targets[j] : j \in 1 .. k}

\* The default target is the first of them that is no special name.
FirstTarget(e, d, line, k) ==
  d.deftarget = NONE /\ Firsts(line, k) \cap Targets # {} =>
    \E j \in 1 .. k : /\ e.deftarget = line.targets[j] /\ line.targets[j] \in Targets
                      /\ \A i \in 1 .. j - 1 : line.targets[i] \notin Targets

LEMMA NoSelfKept ==
  ASSUME NEW d \in Database, NEW e, NEW line \in Line, NEW done,
         LineEntered(e, d, line, done), NoSelf(d), done \cap ToSet(line.deps) = {}
  PROVE  NoSelf(e)
<1> SUFFICES ASSUME NEW u \in Names PROVE u \notin ToSet(e.deps[u])
  BY DEF NoSelf
<1>1. d.deps[u] \in Seq(Names) /\ line.deps \in Seq(Names) /\ u \notin ToSet(d.deps[u])
  BY DEF Database, Line, NoSelf
<1>2. e.deps[u] = IF u \in done THEN Grown(u, d.deps[u], line.deps) ELSE d.deps[u]
  BY DEF LineEntered
<1>3. ToSet(Grown(u, d.deps[u], line.deps)) \subseteq ToSet(d.deps[u]) \cup ToSet(line.deps)
  BY <1>1, GrownFacts
<1> QED BY <1>1, <1>2, <1>3

\* One target more.
LEMMA OneMoreTarget ==
  ASSUME NEW d \in Database, NEW line \in Line, NEW done, NEW e \in Database, NEW t \in Names, NEW f,
         LineEntered(e, d, line, done), TargetEntered(f, e, t, line)
  PROVE  LineEntered(f, d, line, done \cup {t})
<1> DEFINE now == done \cup {t}
<1>1. f \in Database
  BY DEF TargetEntered
<1>2. ASSUME NEW u \in Names
      PROVE  f.actions[u] = IF line.recipe # NONE /\ u \in now THEN line.recipe ELSE d.actions[u]
  <2>1. e.actions \in [Names -> Recipe]
    BY DEF Database
  <2>2. f.actions = IF line.recipe = NONE THEN e.actions ELSE [e.actions EXCEPT ![t] = line.recipe]
    BY DEF TargetEntered
  <2>3. e.actions[u] = IF line.recipe # NONE /\ u \in done THEN line.recipe ELSE d.actions[u]
    BY DEF LineEntered
  <2> QED BY <2>1, <2>2, <2>3
<1>3. ASSUME d.deftarget # NONE \/ now \cap Targets = {} PROVE f.deftarget = d.deftarget
  <2>1. e.deftarget = d.deftarget
    BY <1>3 DEF LineEntered
  <2>2. ~(e.deftarget = NONE /\ t \in Targets)
    BY <1>3, <2>1
  <2> QED BY <2>1, <2>2 DEF TargetEntered
<1>4. ASSUME NoSelf(d), now \cap ToSet(line.deps) = {}, NEW u \in Names
      PROVE  f.deps[u] = IF u \in now THEN Grown(u, d.deps[u], line.deps) ELSE d.deps[u]
  <2>1. done \cap ToSet(line.deps) = {} /\ t \notin ToSet(line.deps)
    BY <1>4
  <2>2. NoSelf(e)
    BY <1>4, <2>1, NoSelfKept
  <2>3. e.deps \in [Names -> Seq(Names)] /\ d.deps[u] \in Seq(Names) /\ line.deps \in Seq(Names)
    BY DEF Database, Line
  <2>4. f.deps = [e.deps EXCEPT ![t] = Grown(t, e.deps[t], line.deps)]
    BY <2>1, <2>2 DEF TargetEntered
  <2>5. e.deps[u] = IF u \in done THEN Grown(u, d.deps[u], line.deps) ELSE d.deps[u]
    BY <1>4, <2>1 DEF LineEntered
  <2>6. Grown(u, Grown(u, d.deps[u], line.deps), line.deps) = Grown(u, d.deps[u], line.deps)
    BY <2>3, GrownFacts
  <2> QED BY <2>3, <2>4, <2>5, <2>6
<1> HIDE DEF now
<1>5. LineEntered(f, d, line, now)
  BY <1>1, <1>2, <1>3, <1>4 DEF LineEntered
<1> QED BY <1>5 DEF now

\* rule() enters a line for all of its targets.
LEMMA EnterRuleIs ==
  ASSUME NEW d \in Database, NEW line \in Line
  PROVE  /\ LineEntered(EnterRule(d, line), d, line, ToSet(line.targets))
         /\ FirstTarget(EnterRule(d, line), d, line, Len(line.targets))
<1> DEFINE ts == line.targets
           n == Len(ts)
<1>1. n \in Nat /\ DOMAIN ts = 1 .. n /\ \A k \in 1 .. n : ts[k] \in Names
  BY DEF Line
<1>2. PICK g : EntryRun(g, d, line) /\ EnterRule(d, line) = g[n]
  BY EnterRuns
<1> HIDE DEF n
<1>3. /\ g \in [0 .. n -> Database] /\ g[0] = d
      /\ \A k \in 1 .. n : g[k] = Entered(g[k - 1], ts[k], line)
  BY <1>2 DEF EntryRun, n
<1> DEFINE I == {k \in Nat : k <= n => /\ LineEntered(g[k], d, line, Firsts(line, k))
                                        /\ FirstTarget(g[k], d, line, k)}
<1>4. 0 \in I
  <2>1. Firsts(line, 0) = {}
    <3>1. 1 .. 0 = {}
      OBVIOUS
    <3> QED BY <3>1 DEF Firsts
  <2>2. LineEntered(d, d, line, {}) /\ FirstTarget(d, d, line, 0)
    BY <2>1 DEF LineEntered, FirstTarget
  <2> QED BY <1>3, <2>1, <2>2
<1>5. ASSUME NEW k \in Nat, k \in I PROVE k + 1 \in I
  <2>1. SUFFICES ASSUME k + 1 <= n
                 PROVE  /\ LineEntered(g[k + 1], d, line, Firsts(line, k + 1))
                        /\ FirstTarget(g[k + 1], d, line, k + 1)
    OBVIOUS
  <2>2. k <= n /\ k \in 0 .. n /\ k + 1 \in 1 .. n /\ (k + 1) - 1 = k
    BY <1>1, <2>1
  <2> DEFINE e == g[k]
             f == g[k + 1]
             t == ts[k + 1]
  <2>3. e \in Database /\ t \in Names /\ f = Entered(e, t, line)
    BY <1>1, <1>3, <2>2
  <2>4. TargetEntered(f, e, t, line)
    BY <2>3, EnteredIs
  <2>5. LineEntered(e, d, line, Firsts(line, k)) /\ FirstTarget(e, d, line, k)
    BY <1>5, <2>2
  <2>6. Firsts(line, k + 1) = Firsts(line, k) \cup {t}
    <3>1. 1 .. k + 1 = (1 .. k) \cup {k + 1}
      OBVIOUS
    <3> QED BY <3>1 DEF Firsts
  <2> HIDE DEF e, f
  <2>7. LineEntered(f, d, line, Firsts(line, k) \cup {t})
    BY <2>3, <2>4, <2>5, OneMoreTarget
  <2>8. FirstTarget(f, d, line, k + 1)
    <3>1. SUFFICES ASSUME d.deftarget = NONE, Firsts(line, k + 1) \cap Targets # {}
                   PROVE  \E j \in 1 .. k + 1 : /\ f.deftarget = ts[j] /\ ts[j] \in Targets
                                                /\ \A i \in 1 .. j - 1 : ts[i] \notin Targets
      BY DEF FirstTarget
    <3>2. f.deftarget = IF e.deftarget = NONE /\ t \in Targets THEN t ELSE e.deftarget
      BY <2>4 DEF TargetEntered
    <3>3. CASE Firsts(line, k) \cap Targets # {}
      <4>1. PICK j \in 1 .. k : /\ e.deftarget = ts[j] /\ ts[j] \in Targets
                                /\ \A i \in 1 .. j - 1 : ts[i] \notin Targets
        BY <2>5, <3>1, <3>3 DEF FirstTarget
      <4>2. e.deftarget # NONE
        BY <4>1, NoneAssumption DEF Names
      <4>3. j \in 1 .. k + 1 /\ f.deftarget = ts[j]
        BY <3>2, <4>1, <4>2
      <4> QED BY <4>1, <4>3
    <3>4. CASE Firsts(line, k) \cap Targets = {}
      <4>1. e.deftarget = NONE
        BY <2>5, <3>1, <3>4 DEF LineEntered
      <4>2. t \in Targets
        BY <2>6, <3>1, <3>4
      <4>3. \A i \in 1 .. k : ts[i] \notin Targets
        BY <3>4 DEF Firsts
      <4>4. f.deftarget = ts[k + 1] /\ ts[k + 1] \in Targets
        BY <3>2, <4>1, <4>2
      <4>5. (k + 1) - 1 = k /\ k + 1 \in 1 .. k + 1
        OBVIOUS
      <4> QED BY <4>3, <4>4, <4>5
    <3> QED BY <3>3, <3>4
  <2> QED BY <2>6, <2>7, <2>8 DEF f
<1> HIDE DEF I
<1>6. n \in I
  BY <1>1, <1>4, <1>5, AllNumbers
<1>7. n <= n /\ Firsts(line, n) = ToSet(ts)
  BY <1>1 DEF Firsts, ToSet
<1> QED BY <1>2, <1>6, <1>7 DEF I, n

\* What one more line gives t, and how GivenTo(t, ls) comes about.
MoreFor(t, acc, l) == IF Named(t, l) THEN acc \o l.deps ELSE acc
GivenRun(g, t, ls) ==
  /\ g \in [0 .. Len(ls) -> Seq(Names)] /\ g[0] = <<>>
  /\ \A k \in 1 .. Len(ls) : g[k] = MoreFor(t, g[k - 1], ls[k])

LEMMA GivenRuns ==
  ASSUME NEW t, NEW ls \in Seq(Line)
  PROVE  \E g : GivenRun(g, t, ls) /\ GivenTo(t, ls) = g[Len(ls)]
<1> DEFINE n == Len(ls)
           B == Seq(Names)
           step == [k \in 1 .. n |-> [x \in B |-> MoreFor(t, x, ls[k])]]
           none == <<>>
           Eq(h) == h = [u \in SUBSET DOMAIN ls |->
                           IF u = {} THEN none ELSE MoreFor(t, h[u \ {Max(u)}], ls[Max(u)])]
           it == CHOOSE h : Eq(h)
<1>1. n \in Nat /\ DOMAIN ls = 1 .. n /\ \A k \in 1 .. n : ls[k] \in Line
  OBVIOUS
<1>2. GivenTo(t, ls) = it[DOMAIN ls]
  BY DEF GivenTo, MoreFor, FoldLeft, MapThenFoldSet
<1> HIDE DEF n
<1>3. step \in [1 .. n -> [B -> B]]
  <2>1. ASSUME NEW k \in 1 .. n, NEW x \in B PROVE MoreFor(t, x, ls[k]) \in B
    <3>1. ls[k].deps \in Seq(Names)
      BY <1>1 DEF Line
    <3> QED BY <3>1 DEF MoreFor
  <2> HIDE DEF B
  <2> QED BY <2>1
<1>4. \A k \in 1 .. n : \A x \in B : step[k][x] = MoreFor(t, x, ls[k])
  OBVIOUS
<1>9. none \in B
  OBVIOUS
<1> HIDE DEF step, B, none
<1>5. PICK h : Folding(h, n, B, none, step)
  BY <1>1, <1>3, <1>9, FoldingExists
<1>6. Eq(h)
  <2>1. ASSUME NEW u \in SUBSET (1 .. n), u # {}
        PROVE  h[u] = MoreFor(t, h[u \ {Max(u)}], ls[Max(u)])
    <3>1. Max(u) \in 1 .. n /\ u \ {Max(u)} \in SUBSET (1 .. n)
      BY <1>1, <2>1, HasGreatest
    <3>2. h[u \ {Max(u)}] \in B
      BY <1>5, <3>1 DEF Folding
    <3> QED BY <1>4, <1>5, <2>1, <3>1, <3>2 DEF Folding
  <2>2. h = [u \in SUBSET (1 .. n) |-> h[u]] /\ h[{}] = none
    BY <1>5 DEF Folding
  <2> QED BY <1>1, <2>1, <2>2
<1>7. Eq(it)
  BY <1>6
<1> HIDE DEF it
<1>8. Unfolds(it, n, B, none, step)
  <2>1. it[{}] = none
    BY <1>1, <1>7
  <2>2. ASSUME NEW u \in SUBSET (1 .. n), u # {}, it[u \ {Max(u)}] \in B
        PROVE  it[u] = step[Max(u)][it[u \ {Max(u)}]]
    <3>1. Max(u) \in 1 .. n
      BY <1>1, <2>2, HasGreatest
    <3>2. it[u] = MoreFor(t, it[u \ {Max(u)}], ls[Max(u)])
      BY <1>1, <1>7, <2>2
    <3> QED BY <1>4, <2>2, <3>1, <3>2
  <2> QED BY <2>1, <2>2 DEF Unfolds
<1> HIDE DEF Eq
<1>10. PICK g : Run(g, n, B, none, step) /\ it[1 .. n] = g[n]
  <2>1. Arrives(it, n, B, none, step)
    BY <1>1, <1>3, <1>8, <1>9, FoldIsRun
  <2> QED BY <2>1 DEF Arrives
<1>11. GivenRun(g, t, ls)
  <2>1. g \in [0 .. n -> B] /\ g[0] = none
    BY <1>10 DEF Run
  <2>2. ASSUME NEW k \in 1 .. n PROVE g[k] = MoreFor(t, g[k - 1], ls[k])
    <3>1. k - 1 \in 0 .. n
      BY <1>1
    <3>2. g[k - 1] \in B
      BY <2>1, <3>1
    <3> QED BY <1>4, <1>10, <3>2 DEF Run
  <2> QED BY <2>1, <2>2 DEF GivenRun, B, n, none
<1> QED BY <1>1, <1>2, <1>10, <1>11 DEF n

LEMMA GivenNothing ==
  ASSUME NEW t
  PROVE  GivenTo(t, <<>>) = <<>>
<1>1. <<>> \in Seq(Line) /\ Len(<<>>) = 0
  OBVIOUS
<1>2. PICK g : GivenRun(g, t, <<>>) /\ GivenTo(t, <<>>) = g[Len(<<>>)]
  BY <1>1, GivenRuns
<1> QED BY <1>1, <1>2 DEF GivenRun

\* What a line more gives.
LEMMA GivenMore ==
  ASSUME NEW t, NEW ls \in Seq(Line), NEW l \in Line
  PROVE  /\ GivenTo(t, ls) \in Seq(Names)
         /\ GivenTo(t, Append(ls, l)) = MoreFor(t, GivenTo(t, ls), l)
<1> DEFINE n == Len(ls)
           r == Append(ls, l)
<1>1. /\ n \in Nat /\ r \in Seq(Line) /\ Len(r) = n + 1 /\ r[n + 1] = l
      /\ \A k \in 1 .. n : r[k] = ls[k]
  BY AppendProperties
<1>2. PICK g : GivenRun(g, t, ls) /\ GivenTo(t, ls) = g[n]
  BY GivenRuns
<1> HIDE DEF r
<1>3. PICK h : GivenRun(h, t, r) /\ GivenTo(t, r) = h[Len(r)]
  BY <1>1, GivenRuns
<1> HIDE DEF n
<1>4. /\ g \in [0 .. n -> Seq(Names)] /\ g[0] = <<>>
      /\ \A k \in 1 .. n : g[k] = MoreFor(t, g[k - 1], ls[k])
  BY <1>2 DEF GivenRun, n
<1>5. h[0] = <<>> /\ \A k \in 1 .. n + 1 : h[k] = MoreFor(t, h[k - 1], r[k])
  BY <1>1, <1>3 DEF GivenRun
<1>6. GoAlike(h, g, n)
  <2>1. ASSUME NEW k \in 1 .. n, h[k - 1] = g[k - 1] PROVE h[k] = g[k]
    <3>1. k \in 1 .. n + 1
      BY <1>1
    <3> QED BY <1>1, <1>4, <1>5, <2>1, <3>1
  <2> QED BY <1>4, <1>5, <2>1 DEF GoAlike
<1>7. n \in 0 .. n /\ n + 1 \in 1 .. n + 1 /\ (n + 1) - 1 = n
  BY <1>1
<1>8. h[n] = g[n]
  BY <1>1, <1>6, <1>7, SameRun
<1>9. h[n + 1] = MoreFor(t, g[n], l)
  BY <1>1, <1>5, <1>7, <1>8
<1> QED BY <1>1, <1>2, <1>3, <1>4, <1>7, <1>9 DEF r

\* About(t) when the lines read are r.
ClearsIn(t, r) == {i \in DOMAIN r : t = SUFFIXES /\ Named(t, r[i]) /\ r[i].deps = <<>>}
FirstIn(t, r) == IF ClearsIn(t, r) = {} THEN 1 ELSE Max(ClearsIn(t, r))
AboutIn(t, r) == SubSeq(r, FirstIn(t, r), Len(r))
Empties(t, l) == t = SUFFIXES /\ Named(t, l) /\ l.deps = <<>>

\* b is what s has from m on.
IsRest(b, s, m, S) ==
  /\ b \in Seq(S) /\ Len(b) = Len(s) - m + 1
  /\ \A i \in 1 .. Len(s) - m + 1 : b[i] = s[m + i - 1]

LEMMA RestIs ==
  ASSUME NEW S, NEW s \in Seq(S), NEW m \in 1 .. Len(s) + 1
  PROVE  IsRest(SubSeq(s, m, Len(s)), s, m, S)
<1> DEFINE n == Len(s)
           b == SubSeq(s, m, n)
<1>1. n \in Nat /\ m \in Int /\ n \in Int /\ m <= n + 1 /\ \A i \in m .. n : s[i] \in S
  OBVIOUS
<1> HIDE DEF n
<1>2. /\ b \in Seq(S) /\ Len(b) = (IF m <= n THEN n - m + 1 ELSE 0)
      /\ \A i \in 1 .. n - m + 1 : b[i] = s[m + i - 1]
  BY <1>1, SubSeqProperties
<1> HIDE DEF b
<1>3. Len(b) = n - m + 1
  BY <1>1, <1>2
<1>4. IsRest(b, s, m, S)
  BY <1>2, <1>3 DEF IsRest, n
<1> QED BY <1>4 DEF b, n

\* A line more is one more about t, or the first again.
LEMMA AboutMore ==
  ASSUME NEW t, NEW r \in Seq(Line), NEW l \in Line
  PROVE  /\ AboutIn(t, r) \in Seq(Line)
         /\ AboutIn(t, Append(r, l)) = IF Empties(t, l) THEN <<l>> ELSE Append(AboutIn(t, r), l)
<1> DEFINE n == Len(r)
           s == Append(r, l)
           f == FirstIn(t, r)
<1>1. /\ n \in Nat /\ s \in Seq(Line) /\ Len(s) = n + 1 /\ s[n + 1] = l
      /\ (\A k \in 1 .. n : s[k] = r[k]) /\ DOMAIN r = 1 .. n /\ DOMAIN s = 1 .. n + 1
      /\ \A k \in 1 .. n : r[k] \in Line
  BY AppendProperties
<1> HIDE DEF n, s
<1>2. ClearsIn(t, r) \in SUBSET (1 .. n)
  BY <1>1 DEF ClearsIn
<1>3. f \in 1 .. n + 1
  <2>1. CASE ClearsIn(t, r) = {}
    BY <1>1, <2>1 DEF FirstIn
  <2>2. CASE ClearsIn(t, r) # {}
    <3>1. Max(ClearsIn(t, r)) \in 1 .. n
      BY <1>1, <1>2, <2>2, HasGreatest
    <3> QED BY <1>1, <2>2, <3>1 DEF FirstIn
  <2> QED BY <2>1, <2>2
<1> DEFINE a == SubSeq(r, f, n)
<1>4. /\ a \in Seq(Line) /\ Len(a) = n - f + 1
      /\ \A i \in 1 .. n - f + 1 : a[i] = r[f + i - 1]
  <2>1. f \in 1 .. Len(r) + 1 /\ r \in Seq(Line)
    BY <1>3 DEF n
  <2> HIDE DEF f
  <2>2. IsRest(a, r, f, Line)
    BY <2>1, RestIs DEF n
  <2> QED BY <2>2 DEF IsRest, n
<1>5. ClearsIn(t, s) = IF Empties(t, l) THEN ClearsIn(t, r) \cup {n + 1} ELSE ClearsIn(t, r)
  <2>1. \A i \in 1 .. n + 1 : i \in 1 .. n \/ i = n + 1
    BY <1>1
  <2>2. \A i \in 1 .. n : i \in 1 .. n + 1
    BY <1>1
  <2>3. n + 1 \in 1 .. n + 1
    BY <1>1
  <2> QED BY <1>1, <2>1, <2>2, <2>3 DEF ClearsIn, Empties
<1>6. CASE Empties(t, l)
  <2>1. ClearsIn(t, s) \in SUBSET (1 .. n + 1) /\ n + 1 \in ClearsIn(t, s)
    BY <1>1, <1>2, <1>5, <1>6
  <2>2. FirstIn(t, s) = n + 1
    BY <1>1, <2>1, Greatest DEF FirstIn
  <2> DEFINE m == n + 1
             b == SubSeq(s, m, m)
  <2>3. b \in Seq(Line) /\ Len(b) = 1 /\ b[1] = l
    <3>1. s \in Seq(Line) /\ m \in 1 .. Len(s) + 1 /\ m \in Nat /\ Len(s) = m /\ s[m] = l
      BY <1>1
    <3> HIDE DEF m
    <3>2. IsRest(b, s, m, Line)
      BY <3>1, RestIs
    <3> HIDE DEF b
    <3>3. Len(s) - m + 1 = 1 /\ m + 1 - 1 = m /\ 1 \in 1 .. 1
      BY <3>1
    <3> QED BY <3>1, <3>2, <3>3 DEF IsRest
  <2> HIDE DEF b, m
  <2>4. b = <<l>>
    BY <2>3
  <2> QED BY <1>1, <1>4, <1>6, <2>2, <2>4 DEF b, m, AboutIn, n, s
<1>7. CASE ~Empties(t, l)
  <2>1. FirstIn(t, s) = f
    BY <1>5, <1>7 DEF FirstIn
  <2> HIDE DEF f
  <2> DEFINE b == SubSeq(s, f, n + 1)
             c == Append(a, l)
  <2>2. /\ b \in Seq(Line) /\ Len(b) = n - f + 2
        /\ \A i \in 1 .. n - f + 2 : b[i] = s[f + i - 1]
    <3>1. s \in Seq(Line) /\ f \in 1 .. Len(s) + 1 /\ Len(s) = n + 1
      BY <1>1, <1>3
    <3>2. IsRest(b, s, f, Line)
      BY <3>1, RestIs
    <3> HIDE DEF b
    <3>3. Len(s) - f + 1 = n - f + 2
      BY <1>1, <1>3
    <3> QED BY <3>2, <3>3 DEF IsRest
  <2> HIDE DEF a
  <2>3. /\ c \in Seq(Line) /\ Len(c) = n - f + 2 /\ c[n - f + 2] = l
        /\ \A i \in 1 .. n - f + 1 : c[i] = a[i]
    <3>1. /\ c \in Seq(Line) /\ Len(c) = Len(a) + 1 /\ c[Len(a) + 1] = l
          /\ \A i \in 1 .. Len(a) : c[i] = a[i]
      BY <1>4, AppendProperties
    <3> HIDE DEF c
    <3>2. Len(a) + 1 = n - f + 2
      BY <1>1, <1>3, <1>4
    <3> QED BY <1>4, <3>1, <3>2
  <2> HIDE DEF b, c
  <2>4. ASSUME NEW i \in 1 .. n - f + 2 PROVE b[i] = c[i]
    <3>1. CASE i = n - f + 2
      <4>1. f + i - 1 = n + 1
        BY <1>1, <1>3, <3>1
      <4> QED BY <1>1, <2>2, <2>3, <3>1, <4>1
    <3>2. CASE i # n - f + 2
      <4>1. i \in 1 .. n - f + 1 /\ f + i - 1 \in 1 .. n
        BY <1>1, <1>3, <3>2
      <4> QED BY <1>1, <1>4, <2>2, <2>3, <4>1
    <3> QED BY <3>1, <3>2
  <2>5. b = c
    BY <2>2, <2>3, <2>4, SeqEqual
  <2> QED BY <1>1, <1>4, <1>7, <2>1, <2>5 DEF a, b, c, f, AboutIn, n, s
<1> QED BY <1>6, <1>7

\* The state the rules read leave behind, with rule() ready for the next one.
RulesInv ==
  /\ db \in Database /\ read \in Seq(Line) /\ outcome \in {"reading", "error"}
  /\ outcome = "reading" /\ SelfDependent = {} => NoSelf(db)
  /\ PrerequisitesAddUp /\ LastRecipeWins /\ DefaultIsFirst

LEMMA RulesInit ==
  ASSUME InitRules
  PROVE  RulesInv
<1>1. /\ db.deps = [n \in Names |-> <<>>] /\ db.actions = [n \in Names |-> NONE]
      /\ db.deftarget = NONE /\ outcome = "reading" /\ read = <<>>
  BY DEF InitRules, NoRules
<1>2. db \in Database
  <2>1. [n \in Names |-> <<>>] \in [Names -> Seq(Names)]
    OBVIOUS
  <2>2. [n \in Names |-> NONE] \in [Names -> Recipe]
    BY DEF Recipe
  <2> QED BY <2>1, <2>2 DEF InitRules, NoRules, Database
<1>3. read \in Seq(Line) /\ DOMAIN read = {} /\ Len(read) = 0
  BY <1>1
<1>4. NoSelf(db)
  BY <1>1 DEF NoSelf, ToSet
<1>5. PrerequisitesAddUp
  <2>1. SUFFICES ASSUME NEW t \in Names PROVE db.deps[t] = FirstOnes(GivenTo(t, About(t)))
    BY DEF PrerequisitesAddUp
  <2>2. Clears(t) = {}
    BY <1>3 DEF Clears
  <2>3. About(t) = <<>>
    BY <1>3, <2>2, SubSeqEmpty DEF About
  <2>4. GivenTo(t, About(t)) = <<>>
    BY <2>3, GivenNothing
  <2>5. FirstOnes(<<>>) = <<>>
    <3>1. <<>> \in Seq(Names) /\ ToSet(<<>>) \subseteq ToSet(<<>>)
      OBVIOUS
    <3> QED BY <3>1, AddAllKeeps DEF FirstOnes, AddAll
  <2> QED BY <1>1, <2>4, <2>5
<1>6. LastRecipeWins
  BY <1>1, <1>3 DEF LastRecipeWins
<1>7. DefaultIsFirst
  BY <1>1, <1>3 DEF DefaultIsFirst
<1> QED BY <1>1, <1>2, <1>3, <1>4, <1>5, <1>6, <1>7 DEF RulesInv

\* A line that rule() enters.
Enters(line) ==
  /\ outcome = "reading" /\ outcome' = "reading" /\ line \in Line
  /\ read' = Append(read, line) /\ db' = EnterRule(db, line)

LEMMA Appended ==
  ASSUME RulesInv, NEW line, Enters(line)
  PROVE  /\ read' \in Seq(Line) /\ Len(read) \in Nat /\ DOMAIN read = 1 .. Len(read)
         /\ DOMAIN read' = 1 .. Len(read) + 1 /\ Len(read') = Len(read) + 1
         /\ read'[Len(read) + 1] = line
         /\ \A k \in 1 .. Len(read) : read'[k] = read[k] /\ k \in 1 .. Len(read) + 1
         /\ \A k \in 1 .. Len(read) : read[k] \in Line
<1> DEFINE s == Append(read, line)
<1>1. read \in Seq(Line) /\ line \in Line /\ read' = s
  BY DEF RulesInv, Enters
<1>2. /\ s \in Seq(Line) /\ Len(s) = Len(read) + 1 /\ s[Len(read) + 1] = line
      /\ \A k \in 1 .. Len(read) : s[k] = read[k]
  BY <1>1, AppendProperties
<1> HIDE DEF s
<1>3. Len(read) \in Nat /\ DOMAIN read = 1 .. Len(read) /\ DOMAIN s = 1 .. Len(s)
      /\ \A k \in 1 .. Len(read) : read[k] \in Line
  BY <1>1, <1>2
<1>4. \A k \in 1 .. Len(read) : k \in 1 .. Len(read) + 1
  BY <1>3
<1> QED BY <1>1, <1>2, <1>3, <1>4

LEMMA SelfFreeStep ==
  ASSUME RulesInv, NEW line, Enters(line), SelfDependent' = {}
  PROVE  NoSelf(db) /\ NoSelf(db') /\ ToSet(line.targets) \cap ToSet(line.deps) = {}
         /\ SelfDependent = {}
<1>1. ToSet(read') = ToSet(read) \cup {line}
  <2> DEFINE n == Len(read)
  <2>1. /\ n \in Nat /\ DOMAIN read = 1 .. n /\ DOMAIN read' = 1 .. n + 1 /\ read'[n + 1] = line
        /\ \A k \in 1 .. n : read'[k] = read[k] /\ k \in 1 .. n + 1
    BY Appended
  <2> HIDE DEF n
  <2>2. n + 1 \in 1 .. n + 1 /\ \A k \in 1 .. n + 1 : k \in 1 .. n \/ k = n + 1
    BY <2>1
  <2> QED BY <2>1, <2>2 DEF ToSet
<1>2. \A t \in Names : \A l \in ToSet(read) \cup {line} : ~(Named(t, l) /\ t \in ToSet(l.deps))
  BY <1>1 DEF SelfDependent
<1>3. SelfDependent = {}
  BY <1>2 DEF SelfDependent
<1>4. line \in Line /\ db \in Database /\ NoSelf(db)
  BY <1>3 DEF RulesInv, Enters
<1>5. ToSet(line.targets) \cap ToSet(line.deps) = {}
  <2>1. ToSet(line.targets) \subseteq Names
    BY <1>4 DEF Line, ToSet
  <2> QED BY <1>2, <2>1 DEF Named
<1>6. NoSelf(db')
  BY <1>4, <1>5, EnterRuleIs, NoSelfKept DEF Enters
<1> QED BY <1>3, <1>4, <1>5, <1>6

LEMMA PrerequisitesStep ==
  ASSUME RulesInv, NEW line, Enters(line)
  PROVE  PrerequisitesAddUp'
<1> SUFFICES ASSUME SelfDependent' = {}, NEW t \in Names
             PROVE  db'.deps[t] = FirstOnes(GivenTo(t, About(t)'))
  BY DEF PrerequisitesAddUp
<1>1. /\ NoSelf(db) /\ ToSet(line.targets) \cap ToSet(line.deps) = {} /\ SelfDependent = {}
      /\ line \in Line /\ db \in Database /\ read \in Seq(Line) /\ read' = Append(read, line)
      /\ db' = EnterRule(db, line)
  BY SelfFreeStep DEF RulesInv, Enters
<1> DEFINE a == AboutIn(t, read)
           sofar == GivenTo(t, a)
           b == AboutIn(t, Append(read, line))
           ds == line.deps
<1>2. About(t) = a /\ About(t)' = b
  BY <1>1 DEF About, Clears, AboutIn, FirstIn, ClearsIn
<1>3. db.deps[t] = FirstOnes(sofar)
  BY <1>1, <1>2 DEF RulesInv, PrerequisitesAddUp, Enters
<1>4. a \in Seq(Line) /\ b = IF Empties(t, line) THEN <<line>> ELSE Append(a, line)
  BY <1>1, AboutMore
<1>5. db'.deps[t] = IF t \in ToSet(line.targets) THEN Grown(t, db.deps[t], ds) ELSE db.deps[t]
  BY <1>1, EnterRuleIs DEF LineEntered
<1>6. ds \in Seq(Names) /\ <<>> \in Seq(Names) /\ <<>> \in Seq(Line)
  BY <1>1 DEF Line
<1> HIDE DEF a, b, ds
<1>7. sofar \in Seq(Names) /\ GivenTo(t, Append(a, line)) = MoreFor(t, sofar, line)
  BY <1>1, <1>4, GivenMore
<1> HIDE DEF sofar
<1>8. CASE Empties(t, line)
  <2>1. GivenTo(t, <<line>>) = MoreFor(t, <<>>, line)
    <3>1. GivenTo(t, Append(<<>>, line)) = MoreFor(t, GivenTo(t, <<>>), line)
      BY <1>1, <1>6, GivenMore
    <3>2. Append(<<>>, line) = <<line>>
      OBVIOUS
    <3> QED BY <3>1, <3>2, GivenNothing
  <2>2. MoreFor(t, <<>>, line) = <<>>
    <3>1. <<>> \o <<>> = <<>>
      OBVIOUS
    <3> QED BY <1>8, <3>1 DEF MoreFor, Empties
  <2>3. FirstOnes(<<>>) = <<>>
    <3>1. ToSet(<<>>) \subseteq ToSet(<<>>)
      OBVIOUS
    <3> QED BY <1>6, <3>1, AddAllKeeps DEF FirstOnes, AddAll
  <2>4. db'.deps[t] = <<>>
    BY <1>5, <1>8 DEF Grown, Empties, Named, ds
  <2> QED BY <1>2, <1>4, <1>8, <2>1, <2>2, <2>3, <2>4
<1>9. CASE ~Empties(t, line)
  <2>1. GivenTo(t, b) = IF Named(t, line) THEN sofar \o ds ELSE sofar
    BY <1>4, <1>7, <1>9 DEF MoreFor, ds
  <2>2. CASE Named(t, line)
    <3>1. db'.deps[t] = AddAll(FirstOnes(sofar), ds)
      BY <1>3, <1>5, <1>9, <2>2 DEF Grown, Empties, Named, ds
    <3>2. AddAll(<<>>, sofar \o ds) = AddAll(AddAll(<<>>, sofar), ds)
      BY <1>6, <1>7, AddAllConcat
    <3>3. \A s : FirstOnes(s) = AddAll(<<>>, s)
      BY DEF FirstOnes, AddAll
    <3> QED BY <1>2, <2>1, <2>2, <3>1, <3>2, <3>3
  <2>3. CASE ~Named(t, line)
    BY <1>2, <1>3, <1>5, <2>1, <2>3 DEF Named
  <2> QED BY <2>2, <2>3
<1> QED BY <1>8, <1>9

\* The lines of r that give t a recipe.
GivingIn(t, r) == {i \in DOMAIN r : Named(t, r[i]) /\ r[i].recipe # NONE}

LEMMA RecipeStep ==
  ASSUME RulesInv, NEW line, Enters(line)
  PROVE  LastRecipeWins'
<1> DEFINE n == Len(read)
<1>1. /\ n \in Nat /\ DOMAIN read = 1 .. n /\ DOMAIN read' = 1 .. n + 1 /\ read'[n + 1] = line
      /\ \A k \in 1 .. n : read'[k] = read[k] /\ k \in 1 .. n + 1
  BY Appended
<1> HIDE DEF n
<1>2. SUFFICES ASSUME NEW t \in Names
               PROVE  db'.actions[t] = IF GivingIn(t, read') = {} THEN NONE
                                       ELSE read'[Max(GivingIn(t, read'))].recipe
  BY DEF LastRecipeWins, GivingIn
<1>3. db.actions[t] = IF GivingIn(t, read) = {} THEN NONE ELSE read[Max(GivingIn(t, read))].recipe
  BY DEF RulesInv, Enters, LastRecipeWins, GivingIn
<1>4. db'.actions[t] = IF line.recipe # NONE /\ Named(t, line) THEN line.recipe ELSE db.actions[t]
  <2>1. line \in Line /\ db \in Database /\ db' = EnterRule(db, line)
    BY DEF RulesInv, Enters
  <2> QED BY <2>1, EnterRuleIs DEF LineEntered, Named
<1>5. GivingIn(t, read) \in SUBSET (1 .. n)
  BY <1>1 DEF GivingIn
<1>6. GivingIn(t, read') = IF Named(t, line) /\ line.recipe # NONE
                           THEN GivingIn(t, read) \cup {n + 1} ELSE GivingIn(t, read)
  <2>1. n + 1 \in 1 .. n + 1 /\ \A k \in 1 .. n + 1 : k \in 1 .. n \/ k = n + 1
    BY <1>1
  <2> QED BY <1>1, <2>1 DEF GivingIn
<1>7. CASE Named(t, line) /\ line.recipe # NONE
  <2>1. GivingIn(t, read') \in SUBSET (1 .. n + 1) /\ n + 1 \in GivingIn(t, read')
    BY <1>1, <1>5, <1>6, <1>7
  <2>2. Max(GivingIn(t, read')) = n + 1
    BY <1>1, <2>1, Greatest
  <2> QED BY <1>1, <1>4, <1>7, <2>1, <2>2
<1>8. CASE ~(Named(t, line) /\ line.recipe # NONE)
  <2>1. GivingIn(t, read) # {} => Max(GivingIn(t, read)) \in 1 .. n
    BY <1>1, <1>5, HasGreatest
  <2> QED BY <1>1, <1>3, <1>4, <1>6, <1>8, <2>1
<1> QED BY <1>7, <1>8

\* i and j say where the default target comes from.
FirstHere(def, r, i, j) ==
  /\ def = r[i].targets[j] /\ def \in Targets
  /\ \A k \in 1 .. i - 1 : ToSet(r[k].targets) \cap Targets = {}
  /\ \A k \in 1 .. j - 1 : r[i].targets[k] \notin Targets

LEMMA DefaultStep ==
  ASSUME RulesInv, NEW line, Enters(line)
  PROVE  DefaultIsFirst'
<1> DEFINE n == Len(read)
           m == Len(line.targets)
<1>1. /\ n \in Nat /\ DOMAIN read = 1 .. n /\ DOMAIN read' = 1 .. n + 1 /\ read'[n + 1] = line
      /\ \A k \in 1 .. n : read'[k] = read[k] /\ k \in 1 .. n + 1
  BY Appended
<1>2. line \in Line /\ db \in Database /\ db' = EnterRule(db, line)
  BY DEF RulesInv, Enters
<1>3. DOMAIN line.targets = 1 .. m /\ m \in Nat /\ Firsts(line, m) = ToSet(line.targets)
  <2>1. DOMAIN line.targets = 1 .. m /\ m \in Nat
    BY <1>2 DEF Line
  <2> HIDE DEF m
  <2> QED BY <2>1 DEF Firsts, ToSet
<1> HIDE DEF n
<1>4. /\ (db.deftarget # NONE \/ ToSet(line.targets) \cap Targets = {}) => db'.deftarget = db.deftarget
      /\ FirstTarget(db', db, line, m)
  BY <1>2, EnterRuleIs DEF LineEntered
<1> HIDE DEF m
<1>5. n + 1 \in 1 .. n + 1 /\ (n + 1) - 1 = n /\ \A k \in 1 .. n + 1 : k \in 1 .. n \/ k = n + 1
  BY <1>1
<1>6. CASE \A i \in 1 .. n : ToSet(read[i].targets) \cap Targets = {}
  <2>1. db.deftarget = NONE
    BY <1>1, <1>6 DEF RulesInv, Enters, DefaultIsFirst
  <2>2. CASE ToSet(line.targets) \cap Targets = {}
    <3>1. \A i \in DOMAIN read' : ToSet(read'[i].targets) \cap Targets = {}
      BY <1>1, <1>5, <1>6, <2>2
    <3> QED BY <1>4, <2>1, <2>2, <3>1 DEF DefaultIsFirst
  <2>3. CASE ToSet(line.targets) \cap Targets # {}
    <3>1. PICK j \in 1 .. m : /\ db'.deftarget = line.targets[j] /\ line.targets[j] \in Targets
                              /\ \A i \in 1 .. j - 1 : line.targets[i] \notin Targets
      BY <1>3, <1>4, <2>1, <2>3 DEF FirstTarget
    <3>2. FirstHere(db'.deftarget, read', n + 1, j)
      BY <1>1, <1>5, <1>6, <3>1 DEF FirstHere
    <3>3. n + 1 \in DOMAIN read' /\ j \in DOMAIN read'[n + 1].targets
      BY <1>1, <1>3, <1>5
    <3>4. ~ \A i \in DOMAIN read' : ToSet(read'[i].targets) \cap Targets = {}
      BY <1>1, <1>5, <2>3
    <3> QED BY <3>2, <3>3, <3>4 DEF DefaultIsFirst, FirstHere
  <2> QED BY <2>2, <2>3
<1>7. CASE \E i \in 1 .. n : ToSet(read[i].targets) \cap Targets # {}
  <2>1. PICK i \in 1 .. n : \E j \in DOMAIN read[i].targets : FirstHere(db.deftarget, read, i, j)
    BY <1>1, <1>7 DEF RulesInv, Enters, DefaultIsFirst, FirstHere
  <2>2. PICK j \in DOMAIN read[i].targets : FirstHere(db.deftarget, read, i, j)
    BY <2>1
  <2>3. db.deftarget # NONE
    BY <2>2, NoneAssumption DEF FirstHere, Names
  <2>4. db'.deftarget = db.deftarget
    BY <1>4, <2>3
  <2>5. \A k \in 1 .. i - 1 : k \in 1 .. n
    BY <1>1
  <2>6. FirstHere(db'.deftarget, read', i, j)
    BY <1>1, <2>2, <2>4, <2>5 DEF FirstHere
  <2>7. i \in DOMAIN read' /\ j \in DOMAIN read'[i].targets
    BY <1>1, <2>2
  <2>8. ~ \A k \in DOMAIN read' : ToSet(read'[k].targets) \cap Targets = {}
    BY <1>1, <1>7
  <2> QED BY <2>6, <2>7, <2>8 DEF DefaultIsFirst, FirstHere
<1> QED BY <1>6, <1>7

LEMMA RulesStep ==
  ASSUME RulesInv, [NextRule]_dbvars
  PROVE  RulesInv'
<1>1. CASE UNCHANGED dbvars
  <2>1. db' = db /\ outcome' = outcome /\ read' = read
    BY <1>1 DEF dbvars
  <2>2. SelfDependent' = SelfDependent
    BY <2>1 DEF SelfDependent
  <2>3. \A t : About(t)' = About(t)
    BY <2>1 DEF About, Clears
  <2>4. PrerequisitesAddUp'
    BY <2>1, <2>2, <2>3 DEF RulesInv, PrerequisitesAddUp
  <2>5. LastRecipeWins'
    BY <2>1 DEF RulesInv, LastRecipeWins
  <2>6. DefaultIsFirst'
    BY <2>1 DEF RulesInv, DefaultIsFirst
  <2> QED BY <2>1, <2>2, <2>4, <2>5, <2>6 DEF RulesInv
<1>2. CASE badLine
  BY <1>2 DEF badLine, RulesInv, PrerequisitesAddUp, LastRecipeWins, DefaultIsFirst
<1>3. ASSUME NEW line \in Line, rule(line) PROVE RulesInv'
  <2>1. read' = Append(read, line) /\ outcome = "reading" /\ read \in Seq(Line) /\ db \in Database
    BY <1>3 DEF rule, RulesInv
  <2>2. CASE \E t \in ToSet(line.targets) : Refused(t, Len(line.deps))
    <3>1. outcome' = "error" /\ db' = db
      BY <1>3, <2>2 DEF rule
    <3>2. read' \in Seq(Line)
      BY <2>1, AppendProperties
    <3> QED BY <2>1, <3>1, <3>2 DEF RulesInv, PrerequisitesAddUp, LastRecipeWins, DefaultIsFirst
  <2>3. CASE ~ \E t \in ToSet(line.targets) : Refused(t, Len(line.deps))
    <3>1. Enters(line)
      BY <1>3, <2>1, <2>3 DEF rule, Enters
    <3>2. db' \in Database /\ read' \in Seq(Line) /\ outcome' = "reading"
      BY <2>1, <3>1, EnterRuleIs, Appended DEF Enters, LineEntered
    <3>3. (outcome = "reading" /\ SelfDependent = {} => NoSelf(db))'
      BY <3>1, SelfFreeStep
    <3> QED BY <3>1, <3>2, <3>3, PrerequisitesStep, RecipeStep, DefaultStep DEF RulesInv
  <2> QED BY <2>2, <2>3
<1> QED BY <1>1, <1>2, <1>3 DEF NextRule

\* The database is the one that the rules read define, whatever their order and
\* number: what lookup(), addtarget(), adddep() and addrule() do to a hash table line
\* by line comes to one reading of the whole makefile.
THEOREM RulesAreRead == RulesSpec => []DatabaseAsRead
<1>1. InitRules => RulesInv
  BY RulesInit
<1>2. RulesInv /\ [NextRule]_dbvars => RulesInv'
  BY RulesStep
<1>3. RulesInv => DatabaseAsRead
  BY DEF RulesInv, DatabaseAsRead, DatabaseOK, Database, Recipe
<1> QED BY <1>1, <1>2, <1>3, PTL DEF RulesSpec
=============================================================================
