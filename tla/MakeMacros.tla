----------------------------- MODULE MakeMacros -----------------------------
(***************************************************************************)
(* The macros of scc-make, where their values come from, and what a make   *)
(* started by a command of make inherits: macroinfo(), getmacro() and      *)
(* setmacro() of parser.c, parsemakeflags(), parseflag(), assign() and     *)
(* parseargv() of main.c, exportvar() of posix.c.                          *)
(*                                                                         *)
(* A value is a sequence of words.  The macro MAKEFLAGS is the text handed *)
(* down in the environment; reading it splits it again at the blanks, so   *)
(* it is kept as the sequence of its words: a word NAME=w carries the name *)
(* and the first word of the value.                                        *)
(***************************************************************************)
EXTENDS Naturals, Sequences, SequencesExt

CONSTANTS
  Macros,      \* names of macros, SHELL among them
  Builtin,     \* the macros of defaults.c
  Words,       \* the words that values are made of
  EMPTY,       \* the word after the = of a definition with an empty value
  BUILTIN,     \* the word that stands for the values of defaults.c
  Values,      \* values that makefiles, environment and command line give
  UNSET,       \* no value
  Options,     \* the words that are options; "-e" is one the model follows
  BadOptions,  \* the words that look like an option and are none
  MaxArgs, MaxAssigns, MaxLevel   \* bounds: arguments, assignments, nested makes

SHELL == "SHELL"

ASSUME WordsAssumption   == {EMPTY, BUILTIN} \cup Options \cup BadOptions \subseteq Words
ASSUME ValuesAssumption  == Values \subseteq Seq(Words)
ASSUME UnsetAssumption   == UNSET \notin Seq(Words) \cup Macros
ASSUME BuiltinAssumption == Builtin \subseteq Macros
ASSUME OptionsAssumption == Options \cap BadOptions = {}

UNDEF     == "undef"
ENVIRON   == "environ"
CMDLINE   == "cmdline"
INTERNAL  == "internal"
MAKEFILE  == "makefile"
MAKEFLAGS == "makeflags"
Origins   == {INTERNAL, MAKEFILE, MAKEFLAGS, CMDLINE}

VARIABLES
  macro,       \* macro[n]: the members value and where of the macro n
  environ,     \* environ[n]: the value of n in the environment, or UNSET
  makeflags,   \* the words of the macro MAKEFLAGS
  todo,        \* the words of the variable MAKEFLAGS still to be read
  eflag,
  phase,       \* defaults, makeflags, argv, makefiles, or usage (exit 1)
  level, nargs, nassigns,
  \* History, for the properties only:
  given,       \* given[w][n]: the last value that n got from w
  inherited,   \* the environment when this make started
  above        \* what the make that started this one used: eflag, value, fixed

vars == <<macro, environ, makeflags, todo, eflag, phase, level, nargs, nassigns,
          given, inherited, above>>

Word(w) == [name |-> UNSET, word |-> w]

\* The words of the argument NAME=value.
AsWords(n, v) ==
  IF v = <<>> THEN <<[name |-> n, word |-> EMPTY]>>
  ELSE <<[name |-> n, word |-> Head(v)]>> \o [i \in 1..Len(v) - 1 |-> Word(v[i + 1])]

Nothing == [n \in Macros |-> UNSET]

Init ==
  /\ environ \in [Macros -> Values \cup {UNSET}]
  /\ macro = [n \in Macros |-> [value |-> <<>>, where |-> UNDEF]]
  /\ makeflags = <<>>
  /\ todo \in {<<>>} \cup {AsWords(n, v) : n \in Macros, v \in Values}
  /\ eflag = FALSE /\ phase = "defaults" /\ level = 1 /\ nargs = 0 /\ nassigns = 0
  /\ given = [w \in Origins |-> Nothing] /\ inherited = environ
  /\ above = [eflag |-> FALSE, value |-> Nothing, fixed |-> {}]

(***************************************************************************)
(* The macro table.                                                        *)
(***************************************************************************)

\* macroinfo(): the environment shows through, but for SHELL.
Shown(n) == n # SHELL /\ environ[n] # UNSET /\ (macro[n].where \in {UNDEF, INTERNAL} \/ eflag)
wherefrom(n) == IF Shown(n) THEN ENVIRON ELSE macro[n].where
getmacro(n) == IF Shown(n) THEN environ[n] ELSE macro[n].value

\* Mutant of Overrides: the makefiles override the macros of MAKEFLAGS.
OverridesFlags(where, owhere) ==
  CASE owhere \in {UNDEF, INTERNAL, MAKEFILE, MAKEFLAGS} -> TRUE
    [] owhere = ENVIRON -> where \in {MAKEFLAGS, CMDLINE} \/ (where = MAKEFILE /\ ~eflag)
    [] owhere = CMDLINE -> where = CMDLINE

Overrides(where, owhere) ==
  CASE owhere \in {UNDEF, INTERNAL, MAKEFILE} -> TRUE
    [] owhere = ENVIRON   -> where \in {MAKEFLAGS, CMDLINE} \/ (where = MAKEFILE /\ ~eflag)
    [] owhere = MAKEFLAGS -> where \in {MAKEFLAGS, CMDLINE}
    [] owhere = CMDLINE   -> where = CMDLINE

\* setmacro() and exportvar().
setmacro(n, v, where, export) ==
  /\ IF Overrides(where, wherefrom(n))
     THEN /\ macro' = [macro EXCEPT ![n] = [value |-> v, where |-> where]]
          /\ environ' = IF export /\ n # SHELL THEN [environ EXCEPT ![n] = v] ELSE environ
     ELSE UNCHANGED <<macro, environ>>
  /\ given' = [given EXCEPT ![where][n] = v]

(***************************************************************************)
(* The steps of main().                                                    *)
(***************************************************************************)

\* inject(defaults).
inject ==
  /\ phase = "defaults"
  /\ phase' = "makeflags"
  /\ macro' = [n \in Macros |->
       IF n \in Builtin /\ Overrides(INTERNAL, wherefrom(n))
       THEN [value |-> <<BUILTIN>>, where |-> INTERNAL] ELSE macro[n]]
  /\ given' = [given EXCEPT ![INTERNAL] =
                 [n \in Macros |-> IF n \in Builtin THEN <<BUILTIN>> ELSE UNSET]]
  /\ UNCHANGED <<environ, makeflags, todo, eflag, level, nargs, nassigns, inherited, above>>

\* appendmakeflags()
appendmakeflags(text) == makeflags' = makeflags \o text

\* parseflag(): an option that takes no argument.
parseflag(w) ==
  IF w \in Options
  THEN /\ eflag' = (eflag \/ w = "-e")
       /\ appendmakeflags(<<Word(w)>>)
       /\ UNCHANGED <<macro, environ, given>>
  ELSE UNCHANGED <<eflag, makeflags, macro, environ, given>>

\* Mutant of assign: the definition is not handed down.
assignHere(n, v, where, export) ==
  /\ setmacro(n, v, where, export)
  /\ UNCHANGED <<makeflags, eflag>>

assign(n, v, where, export) ==
  /\ appendmakeflags(AsWords(n, v))
  /\ setmacro(n, v, where, export)
  /\ UNCHANGED eflag

\* parsemakeflags(): one word of the variable MAKEFLAGS.  What is neither an
\* option nor a definition ends the reading.
parsemakeflags ==
  /\ phase = "makeflags" /\ todo # <<>>
  /\ LET t == Head(todo)
         dashed == t.name = UNSET /\ t.word \in Options \cup BadOptions
     IN /\ todo' = IF t.name = UNSET /\ ~dashed THEN <<>> ELSE Tail(todo)
        /\ phase' = IF dashed /\ t.word \in BadOptions THEN "usage" ELSE phase
        /\ IF t.name # UNSET
           THEN assign(t.name, IF t.word = EMPTY THEN <<>> ELSE <<t.word>>, MAKEFLAGS, FALSE)
           ELSE parseflag(t.word)
  /\ UNCHANGED <<level, nargs, nassigns, inherited, above>>

\* parseargv(): one argument of the command line.
argument ==
  /\ phase = "makeflags" /\ todo = <<>>
  /\ level = 1 /\ nargs < MaxArgs
  /\ nargs' = nargs + 1
  /\ \/ \E w \in Options : parseflag(w)
     \/ \E n \in Macros, v \in Values : assign(n, v, CMDLINE, TRUE)
  /\ UNCHANGED <<todo, phase, level, nassigns, inherited, above>>

\* The arguments are all read: the makefiles come next.
parsemakefiles ==
  /\ phase = "makeflags" /\ todo = <<>>
  /\ phase' = "makefiles"
  /\ UNCHANGED <<macro, environ, makeflags, todo, eflag, level, nargs, nassigns, given,
                 inherited, above>>

\* A macro definition of a makefile.
definition ==
  /\ phase = "makefiles" /\ nassigns < MaxAssigns
  /\ nassigns' = nassigns + 1
  /\ \E n \in Macros, v \in Values : setmacro(n, v, MAKEFILE, FALSE)
  /\ UNCHANGED <<makeflags, todo, eflag, phase, level, nargs, inherited, above>>

\* The macros that the command line or MAKEFLAGS set.
Fixed == {n \in Macros : given[CMDLINE][n] # UNSET \/ given[MAKEFLAGS][n] # UNSET}

\* A command of this make starts another one, with no arguments.
submake ==
  /\ phase = "makefiles" /\ level < MaxLevel
  /\ level' = level + 1
  /\ macro' = [n \in Macros |-> [value |-> <<>>, where |-> UNDEF]]
  /\ todo' = makeflags /\ makeflags' = <<>>
  /\ eflag' = FALSE /\ phase' = "defaults" /\ nassigns' = 0
  /\ given' = [w \in Origins |-> Nothing] /\ inherited' = environ
  /\ above' = [eflag |-> eflag, value |-> [n \in Macros |-> getmacro(n)], fixed |-> Fixed]
  /\ UNCHANGED <<environ, nargs>>

Next ==
  \/ inject
  \/ parsemakeflags
  \/ argument
  \/ parsemakefiles
  \/ definition
  \/ submake

Spec == Init /\ [][Next]_vars

(***************************************************************************)
(* Properties.                                                             *)
(***************************************************************************)

\* Type invariant; no entry of the table is marked as coming from the
\* environment, as setmacro() asserts.
TypeOK ==
  /\ macro \in [Macros -> [value : Seq(Words), where : Origins \cup {UNDEF}]]
  /\ environ \in [Macros -> Seq(Words) \cup {UNSET}]
  /\ makeflags \in Seq([name : Macros \cup {UNSET}, word : Words])
  /\ eflag \in BOOLEAN /\ level \in 1..MaxLevel
  /\ phase \in {"defaults", "makeflags", "makefiles", "usage"}

\* The value of n in the environment that make was started with.
Env(n) == IF n = SHELL THEN UNSET ELSE inherited[n]

\* The value of n from its strongest source: the command line, then MAKEFLAGS,
\* then the makefiles and the environment or, with -e, the environment and the
\* makefiles, and then the built-in value.
Wanted(n) ==
  LET FirstOf(a, b) == IF a # UNSET THEN a ELSE b
      file == given[MAKEFILE][n]
      ours == FirstOf(given[CMDLINE][n], given[MAKEFLAGS][n])
      both == IF eflag THEN FirstOf(Env(n), file) ELSE FirstOf(file, Env(n))
  IN FirstOf(ours, FirstOf(both, FirstOf(given[INTERNAL][n], <<>>)))

\* With -e the environment hides a definition of MAKEFLAGS.
Hidden(n) == /\ eflag /\ Env(n) # UNSET
             /\ given[CMDLINE][n] = UNSET /\ given[MAKEFLAGS][n] # UNSET

\* Once the makefiles are being read, every macro has the value that its
\* strongest source gave it last, whatever the order of the definitions, but
\* for the definitions of MAKEFLAGS that -e hides.
MacroPrecedenceButHidden ==
  phase = "makefiles" => \A n \in Macros : Hidden(n) \/ getmacro(n) = Wanted(n)

\* A make started by make understands the MAKEFLAGS it is handed, and gives the
\* macros of the command line, and -e, the meaning they had.
SubMakeAgrees ==
  /\ level > 1 => phase # "usage"
  /\ level > 1 /\ phase = "makefiles" =>
       /\ eflag = above.eflag
       /\ \A n \in above.fixed : getmacro(n) = above.value[n]
=============================================================================
