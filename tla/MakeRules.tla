----------------------------- MODULE MakeRules ------------------------------
(***************************************************************************)
(* The database of targets of scc-make: lookup(), depends(), addtarget(),  *)
(* adddep() and addrule() of rules.c, as rule() of parser.c and the option *)
(* -r of main.c call them.                                                 *)
(*                                                                         *)
(* The actors are the lines of the makefiles, in the order they are read.  *)
(* A recipe is a model value: which of the rules of a target gave it is    *)
(* all that matters here.  What the database says when the last makefile   *)
(* is read is what module MakeBuild takes as the constants Deps, Recipe,   *)
(* Defined, Precious, Ignored and Silenced.                                *)
(***************************************************************************)
EXTENDS Naturals, Sequences, SequencesExt

CONSTANTS
  Targets,     \* ordinary names
  DotNames,    \* other names that begin with a dot, such as ".c"
  Recipes,     \* recipes
  NONE,        \* no target, no recipe
  MaxLines     \* bound: number of rules in a makefile

SUFFIXES == ".SUFFIXES"
DEFAULT  == ".DEFAULT"
SILENT   == ".SILENT"
IGNORE   == ".IGNORE"
Specials == {SUFFIXES, DEFAULT, SILENT, IGNORE, ".PRECIOUS"}
Names    == Targets \cup DotNames \cup Specials

ASSUME NoneAssumption  == NONE \notin Names \cup Recipes
ASSUME ApartAssumption == Targets \cap (DotNames \cup Specials) = {}

VARIABLES
  db,          \* the table: deps, defined, actions of each name; deftarget; sflag, iflag
  outcome,     \* reading, or error: error() ended make
  read         \* history: the lines read so far, with -r as a line of its own

dbvars == <<db, outcome, read>>

\* A rule of a makefile.
Line == [targets : Seq(Names), deps : Seq(Names), recipe : Recipes \cup {NONE}]

\* The option -r, which comes before the makefiles, has the effect of this line.
ClearSuffixes == [targets |-> <<SUFFIXES>>, deps |-> <<>>, recipe |-> NONE]

NoRules ==
  [deps      |-> [n \in Names |-> <<>>],
   defined   |-> {},
   actions   |-> [n \in Names |-> NONE],
   deftarget |-> NONE,
   sflag     |-> FALSE,
   iflag     |-> FALSE]

InitRules ==
  /\ db = NoRules
  /\ outcome = "reading"
  /\ read = <<>>

\* Does addtarget() report an error for target, with ndeps prerequisites?
Refused(target, ndeps) == target = DEFAULT /\ ndeps > 0

\* Mutant of addtarget: an empty .SUFFIXES does not clear the list.
addtargetKeep(d, target, ndeps) ==
  LET e == [d EXCEPT !.defined = @ \cup {target}]
  IN IF d.deftarget = NONE /\ target \in Targets THEN [e EXCEPT !.deftarget = target] ELSE e

addtarget(d, target, ndeps) ==
  LET e == [d EXCEPT !.defined = @ \cup {target}]
  IN CASE d.deftarget = NONE /\ target \in Targets -> [e EXCEPT !.deftarget = target]
       [] target = SUFFIXES /\ ndeps = 0           -> [e EXCEPT !.deps[SUFFIXES] = <<>>]
       [] target = SILENT /\ ndeps = 0             -> [e EXCEPT !.sflag = TRUE]
       [] target = IGNORE /\ ndeps = 0             -> [e EXCEPT !.iflag = TRUE]
       [] OTHER                                    -> e

\* depends() is given the name to look for and does not look for it.
depends(d, target, dep) == \E i \in DOMAIN d.deps[target] : d.deps[target][i] = target

adddep(d, target, dep) ==
  IF depends(d, dep, target) \/ \E i \in DOMAIN d.deps[target] : d.deps[target][i] = dep
  THEN d
  ELSE [d EXCEPT !.deps[target] = Append(@, dep)]

addrule(d, target, recipe) == [d EXCEPT !.actions[target] = recipe]

adddeps(d, target, deps) == FoldLeft(LAMBDA acc, dep : adddep(acc, target, dep), d, deps)

\* What rule() does to the database for one of its targets, and for all of them.
Entered(d, target, line) ==
  LET e == adddeps(addtarget(d, target, Len(line.deps)), target, line.deps)
  IN IF line.recipe = NONE THEN e ELSE addrule(e, target, line.recipe)

EnterRule(d, line) == FoldLeft(LAMBDA e, target : Entered(e, target, line), d, line.targets)

\* rule(): one line of a makefile.  When addtarget() refuses one of the targets
\* make exits, and what was entered for the others is gone with it.
rule(line) ==
  /\ outcome = "reading"
  /\ Len(read) < MaxLines
  /\ line.targets # <<>>
  /\ read' = Append(read, line)
  /\ IF \E t \in ToSet(line.targets) : Refused(t, Len(line.deps))
     THEN /\ outcome' = "error"
          /\ UNCHANGED db
     ELSE /\ db' = EnterRule(db, line)
          /\ UNCHANGED outcome

\* A rule without a target, or a line that is no rule, ends make.
badLine ==
  /\ outcome = "reading"
  /\ outcome' = "error"
  /\ UNCHANGED <<db, read>>

NextRule == (\E line \in Line : rule(line)) \/ badLine

RulesSpec == InitRules /\ [][NextRule]_dbvars

(***************************************************************************)
(* Reference definitions: the database as a function of the lines read.    *)
(***************************************************************************)

\* The prerequisites that the lines give the target t, for .SUFFIXES from the last
\* line that empties the list.
Named(t, l) == t \in ToSet(l.targets)
GivenTo(t, lines) ==
  FoldLeft(LAMBDA acc, l : IF Named(t, l) THEN acc \o l.deps ELSE acc, <<>>, lines)
Clears(t) == {i \in DOMAIN read : t = SUFFIXES /\ Named(t, read[i]) /\ read[i].deps = <<>>}
About(t)  == SubSeq(read, IF Clears(t) = {} THEN 1 ELSE Max(Clears(t)), Len(read))

\* The elements of s, each where it appears first.
AddNew(acc, x) == IF x \in ToSet(acc) THEN acc ELSE Append(acc, x)
FirstOnes(s)   == FoldLeft(AddNew, <<>>, s)

\* The targets that a rule names among their own prerequisites.
SelfDependent == {n \in Names : \E l \in ToSet(read) : Named(n, l) /\ n \in ToSet(l.deps)}

(***************************************************************************)
(* Properties.                                                             *)
(***************************************************************************)

\* Type invariant; the default target is no special name.
DatabaseOK ==
  /\ db.deps \in [Names -> Seq(Names)]
  /\ db.defined \subseteq Names
  /\ db.actions \in [Names -> Recipes \cup {NONE}]
  /\ db.deftarget \in Targets \cup {NONE}
  /\ db.sflag \in BOOLEAN /\ db.iflag \in BOOLEAN
  /\ outcome \in {"reading", "error"}

\* Several rules for one target add up: its prerequisites are those of all of
\* them, in the order they are first named and each of them once, counting for
\* .SUFFIXES from the last line that empties it.
PrerequisitesAddUp ==
  outcome = "reading" /\ SelfDependent = {} =>
    \A t \in Names : db.deps[t] = FirstOnes(GivenTo(t, About(t)))

\* The commands of a target are those of the last rule that gives it some.
LastRecipeWins ==
  outcome = "reading" =>
    \A t \in Names :
      LET giving == {i \in DOMAIN read : Named(t, read[i]) /\ read[i].recipe # NONE}
      IN db.actions[t] = IF giving = {} THEN NONE ELSE read[Max(giving)].recipe

\* make without arguments builds the first target that is no special name.
DefaultIsFirst ==
  outcome = "reading" =>
    IF \A i \in DOMAIN read : ToSet(read[i].targets) \cap Targets = {} THEN db.deftarget = NONE
    ELSE \E i \in DOMAIN read : \E j \in DOMAIN read[i].targets :
           /\ db.deftarget = read[i].targets[j] /\ db.deftarget \in Targets
           /\ \A k \in 1 .. i - 1 : ToSet(read[k].targets) \cap Targets = {}
           /\ \A k \in 1 .. j - 1 : read[i].targets[k] \notin Targets

\* The database is the one that the rules read define, whatever their order.
DatabaseAsRead == DatabaseOK /\ PrerequisitesAddUp /\ LastRecipeWins /\ DefaultIsFirst
=============================================================================
