---------------------------- MODULE MCMakeBuild -----------------------------
(***************************************************************************)
(* Instances of MakeBuild for TLC: the makefiles, and what the user does   *)
(* with each.                                                              *)
(***************************************************************************)
EXTENDS MakeBuild

Cmd(plus, minus, writes) == [plus |-> plus, minus |-> minus, writes |-> writes]
W == Cmd(FALSE, FALSE, TRUE)    \* a command that writes $@
E == Cmd(FALSE, FALSE, FALSE)   \* a command that does not

NoCandidates == [n \in Names |-> <<>>]
Makefile(d, r, c, def) ==
  [deps |-> d, recipe |-> r, candidates |-> c, defined |-> def,
   precious |-> {}, ignored |-> {}, silenced |-> {}, dirs |-> {}]
Scenario(mk, targets, flagsets, signals, sources, files) ==
  [mk : {mk}, goals : {targets}, flags : flagsets, signals : {signals}, edits : {sources}, file : files]

(***************************************************************************)
(* A diamond: prog from a and b, which share h; h comes from the source x. *)
(* Inference: o from its c or y source, by the rules .c.o and .y.o, and    *)
(* from z, which has no rule but .DEFAULT's.  The last command of .y.o is  *)
(* marked + and the first - .                                              *)
(***************************************************************************)
BuildDeps == [n \in Names |->
  CASE n = "prog" -> <<"a", "b">> [] n \in {"a", "b"} -> <<"h">>
    [] n = "h" -> <<"x">> [] n = "o" -> <<"z">> [] OTHER -> <<>>]
BuildRecipe == [r \in Names \cup Rules \cup {DEFAULT} |->
  CASE r \in {"prog", "a", "b", "h", ".c.o"} -> <<W>>
    [] r = ".y.o" -> <<Cmd(FALSE, TRUE, FALSE), Cmd(TRUE, FALSE, TRUE)>>
    [] r = DEFAULT -> <<E>>
    [] OTHER -> <<>>]
BuildCandidates == [n \in Names |->
  IF n = "o" THEN <<<<".c.o", "c">>, <<".y.o", "y">>>> ELSE <<>>]
DiamondFiles == {[n \in Names |->
  CASE n = "x" -> s [] n = "a" -> a [] n \in {"prog", "b", "h"} -> h [] OTHER -> -1] :
  s \in {1}, a \in {-1, 2}, h \in {-1, 1}}
InferFiles == {[n \in Names |->
  CASE n = "o" -> o [] n = "c" -> c [] n = "y" -> y [] n = "z" -> z [] OTHER -> -1] :
  o \in {-1, 1}, c \in {-1, 1, 2}, y \in {-1, 2}, z \in {-1, 1}}
Diamond == Makefile(BuildDeps, BuildRecipe, BuildCandidates, {"prog", "a", "b", "h", "o", DEFAULT})
BuildScenarios ==
  Scenario("diamond", <<"prog">>, {{}, {"k"}, {"q"}}, 0, {"x"}, DiamondFiles)
  \cup Scenario("diamond", <<"o", "z">>,
         {{}, {"k"}, {"t"}, {"t", "i"}, {"i", "k"}, {"n", "q"}}, 0, {"c", "y", "z"}, InferFiles)
  \cup Scenario("diamond", <<"o">>, {{}, {"k"}}, 1, {"c"}, InferFiles)

(***************************************************************************)
(* A chain with recipes of two commands: t from u from the source x; and   *)
(* g, a prerequisite of .IGNORE.  Signals come at any moment.              *)
(***************************************************************************)
ChainDeps == [n \in Names |->
  CASE n = "t" -> <<"u">> [] n = "u" -> <<"x">> [] OTHER -> <<>>]
ChainRecipe == [r \in Names \cup Rules \cup {DEFAULT} |->
  CASE r = "t" -> <<W, E>> [] r = "u" -> <<E, W>> [] r = "g" -> <<E, E>> [] OTHER -> <<>>]
ChainFiles == {[n \in Names |-> IF n = "x" THEN s ELSE k] : s \in {-1, 1}, k \in {-1, 1}}
Chain == [Makefile(ChainDeps, ChainRecipe, NoCandidates, {"t", "u", "g"}) EXCEPT !.precious = {"u"}, !.ignored = {"g"}]
ChainScenarios ==
  Scenario("chain", <<"t">>, {{}, {"k"}, {"n"}}, 1, {"x"}, ChainFiles)
  \cup Scenario("chain", <<"g", "t">>, {{}, {"k"}}, 1, {}, {[n \in Names |-> 1]})
  \cup Scenario("chain", <<"t">>, {{"i"}}, 1, {}, {[n \in Names |-> IF n = "t" THEN -1 ELSE 1]})
  \cup Scenario("chain", <<"g">>, {{}, {"k"}, {"q"}}, 2, {}, {[n \in Names |-> -1]})

MCMakefiles == [diamond |-> Diamond, chain |-> Chain]
MCScenarios == BuildScenarios \cup ChainScenarios
=============================================================================
