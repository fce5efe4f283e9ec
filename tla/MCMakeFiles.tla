---------------------------- MODULE MCMakeFiles -----------------------------
(***************************************************************************)
(* Makefiles for TLC: single lines of every shape, short sequences of      *)
(* rules and definitions, and the settings that macros depend on.          *)
(***************************************************************************)
EXTENDS MakeFiles

OneWord == {<<>>, <<"a">>}

(***************************************************************************)
(* Texts.                                                                  *)
(***************************************************************************)
Blanks(ws) == FoldLeft(LAMBDA t, w : t \o <<w, " ">>, <<>>, ws)
RuleText(ts, ds, r) == Blanks(ts) \o <<":">> \o Blanks(ds) \o <<"\n">> \o (IF r = "" THEN <<>> ELSE <<"\t", r, "\n">>)

\* Rules for a and b, apart and together, a prerequisite named twice included,
\* and the special targets with and without prerequisites.
RuleTexts ==
  {RuleText(ts, ds, r) : ts \in {<<"a">>, <<"b", "a">>}, ds \in {<<>>, <<"b">>, <<"c", "b", "c">>}, r \in {"r1", "r2", ""}}
  \cup {RuleText(<<SUFFIXES>>, ds, "") : ds \in {<<>>, <<".c">>, <<".o", ".c">>}}
  \cup {RuleText(<<".c">>, <<>>, "r1"), RuleText(<<DEFAULT>>, <<>>, "r1"), RuleText(<<DEFAULT>>, <<"a">>, "r1"),
        RuleText(<<SILENT>>, <<>>, ""), RuleText(<<IGNORE>>, <<>>, ""), RuleText(<<IGNORE>>, <<"a">>, "")}

DefText(n, v) == <<n, " ", "=", " ">> \o v \o <<"\n">>
DefTexts  == {DefText(n, v) : n \in Macros, v \in OneWord}
UseTexts  == {<<"a", ":", "$", "X", "\n">>, <<"$", "(", "X", ")", ":", "$", "(", "SHELL", ")", "\n">>}
OddTexts  == {DefText("X", <<"$", "X">>), DefText("X", <<"a", " ", "b">>), DefText("Y", <<"$", "(", "X", ")", ".c">>),
              <<"c", ":", "$", "(", "Y", ":", ".c", "=", ".o", ")", "\n">>, <<"c", ":", "$", "{", "X", "}", "\n">>,
              <<"c", ":", "$", "(", "X", ":", "a", ")", "\n">>, <<"c", ":", "$", "$", "\n">>,
              <<"include", " ", "inc", "\n">>, <<"include", " ", "$", "X", "\n">>,
              <<"c", ":", "\n", "include", " ", "inc", "\n">>, <<"b", ":", "\n", "\t", "r1", "\n", "include", " ", "a", "\n", "\t", "r2", "\n">>}

\* Sequences of pieces of lines, as one line or more.
Pieces2 == {<<"a">>, <<"X">>, <<" ">>, <<":">>, <<"=">>, <<";">>, <<"#">>, <<"\\", "\n">>, <<"\n">>, <<"\n", "\t">>,
            <<"$", "X">>}
Odd4 == {FlattenSeq(p) \o <<"\n">> : p \in [1 .. 4 -> Pieces2]}
AnyTexts == {t \in Odd4 : t[1] \notin {"\t", "\n"}}
            \cup {<<"a", ":", "X">> \o FlattenSeq(p) \o <<"a", "\n">> : p \in [1 .. 3 -> Pieces2]}
            \cup {<<"X", "=", "a">> \o FlattenSeq(p) \o <<"a", "\n">> : p \in [1 .. 3 -> Pieces2]}

\* Words and recipes are the texts that makefiles give.
MCWords   == STRING
MCRecipes == Seq(Seq(STRING))

MCIncludes == [inc |-> <<<<"a", ":", "b", "\n">>, <<"\t", "r1", "\n">>>>, a |-> <<<<"\t", "r1", "\n">>>>, b |-> <<>>]
MCDefaults == <<[targets |-> <<SUFFIXES>>, deps |-> <<".o", ".c">>, recipe |-> NONE],
                [targets |-> <<".c">>, deps |-> <<>>, recipe |-> <<<<"r0">>>>]>>

(***************************************************************************)
(* Which texts are tried where: any text alone; up to three rules, or two  *)
(* with -r; up to two rules, definitions and uses together; and, with      *)
(* every setting, up to two arguments and a definition, in a make and in   *)
(* the make that a command starts.                                         *)
(***************************************************************************)
Quiet == inherited = Nothing /\ nargs = Len(makeflags) /\ makeflags \in {<<>>, <<Word("-r")>>} /\ level = 1
Free  == nargs = 0 /\ inherited \in {Nothing, [Nothing EXCEPT !["X"] = <<"a">>]} /\ makeflags = <<>> /\ level = 1
Rules == 3
Mixed == 2

pieceOne   == pieces = 0 /\ Free /\ inherited # Nothing /\ \E t \in AnyTexts : parse(t)
pieceAny   == pieces < (IF nargs = 0 THEN Rules ELSE Mixed) /\ Quiet /\ text \notin AnyTexts /\ \E t \in RuleTexts : parse(t)
pieceMacro == pieces < Mixed /\ Free /\ text \notin AnyTexts /\ \E t \in OddTexts : parse(t)
pieceShort == /\ pieces < (IF Free THEN Mixed ELSE 1) /\ text \notin AnyTexts
              /\ \E t \in DefTexts \cup (IF Free THEN UseTexts ELSE {}) : parse(t)
below      == pieces <= 1 /\ text \notin AnyTexts \cup RuleTexts \cup OddTexts /\ startMake

MCNext == injectDefaults \/ settings \/ startFiles \/ pieceOne \/ pieceAny \/ pieceMacro \/ pieceShort \/ parseinput \/ below
MCSpec == FilesInit /\ [][MCNext]_allvars
=============================================================================
