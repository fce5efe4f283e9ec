----------------------------- MODULE MakeFiles ------------------------------
(***************************************************************************)
(* scc-make from its start until the makefiles are read, and the makes it  *)
(* starts: the environment, MAKEFLAGS and the arguments (MakeMacros), the  *)
(* text of the makefiles (MakeText), and the macros and the database of    *)
(* rules (MakeRules) that the text defines.  Targets and prerequisites are *)
(* expanded when a rule is read, with the macros of that moment; commands  *)
(* are kept as they are written.                                           *)
(*                                                                         *)
(* A makefile is read in pieces of one or more lines, chosen when the text *)
(* before is used up; a piece does not go on with the commands of the rule *)
(* before.                                                                 *)
(***************************************************************************)
EXTENDS MakeMacros, MakeRules, MakeText

CONSTANTS
  Includes,    \* Includes[f]: the lines of the file f
  DefaultRules,\* the rules of defaults.c
  MaxDepth     \* bound: expansions inside of expansions before the stack ends

VARIABLES
  in,          \* the stack of inputs
  pieces,      \* pieces of the makefile read
  \* History, for the properties only:
  text,        \* the last piece
  seen         \* its statements, each with the macros when it was read

filevars == <<in, pieces, text, seen>>
allvars  == <<vars, dbvars, filevars>>

LinesOf(t) ==
  FoldLeft(LAMBDA ls, c : IF c = "\n" THEN Append([ls EXCEPT ![Len(ls)] = Append(@, c)], <<>>)
                          ELSE [ls EXCEPT ![Len(ls)] = Append(@, c)],
           <<<<>>>>, t)

Table  == [n \in Macros |-> getmacro(n)]
Reader == [in |-> in, c |-> EOF, tok |-> EOF, token |-> "", err |-> FALSE, mac |-> Table,
           files |-> Includes, depth |-> MaxDepth]

FilesInit == Init /\ InitRules /\ in = <<>> /\ pieces = 0 /\ text = <<>> /\ seen = <<>>

\* inject(defaults): macros and rules.
injectDefaults ==
  /\ inject
  /\ db' = FoldLeft(EnterRule, db, DefaultRules) /\ read' = DefaultRules
  /\ UNCHANGED <<outcome, filevars>>

\* parsemakeflags() and parseargv(): the option -r empties the list of suffixes.
settings ==
  /\ parsemakeflags \/ argument
  /\ LET r == Len(makeflags') > Len(makeflags) /\ Last(makeflags') = Word("-r")
     IN /\ db' = IF r THEN addtarget(db, SUFFIXES, 0) ELSE db
        /\ read' = IF r THEN Append(read, ClearSuffixes) ELSE read
  /\ UNCHANGED <<outcome, filevars>>

startFiles == parsemakefiles /\ UNCHANGED <<dbvars, filevars>>

\* parse(): the next piece of a makefile.
parse(t) ==
  /\ phase = "makefiles" /\ outcome = "reading" /\ in = <<>>
  /\ in' = <<File(Front(LinesOf(t)))>> /\ pieces' = pieces + 1
  /\ text' = t /\ seen' = <<>>
  /\ UNCHANGED <<vars, dbvars>>

\* The database follows the names of Names, and the table the macros of Macros.
Followed(w) == ToSet(w.targets \o w.deps) \subseteq Names
LineOf(w)   == [targets |-> w.targets, deps |-> w.deps, recipe |-> IF w.cmds = <<>> THEN NONE ELSE w.cmds]

\* One turn of parseinput(): a definition or a rule.
parseinput ==
  /\ in # <<>> /\ outcome = "reading"
  /\ \E o \in {statement(Reader)} :
     \E w \in {o.what} :
     /\ in' = moreinput(o.r).in
     /\ seen' = IF w.kind = "none" THEN seen ELSE Append(seen, [mac |-> Table, what |-> w])
     /\ \/ w.kind = "none" /\ UNCHANGED <<vars, dbvars>>
        \/ w.kind = "error" /\ badLine /\ UNCHANGED vars
        \/ /\ w.kind = "def" /\ UNCHANGED dbvars
           /\ IF w.name \in Macros THEN setmacro(w.name, w.value, MAKEFILE, FALSE) ELSE UNCHANGED <<macro, environ, given>>
           /\ UNCHANGED <<makeflags, todo, eflag, phase, level, nargs, nassigns, inherited, above>>
        \/ /\ w.kind = "rule" /\ UNCHANGED vars
           /\ IF Followed(w) THEN rule(LineOf(w)) ELSE UNCHANGED dbvars
  /\ UNCHANGED <<pieces, text>>

\* A command starts another make.
startMake ==
  /\ submake /\ outcome = "reading" /\ in = <<>>
  /\ db' = NoRules /\ read' = <<>> /\ outcome' = "reading"
  /\ in' = <<>> /\ pieces' = 0 /\ text' = <<>> /\ seen' = <<>>

(***************************************************************************)
(* Reference definitions: a piece of a makefile by its lines.              *)
(***************************************************************************)

\* The positions of s where the character is one of cs, outside of parentheses.
Where(s, cs) ==
  {i \in DOMAIN s : s[i] \in cs /\ Len(SelectSeq(SubSeq(s, 1, i - 1), LAMBDA c : c = "("))
                                  = Len(SelectSeq(SubSeq(s, 1, i - 1), LAMBDA c : c = ")"))}
FirstAt(s, cs)   == CHOOSE i \in Where(s, cs) : \A j \in Where(s, cs) : i <= j
Before(s, cs) == IF Where(s, cs) = {} THEN s ELSE SubSeq(s, 1, FirstAt(s, cs) - 1)
After(s, cs)  == IF Where(s, cs) = {} THEN <<>> ELSE SubSeq(s, FirstAt(s, cs) + 1, Len(s))

\* The lines of a text, without their ends; a line that ends in a backslash goes on.
LogicalLines(t) ==
  FoldLeft(LAMBDA ls, i :
             IF t[i] = "\n" /\ (i = 1 \/ t[i - 1] # "\\") THEN Append(ls, <<>>)
             ELSE [ls EXCEPT ![Len(ls)] = Append(@, t[i])],
           <<<<>>>>, [i \in DOMAIN t |-> i])

\* The end of a line in the middle of a logical line, with the blanks after it,
\* is a blank; in a command it is nothing, with the tab after it.
Continued(s, skip, blanks, by) ==
  LET after(i) == \E j \in 1 .. i - 1 : s[j] = "\n" /\ \A k \in j + 1 .. i : k <= j + skip /\ s[k] \in blanks
      keep(i)  == s[i] # "\n" /\ ~(i < Len(s) /\ s[i] = "\\" /\ s[i + 1] = "\n") /\ ~after(i)
  IN FoldLeft(LAMBDA out, i : out \o (IF keep(i) THEN <<s[i]>> ELSE IF s[i] = "\n" THEN by ELSE <<>>),
              <<>>, [i \in DOMAIN s |-> i])
OneLine(s)    == Continued(s, Len(s), {" ", "\t"}, <<" ">>)
CommandOf(s)  == Continued(TrimLeft(s), 1, {"\t"}, <<>>)

\* The words of a text.
WordsOf(s) ==
  LET starts == {i \in DOMAIN s : ~isblank(s[i]) /\ (i = 1 \/ isblank(s[i - 1]))}
      end(i) == CHOOSE j \in i .. Len(s) : (\A k \in i .. j : ~isblank(s[k])) /\ (j = Len(s) \/ isblank(s[j + 1]))
      word(i) == Name(SubSeq(s, i, end(i)))
  IN FoldLeft(LAMBDA ws, i : IF i \in starts THEN Append(ws, word(i)) ELSE ws, <<>>, [i \in DOMAIN s |-> i])

\* The suffix a of every word of s that ends in it becomes b.
Substituted(s, a, b) ==
  FoldLeft(LAMBDA out, i :
             IF a # <<>> /\ \E k \in 0 .. Len(a) - 1 :
                  /\ i - k >= 1 /\ i - k + Len(a) - 1 <= Len(s) /\ SubSeq(s, i - k, i - k + Len(a) - 1) = a
                  /\ (i - k + Len(a) > Len(s) \/ isblank(s[i - k + Len(a)]))
             THEN IF i = Len(s) \/ isblank(s[i + 1]) THEN out \o b ELSE out
             ELSE Append(out, s[i]),
           <<>>, [i \in DOMAIN s |-> i])

\* The text with its macros expanded; "?" stands for what cannot be expanded.
RECURSIVE Meant(_, _, _)
Meant(s, mac, n) ==
  LET close == CHOOSE i \in DOMAIN s : s[i] = ")" /\ \A j \in 1 .. i - 1 : s[j] # ")"
  IN With(SubSeq(s, 3, close - 1), LAMBDA ref :
  With(Name(Before(ref, {":"})), LAMBDA name :
  With(After(ref, {":"}), LAMBDA sub :
  LET of(m) == IF m \in DOMAIN mac THEN Meant(mac[m], mac, n - 1) ELSE <<>>
  IN IF n = 0 THEN <<"?">>
     ELSE IF s = <<>> THEN <<>>
     ELSE IF s[1] # "$" THEN <<s[1]>> \o Meant(Tail(s), mac, n)
     ELSE IF Len(s) = 1 \/ s[2] \in {"$", "{", ")"} THEN <<"?">>
     ELSE IF s[2] # "(" THEN of(s[2]) \o Meant(SubSeq(s, 3, Len(s)), mac, n)
     ELSE IF ")" \notin ToSet(s) \/ \E i \in DOMAIN Before(ref, {":"}) : ~validchar(ref[i]) THEN <<"?">>
     ELSE (IF Where(ref, {":"}) = {} THEN of(name)
           ELSE IF Where(sub, {"="}) = {} THEN <<"?">>
           ELSE Substituted(of(name), Before(sub, {"="}), After(sub, {"="})))
          \o Meant(SubSeq(s, close + 1, Len(s)), mac, n))))

\* The text with the files it includes in it, each followed by an empty line.
Spliced(t) ==
  LET name(l) == WordsOf(Meant(SubSeq(l, 2, Len(l) - 1), Table, MaxDepth))
      lines(l) == IF name(l) = <<>> THEN <<>>
                  ELSE IF name(l)[1] \in DOMAIN Includes THEN FlattenSeq(Includes[name(l)[1]]) \o <<"\n">>
                  ELSE <<"?", "\n">>
  IN FoldLeft(LAMBDA out, l : out \o (IF l # <<>> /\ l[1] = "include" THEN lines(l) ELSE l), <<>>, LinesOf(t))

\* Only names and blanks.
Plain(s) == \A i \in DOMAIN s : validchar(s[i]) \/ isblank(s[i])

IsCommand(l) == l # <<>> /\ l[1] = "\t"
IsComment(l) == l # <<>> /\ l[1] = "#"
IsBlank(l)   == WordsOf(OneLine(Before(l, {"#"}))) = <<>>

\* What a line that is no command means, with the commands that follow it.
StatementOf(l, cmds, mac) ==
  LET full(s) == Meant(OneLine(s), mac, MaxDepth)
  IN With(Before(l, {":", "=", "#"}), LAMBDA sep :
  With(After(l, {":", "=", "#"}), LAMBDA rest :
  With(IF Where(l, {":", "=", "#"}) = {} THEN "#" ELSE l[FirstAt(l, {":", "=", "#"})], LAMBDA which :
  With(Before(rest, {";", "#"}), LAMBDA deps :
  LET semi    == Where(rest, {";", "#"}) # {} /\ rest[FirstAt(rest, {";", "#"})] = ";"
  IN CASE which = "=" /\ Plain(full(sep)) /\ Len(WordsOf(full(sep))) = 1 /\ cmds = <<>> ->
            [kind |-> "def", name |-> WordsOf(full(sep))[1], value |-> OneLine(Before(TrimLeft(rest), {"#"}))]
       [] which = ":" /\ Plain(full(sep)) /\ Plain(full(deps)) /\ WordsOf(full(sep)) # <<>> ->
            [kind |-> "rule", targets |-> WordsOf(full(sep)), deps |-> WordsOf(full(deps)),
             cmds |-> (IF semi THEN <<CommandOf(After(rest, {";"}))>> ELSE <<>>) \o cmds]
       [] OTHER -> [kind |-> "error"]))))

\* The statements of a text: each line that is neither blank nor a comment nor a
\* command, with the commands up to the next one.
StatementsOf(t, macs) ==
  With(LogicalLines(Spliced(t)), LAMBDA ls :
  With(SelectSeq([i \in DOMAIN ls |-> i], LAMBDA i : ~IsCommand(ls[i]) /\ ~IsBlank(ls[i])), LAMBDA heads :
  LET until(k) == IF k = Len(heads) THEN Len(ls) ELSE heads[k + 1] - 1
      cmds(k)  == LET cs == SelectSeq(SubSeq(ls, heads[k] + 1, until(k)), IsCommand)
                  IN [i \in DOMAIN cs |-> CommandOf(Tail(cs[i]))]
  IN [k \in DOMAIN heads |-> StatementOf(ls[heads[k]], cmds(k), macs[k])]))

\* Texts that POSIX leaves open, or that make reads in another way: a command with
\* no rule before it, or after a line that is blank; and a line that goes on after
\* the last one.
Excused(t) ==
  With(LogicalLines(Spliced(t)), LAMBDA ls :
  LET head(j) == ~IsCommand(ls[j]) /\ ~IsBlank(ls[j])
  IN \/ \E i \in DOMAIN ls : IsCommand(ls[i]) /\
          ~\E j \in 1 .. i - 1 : head(j) /\ \A k \in j + 1 .. i - 1 : IsCommand(ls[k]) \/ IsComment(ls[k])
     \/ Last(ls) # <<>>)

(***************************************************************************)
(* Properties.                                                             *)
(***************************************************************************)

\* A makefile means what its lines say: whatever continuations, comments and
\* macros are in it, and however the stack of inputs grew while they were read,
\* a text of legal lines gives the definitions, targets, prerequisites and
\* commands that its logical lines have, with the macros of the moment a line was
\* read, and is not refused.
ReadAsWritten ==
  text # <<>> /\ in = <<>> /\ pieces > 0 /\ ~Excused(text) =>
    LET n    == Len(SelectSeq(LogicalLines(Spliced(text)), LAMBDA l : ~IsCommand(l) /\ ~IsBlank(l)))
    IN With([k \in 1 .. n |-> IF k <= Len(seen) THEN seen[k].mac ELSE Table], LAMBDA macs :
    With(StatementsOf(text, macs), LAMBDA want :
    (\A k \in DOMAIN want : want[k].kind # "error") =>
      seen = [k \in DOMAIN want |-> [mac |-> macs[k], what |-> want[k]]]))
=============================================================================
