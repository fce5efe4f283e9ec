--------------------------------- MODULE Cpp ---------------------------------
(***************************************************************************)
(* The preprocessor of cc1 (cc1/cpp.c) and the stack of inputs it shares   *)
(* with the lexer (addinput, delinput, moreinput, skipspaces, iden and     *)
(* next in cc1/lex.c).                                                     *)
(*                                                                         *)
(* A file is read a line at a time and any line of Lines may come next: a  *)
(* text, that is a sequence of tokens, or a directive.  Tokens are names,  *)
(* punctuators and other atoms; the replacement list of a macro is a       *)
(* sequence of items that are a token, a parameter, a parameter next to ## *)
(* or a parameter after #.  The recursion of next(), expand(), parsepars() *)
(* and expandarg() is the stack ctl.  An error closes the output for good  *)
(* and what cc1 says after the first one is left out, so it ends the run.  *)
(***************************************************************************)
EXTENDS Integers, Sequences, SequencesExt, FiniteSets

CONSTANTS
  Names,       \* the identifiers that can name a macro
  NoName,      \* no identifier
  STR,         \* the string that # makes
  JUNK,        \* what yytext holds after a directive
  Lines,       \* the lines a file can hold: see Line
  Predefined,  \* macro tables to start from (-D and -U): see Macro
  NR_COND, NR_MACROARG,
  MaxLines     \* bound: lines read

FUNLIKE(n) == n >= 0
OBJLIKE    == -1
Kinds      == {"tok", "par", "raw", "str"}
Token      == STRING
Item       == [k : Kinds, tok : Token, par : Nat]
\* getdefs() finds parameters and takes # only in macros with parameters.
Macro      == {m \in [def : BOOLEAN, npars : Nat \cup {OBJLIKE}, body : Seq(Item)] :
                 m.npars = OBJLIKE => \A i \in DOMAIN m.body : m.body[i].k = "tok"}
Directives == {"define", "undef", "if", "ifdef", "ifndef", "elif", "else", "endif", "include",
               "missing", "line", "pragma", "error", "null", "bad"}
Line       == [d : Directives \cup {"text"}, name : Names \cup {NoName}, val : Int,
               mac : Macro, toks : Seq(Token)]

ASSUME BoundsAssumption == NR_COND \in Nat \ {0} /\ NR_MACROARG \in Nat \ {0} /\ MaxLines \in Nat
ASSUME NamesAssumption  == IsFiniteSet(Names) /\ NoName \notin Names /\ JUNK \notin Names /\ STR \notin Names
ASSUME LinesAssumption  == Lines \subseteq Line /\ Predefined \subseteq [Names -> Macro]

VARIABLES
  input,       \* the stack of inputs, the current one last
  ctl,         \* the calls of parsepars() and copymacro() under way, the innermost last
  looking,     \* the macro for which parsepars() looks for a '('
  stale,       \* yytext no longer holds the name of that macro
  macro,       \* macro[n]: the definition of n
  hide,        \* the macros that are hidden
  disexpand,   \* no macro is expanded
  cppctx, ifstate, cppoff,   \* the conditional groups
  pragmas, fresh,            \* calls of pragma() waiting for a token; no directive since
  lineno,
  out,         \* the tokens given to the parser
  outcome,     \* running, done, fail (an error), crash (undefined behaviour)
  nlines,
  \* History, for the properties only:
  groups,      \* the open groups as C has them, and the #elif and #else since one was taken
  ref,         \* what the parser should get when every macro is object-like
  exact,       \* ref is to be compared with out
  broken       \* a directive came among the arguments of a call, where C defines nothing

conds   == <<cppctx, ifstate, cppoff>>
expands == <<ctl, looking, stale, hide, disexpand>>
asinc   == <<groups, ref, exact>>
ghost   == <<asinc, broken>>
vars    == <<input, expands, macro, conds, pragmas, fresh, lineno, out, outcome, nlines, ghost>>

Running  == outcome = "running"
Input(t, s) == [t |-> t, sym |-> s, toks |-> <<>>, hs |-> {}, eof |-> FALSE, lno |-> 0, phys |-> 0]
Context(k, s) == [k |-> k, sym |-> s, args |-> <<>>, cur |-> <<>>, depth |-> 0,
                  items |-> macro[s].body, base |-> 0]
IsMacro(n) == n \in Names /\ macro[n].def

Init ==
  /\ input = <<Input("file", NoName)>>
  /\ macro \in Predefined
  /\ ctl = <<>> /\ looking = NoName /\ stale = FALSE /\ hide = {} /\ disexpand = FALSE
  /\ cppctx = 0 /\ cppoff = 0 /\ ifstate = [i \in 0 .. NR_COND - 1 |-> [enabled |-> FALSE, iselse |-> FALSE]]
  /\ pragmas = 0 /\ fresh = FALSE
  /\ lineno = 0 /\ out = <<>> /\ outcome = "running" /\ nlines = 0
  /\ groups = <<>> /\ ref = <<>> /\ broken = FALSE
  /\ exact = \A n \in Names : macro[n].def => macro[n].npars = OBJLIKE
-----------------------------------------------------------------------------
(* The stack of inputs                                                     *)

\* Mutant of addinput: the line of the input that is left is not kept.
addinputUnsaved(st, cur, ip, line) == Append(st, [ip EXCEPT !.lno = line])

\* The stack st with the input ip on it; cur is the line reached in the one that
\* is left, line the one where ip starts.
addinput(st, cur, ip, line) == Append([st EXCEPT ![Len(st)].lno = cur], [ip EXCEPT !.lno = line])

delmacro(ip) == hide \ ip.hs

delinput ==
  /\ input' = Front(input)
  /\ hide' = delmacro(Last(input))
  /\ lineno' = IF Len(input) > 1 THEN input[Len(input) - 1].lno ELSE lineno

setloc(line) ==
  /\ input' = [input EXCEPT ![Len(input)].lno = line, ![Len(input)].phys = line]
  /\ lineno' = line

Fails == /\ outcome' = "fail"
         /\ UNCHANGED <<input, expands, macro, conds, pragmas, fresh, lineno, out, nlines, ghost>>
Crashes == /\ outcome' = "crash"
           /\ UNCHANGED <<input, expands, macro, conds, pragmas, fresh, lineno, out, nlines, ghost>>
-----------------------------------------------------------------------------
(* What C says of the groups and of object-like macros                     *)

Live == \A i \in DOMAIN groups : groups[i].now

\* The expansion of a token inside the expansions of the macros of S.
Full[S \in SUBSET Names] ==
  [t \in Names |->
     IF t \in S \/ ~macro[t].def THEN <<t>>
     ELSE FlattenSeq([i \in DOMAIN macro[t].body |->
            LET b == macro[t].body[i].tok IN
            IF b \in Names THEN Full[S \cup {t}][b] ELSE <<b>>])]

Expansion(toks) == FlattenSeq([i \in DOMAIN toks |->
                     IF toks[i] \in Names THEN Full[{}][toks[i]] ELSE <<toks[i]>>])

OpenGroup(v) == Append(groups, [taken |-> v, now |-> v, after |-> 0])
NextGroup(v) == LET g == Last(groups) IN
  [groups EXCEPT ![Len(groups)] =
     [taken |-> g.taken \/ v, now |-> v /\ ~g.taken, after |-> IF g.taken THEN g.after + 1 ELSE 0]]
Odd == \E i \in DOMAIN groups : groups[i].after > 1
-----------------------------------------------------------------------------
(* Directives.  Each leaves the line it is on exhausted.                   *)

\* ifclause(): in a group that is off the condition is not looked at.
ifclause(n, status, off) ==
  LET s == status /\ off = 0 IN
  /\ cppctx' = n + 1
  /\ cppoff' = IF s THEN off ELSE off + 1
  /\ ifstate' = [ifstate EXCEPT ![n] = [enabled |-> s, iselse |-> FALSE]]

Status(l) == CASE l.d \in {"if", "elif"} -> l.val # 0
               [] l.d = "ifdef"          -> macro[l.name].def
               [] OTHER                  -> ~macro[l.name].def

if(l) ==
  /\ cppctx # NR_COND - 1
  /\ ifclause(cppctx, Status(l), cppoff)
  /\ groups' = OpenGroup(Status(l))
  /\ UNCHANGED <<macro, ref, exact>>

\* elseclause() turns the group on or off, whatever came before it.
elseclause(i) == [enabled |-> ~ifstate[cppctx - 1].enabled, iselse |-> i]
elseoff       == IF ifstate[cppctx - 1].enabled THEN cppoff + 1 ELSE cppoff - 1

cppelse ==
  /\ cppctx # 0 /\ ~ifstate[cppctx - 1].iselse
  /\ ifstate' = [ifstate EXCEPT ![cppctx - 1] = elseclause(TRUE)]
  /\ cppoff' = elseoff
  /\ groups' = NextGroup(TRUE)
  /\ exact' = (exact /\ Last(groups').after <= 1)
  /\ UNCHANGED <<cppctx, macro, ref>>

elif(l) ==
  /\ cppctx # 0 /\ ~ifstate[cppctx - 1].iselse
  /\ IF ifstate[cppctx - 1].enabled
     THEN /\ ifstate' = [ifstate EXCEPT ![cppctx - 1] = elseclause(FALSE)]
          /\ cppoff' = elseoff
          /\ cppctx' = cppctx
     ELSE ifclause(cppctx - 1, Status(l), elseoff)
  /\ groups' = NextGroup(Status(l))
  /\ exact' = (exact /\ Last(groups').after <= 1)
  /\ UNCHANGED <<macro, ref>>

\* Mutant of endif: the end of a group turns nothing on.
endifOff ==
  /\ cppctx # 0
  /\ cppctx' = cppctx - 1
  /\ cppoff' = cppoff
  /\ groups' = Front(groups)
  /\ UNCHANGED <<ifstate, macro, ref, exact>>

endif ==
  /\ cppctx # 0
  /\ cppctx' = cppctx - 1
  /\ cppoff' = IF ifstate[cppctx - 1].enabled THEN cppoff ELSE cppoff - 1
  /\ groups' = Front(groups)
  /\ UNCHANGED <<ifstate, macro, ref, exact>>

define(l) ==
  /\ macro' = IF cppoff = 0 THEN [macro EXCEPT ![l.name] = l.mac] ELSE macro
  /\ exact' = (exact /\ ~(cppoff = 0 /\ FUNLIKE(l.mac.npars)))
  /\ UNCHANGED <<conds, groups, ref>>

\* killsym() frees the symbol: parsepars() may still need it.
undef(l) ==
  /\ cppoff = 0 => \A i \in DOMAIN ctl : ctl[i].sym # l.name
  /\ cppoff = 0 => looking # l.name
  /\ macro' = IF cppoff = 0 THEN [macro EXCEPT ![l.name].def = FALSE] ELSE macro
  /\ UNCHANGED <<conds, asinc>>

\* The directives that leave the stack of inputs as it is.
clause(l) == CASE l.d \in {"if", "ifdef", "ifndef"} -> if(l)
               [] l.d = "elif"   -> elif(l)
               [] l.d = "else"   -> cppelse
               [] l.d = "endif"  -> endif
               [] l.d = "define" -> define(l)
               [] l.d = "undef"  -> undef(l)
               [] OTHER          -> UNCHANGED <<macro, conds, asinc>>

\* The cases in which cpp() reports an error.
Wrong(l) == \/ l.d = "bad"
            \/ l.d \in {"missing", "error"} /\ cppoff = 0
            \/ l.d = "line" /\ cppoff = 0 /\ l.val <= 0
            \/ l.d \in {"if", "ifdef", "ifndef"} /\ cppctx = NR_COND - 1
            \/ l.d \in {"else", "elif"} /\ (cppctx = 0 \/ (cppctx # 0 /\ ifstate[cppctx - 1].iselse))
            \/ l.d = "endif" /\ cppctx = 0

\* The symbol of a macro that is being called is freed, or, while its arguments
\* are collected, the text that newmacro() took from it.
Freed(l) ==
  LET called == {ctl[i].sym : i \in DOMAIN ctl} IN
  cppoff = 0 /\ \/ l.d = "undef" /\ l.name \in called \cup {looking}
                \/ l.d = "define" /\ l.name \in called

\* The text of a macro whose '(' is awaited is freed: a call reads freed memory,
\* which may hold the text that replaced it.
Replaced(l) == l.d = "define" /\ cppoff = 0 /\ l.name = looking

\* parsepars() is collecting the arguments of a call.
Collecting == ctl # <<>> /\ Last(ctl).k = "pars"

\* The current input is a file, with nothing left of its line.
AtLineEnd == Running /\ input # <<>> /\ Last(input).t = "file" /\ Last(input).toks = <<>> /\ ~Last(input).eof

readline(l) ==
  /\ AtLineEnd
  /\ nlines < MaxLines
  /\ nlines' = nlines + 1

NewLine == [input EXCEPT ![Len(input)].phys = @ + 1]

\* #include leaves the line it is on and starts at the top of the other file.
include ==
  /\ input' = addinput(NewLine, lineno + 1, Input("file", NoName), 0)
  /\ lineno' = 0

line(l) == setloc(l.val - 1)

\* pragma() clears the rest of its line and asks for a token, which is read from
\* the lines that follow.
pragma(l) ==
  LET on == l.d = "pragma" /\ cppoff = 0 IN
  /\ pragmas' = IF on THEN pragmas + 1 ELSE pragmas
  /\ fresh' = on

cpp(l) ==
  /\ readline(l)
  /\ l.d # "text" /\ ~Wrong(l) /\ ~Freed(l)
  /\ clause(l)
  /\ CASE l.d = "include" /\ cppoff = 0 -> include
       [] l.d = "line" /\ cppoff = 0    -> line(l)
       [] OTHER                         -> input' = NewLine /\ lineno' = lineno + 1
  /\ pragma(l)
  /\ disexpand' = FALSE
  /\ stale' = (looking # NoName)
  /\ broken' = (broken \/ Collecting)
  /\ UNCHANGED <<ctl, looking, hide, out, outcome>>

cppfails(l) ==
  /\ readline(l)
  /\ \/ (Freed(l) \/ Replaced(l)) /\ outcome' = "crash"
     \/ ~Freed(l) /\ Wrong(l) /\ outcome' = "fail"
  /\ UNCHANGED <<input, expands, macro, conds, pragmas, fresh, lineno, out, ghost>>

\* A line of text: dropped in a group that is off.  The token that a pending
\* pragma() asked for must be the end of a line.
textline(l) ==
  /\ readline(l)
  /\ l.d = "text"
  /\ cppoff = 0 /\ pragmas > 0 => l.toks = <<>>
  /\ input' = [NewLine EXCEPT ![Len(input)].toks = IF cppoff = 0 THEN l.toks ELSE <<>>]
  /\ lineno' = lineno + 1
  /\ pragmas' = IF fresh /\ cppoff = 0 THEN pragmas - 1 ELSE pragmas
  /\ fresh' = FALSE
  /\ ref' = IF Live THEN ref \o Expansion(l.toks) ELSE ref
  /\ UNCHANGED <<expands, macro, conds, out, outcome, groups, exact, broken>>

textfails(l) ==
  /\ readline(l)
  /\ l.d = "text" /\ cppoff = 0 /\ pragmas > 0 /\ l.toks # <<>>
  /\ outcome' = "fail"
  /\ UNCHANGED <<input, expands, macro, conds, pragmas, fresh, lineno, out, ghost>>

\* Mutant of endfile: the input is not marked.
endfileUnmarked == AtLineEnd /\ UNCHANGED vars

endfile ==
  /\ AtLineEnd
  /\ input' = [input EXCEPT ![Len(input)].eof = TRUE]
  /\ UNCHANGED <<expands, macro, conds, pragmas, fresh, lineno, out, outcome, nlines, ghost>>
-----------------------------------------------------------------------------
(* Expansion of macros                                                     *)

\* copymacro() is at work on the current input.
Copying == ctl # <<>> /\ Last(ctl).k = "copy" /\ Last(ctl).base = Len(input)

\* Inputs that are exhausted are popped, but for a parameter.
moreinput ==
  /\ Running /\ input # <<>> /\ ~Copying
  /\ Last(input).toks = <<>>
  /\ Last(input).t = "macro" \/ Last(input).eof
  /\ delinput
  /\ UNCHANGED <<ctl, looking, stale, disexpand, macro, conds, pragmas, fresh, out, outcome, nlines, ghost>>

HasToken == Running /\ input # <<>> /\ ~Copying /\ Last(input).toks # <<>>
Tok      == Head(Last(input).toks)
Consume  == [input EXCEPT ![Len(input)].toks = Tail(@)]

\* expand() takes the name t for a macro.
Expandable(t) == IsMacro(t) /\ ~disexpand /\ t \notin hide

\* A macro without parameters: its input is pushed, and copymacro() starts.
PushMacro(s, args, ip, c) ==
  /\ input' = addinput(ip, lineno, Input("macro", s), lineno)
  /\ ctl' = Append(c, [Context("copy", s) EXCEPT !.args = args, !.base = Len(ip) + 1])

expand ==
  /\ HasToken /\ looking = NoName
  /\ Expandable(Tok)
  /\ IF FUNLIKE(macro[Tok].npars)
     THEN looking' = Tok /\ input' = Consume /\ UNCHANGED ctl
     ELSE PushMacro(Tok, <<>>, Consume, ctl) /\ UNCHANGED looking
  /\ stale' = FALSE
  /\ UNCHANGED <<hide, disexpand, macro, conds, pragmas, fresh, lineno, out, outcome, nlines, ghost>>

\* parsepars(): the parameters are collected with disexpand set.
parsepars ==
  /\ HasToken /\ looking # NoName /\ Tok = "("
  /\ input' = Consume
  /\ ctl' = Append(ctl, Context("pars", looking))
  /\ looking' = NoName
  /\ disexpand' = TRUE
  /\ UNCHANGED <<stale, hide, macro, conds, pragmas, fresh, lineno, out, outcome, nlines, ghost>>

\* next() returns t to whoever called it: the parser, or expandarg(), which
\* writes it to the buffer of the macro.
Give(t) ==
  IF ctl = <<>>
  THEN out' = Append(out, t) /\ UNCHANGED ctl
  ELSE ctl' = [ctl EXCEPT ![Len(ctl)].cur = Append(@, t)] /\ UNCHANGED out

\* The name was not followed by '(': the token is made from yytext.  At the end
\* of everything ahead() reads through a null pointer.
notcalled ==
  /\ Running /\ ~Copying /\ looking # NoName
  /\ \/ HasToken /\ Tok # "("
     \/ input # <<>> /\ Last(input).t = "param" /\ Last(input).toks = <<>>
  /\ Give(IF stale THEN JUNK ELSE looking)
  /\ looking' = NoName
  /\ UNCHANGED <<input, stale, hide, disexpand, macro, conds, pragmas, fresh, lineno, outcome, nlines, ghost>>

ahead == Running /\ input = <<>> /\ looking # NoName /\ Crashes


\* parameter() and paren(): commas and parentheses inside parentheses belong to
\* the argument.  Args has the arguments once the ')' of the call has come.
Args(c) == IF macro[c.sym].npars = 0 /\ c.cur = <<>> /\ c.args = <<>> THEN <<>>
           ELSE Append(c.args, c.cur)

parameter ==
  LET c == Last(ctl)
      top == Len(ctl) IN
  /\ HasToken /\ looking = NoName /\ ~Expandable(Tok) /\ Collecting
  /\ IF Tok = ")" /\ c.depth = 0
     THEN IF Len(Args(c)) = macro[c.sym].npars
          THEN /\ PushMacro(c.sym, Args(c), Consume, Front(ctl))
               /\ disexpand' = FALSE
               /\ UNCHANGED <<looking, stale, hide, macro, conds, pragmas, fresh, lineno, out, outcome, nlines, ghost>>
          ELSE Fails
     ELSE /\ input' = Consume
          /\ ctl' = IF Tok = "," /\ c.depth = 0
                    THEN [ctl EXCEPT ![top].args = Append(@, c.cur), ![top].cur = <<>>]
                    ELSE [ctl EXCEPT ![top].cur = Append(@, Tok),
                            ![top].depth = IF Tok = "(" THEN @ + 1 ELSE IF Tok = ")" THEN @ - 1 ELSE @]
          /\ UNCHANGED <<looking, stale, hide, disexpand, macro, conds, pragmas, fresh, lineno, out, outcome, nlines, ghost>>

\* The input ends inside the arguments.
unterminated ==
  /\ Running /\ ~Copying /\ looking = NoName /\ Collecting
  /\ input = <<>> \/ (input # <<>> /\ Last(input).t = "param" /\ Last(input).toks = <<>>)
  /\ Fails

next ==
  /\ HasToken /\ looking = NoName /\ ~Expandable(Tok) /\ ~Collecting
  /\ input' = Consume
  /\ Give(Tok)
  /\ UNCHANGED <<looking, stale, hide, disexpand, macro, conds, pragmas, fresh, lineno, outcome, nlines, ghost>>

\* copymacro(): the next item of the replacement list.  A parameter is expanded
\* as an input of its own.
copymacro ==
  LET c == Last(ctl)
      b == Head(c.items)
      top == Len(ctl)
      Put(toks) == /\ ctl' = [ctl EXCEPT ![top].items = Tail(@), ![top].cur = @ \o toks]
                   /\ UNCHANGED input IN
  /\ Running /\ Copying /\ c.items # <<>>
  /\ \/ b.k = "tok" /\ Put(<<b.tok>>)
     \/ b.k = "str" /\ Put(<<STR>>)
     \/ b.k = "raw" /\ Put(c.args[b.par])
     \/ /\ b.k = "par"
        /\ input' = addinput(input, lineno, [Input("param", NoName) EXCEPT !.toks = c.args[b.par]], lineno)
        /\ ctl' = [ctl EXCEPT ![top].items = Tail(@)]
  /\ UNCHANGED <<lineno, looking, stale, hide, disexpand, macro, conds, pragmas, fresh, out, outcome, nlines, ghost>>

\* expandarg() has read all of the parameter.
expandarg ==
  /\ Running /\ input # <<>> /\ Last(input).t = "param" /\ Last(input).toks = <<>>
  /\ looking = NoName /\ ~Collecting
  /\ delinput
  /\ UNCHANGED <<ctl, looking, stale, disexpand, macro, conds, pragmas, fresh, out, outcome, nlines, ghost>>

\* The macro joins the hide set of every macro on the stack; those in its own
\* hide set, its parameters' included, are hidden.
addhideset(s) == [i \in DOMAIN input |->
                    IF input[i].t = "macro" THEN [input[i] EXCEPT !.hs = @ \cup {s}] ELSE input[i]]

expanded ==
  LET c == Last(ctl)
      ip == addhideset(c.sym) IN
  /\ Running /\ Copying /\ c.items = <<>>
  /\ IF \E i \in DOMAIN ip : Cardinality(ip[i].hs) > NR_MACROARG
     THEN Fails
     ELSE /\ input' = [ip EXCEPT ![Len(ip)].toks = c.cur]
          /\ hide' = hide \cup Last(ip).hs
          /\ ctl' = Front(ctl)
          /\ UNCHANGED <<looking, stale, disexpand, macro, conds, pragmas, fresh, lineno, out, outcome, nlines, ghost>>

\* The end of everything: an open group is an error.
eof ==
  /\ Running /\ input = <<>> /\ looking = NoName /\ ctl = <<>>
  /\ outcome' = IF cppctx # 0 THEN "fail" ELSE "done"
  /\ UNCHANGED <<input, expands, macro, conds, pragmas, fresh, lineno, out, nlines, ghost>>

Stopped == ~Running /\ UNCHANGED vars

Next ==
  \/ \E l \in Lines : cpp(l) \/ cppfails(l) \/ textline(l) \/ textfails(l)
  \/ endfile \/ moreinput \/ expand \/ parsepars \/ notcalled \/ ahead \/ parameter
  \/ unterminated \/ next \/ copymacro \/ expandarg \/ expanded \/ eof \/ Stopped

Spec == Init /\ [][Next]_vars /\ WF_vars(Next)
-----------------------------------------------------------------------------
(* Properties                                                              *)

TypeOK ==
  /\ Running \/ outcome \in {"done", "fail", "crash"}
  /\ hide \subseteq Names
  /\ cppctx \in 0 .. NR_COND - 1
  /\ cppoff \in 0 .. cppctx
  /\ looking \in Names \cup {NoName}
  /\ \A i \in DOMAIN input : input[i].t \in {"file", "macro", "param"} /\ input[i].hs \subseteq Names

\* Text is passed on exactly when C says that every group around it is selected:
\* the counter cppoff, the states of the groups and the nesting agree, through
\* #else, #elif and groups inside a group that is off.  elseclause() forgets that
\* a group has been taken, so the last part stops at the second #elif or #else
\* after it.
GroupsAsInC ==
  /\ Len(groups) = cppctx
  /\ cppoff = Cardinality({i \in 0 .. cppctx - 1 : ~ifstate[i].enabled})
  /\ ~Odd => (cppoff = 0 <=> Live)

\* A macro whose replacement is being read is hidden, so it is never expanded
\* inside itself, however calls, arguments and nested macros mix.  A directive
\* among the arguments of a call clears disexpand, macros are expanded while the
\* arguments are collected, and a ')' that the macro itself gives can end them:
\* it is then read inside itself, and what hides it goes with the inner one.
OpenIsHidden ==
  ~broken =>
  \A i \in DOMAIN input :
    input[i].t = "macro" /\ (\A j \in DOMAIN ctl : ctl[j].k = "copy" => ctl[j].base # i)
      => input[i].sym \in hide

\* Hiding is undone: a macro is hidden only by an input still on the stack, and
\* inputs of macros are never under a file, so a directive meets no hidden macro
\* (killsym() would leave a hide set with a freed symbol).
HiddenByOpen ==
  /\ hide \subseteq UNION {input[i].hs : i \in DOMAIN input}
  /\ AtLineEnd => hide = {}

\* The line number for messages and __LINE__ is that of the file being read, after
\* any macro or included file has come and gone.
LocationRight ==
  \A i \in DOMAIN input :
    input[i].t = "file" /\ (\A j \in DOMAIN input : j > i => input[j].t # "file")
      => lineno = input[i].phys

\* With object-like macros the parser gets, token by token, the expansion that C
\* defines of the text in the selected groups, and all of it.
TextAsInC ==
  exact => /\ IsPrefix(out, ref)
           /\ outcome = "done" => out = ref

\* The stack of inputs and what is kept beside it, the marks of hidden macros, the
\* line number and the conditional groups, belong together at every step.
InputsAgree == TypeOK /\ OpenIsHidden /\ HiddenByOpen /\ LocationRight /\ GroupsAsInC

\* Preprocessing ends: no definition makes expansion go on for ever.
Terminates == <>(~Running)
=============================================================================
