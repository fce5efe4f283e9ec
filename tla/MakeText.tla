------------------------------ MODULE MakeText ------------------------------
(***************************************************************************)
(* The text of a makefile in scc-make (parser.c): the stack of inputs, the *)
(* expansion of macros, tokens, definitions and rules.                     *)
(*                                                                         *)
(* A text is a sequence of characters; a character is a short string, so   *)
(* that a suffix or a special name may be one.  The reader r is            *)
(*   in     the stack of inputs, the current one first: a file with the    *)
(*          rest of its line and its other lines, or an expansion          *)
(*   c      the last character read                                        *)
(*   tok, token  the last token                                            *)
(*   err    error() has ended make                                         *)
(*   mac    the values of the macros, files the files to include           *)
(*   depth  how deep expansions may still nest                             *)
(* The limits on the lengths of lines and names are left out.              *)
(***************************************************************************)
EXTENDS Integers, Sequences, SequencesExt, Once

EOF  == "<EOF>"
ITEM == "<ITEM>"

Punctuation == {EOF, " ", "\t", "\n", ":", "=", ";", "#", "\\", "$", "(", ")", "{", "}", "@", "<", "?", "*", ","}
validchar(c) == c \notin Punctuation
isblank(c)   == c \in {" ", "\t"}

File(lines) == [type |-> "file", buf |-> <<>>, rest |-> lines]
Expan(text) == [type |-> "expan", buf |-> text, rest |-> <<>>]

push(r, input) == [r EXCEPT !.in = <<input>> \o @]
error(r)       == [r EXCEPT !.err = TRUE, !.in = <<>>, !.c = EOF]

\* The name that characters spell.
Name(cs) == FoldLeft(LAMBDA s, c : s \o c, "", cs)

MacroText(r, name) == IF name \in DOMAIN r.mac THEN r.mac[name] ELSE <<>>

TrimLeft(s)  == IF \E i \in DOMAIN s : ~isblank(s[i])
                THEN SubSeq(s, CHOOSE i \in DOMAIN s : ~isblank(s[i]) /\ \A j \in 1 .. i - 1 : isblank(s[j]), Len(s))
                ELSE <<>>
trim(s) == Reverse(TrimLeft(Reverse(TrimLeft(s))))

(***************************************************************************)
(* Characters.                                                             *)
(***************************************************************************)
RECURSIVE expandstring(_, _, _)
RECURSIVE moreinput(_)

\* include(): the name is expanded, and the file read before the rest.  A file
\* that ends in a newline has an empty line after it.
include(r, text) ==
  With(Name(trim(expandstring(r, trim(text), <<>>).c)), LAMBDA name :
  IF expandstring(r, trim(text), <<>>).err THEN error(r)
  ELSE IF name = "" THEN r
  ELSE IF name \notin DOMAIN r.files THEN error(r)
  ELSE push(r, File(r.files[name] \o <<<<"\n">>>>)))

\* nextline() of the file on top, and moreinput().
moreinput(r) ==
  IF r.in = <<>> \/ Head(r.in).buf # <<>> THEN r
  ELSE LET top  == Head(r.in)
           line == Head(top.rest)
           next == [r EXCEPT !.in[1].rest = Tail(@)]
       IN IF top.type = "expan" \/ top.rest = <<>> THEN moreinput([r EXCEPT !.in = Tail(@)])
          ELSE IF line[1] = "include" /\ isblank(line[2])
          THEN moreinput(include(next, SubSeq(line, 2, Len(line) - 1)))
          ELSE [next EXCEPT !.in[1].buf = line]

nextc(r) ==
  With(moreinput(r), LAMBDA m :
  IF m.in = <<>> THEN [m EXCEPT !.c = EOF]
  ELSE [m EXCEPT !.c = Head(m.in[1].buf), !.in[1].buf = Tail(@)])

back(r, c) == IF c = EOF THEN r ELSE [r EXCEPT !.in[1].buf = <<c>> \o @]

\* ahead(): the next character of the same input.
ahead(r) == IF r.in = <<>> \/ Head(r.in).buf = <<>> THEN EOF ELSE Head(Head(r.in).buf)

\* Mutant of comment: a backslash does not continue a comment.
RECURSIVE commentLine(_)
commentLine(r) == With(nextc(r), LAMBDA n :
                  IF n.c \in {EOF, "\n"} THEN n ELSE commentLine(n))

RECURSIVE comment(_)
comment(r) ==
  With(nextc(r), LAMBDA n :
  IF n.c \in {EOF, "\n"} THEN n
  ELSE IF n.c = "\\" THEN With(nextc(n), LAMBDA m :
                          IF m.c = EOF THEN m ELSE comment(m))
  ELSE comment(n))

RECURSIVE skipspaces(_)
skipspaces(r) == With(nextc(r), LAMBDA n :
                 IF isblank(n.c) THEN skipspaces(n) ELSE back(n, n.c))

(***************************************************************************)
(* Expansion.  tp is what the internal macros refer to, <<>> when there is *)
(* no target: its name, the source of an inference rule, and the newer     *)
(* prerequisites.                                                          *)
(***************************************************************************)
expandmacro(r, name) == expandstring(r, MacroText(r, name), <<>>)

\* expandsimple(): the names of $? are put on the stack one over the other.
expandsimple(r, tp) ==
  With(nextc(r), LAMBDA n :
  With(expandmacro(n, n.c), LAMBDA s :
  CASE n.c \in {"@", "<", "*", "?"} /\ tp = <<>> -> n
    [] n.c = "@" -> push(n, Expan(tp.target))
    [] n.c = "<" -> IF tp.req = <<>> THEN n ELSE push(n, Expan(tp.req))
    [] n.c = "*" -> push(n, Expan(IF tp.suffix THEN Front(tp.target) ELSE tp.target))
    [] n.c = "?" -> FoldLeft(LAMBDA m, d : push(push(m, Expan(<<" ">>)), Expan(d)), n, tp.newer)
    [] OTHER     -> IF s.err THEN error(n) ELSE push(n, Expan(s.c))))

\* One word of replace().
Replaced(word, repl, to) ==
  LET at == Len(word) - Len(repl)
  IN IF at < 0 \/ SubSeq(word, at + 1, Len(word)) # repl THEN word ELSE SubSeq(word, 1, at) \o to

RECURSIVE replace(_, _, _)
replace(line, repl, to) ==
  IF line = <<>> THEN <<>>
  ELSE IF isblank(Head(line)) THEN <<Head(line)>> \o replace(Tail(line), repl, to)
  ELSE LET blanks == {i \in DOMAIN line : isblank(line[i])}
       IN With(IF blanks = {} THEN Len(line) ELSE (CHOOSE i \in blanks : \A j \in blanks : i <= j) - 1, LAMBDA n :
       Replaced(SubSeq(line, 1, n), repl, to) \o replace(SubSeq(line, n + 1, Len(line)), repl, to))

\* The loop of expansion(): st is its state, x holds s, the name, repl and to.
RECURSIVE Scan(_, _, _, _, _)
Scan(r, tp, st, delim, x) ==
  With(nextc(r), LAMBDA n :
  With(IF st = "internal" THEN x.s ELSE expandmacro(n, Name(x.name)).c, LAMBDA value :
  LET bad   == st = "begin" /\ expandmacro(n, Name(x.name)).err
      go(s2, y) == Scan(n, tp, s2, delim, y)
      erepl == expandstring(n, x.repl, tp)
  IN IF n.c = EOF THEN error(n)
     ELSE IF st \in {"begin", "internal"} /\ n.c \in {":", delim} THEN
            IF bad THEN error(n)
            ELSE IF n.c = delim THEN push(n, Expan(value)) ELSE go("replace", [x EXCEPT !.s = value])
     ELSE IF st = "begin" /\ x.name = <<>> /\ n.c \in {"@", "<", "*", "?"}
          THEN go("internal", [x EXCEPT !.s = expandstring(n, <<"$", n.c>>, tp).c])
     ELSE IF st = "internal" \/ (st = "begin" /\ ~validchar(n.c)) THEN error(n)
     ELSE IF st = "begin" THEN go("begin", [x EXCEPT !.name = Append(@, n.c)])
     ELSE IF st = "replace" THEN
            IF n.c = "=" THEN go("to", x)
            ELSE IF n.c = delim THEN error(n) ELSE go("replace", [x EXCEPT !.repl = Append(@, n.c)])
     ELSE IF n.c # delim THEN go("to", [x EXCEPT !.to = Append(@, n.c)])
     ELSE IF erepl.err THEN error(n)
     ELSE push(n, Expan(replace(x.s, erepl.c, x.to)))))

expansion(r, tp) ==
  With(nextc(r), LAMBDA n :
  CASE n.c = "(" -> Scan(n, tp, "begin", ")", [s |-> <<>>, name |-> <<>>, repl |-> <<>>, to |-> <<>>])
    [] n.c = "{" -> Scan(n, tp, "begin", "}", [s |-> <<>>, name |-> <<>>, repl |-> <<>>, to |-> <<>>])
    [] OTHER     -> expandsimple(back(n, n.c), tp))

\* expandstring(), with an input of its own: the text is in the member c of the
\* result.  A macro that needs itself recurses until there is no stack left.
RECURSIVE Expand(_, _, _)
Expand(r, out, tp) ==
  With(nextc(r), LAMBDA n :
  With(nextc(n), LAMBDA m :
  IF n.c = EOF THEN [n EXCEPT !.c = out]
  ELSE IF n.c # "$" THEN Expand(n, Append(out, n.c), tp)
  ELSE IF m.c = "$" THEN Expand(m, out \o <<"$", "$">>, tp)
  ELSE Expand(expansion(back(m, m.c), tp), out, tp)))

expandstring(r, line, tp) ==
  IF r.depth = 0 THEN error(r)
  ELSE Expand([r EXCEPT !.in = <<Expan(line), File(<<>>)>>, !.depth = @ - 1], <<>>, tp)

(***************************************************************************)
(* Tokens.                                                                 *)
(***************************************************************************)
RECURSIVE Item(_, _)
Item(r, s) ==
  With(nextc(r), LAMBDA n :
  IF n.c = "$" /\ ahead(n) # "$" THEN Item(expansion(n, <<>>), s)
  ELSE IF validchar(n.c) THEN Item(n, Append(s, n.c))
  ELSE IF s = <<>> THEN error(n)
  ELSE [back(n, n.c) EXCEPT !.tok = ITEM, !.token = Name(s)])

item(r) == Item(r, <<>>)

RECURSIVE next(_)
next(r) ==
  With(nextc(r), LAMBDA n :
  With(nextc(n), LAMBDA m :
  IF isblank(n.c) \/ (n.c = "\\" /\ m.c = "\n") THEN next(IF isblank(n.c) THEN n ELSE m)
  ELSE CASE n.c = "$"  -> IF m.c = "$" THEN [m EXCEPT !.tok = "$"] ELSE next(expansion(back(m, m.c), <<>>))
         [] n.c = "#"  -> [comment(n) EXCEPT !.tok = "\n"]
         [] n.c \in {EOF, ";", ":", "=", "\n"} -> [n EXCEPT !.tok = n.c]
         [] OTHER      -> IF validchar(n.c) THEN item(back(n, n.c)) ELSE [error(n) EXCEPT !.tok = EOF]))

\* Tokens as long as they are items.
RECURSIVE Items(_, _)
Items(r, items) == IF r.tok = ITEM THEN Items(next(r), Append(items, r.token)) ELSE [r EXCEPT !.token = items]

(***************************************************************************)
(* Definitions and rules.  The text read is in the member c.               *)
(***************************************************************************)
RECURSIVE Definition(_, _)
Definition(r, line) ==
  With(nextc(r), LAMBDA n :
  With(nextc(n), LAMBDA m :
  CASE n.c = EOF  -> error(n)
    [] n.c = "\n" -> [n EXCEPT !.c = line]
    [] n.c = "#"  -> [comment(n) EXCEPT !.c = line]
    [] n.c = "\\" -> IF m.c = "\n" THEN Definition(skipspaces(m), Append(line, " "))
                     ELSE Definition(back(m, m.c), Append(line, "\\"))
    [] OTHER      -> Definition(n, Append(line, n.c))))

readmacrodef(r) == Definition(r, <<>>)

RECURSIVE Command(_, _)
Command(r, line) ==
  With(nextc(r), LAMBDA n :
  With(nextc(n), LAMBDA m :
  With(nextc(m), LAMBDA t :
  CASE n.c = EOF  -> error(n)
    [] n.c = "\n" -> [n EXCEPT !.c = line]
    [] n.c = "\\" -> IF m.c = "\n" THEN Command(IF t.c = "\t" THEN t ELSE back(t, t.c), line)
                     ELSE Command(back(m, m.c), Append(line, "\\"))
    [] OTHER      -> Command(n, Append(line, n.c)))))

readcmd(r) == Command(skipspaces(r), <<>>)

\* The lines of commands after a rule.
RECURSIVE Commands(_, _)
Commands(r, acts) ==
  With(nextc(r), LAMBDA n :
  With(readcmd(n), LAMBDA m :
  CASE n.c = "#"  -> Commands(comment(n), acts)
    [] n.c = "\t" -> IF m.err THEN m ELSE Commands(m, Append(acts, m.c))
    [] OTHER      -> [back(n, n.c) EXCEPT !.c = acts]))

NoStatement == [kind |-> "none"]
Outcome(r, what) == [r |-> r, what |-> IF r.err THEN [kind |-> "error"] ELSE what]

\* rule(): targets are those in front of the colon.
ruleline(r, targets) ==
  With(Items(next(r), <<>>), LAMBDA d :
  With(IF d.tok = ";" THEN readcmd(d) ELSE d, LAMBDA c :
  With(Commands(c, IF d.tok = ";" THEN <<c.c>> ELSE <<>>), LAMBDA a :
  IF targets = <<>> \/ d.tok \notin {"\n", ";"} \/ c.err THEN Outcome(error(r), NoStatement)
  ELSE Outcome(a, [kind |-> "rule", targets |-> targets, deps |-> d.token, cmds |-> a.c]))))

assignline(r, macros) ==
  With(readmacrodef(skipspaces(r)), LAMBDA d :
  IF Len(macros) # 1 THEN Outcome(error(r), NoStatement)
  ELSE Outcome(d, [kind |-> "def", name |-> macros[1], value |-> d.c]))

\* One turn of the loop of parseinput().
statement(r) ==
  With(next(r), LAMBDA n :
  With(Items(n, <<>>), LAMBDA t :
  IF n.tok = "\n" THEN Outcome(n, NoStatement)
  ELSE CASE t.tok = ":" -> ruleline(t, t.token)
         [] t.tok = "=" -> assignline(t, t.token)
         [] OTHER -> Outcome(error(t), NoStatement)))
=============================================================================
