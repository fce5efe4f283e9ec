--------------------------------- MODULE As ---------------------------------
(***************************************************************************)
(* scc-as: what it does with one line of source, expressions and operands  *)
(* (parser.c, expr.c), symbols and sections (symbol.c), directives (ins.c) *)
(* and, through AsZ80, instructions; then the two passes over the files.   *)
(*                                                                         *)
(* Each operator takes and returns the assembler's state S, a record of    *)
(*   pass, secs, cursec (0 is NULL), syms, cursym and linesym (<<>> is     *)
(*   NULL), inputs, endpass, nerrors, bytes (written by this line), and    *)
(*   st: "ok", "error" (error() jumped out of the line), "exit" (die() or  *)
(*   exit()), "crash" (abort() or a pointer that is not valid).            *)
(*                                                                         *)
(* A line is [label, op, args], "" and <<>> when the field is missing.  A  *)
(* written operand is [k, s, toks]: a name, $expression, "string", (REG),  *)
(* (REG expression) or (expression).  A token is [t, s, digits, base].  A  *)
(* symbol's name is a sequence, <<"label", ".local">> for a local one.     *)
(***************************************************************************)
EXTENDS AsZ80, SequencesExt

CONSTANTS
  TUINT_MAX,    \* the widest value of the assembler, as bound
  maxaddr,      \* the highest address of a section, as bound
  NR_INPUTS,    \* nested inputs
  MaxErrors,    \* error() gives up at this many, 10 in the code
  optab,        \* mnemonic -> its entries, from ops.dat
  LocalNames,   \* the names that begin with '.'
  Attributes,   \* attribute string of .SECTION -> its letters
  Text          \* string -> its bytes

-----------------------------------------------------------------------------
(* Symbols *)

NoSymbol == [val |-> 0, flags |-> {}, sec |-> 0]

\* A symbol that was never met is entered with no flags and value 0.
Sym(S, name) == IF name \in DOMAIN S.syms THEN S.syms[name] ELSE NoSymbol
SetSym(S, name, sym) == [S EXCEPT !.syms = [n \in DOMAIN @ \cup {name} |-> IF n = name THEN sym ELSE @[n]]]

\* lookup(): the name the assembler looks for.
lookup(S, s) == IF s \in LocalNames /\ S.cursym # <<>> THEN S.cursym \o <<s>> ELSE <<s>>

-----------------------------------------------------------------------------
(* Tokens and expressions *)

\* number(): a digit equal to the base is let through.
RECURSIVE Digits(_, _, _)
Digits(n, ds, base) ==
  IF ds = <<>> THEN n
  ELSE IF ds[1] > base \/ n >= (TUINT_MAX \div base) - ds[1] THEN -1
  ELSE Digits(n * base + ds[1], Tail(ds), base)
number(tok) == Digits(0, tok.digits, tok.base)

\* operator() with follow(): '<' and '>' are exchanged, and of an operator of
\* two characters only the first is passed over.
operator(s) ==
  CASE s = "<" -> <<">">>
    [] s = ">=" -> <<"LE", "=">>
    [] s = "<=" -> <<"GE", "=">>
    [] s = ">>" -> <<"SHL", ">">>
    [] s = "<<" -> <<"SHR", ">">>
    [] OTHER -> <<s>>

Op(c) == [t |-> c, s |-> "", digits |-> <<>>, base |-> 10]
next(toks) == FlattenSeq([i \in DOMAIN toks |->
  IF toks[i].t = "op" THEN [j \in DOMAIN operator(toks[i].s) |-> Op(operator(toks[i].s)[j])] ELSE <<toks[i]>>])
Token(toks, i) == IF i <= Len(toks) THEN toks[i].t ELSE "EOS"

\* A node; unary operators on a name leave a node without a symbol ("UNARY").
Node(op, addr, val, abs, name) == [op |-> op, addr |-> addr, val |-> val, off |-> 0, abs |-> abs, name |-> name]
Fail(st) == [st |-> st, np |-> Node("", "", 0, FALSE, <<>>), i |-> 0]
Got(np, i) == [st |-> "ok", np |-> np, i |-> i]
Named(S, op, addr, name) == Node(op, addr, Sym(S, name).val, "FABS" \in Sym(S, name).flags, name)
Value(addr, v) == Node("NUMBER", addr, v % (TUINT_MAX + 1), TRUE, <<>>)

constant(S, np) == np.op = "NUMBER" \/ (np.op = "IDEN" /\ "FDEF" \in Sym(S, np.name).flags)

Bool(b) == IF b THEN 1 ELSE 0

\* binary() with fold(): operands that are not known yet, and '&', abort().
binary(S, op, l, r, i) ==
  IF ~constant(S, l) \/ ~constant(S, r) \/ op = "&" THEN Fail("crash")
  ELSE CASE op \in {"/", "%"} /\ r.val = 0 -> Fail("error")
         [] op = "+" -> Got(Value("ANUMBER", l.val + r.val), i)
         [] op = "-" -> Got(Value("ANUMBER", l.val - r.val), i)
         [] op = ">" -> Got(Value("ANUMBER", Bool(l.val > r.val)), i)
         [] op = "=" -> Got(Value("ANUMBER", Bool(l.val = r.val)), i)
         [] op = "|" -> Got(Value("ANUMBER", l.val | r.val), i)
         [] op = "^" -> Got(Value("ANUMBER", l.val ^^ r.val), i)
         [] OTHER -> Got(Value("ANUMBER", 0), i)

\* '(' is not passed over before expr() is called again: the stack runs out.
primary(S, toks, i) ==
  CASE Token(toks, i) = "NUMBER" ->
         IF number(toks[i]) < 0 THEN Fail("error") ELSE Got(Value("ANUMBER", number(toks[i])), i + 1)
    [] Token(toks, i) = "IDEN" /\ "FREG" \notin Sym(S, lookup(S, toks[i].s)).flags ->
         Got(Named(S, "IDEN", "ANUMBER", lookup(S, toks[i].s)), i + 1)
    [] Token(toks, i) = "(" -> Fail("crash")
    [] OTHER -> Fail("error")

unary(S, toks, i) ==
  IF Token(toks, i) \notin {"!", "-", "+"} THEN primary(S, toks, i)
  ELSE With(primary(S, toks, i + 1), LAMBDA r :
       IF r.st # "ok" THEN r
       ELSE IF r.np.op # "NUMBER" THEN Got(Node("UNARY", "ANUMBER", 0, FALSE, <<>>), r.i)
       ELSE CASE Token(toks, i) = "!" -> Got(Value("ANUMBER", Bool(r.np.val = 0)), r.i)
              [] Token(toks, i) = "+" -> r
              [] OTHER -> Got(Value("ANUMBER", -r.np.val), r.i))

\* mul() drops the node binary() returns and keeps the one it freed.
mul(S, toks, i) ==
  With(unary(S, toks, i), LAMBDA l :
  IF l.st # "ok" \/ Token(toks, l.i) \notin {"*", "/", "%", "SHL", "SHR"} THEN l
  ELSE With(primary(S, toks, l.i + 1), LAMBDA r :
       IF r.st # "ok" THEN r
       ELSE With(binary(S, Token(toks, l.i), l.np, r.np, r.i), LAMBDA b :
            IF b.st = "ok" THEN Fail("crash") ELSE b)))

Operators == << {"|", "^"}, {"&"}, {"<", ">", "=", "GE", "LE"}, {"+", "-"} >>

\* expr(), and(), relational() and add(), levels 1 to 4: operands of the next
\* level, joined from the left.
RECURSIVE Level(_, _, _, _), Joined(_, _, _, _)
Level(S, k, toks, i) == IF k = 5 THEN mul(S, toks, i) ELSE Joined(S, k, toks, Level(S, k + 1, toks, i))
Joined(S, k, toks, l) ==
  IF l.st # "ok" \/ Token(toks, l.i) \notin Operators[k] THEN l
  ELSE LET r == Level(S, k + 1, toks, l.i + 1) IN
       IF r.st # "ok" THEN r ELSE Joined(S, k, toks, binary(S, Token(toks, l.i), l.np, r.np, r.i))

\* An expression up to the ',' or the end of the operand.
expr(S, toks) ==
  With(Level(S, 1, next(toks), 1), LAMBDA r :
  IF r.st = "ok" /\ Token(next(toks), r.i) # "EOS" THEN Fail("error") ELSE r)

\* A node above another has no symbol of its own.
Inner(np, op) == IF np.op = "UNARY" THEN "UNARY" ELSE op

\* operand() and moperand().
operand(S, o) ==
  LET name == lookup(S, o.s)
  IN With(expr(S, o.toks), LAMBDA e :
  With("FREG" \in Sym(S, name).flags, LAMBDA isreg :
  CASE o.k = "name" -> Got(IF isreg THEN Named(S, "REG", "AREG", name) ELSE Named(S, "IDEN", "ANUMBER", name), 0)
    [] o.k = "string" -> Got(Node("STRING", "ASTR", 0, TRUE, <<o.s>>), 0)
    [] o.k = "imm" -> IF e.st # "ok" THEN e ELSE Got([e.np EXCEPT !.addr = "AIMM"], 0)
    [] o.k = "ind" -> IF isreg THEN Got(Node("AINDIR", "AINDIR", Sym(S, name).val, FALSE, <<>>), 0) ELSE Fail("error")
    [] o.k = "idx" -> IF ~isreg THEN Fail("error") ELSE IF e.st # "ok" THEN e
                      ELSE Got([Node(Inner(e.np, "AINDEX"), "AINDEX", Sym(S, name).val, FALSE, <<>>) EXCEPT !.off = e.np.val], 0)
    [] o.k = "dir" -> IF e.st # "ok" THEN e ELSE Got([e.np EXCEPT !.op = Inner(e.np, "ADIRECT"), !.addr = "ADIRECT"], 0)))

-----------------------------------------------------------------------------
(* Sections *)

Stop(S, st) == [S EXCEPT !.st = st]

\* error(): counted, and the rest of the line is left.
error(S) == [S EXCEPT !.nerrors = @ + 1, !.st = IF S.nerrors + 1 = MaxErrors THEN "exit" ELSE "error"]

Failed(S, st) == IF st = "error" THEN error(S) ELSE Stop(S, st)

\* emit() with incpc(): sizes grow and are checked in the first pass only.
emit(S, bytes) ==
  IF S.st # "ok" THEN S
  ELSE IF S.cursec = 0 THEN Stop(S, "crash")
  ELSE LET s == S.secs[S.cursec]
           pc == s.curpc + Len(bytes)
       IN With([S EXCEPT !.bytes = @ \o bytes,
                      !.secs[S.cursec].curpc = pc,
                      !.secs[S.cursec].out = IF s.fp THEN @ \o bytes ELSE @,
                      !.secs[S.cursec].size = IF S.pass = 1 /\ pc > @ THEN pc ELSE @], LAMBDA T :
       IF S.pass = 1 /\ pc > maxaddr THEN Stop(T, "exit") ELSE T)

\* sectype() and coff32setsec(): the sets of attributes the object can hold.
Storable(attr) ==
  \/ "x" \in attr
  \/ {"c", "l", "r"} \subseteq attr /\ attr \in {{"c", "m", "l", "w", "r"}, {"c", "m", "l", "r"}}
  \/ {"c", "r"} \subseteq attr /\ "l" \notin attr

newsec(S, name, attr) ==
  IF ~(attr \subseteq {"w", "r", "x", "c", "l", "a", "m"}) THEN Stop(S, "crash")
  ELSE IF ~Storable(attr) THEN Stop(S, "exit")
  ELSE LET T == [S EXCEPT !.secs = Append(@, [name |-> name, attr |-> attr, size |-> 0, curpc |-> 0,
                                              fp |-> FALSE, out |-> <<>>])]
       IN [SetSym(T, name, [Sym(S, name) EXCEPT !.sec = Len(T.secs), !.flags = {"FSECT"}])
             EXCEPT !.cursec = Len(T.secs)]

\* defsec(): there is no current section while the name is looked at.
defsec(S, name, attr) ==
  LET sym == Sym(S, name)  T == [S EXCEPT !.cursec = 0] IN
  IF ~(sym.flags \subseteq {"FSECT"}) THEN error(T)
  ELSE IF sym.sec = 0 THEN newsec(T, name, attr)
  ELSE [T EXCEPT !.cursec = sym.sec]

\* Mutant of cleansecs: the program counters stay where the first pass left them.
cleansecsEnd(S) ==
  [S EXCEPT !.cursec = 1,
            !.secs = [i \in DOMAIN @ |->
               IF S.pass = 1 \/ "c" \notin @[i].attr THEN @[i] ELSE [@[i] EXCEPT !.fp = TRUE, !.out = <<>>]]]

\* cleansecs(): every section from its base, in the second pass with an empty
\* temporary file.
cleansecs(S) ==
  [S EXCEPT !.cursec = 1,
            !.secs = [i \in DOMAIN @ |->
               IF S.pass = 1 \/ "c" \notin @[i].attr THEN [@[i] EXCEPT !.curpc = 0]
               ELSE [@[i] EXCEPT !.curpc = 0, !.fp = TRUE, !.out = <<>>]]]

\* addinput(), when the file can be opened.
addinput(S, file) ==
  IF Len(S.inputs) = NR_INPUTS THEN Stop(S, "exit")
  ELSE [S EXCEPT !.inputs = Append(@, [file |-> file, pos |-> 0])]

\* deflabel(): the label's value is the address of the line.
deflabel(S, s) ==
  LET local == s \in LocalNames
      name == lookup(S, s)
      sym == Sym(S, name)
      flags == sym.flags \cup IF "a" \in S.secs[S.cursec].attr THEN {"FABS"} ELSE {}
  IN With(SetSym(S, name, [val |-> S.secs[S.cursec].curpc, flags |-> flags, sec |-> sym.sec]), LAMBDA T :
  IF local /\ S.cursym = <<>> THEN error(S)
  ELSE IF S.pass = 1 /\ "FDEF" \in sym.flags THEN error(S)
  ELSE IF S.cursec = 0 THEN Stop(S, "crash")
  ELSE [T EXCEPT !.linesym = name, !.cursym = IF local THEN @ ELSE name])

-----------------------------------------------------------------------------
(* Directives *)

\* tobytes(): endian is LITTLE_ENDIAN, which is 0, and is used as the step.
endian == 0
Nth(v, n) == (v \div 256 ^ n) % 256
tobytes(v, n, inc) ==
  [i \in 1 .. n |-> IF inc = 1 THEN Nth(v, i - 1) ELSE IF i = 1 THEN Nth(v, n - 1) ELSE 0]

RECURSIVE def(_, _, _), string(_, _), pad(_, _)
def(S, args, siz) ==
  IF args = <<>> \/ S.st # "ok" THEN S
  ELSE IF args[1].op \in {"UNARY", "AINDIR", "AINDEX", "ADIRECT"} THEN Stop(S, "crash")
  ELSE IF siz < 3 /\ args[1].val >= 256 ^ siz THEN error(S)
  ELSE def(emit(S, tobytes(args[1].val, siz, endian)), Tail(args), siz)

string(S, args) == IF args = <<>> THEN S ELSE string(emit(S, Text[args[1].name[1]]), Tail(args))

pad(S, n) == IF n = 0 THEN S ELSE pad(emit(S, <<0>>), n - 1)

\* Mutant of symexp: a symbol defined in the first pass is refused in the second.
symexpTwice(S, which, args) ==
  LET name == IF Len(args) > 1 THEN args[1].name ELSE S.linesym  exp == args[Len(args)]  sym == Sym(S, name) IN
  IF name = <<>> \/ ~exp.abs \/ "FDEF" \in sym.flags THEN error(S)
  ELSE SetSym(S, name, [sym EXCEPT !.val = exp.val, !.flags = @ \cup {"FDEF"}])

\* symexp(): the symbol is the first operand or the line's label; the
\* expression has to be absolute, which no symbol set by .EQU ever is.
symexp(S, which, args) ==
  LET two == Len(args) > 1
      name == IF two THEN args[1].name ELSE S.linesym
      exp == args[IF two THEN 2 ELSE 1]
  IN With(Sym(S, name), LAMBDA sym :
  IF name = <<>> \/ ~exp.abs THEN error(S)
  ELSE CASE which = "equ" ->
              IF S.pass = 1 /\ "FDEF" \in sym.flags THEN error(S)
              ELSE SetSym(S, name, [sym EXCEPT !.val = exp.val, !.flags = @ \cup {"FDEF"}])
         [] which = "common" -> SetSym(S, name, [sym EXCEPT !.flags = @ \cup {"FCOMMON"}])
         [] OTHER -> S)

align(S, np) ==
  LET al == np.val - 1
      pc == S.secs[S.cursec].curpc
      pcal == (pc + al) - ((pc + al) & al)
  IN IF ~np.abs THEN error(S)
     ELSE IF np.val = 0 THEN S
     ELSE pad(S, pcal - pc)

Flag(S, np, flag) == SetSym(S, np.name, [Sym(S, np.name) EXCEPT !.flags = @ \cup {flag}])

\* The format function of the entry that matched.
Format(S, op, args) ==
  CASE op.format = "section" -> defsec(S, args[1].name, IF Len(args) > 1 THEN Attributes[args[2].name[1]] ELSE {})
    [] op.format = "text" -> [S EXCEPT !.cursec = 1]
    [] op.format = "data" -> [S EXCEPT !.cursec = 2]
    [] op.format = "bss" -> [S EXCEPT !.cursec = 3]
    [] op.format = "defb" -> def(S, args, 1)
    [] op.format = "defw" -> def(S, args, 2)
    [] op.format = "defd" -> def(S, args, 4)
    [] op.format \in {"equ", "common", "size", "type"} -> symexp(S, op.format, args)
    [] op.format = "global" -> Flag(S, args[1], "FGLOBAL")
    [] op.format = "extrn" -> Flag(S, args[1], "FEXTERN")
    [] op.format \in {"string", "ascii"} -> string(S, args)
    [] op.format = "align" -> IF S.cursec = 0 THEN Stop(S, "crash") ELSE align(S, args[1])
    [] op.format = "end" -> [S EXCEPT !.endpass = TRUE]
    [] op.format = "include" -> addinput(S, args[1].name[1])
    [] OTHER ->
         IF \E i \in DOMAIN args : args[i].op = "UNARY" \/ S.cursec = 0 THEN Stop(S, "crash")
         ELSE emit(S, Instruction(op, args, IF S.cursec = 0 THEN 0 ELSE S.secs[S.cursec].curpc))

\* translate(): the first entry that fits; error() in match() ends the search.
RECURSIVE Choose(_, _, _)
Choose(ops, noargs, args) ==
  IF ops = <<>> THEN [st |-> "error", op |-> <<>>]
  ELSE With(match(ops[1], noargs, args), LAMBDA m :
       IF m = "yes" THEN [st |-> "ok", op |-> ops[1]]
       ELSE IF m = "no" THEN Choose(Tail(ops), noargs, args)
       ELSE [st |-> m, op |-> <<>>])

getargs(S, line) == [i \in DOMAIN line.args |-> operand(S, line.args[i])]

translate(S, line) ==
  IF S.st # "ok" \/ line.op = "" THEN S
  ELSE IF line.op \notin DOMAIN optab THEN error(S)
  ELSE With(getargs(S, line), LAMBDA got :
       With(SelectInSeq(got, LAMBDA r : r.st # "ok"), LAMBDA bad :
       With([i \in DOMAIN got |-> got[i].np], LAMBDA args :
       With(Choose(optab[line.op], line.args = <<>>, args), LAMBDA found :
       IF bad > 0 THEN Failed(S, got[bad].st)
       ELSE IF found.st # "ok" THEN Failed(S, found.st)
       ELSE Format(S, found.op, args)))))

\* The body of the loop of dopass(): the label is defined only once its line
\* has been translated.
Line(S, line) ==
  LET A == [S EXCEPT !.linesym = <<>>, !.bytes = <<>>, !.st = "ok"]
      B == IF line.label = "" THEN A ELSE deflabel(A, line.label)
  IN With(translate(B, line), LAMBDA C :
  IF C.st = "ok" /\ C.linesym # <<>>
  THEN SetSym(C, C.linesym, [Sym(C, C.linesym) EXCEPT !.flags = @ \cup {"FDEF"}]) ELSE C)

-----------------------------------------------------------------------------
(***************************************************************************)
(* The two passes over the source files, and the output file (main.c, the  *)
(* input stack of parser.c, writeout() of symbol.c).                       *)
(*                                                                         *)
(* The files are written while the first pass reads them: the next line of *)
(* a file is any line of the menu, and is read again as it is later on.    *)
(***************************************************************************)
CONSTANTS
  CommandLines,   \* the sequences of files given as operands
  Files,          \* every file, the included ones too
  Menu(_)         \* the lines that may come next, given the lines so far

VARIABLES
  as,        \* the state of the assembler
  argv,      \* the operands
  nfile,     \* the operand that is being read
  phase,     \* open, line, wrote, done, failed, crashed
  text,      \* file -> its lines
  closed,    \* file -> whether its end has been met
  listing,   \* the line that was translated last: [line, pass, pc, bytes, st]
  first,     \* the value of each label after the first pass
  outfile    \* the output: none, old (of an earlier run), part, new

asvars == <<as, argv, nfile, phase, text, closed, listing, first, outfile>>

NoLine == [label |-> "", op |-> "", args |-> <<>>]
Nothing == [line |-> NoLine, pass |-> 0, pc |-> 0, bytes |-> <<>>, st |-> "ok"]

Section(s, attr) == [name |-> <<s>>, attr |-> attr, size |-> 0, curpc |-> 0, fp |-> FALSE, out |-> <<>>]

\* iarch() and ibinfmt(): the registers and the three sections.
Started ==
  [pass |-> 1, cursec |-> 3, cursym |-> <<>>, linesym |-> <<>>, inputs |-> <<>>, endpass |-> FALSE,
   nerrors |-> 0, bytes |-> <<>>, st |-> "ok",
   secs |-> <<Section(".text", {"m", "r", "x", "c", "l"}), Section(".data", {"m", "r", "w", "c", "l"}),
              Section(".bss", {"r", "w", "c"})>>,
   syms |-> [n \in {<<r>> : r \in ToSet(Registers)} \cup {<<".text">>, <<".data">>, <<".bss">>} |->
              IF n \in {<<r>> : r \in ToSet(Registers)} THEN [val |-> Code(n[1]), flags |-> {"FREG"}, sec |-> 0]
              ELSE [val |-> 0, flags |-> {"FSECT"},
                    sec |-> CHOOSE i \in 1 .. 3 : << <<".text">>, <<".data">>, <<".bss">> >>[i] = n]]]

Init ==
  /\ as = Started
  /\ argv \in CommandLines
  /\ nfile = 1
  /\ phase = "open"
  /\ text = [f \in Files |-> <<>>]
  /\ closed = [f \in Files |-> FALSE]
  /\ listing = Nothing
  /\ first = <<>>
  /\ outfile \in {"none", "old"}

\* exit(): cleanup() removes the output.  A crash runs no cleanup().
Ends(S) ==
  /\ as' = S
  /\ phase' = IF S.st = "exit" THEN "failed" ELSE "crashed"
  /\ outfile' = IF S.st = "exit" THEN "none" ELSE outfile

\* dopass() before its loop.
dopass ==
  /\ phase = "open"
  /\ LET S == addinput([as EXCEPT !.st = "ok"], argv[nfile]) IN
       IF S.st # "ok" THEN Ends(S) /\ UNCHANGED <<argv, nfile, text, closed, listing, first>>
       ELSE /\ as' = [cleansecs(S) EXCEPT !.endpass = FALSE]
            /\ phase' = "line"
            /\ UNCHANGED <<argv, nfile, text, closed, listing, first, outfile>>

Top == Last(as.inputs)
Reading == phase = "line" /\ ~as.endpass /\ as.inputs # <<>>

\* The line is taken from the input before it is translated.
Translated(line) ==
  \E S \in {Line([as EXCEPT !.inputs[Len(as.inputs)].pos = @ + 1], line)} :
  LET pc == IF as.cursec = 0 THEN 0 ELSE as.secs[as.cursec].curpc
  IN /\ IF S.st \in {"ok", "error"} THEN as' = S /\ UNCHANGED <<phase, outfile>> ELSE Ends(S)
     /\ listing' = [line |-> line, pass |-> as.pass, pc |-> pc, bytes |-> S.bytes, st |-> S.st]
     /\ UNCHANGED <<argv, nfile, first>>

\* nextline(): a line met for the first time, a line met before.
NewLine ==
  /\ Reading
  /\ Top.pos = Len(text[Top.file])
  /\ ~closed[Top.file]
  /\ \E line \in Menu(text) :
       /\ phase = "line"
       /\ text' = [text EXCEPT ![Top.file] = Append(@, line)]
       /\ Translated(line)
  /\ UNCHANGED closed

OldLine ==
  /\ Reading
  /\ Top.pos < Len(text[Top.file])
  /\ Translated(text[Top.file][Top.pos + 1])
  /\ UNCHANGED <<text, closed>>

\* delinput() at the end of a file.
delinput ==
  /\ Reading
  /\ Top.pos = Len(text[Top.file])
  /\ as' = [as EXCEPT !.inputs = Front(@)]
  /\ closed' = [closed EXCEPT ![Top.file] = TRUE]
  /\ UNCHANGED <<argv, nfile, phase, text, listing, first, outfile>>

Labels == {n \in DOMAIN as.syms : "FDEF" \in as.syms[n].flags}

\* Mutant of asm: each file is assembled once.
asmOnePass ==
  /\ phase = "line"
  /\ as.endpass \/ as.inputs = <<>>
  /\ as' = [as EXCEPT !.inputs = <<>>]
  /\ phase' = "open"
  /\ nfile' = IF nfile < Len(argv) THEN nfile + 1 ELSE 1
  /\ UNCHANGED <<argv, text, closed, listing, first, outfile>>

\* asm(): the loop of dopass() has ended.
asm ==
  /\ phase = "line"
  /\ as.endpass \/ as.inputs = <<>>
  /\ IF as.nerrors > 0 THEN Ends(Stop(as, "exit")) /\ UNCHANGED <<nfile, first>>
     ELSE IF nfile < Len(argv) THEN nfile' = nfile + 1 /\ phase' = "open" /\ UNCHANGED <<as, first, outfile>>
     ELSE IF as.pass = 1
     THEN /\ as' = [as EXCEPT !.pass = 2]
          /\ nfile' = 1
          /\ phase' = "open"
          /\ first' = [n \in Labels |-> as.syms[n].val]
          /\ UNCHANGED outfile
     ELSE phase' = "wrote" /\ UNCHANGED <<as, nfile, first, outfile>>
  /\ UNCHANGED <<argv, text, closed, listing>>

\* writeout(): the sections' temporaries, the last section first.
Image == FlattenSeq(Reverse([i \in DOMAIN as.secs |-> as.secs[i].out]))

writeout ==
  /\ phase = "wrote"
  /\ outfile' = "new"
  /\ phase' = "done"
  /\ UNCHANGED <<as, argv, nfile, text, closed, listing, first>>

\* The file cannot be opened, or cannot be written to the end.
writeoutFails ==
  /\ phase = "wrote"
  /\ Ends(Stop(as, "exit"))
  /\ UNCHANGED <<argv, nfile, text, closed, listing, first>>

Ended == phase \in {"done", "failed", "crashed"}
Stopped == Ended /\ UNCHANGED asvars

Next == dopass \/ NewLine \/ OldLine \/ delinput \/ asm \/ writeout \/ writeoutFails \/ Stopped

\* The program goes on by itself, and every file has an end: weak fairness of
\* Next, which can always be taken until the end.
Goes == []<>Ended \/ []<><<TRUE>>_asvars

Spec == Init /\ [][Next]_asvars /\ Goes
=============================================================================
