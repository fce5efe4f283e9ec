-------------------------------- MODULE AsC ---------------------------------
(***************************************************************************)
(* What a source says, whatever the assembler does: the bytes of a Z80     *)
(* instruction mean the instruction, the lines of the operands in order,   *)
(* with included files in place, give every section its bytes and every    *)
(* label its address; and the properties of scc-as.                        *)
(***************************************************************************)
EXTENDS As

-----------------------------------------------------------------------------
(* What the bytes of a Z80 instruction mean, by the fields                 *)
(*   x = bits 7-6, y = bits 5-3 (p = 5-4, q = 3), z = bits 2-0             *)
(* of the opcode, after the decoding guide x80/ins.c is based on.  An      *)
(* instruction is <<mnemonic, operands>>, an operand [k, r, v]: a register,*)
(* (register), (register + v), a number v or (v).                          *)

Reg(r) == [k |-> "reg", r |-> r, v |-> 0]
At(r) == [k |-> "at", r |-> r, v |-> 0]
Index(r, v) == [k |-> "idx", r |-> r, v |-> v]
Num(v) == [k |-> "num", r |-> "", v |-> v]
Mem(v) == [k |-> "mem", r |-> "", v |-> v]

Fx(b) == b \div 64
Fy(b) == (b \div 8) % 8
Fz(b) == b % 8
Fp(b) == Fy(b) \div 2
Fq(b) == Fy(b) % 2

Cond == <<"NZ", "Z", "NC", "C", "PO", "PE", "P", "M">>
Alu == <<"ADD", "ADC", "SUB", "SBC", "AND", "XOR", "OR", "CP">>
Rot == <<"RLC", "RRC", "RL", "RR", "SLA", "SRA", "SLL", "SRL">>
Word(b, i) == b[i] + 256 * b[i + 1]

\* The eight places of a three-bit field; hl is HL, IX or IY, and with IX or
\* IY the place (HL) is (hl + d).
Half(hl, i) == IF hl = "HL" THEN i ELSE IF hl = "IX" THEN "IX" \o i ELSE "IY" \o i
Place(hl, n, d) ==
  IF n = 6 THEN IF hl = "HL" THEN At("HL") ELSE Index(hl, d)
  ELSE Reg(<<"B", "C", "D", "E", Half(hl, "H"), Half(hl, "L"), "", "A">>[n + 1])
Pair(hl, n) == Reg(<<"BC", "DE", hl, "SP">>[n + 1])
Pair2(hl, n) == Reg(<<"BC", "DE", hl, "AF">>[n + 1])

\* b[1] is the opcode after a DD or FD prefix; with an index, its displacement
\* comes before the immediate, and H and L next to (hl + d) stay H and L.
Plain(hl, b, pc) ==
  With(b[1], LAMBDA o :
  LET d == IF Len(b) > 1 THEN b[2] ELSE 0
      imm == IF hl # "HL" /\ Fy(o) = 6 THEN 3 ELSE 2
      here(v) == (v + pc - 2) % 256
  IN CASE Fx(o) = 0 /\ Fz(o) = 0 ->
            (CASE Fy(o) = 0 -> <<"NOP", <<>>>>
               [] Fy(o) = 1 -> <<"EX", <<Reg("AF"), Reg("AF'")>>>>
               [] Fy(o) = 2 -> <<"DJNZ", <<Num(here(d))>>>>
               [] Fy(o) = 3 -> <<"JR", <<Num(here(d))>>>>
               [] OTHER -> <<"JR", <<Reg(Cond[Fy(o) - 3]), Num(here(d))>>>>)
       [] Fx(o) = 0 /\ Fz(o) = 1 /\ Fq(o) = 0 -> <<"LD", <<Pair(hl, Fp(o)), Num(Word(b, 2))>>>>
       [] Fx(o) = 0 /\ Fz(o) = 1 -> <<"ADD", <<Reg(hl), Pair(hl, Fp(o))>>>>
       [] Fx(o) = 0 /\ Fz(o) = 2 ->
            LET place == CASE Fp(o) < 2 -> At(<<"BC", "DE">>[Fp(o) + 1])
                           [] OTHER -> Mem(Word(b, 2))
                reg == IF Fp(o) = 2 THEN Reg(hl) ELSE Reg("A")
            IN <<"LD", IF Fq(o) = 0 THEN <<place, reg>> ELSE <<reg, place>> >>
       [] Fx(o) = 0 /\ Fz(o) = 3 -> << <<"INC", "DEC">>[Fq(o) + 1], <<Pair(hl, Fp(o))>>>>
       [] Fx(o) = 0 /\ Fz(o) \in {4, 5} -> << <<"INC", "DEC">>[Fz(o) - 3], <<Place(hl, Fy(o), d)>>>>
       [] Fx(o) = 0 /\ Fz(o) = 6 -> <<"LD", <<Place(hl, Fy(o), d), Num(b[imm])>>>>
       [] Fx(o) = 0 -> << <<"RLCA", "RRCA", "RLA", "RRA", "DAA", "CPL", "SCF", "CCF">>[Fy(o) + 1], <<>>>>
       [] o = 118 -> <<"HALT", <<>>>>
       [] Fx(o) = 1 ->
            LET other == IF 6 \in {Fy(o), Fz(o)} THEN "HL" ELSE hl IN
            <<"LD", <<Place(IF Fy(o) = 6 THEN hl ELSE other, Fy(o), d),
                      Place(IF Fz(o) = 6 THEN hl ELSE other, Fz(o), d)>>>>
       [] Fx(o) = 2 -> <<Alu[Fy(o) + 1], <<Reg("A"), Place(hl, Fz(o), d)>>>>
       [] Fz(o) = 0 -> <<"RET", <<Reg(Cond[Fy(o) + 1])>>>>
       [] Fz(o) = 1 /\ Fq(o) = 0 -> <<"POP", <<Pair2(hl, Fp(o))>>>>
       [] Fz(o) = 1 -> << <<"RET", "EXX", "JP", "LD">>[Fp(o) + 1],
                         << <<>>, <<>>, <<Reg(hl)>>, <<Reg("SP"), Reg(hl)>> >>[Fp(o) + 1]>>
       [] Fz(o) = 2 -> <<"JP", <<Reg(Cond[Fy(o) + 1]), Num(Word(b, 2))>>>>
       [] Fz(o) = 3 ->
            (CASE Fy(o) = 0 -> <<"JP", <<Num(Word(b, 2))>>>>
               [] Fy(o) = 2 -> <<"OUT", <<Mem(d), Reg("A")>>>>
               [] Fy(o) = 3 -> <<"IN", <<Reg("A"), Mem(d)>>>>
               [] Fy(o) = 4 -> <<"EX", <<At("SP"), Reg(hl)>>>>
               [] Fy(o) = 5 -> <<"EX", <<Reg("DE"), Reg("HL")>>>>
               [] Fy(o) = 6 -> <<"DI", <<>>>>
               [] Fy(o) = 7 -> <<"EI", <<>>>>)
       [] Fz(o) = 4 -> <<"CALL", <<Reg(Cond[Fy(o) + 1]), Num(Word(b, 2))>>>>
       [] Fz(o) = 5 /\ Fq(o) = 0 -> <<"PUSH", <<Pair2(hl, Fp(o))>>>>
       [] Fz(o) = 5 -> <<"CALL", <<Num(Word(b, 2))>>>>
       [] Fz(o) = 6 -> <<Alu[Fy(o) + 1], <<Reg("A"), Num(d)>>>>
       [] Fz(o) = 7 -> <<"RST", <<Num(8 * Fy(o))>>>>)

\* After CB: rotations and bits.  After DD CB the displacement comes first and
\* a register other than (HL) receives a copy of the result.
Bits(hl, o, d) ==
  With(IF hl = "HL" THEN <<Place("HL", Fz(o), 0)>>
       ELSE <<Index(hl, d)>> \o IF Fz(o) = 6 THEN <<>> ELSE <<Place("HL", Fz(o), 0)>>, LAMBDA place :
  IF Fx(o) = 0 THEN <<Rot[Fy(o) + 1], place>>
  ELSE << <<"BIT", "RES", "SET">>[Fx(o)], <<Num(Fy(o))>> \o place>>)

Extended(b) ==
  LET o == b[1] IN
  CASE Fx(o) = 1 /\ Fz(o) = 0 -> <<"IN", <<IF Fy(o) = 6 THEN Reg("F") ELSE Place("HL", Fy(o), 0), At("C")>>>>
    [] Fx(o) = 1 /\ Fz(o) = 1 -> <<"OUT", <<At("C"), IF Fy(o) = 6 THEN Num(0) ELSE Place("HL", Fy(o), 0)>>>>
    [] Fx(o) = 1 /\ Fz(o) = 2 -> << <<"SBC", "ADC">>[Fq(o) + 1], <<Reg("HL"), Pair("HL", Fp(o))>>>>
    [] Fx(o) = 1 /\ Fz(o) = 3 /\ Fq(o) = 0 -> <<"LD", <<Mem(Word(b, 2)), Pair("HL", Fp(o))>>>>
    [] Fx(o) = 1 /\ Fz(o) = 3 -> <<"LD", <<Pair("HL", Fp(o)), Mem(Word(b, 2))>>>>
    [] Fx(o) = 1 /\ Fz(o) = 4 -> <<"NEG", <<>>>>
    [] Fx(o) = 1 /\ Fz(o) = 5 -> << IF Fy(o) = 1 THEN "RETI" ELSE "RETN", <<>>>>
    [] Fx(o) = 1 /\ Fz(o) = 6 -> <<"IM", <<Num(<<0, 0, 1, 2>>[Fy(o) + 1])>>>>
    [] Fx(o) = 1 /\ Fz(o) = 7 /\ Fy(o) < 4 ->
         <<"LD", << <<Reg("I"), Reg("A")>>, <<Reg("R"), Reg("A")>>,
                    <<Reg("A"), Reg("I")>>, <<Reg("A"), Reg("R")>> >>[Fy(o) + 1]>>
    [] Fx(o) = 1 -> << IF Fy(o) = 4 THEN "RRD" ELSE "RLD", <<>>>>
    [] Fx(o) = 2 ->
         << << <<"LDI", "LDD", "LDIR", "LDDR">>, <<"CPI", "CPD", "CPIR", "CPDR">>,
               <<"INI", "IND", "INIR", "INDR">>, <<"OUTI", "OUTD", "OTIR", "OTDR">> >>[Fz(o) + 1][Fy(o) - 3], <<>>>>

\* The instruction at pc whose bytes are b.  Relative jumps count from two
\* bytes before the instruction, as tests/as/execute/z80.s has them.
Decoded(b, pc) ==
  LET prefixed == b[1] \in {221, 253}
      hl == IF b[1] = 221 THEN "IX" ELSE IF b[1] = 253 THEN "IY" ELSE "HL"
      rest == IF prefixed THEN Tail(b) ELSE b
  IN IF rest[1] = 203 THEN (IF prefixed THEN Bits(hl, rest[3], rest[2]) ELSE Bits(hl, rest[2], 0))
     ELSE IF rest[1] = 237 THEN Extended(Tail(rest))
     ELSE Plain(hl, rest, pc)

-----------------------------------------------------------------------------

CONSTANT Codes      \* instructions as bytes, at least one for every shape

TUINT == TUINT_MAX + 1

-----------------------------------------------------------------------------
(* The meaning of expressions: the last operator of the lowest level splits. *)

RECURSIVE Horner(_, _)
Horner(ds, base) == IF ds = <<>> THEN 0 ELSE Horner(Front(ds), base) * base + Last(ds)
Positional(tok) == Horner(tok.digits, tok.base)
Levels == << {"|", "^"}, {"&"}, {"<", ">", "=", ">=", "<="}, {"+", "-"}, {"*", "/", "%", "<<", ">>"} >>
Splits(toks) == {i \in 2 .. Len(toks) - 1 : toks[i].t = "op" /\ toks[i - 1].t # "op"}
LevelOf(tok) == CHOOSE k \in 1 .. 5 : tok.s \in Levels[k]
Split(toks) == CHOOSE i \in Splits(toks) : \A j \in Splits(toks) :
  \/ LevelOf(toks[i]) < LevelOf(toks[j])
  \/ LevelOf(toks[i]) = LevelOf(toks[j]) /\ i >= j

Applied(op, l, r) ==
  CASE op = "|" -> l | r [] op = "^" -> l ^^ r [] op = "&" -> l & r
    [] op = "<" -> Bool(l < r) [] op = ">" -> Bool(l > r) [] op = "=" -> Bool(l = r)
    [] op = ">=" -> Bool(l >= r) [] op = "<=" -> Bool(l <= r)
    [] op = "+" -> (l + r) % TUINT [] op = "-" -> (l - r) % TUINT [] op = "*" -> (l * r) % TUINT
    [] op = "/" -> l \div r [] op = "%" -> l % r
    [] op = "<<" -> (l * 2 ^ r) % TUINT [] op = ">>" -> l \div 2 ^ r

\* The name a name stands for after the label cur.
Full(s, cur) == IF s \in LocalNames /\ cur # <<>> THEN cur \o <<s>> ELSE <<s>>

\* A name that is not defined counts 0: its value is left to the linker.
RECURSIVE Means(_, _, _)
Means(toks, vals, cur) ==
  IF Splits(toks) # {}
  THEN With(Split(toks), LAMBDA i :
       Applied(toks[i].s, Means(SubSeq(toks, 1, i - 1), vals, cur), Means(SubSeq(toks, i + 1, Len(toks)), vals, cur)))
  ELSE IF toks[1].t = "op"
  THEN LET v == Means(Tail(toks), vals, cur) IN
       IF toks[1].s = "!" THEN Bool(v = 0) ELSE IF toks[1].s = "-" THEN (0 - v) % TUINT ELSE v
  ELSE IF toks[1].t = "NUMBER" THEN Positional(toks[1])
  ELSE IF Full(toks[1].s, cur) \in DOMAIN vals THEN vals[Full(toks[1].s, cur)] ELSE 0

NumberOK(tok) == tok.t = "NUMBER" => Positional(tok) <= TUINT_MAX /\ \A i \in DOMAIN tok.digits : tok.digits[i] < tok.base
\* Operands with an operator between each two, and at most one before each.
WellFormed(toks) ==
  /\ Last(toks).t # "op"
  /\ \A i \in 1 .. Len(toks) - 1 : toks[i].t = "op" \/ toks[i + 1].t = "op"
  /\ \A i \in DOMAIN toks : toks[i].t = "op" /\ i \notin Splits(toks) => toks[i].s \in {"!", "-", "+"}
  /\ \A i \in Splits(toks) : toks[i].s \in {"/", "%"} => toks[i + 1].digits # <<0, 0, 0, 0>>
\* A label is absolute only in an absolute section; sums and numbers are.
Known(toks, R) == \A i \in DOMAIN toks : toks[i].t = "IDEN" => Full(toks[i].s, R.cur) \in DOMAIN R.vals
Absolute(toks, R) == Len(toks) > 1 \/ toks[1].t = "NUMBER" \/ Full(toks[1].s, R.cur) \in R.abs

-----------------------------------------------------------------------------
(* Instructions *)

Written(o, vals, cur) ==
  CASE o.k = "name" -> Reg(o.s)
    [] o.k = "ind" -> At(o.s)
    [] o.k = "idx" -> Index(o.s, Means(o.toks, vals, cur) % 256)
    [] o.k = "imm" -> Num(Means(o.toks, vals, cur))
    [] o.k = "dir" -> Mem(Means(o.toks, vals, cur))
    [] o.k = "string" -> [k |-> "string", r |-> o.s, v |-> 0]
Ins(line, vals, cur) == <<line.op, [i \in DOMAIN line.args |-> Written(line.args[i], vals, cur)]>>

\* The shape of an instruction: the numbers that are part of the opcode stay.
Shape(ins) ==
  <<ins[1], [i \in DOMAIN ins[2] |->
     IF ins[2][i].k = "num" /\ ins[1] \in {"BIT", "SET", "RES", "RST", "IM", "OUT"} THEN ins[2][i]
     ELSE [ins[2][i] EXCEPT !.v = 0]]>>
Shapes == {Shape(Decoded(b, 0)) : b \in Codes}
Mnemonics == {s[1] : s \in Shapes}

Of(ins, S) == \E i \in DOMAIN ins[2] : ins[2][i].k \in S
Wide(ins) == ins[1] \in {"JP", "CALL"} \/ (ins[1] = "LD" /\ ins[2][1] \in {Reg(r) : r \in {"BC", "DE", "HL", "SP", "IX", "IY"}})
Has(ins, names) == \E i \in DOMAIN ins[2] : ins[2][i].r \in names
Second(b) == IF b THEN 1 ELSE 0

\* Its bytes: prefixes, opcode, displacement, operand.
Length(ins) ==
    Second(Has(ins, {"IX", "IY", "IXH", "IXL", "IYH", "IYL"}))
  + Second(\/ ins[1] \in ToSet(Rot) \cup {"BIT", "SET", "RES"}
           \/ ins[1] \in {"NEG", "RETI", "RETN", "IM", "RRD", "RLD", "LDI", "LDD", "LDIR", "LDDR", "CPI", "CPD", "CPIR",
                          "CPDR", "INI", "IND", "INIR", "INDR", "OUTI", "OUTD", "OTIR", "OTDR"}
           \/ ins[1] \in {"IN", "OUT"} /\ Of(ins, {"at"})
           \/ ins[1] \in {"SBC", "ADC"} /\ ins[2][1].r = "HL"
           \/ ins[1] = "LD" /\ Has(ins, {"I", "R"})
           \/ ins[1] = "LD" /\ Of(ins, {"mem"}) /\ Has(ins, {"BC", "DE", "SP"}))
  + 1 + Second(Of(ins, {"idx"}) \/ ins[1] \in {"JR", "DJNZ"})
  + (IF ins[1] \in {"BIT", "SET", "RES", "RST", "IM", "JR", "DJNZ"} \/ (ins[1] = "OUT" /\ Of(ins, {"at"})) THEN 0
     ELSE IF Of(ins, {"mem"}) THEN (IF ins[1] = "LD" THEN 2 ELSE 1)
     ELSE IF Of(ins, {"num"}) THEN (IF Wide(ins) THEN 2 ELSE 1) ELSE 0)

Legal(ins) ==
  /\ Shape(ins) \in Shapes
  /\ \A i \in DOMAIN ins[2] : ins[2][i].k = "num" => ins[2][i].v <= IF Wide(ins) \/ ins[1] \in {"JR", "DJNZ"} THEN 65535 ELSE 255

-----------------------------------------------------------------------------
(* The source, line by line: R has the section and the label in force, the *)
(* end of each section, the values, the other names declared, and for each *)
(* line where it goes.                                                     *)

Data == [op \in {".DB", ".DW", ".STRING"} |-> IF op = ".DW" THEN 2 ELSE 1]
Sections == [op \in {".TEXT", ".DATA", ".BSS"} |->
  IF op = ".TEXT" THEN <<".text">> ELSE IF op = ".DATA" THEN <<".data">> ELSE <<".bss">>]

Blank == [sec |-> <<".text">>, cur |-> <<>>, vals |-> << >>, abs |-> {}, others |-> {}, items |-> <<>>, bad |-> FALSE, rules |-> {},
          ends |-> [n \in {<<".text">>, <<".data">>, <<".bss">>} |-> 0],
          attr |-> [n \in {<<".text">>, <<".data">>, <<".bss">>} |-> {}],
          order |-> <<<<".text">>, <<".data">>, <<".bss">>>>]

Bad(R) == [R EXCEPT !.bad = TRUE]
Rule(R, cond, name) == IF cond THEN [R EXCEPT !.rules = @ \cup {name}] ELSE R
Put(f, k, v) == [x \in DOMAIN f \cup {k} |-> IF x = k THEN v ELSE f[x]]

Defines(R, name, v, abs) ==
  IF name \in DOMAIN R.vals \cup DOMAIN R.ends THEN Bad(R)
  ELSE [R EXCEPT !.vals = Put(@, name, v), !.abs = IF abs THEN @ \cup {name} ELSE @]

Declares(R, name) == IF name \in DOMAIN R.ends THEN Bad(R) ELSE [R EXCEPT !.others = @ \cup {name}]

\* A label counts as defined once its line is over: .EQU may still set it.
Labelled(R, line) ==
  IF line.label = "" THEN R
  ELSE IF line.label \in LocalNames /\ R.cur = <<>> THEN Bad(R)
  ELSE LET name == Full(line.label, R.cur)
           D == Rule(R, line.label \in ToSet(Registers), "RegisterLabel")
       IN With([D EXCEPT !.cur = IF line.label \in LocalNames THEN @ ELSE name], LAMBDA T :
       IF line.op = ".EQU" /\ Len(line.args) = 1 THEN T
       ELSE Defines(T, name, R.ends[R.sec], "a" \in R.attr[R.sec]))

Placed(R, line, n) ==
  LET T == [R EXCEPT !.ends[R.sec] = @ + n,
                     !.items = Append(@, [line |-> line, sec |-> R.sec, at |-> R.ends[R.sec], n |-> n, cur |-> R.cur])]
  IN IF T.ends[R.sec] > maxaddr THEN Bad(T) ELSE T

Exps(line) == {line.args[i].toks : i \in {j \in DOMAIN line.args : line.args[j].toks # <<>>}}
DotBefore(R, line) ==
  R.cur = <<>> /\ \E i \in DOMAIN line.args :
    \/ line.args[i].k = "name" /\ line.args[i].s \in LocalNames
    \/ \E j \in DOMAIN line.args[i].toks : line.args[i].toks[j].s \in LocalNames

\* A line of source.
Step(R0, line) ==
  With(Labelled(R0, line), LAMBDA L :
  With(Rule(Rule(Rule(Rule(L,
         DotBefore(L, line), "DotBeforeLabel"),
         \E e \in Exps(line) : \E i \in DOMAIN e : e[i].t = "op" /\ e[i].s \in {"<", "<=", ">=", "<<", ">>"}, "Comparison"),
         \E e \in Exps(line) : \E i \in DOMAIN e : e[i].t = "NUMBER" /\ (Positional(e[i]) > TUINT_MAX - 2000
             \/ \E d \in DOMAIN e[i].digits : e[i].digits[d] = e[i].base), "Numbers"),
         (\E i \in DOMAIN line.args : line.args[i].k \in {"idx", "dir"}
             /\ Means(line.args[i].toks, <<>>, <<>>) > 255), "Truncated"), LAMBDA R :
  LET imm == line.args[Len(line.args)].toks
  IN With(IF Len(line.args) = 2 THEN Full(line.args[1].s, R.cur) ELSE Full(line.label, R.cur), LAMBDA equ :
  IF ~\A e \in Exps(line) : WellFormed(e) /\ \A i \in DOMAIN e : NumberOK(e[i]) THEN Bad(R)
  ELSE CASE line.op = "" -> R
    [] line.op \in DOMAIN Data ->
         LET S == Rule(Rule(R, line.op = ".DW", "WordOrder"),
                       line.args # <<>> /\ line.args[1].s \in ToSet(Registers), "FirstUnchecked") IN
         IF line.args = <<>> THEN Bad(S)
         ELSE Placed(S, line, IF line.op = ".STRING" THEN Len(Text[line.args[1].s]) ELSE Data[line.op] * Len(line.args))
    [] line.op \in DOMAIN Sections -> [R EXCEPT !.sec = Sections[line.op]]
    [] line.op = ".SECTION" ->
         With(Full(line.args[1].s, R.cur), LAMBDA name :
         IF name \in DOMAIN R.vals \cup R.others \/ Len(line.args) = 1 THEN Bad(R)
         ELSE IF name \in DOMAIN R.ends THEN [R EXCEPT !.sec = name]
         ELSE IF ~Storable(Attributes[line.args[2].s]) THEN Bad(R)
         ELSE [R EXCEPT !.sec = name, !.order = Append(@, name), !.ends = Put(@, name, 0),
                        !.attr = Put(@, name, Attributes[line.args[2].s])])
    [] line.op = ".EQU" ->
         LET S == Rule(R, imm[1].t = "IDEN" /\ Len(imm) = 1, "EquNotAbsolute") IN
         IF ~Known(imm, R) \/ ~Absolute(imm, R) \/ equ = <<"">> \/ Means(imm, R.vals, R.cur) > 65535 THEN Bad(S)
         ELSE Defines(S, equ, Means(imm, R.vals, R.cur), FALSE)
    [] line.op = ".ALIGN" ->
         With(Means(imm, R.vals, R.cur), LAMBDA v :
         With(Rule(R, v \notin {0, 1, 2, 4, 8}, "OddAlignment"), LAMBDA S :
         IF ~Known(imm, R) \/ ~Absolute(imm, R) THEN Bad(S)
         ELSE Placed(S, line, IF v = 0 THEN 0 ELSE (v - (R.ends[R.sec] % v)) % v)))
    [] line.op \in {".GLOBL", ".COMM"} -> Declares(R, Full(line.args[1].s, R.cur))
    [] line.op \in {".INCLUDE", ".END"} -> R
    [] line.op \in Mnemonics ->
         IF Shape(Ins(line, <<>>, <<>>)) \in Shapes THEN Placed(R, line, Length(Ins(line, <<>>, <<>>)))
         ELSE Rule(Bad(R), line.op = "OUT", "AnyZero")
    [] OTHER -> Bad(R))))

\* The lines of a file with the included files in place, to the first .END.
RECURSIVE Source(_, _)
Source(ls, depth) ==
  IF ls = <<>> \/ depth > NR_INPUTS THEN <<>>
  ELSE IF ls[1].op = ".INCLUDE"
  THEN LET in == Source(text[ls[1].args[1].s], depth + 1) IN
       <<ls[1]>> \o in \o IF in # <<>> /\ Last(in).op = ".END" THEN <<>> ELSE Source(Tail(ls), depth)
  ELSE IF ls[1].op = ".END" THEN <<ls[1]>>
  ELSE <<ls[1]>> \o Source(Tail(ls), depth)

Lines == FlattenSeq([i \in DOMAIN argv |-> Source(text[argv[i]], 1)])
RECURSIVE Steps(_, _)
Steps(R, ls) == IF ls = <<>> THEN R ELSE Steps(Step(R, ls[1]), Tail(ls))
Reference == Steps(Blank, Lines)

-----------------------------------------------------------------------------
(* The properties *)

Slice(s, at, n) == SubSeq(s, at + 1, at + n)

\* The bytes b of a line at pc say what the line says.
Says(item, b, Q) ==
  LET line == item.line
      value(i) == IF line.args[i].k = "name"
                  THEN LET f == Full(line.args[i].s, item.cur) IN IF f \in DOMAIN Q.vals THEN Q.vals[f] ELSE 0
                  ELSE Means(line.args[i].toks, Q.vals, item.cur)
  IN With(Ins(line, Q.vals, item.cur), LAMBDA ins :
  CASE line.op = ".DB" -> \A i \in DOMAIN line.args : b[i] = value(i)
    [] line.op = ".DW" -> \A i \in DOMAIN line.args : b[2 * i - 1] + 256 * b[2 * i] = value(i)
    [] line.op = ".STRING" -> b = Text[line.args[1].s]
    [] line.op = ".ALIGN" -> \A i \in DOMAIN b : b[i] = 0
    [] OTHER ->
         With(Decoded(b, item.at), LAMBDA got :
         /\ Legal(ins)
         /\ got[1] = ins[1]
         /\ \A i \in DOMAIN ins[2] :
              got[2][i] = IF ins[1] \in {"JR", "DJNZ"} THEN [ins[2][i] EXCEPT !.v = @ % 256] ELSE ins[2][i]))

\* Where a section starts in the output: the last one is written first.
Start(Q, sec) ==
  LET k == CHOOSE k \in DOMAIN Q.order : Q.order[k] = sec IN
  FoldLeft(LAMBDA n, s : n + Q.ends[s], 0, SubSeq(Q.order, k + 1, Len(Q.order)))
Total(Q) == FoldLeft(LAMBDA n, s : n + Q.ends[s], 0, Q.order)

\* When as succeeds with one file, the source has no error and the output has
\* the bytes of every line, at the addresses its labels have, but for the
\* rules named.
AssembledAsWritten ==
  phase = "done" /\ Len(argv) = 1 =>
    With(Reference, LAMBDA Q :
    \/ Q.rules \cap {"RegisterLabel", "DotBeforeLabel", "WordOrder", "Comparison", "Numbers", "Truncated",
                     "FirstUnchecked", "OddAlignment", "AnyZero"} # {}
    \/ /\ ~Q.bad
       /\ Len(Image) = Total(Q)
       /\ \A i \in DOMAIN Q.items :
            Says(Q.items[i], Slice(Image, Start(Q, Q.items[i].sec) + Q.items[i].at, Q.items[i].n), Q))

\* A value that does not fit where it goes.
Overflows(item, Q) ==
  \E e \in Exps(item.line) : Means(e, Q.vals, item.cur) > (IF item.line.op \in {".DB", "LD"} THEN 255 ELSE 65535)

\* A source that as refuses has an error: error() and die() are called for
\* nothing else than what the rules name.
RefusedRightly ==
  phase = "failed" /\ Len(argv) = 1 /\ as.nerrors > 0 =>
    With(Reference, LAMBDA Q :
    \/ Q.bad
    \/ Q.rules \cap {"RegisterLabel", "Comparison", "Numbers", "EquNotAbsolute", "DotBeforeLabel"} # {}
    \/ \E i \in DOMAIN Q.items : Overflows(Q.items[i], Q))

\* The second pass gives every label the value the first one gave it, or the
\* addresses already written into the output would be of another layout; after
\* an error there is no output.  .END leaves its file on the stack of inputs,
\* and the next operand is followed by the rest of it.
PassesAgree ==
  as.pass = 2 /\ as.nerrors = 0 =>
    \/ \A n \in DOMAIN first : as.syms[n].val = first[n]
    \/ "DotBeforeLabel" \in Reference.rules
    \/ Len(argv) > 1 /\ \E f \in Files : \E i \in DOMAIN text[f] : text[f][i].op = ".END"

\* as leaves a complete new output or, after an error, none; a crash leaves
\* the output of an earlier run.
OutputWhole ==
  /\ phase = "done" => outfile = "new"
  /\ phase = "failed" => outfile = "none"
  /\ phase = "crashed" => outfile # "new"

\* as comes to an end, however its files include each other.
AsEnds == <>Ended

\* Nothing is written by halves: the passes agree on the layout, and the output
\* is a whole one or, after an error, none.
OutputSound == PassesAgree /\ OutputWhole
=============================================================================
