-------------------------------- MODULE MCAs --------------------------------
(* Every instruction alone; short sources of labels, data and directives.   *)
EXTENDS AsC, TLC

CONSTANT MaxLines   \* bound: lines of all files together

N(ds, b) == [t |-> "NUMBER", s |-> "", digits |-> ds, base |-> b]
Id(s) == [t |-> "IDEN", s |-> s, digits |-> <<>>, base |-> 10]
O(s) == [t |-> "op", s |-> s, digits |-> <<>>, base |-> 10]
D(v) == N(<<(v \div 4096) % 16, (v \div 256) % 16, (v \div 16) % 16, v % 16>>, 16)
Opnd(k, s, toks) == [k |-> k, s |-> s, toks |-> toks]
Imm(toks) == Opnd("imm", "", toks)
Name(s) == Opnd("name", s, <<>>)
Quoted(s) == Opnd("string", s, <<>>)
L(label, op, args) == [label |-> label, op |-> op, args |-> args]

Row(args, size, bytes, format) == [args |-> args, size |-> size, bytes |-> bytes, format |-> format]
Alone(size, bytes) == Row(<<>>, size, bytes, "noargs")
Both(args1, args2, size, code, format) ==
  <<Row(args1, size, <<221>> \o code, format), Row(args2, size, <<253>> \o code, format)>>

AluRows(code, imm) ==
  <<Row(<<"A", "r">>, 1, <<code>>, "alu8")>> \o Both(<<"A", "p">>, <<"A", "q">>, 2, <<code>>, "alu8")
  \o <<Row(<<"A", "imm8">>, 2, <<imm>>, "alu8"), Row(<<"A", "(HL)">>, 1, <<code + 6>>, "alu8")>>
  \o Both(<<"A", "(IX+n)">>, <<"A", "(IY+n)">>, 3, <<code + 6>>, "alu8")
IncRows(code) ==
  <<Row(<<"r">>, 1, <<code>>, "alu8")>> \o Both(<<"p">>, <<"q">>, 2, <<code>>, "alu8")
  \o <<Row(<<"(HL)">>, 1, <<code + 48>>, "alu8")>> \o Both(<<"(IX+n)">>, <<"(IY+n)">>, 3, <<code + 48>>, "alu8")
RotRows(code) ==
  <<Row(<<"r">>, 2, <<203, code>>, "rot_bit"), Row(<<"(HL)">>, 2, <<203, code + 6>>, "rot_bit")>>
  \o Both(<<"(IX+n)">>, <<"(IY+n)">>, 4, <<203, 0, code + 6>>, "rot_bit")
  \o Both(<<"(IX+n)", "r">>, <<"(IY+n)", "r">>, 4, <<203, 0, code>>, "rot_bit")
BitRows(code) ==
  <<Row(<<"imm3", "r">>, 2, <<203, code>>, "rot_bit"), Row(<<"imm3", "(HL)">>, 2, <<203, code + 6>>, "rot_bit")>>
  \o Both(<<"imm3", "(IX+n)">>, <<"imm3", "(IY+n)">>, 4, <<203, 0, code + 6>>, "rot_bit")
CopyRows(code) == Both(<<"imm3", "(IX+n)", "r">>, <<"imm3", "(IY+n)", "r">>, 4, <<203, 0, code>>, "rot_bit")

LdRows ==
  <<Row(<<"r", "imm8">>, 2, <<6>>, "ld8")>> \o Both(<<"p", "imm8">>, <<"q", "imm8">>, 3, <<6>>, "ld8")
  \o <<Row(<<"(HL)", "imm8">>, 2, <<54>>, "ld8"), Row(<<"r", "r">>, 1, <<64>>, "ld8")>>
  \o Both(<<"p", "p">>, <<"q", "q">>, 2, <<64>>, "ld8")
  \o <<Row(<<"(HL)", "r">>, 1, <<112>>, "ld8"), Row(<<"r", "(HL)">>, 1, <<70>>, "ld8")>>
  \o Both(<<"r", "(IX+n)">>, <<"r", "(IY+n)">>, 3, <<70>>, "idx")
  \o Both(<<"(IX+n)", "r">>, <<"(IY+n)", "r">>, 3, <<112>>, "idx")
  \o Both(<<"(IX+n)", "imm8">>, <<"(IY+n)", "imm8">>, 4, <<54>>, "idx")
  \o <<Row(<<"A", "(BC)">>, 1, <<10>>, "noargs"), Row(<<"A", "(DE)">>, 1, <<26>>, "noargs"),
       Row(<<"A", "(n)">>, 3, <<58>>, "dir"), Row(<<"(BC)", "A">>, 1, <<2>>, "noargs"),
       Row(<<"(DE)", "A">>, 1, <<18>>, "noargs"), Row(<<"(n)", "A">>, 3, <<50>>, "dir"),
       Row(<<"A", "I">>, 2, <<237, 87>>, "noargs"), Row(<<"A", "R">>, 2, <<237, 95>>, "noargs"),
       Row(<<"I", "A">>, 2, <<237, 71>>, "noargs"), Row(<<"R", "A">>, 2, <<237, 79>>, "noargs"),
       Row(<<"dd", "imm16">>, 3, <<1>>, "ld16")>>
  \o Both(<<"IX", "imm16">>, <<"IY", "imm16">>, 4, <<33>>, "ld16")
  \o <<Row(<<"HL", "(n)">>, 3, <<42>>, "ld16"), Row(<<"dd", "(n)">>, 4, <<237, 75>>, "ld16")>>
  \o Both(<<"IX", "(n)">>, <<"IY", "(n)">>, 4, <<42>>, "ld16")
  \o <<Row(<<"(n)", "HL">>, 3, <<34>>, "ld16"), Row(<<"(n)", "dd">>, 4, <<237, 67>>, "ld16")>>
  \o Both(<<"(n)", "IX">>, <<"(n)", "IY">>, 4, <<34>>, "ld16")
  \o <<Row(<<"SP", "HL">>, 1, <<249>>, "noargs")>> \o Both(<<"SP", "IX">>, <<"SP", "IY">>, 2, <<249>>, "noargs")

PairRows(qq, code, hl) == <<Row(<<qq>>, 1, <<code>>, "ld16")>> \o Both(<<"IX">>, <<"IY">>, 2, <<hl>>, "ld16")
StepRows(dd, hl) == <<Row(<<"dd">>, 1, <<dd>>, "alu16")>> \o Both(<<"IX">>, <<"IY">>, 2, <<hl>>, "alu16")

Singles == [m \in {"DAA", "CPL", "CCF", "SCF", "NOP", "HALT", "DI", "EI", "EXX", "RLCA", "RLA", "RRCA", "RRA"} |->
  CASE m = "DAA" -> 39 [] m = "CPL" -> 47 [] m = "CCF" -> 63 [] m = "SCF" -> 55 [] m = "NOP" -> 0 [] m = "HALT" -> 118
    [] m = "DI" -> 243 [] m = "EI" -> 251 [] m = "EXX" -> 217 [] m = "RLCA" -> 7 [] m = "RLA" -> 23
    [] m = "RRCA" -> 15 [] OTHER -> 31]
Doubles == [m \in {"NEG", "LDI", "LDIR", "LDD", "LDDR", "CPI", "CPIR", "CPD", "CPDR", "RLD", "RRD", "INI", "INIR", "IND",
                   "INDR", "OUTI", "OTIR", "OUTD", "OTDR", "RETI", "RETN"} |->
  CASE m = "NEG" -> 68 [] m = "LDI" -> 160 [] m = "LDIR" -> 176 [] m = "LDD" -> 168 [] m = "LDDR" -> 184
    [] m = "CPI" -> 161 [] m = "CPIR" -> 177 [] m = "CPD" -> 169 [] m = "CPDR" -> 185 [] m = "RLD" -> 111
    [] m = "RRD" -> 103 [] m = "INI" -> 162 [] m = "INIR" -> 178 [] m = "IND" -> 170 [] m = "INDR" -> 186
    [] m = "OUTI" -> 163 [] m = "OTIR" -> 179 [] m = "OUTD" -> 171 [] m = "OTDR" -> 187 [] m = "RETI" -> 77
    [] OTHER -> 69]

Directives ==
  (".SECTION" :> <<Row(<<"sym", "AOPT", "string">>, 0, <<>>, "section")>>)
  @@ (".TEXT" :> <<Row(<<>>, 0, <<>>, "text")>>) @@ (".DATA" :> <<Row(<<>>, 0, <<>>, "data")>>)
  @@ (".BSS" :> <<Row(<<>>, 0, <<>>, "bss")>>)
  @@ (".DB" :> <<Row(<<"AREP", "imm8">>, 0, <<>>, "defb")>>)
  @@ (".DW" :> <<Row(<<"AREP", "imm16">>, 0, <<>>, "defw")>>)
  @@ (".EQU" :> <<Row(<<"sym", "imm16">>, 0, <<>>, "equ"), Row(<<"imm16">>, 0, <<>>, "equ")>>)
  @@ (".COMM" :> <<Row(<<"sym", "imm16">>, 0, <<>>, "common"), Row(<<"imm16">>, 0, <<>>, "common")>>)
  @@ (".GLOBL" :> <<Row(<<"AREP", "sym">>, 0, <<>>, "global")>>)
  @@ (".STRING" :> <<Row(<<"AREP", "string">>, 0, <<>>, "string")>>)
  @@ (".ALIGN" :> <<Row(<<"AREP", "imm16">>, 0, <<>>, "align")>>)
  @@ (".END" :> <<Row(<<>>, 0, <<>>, "end")>>)
  @@ (".INCLUDE" :> <<Row(<<"string">>, 0, <<>>, "include")>>)

Instructions ==
  ("LD" :> LdRows) @@ ("PUSH" :> PairRows("qq", 197, 229)) @@ ("POP" :> PairRows("qq", 193, 225))
  @@ ("ADD" :> AluRows(128, 198) \o <<Row(<<"HL", "dd">>, 1, <<9>>, "alu16")>>
                \o Both(<<"IX", "pp">>, <<"IY", "rr">>, 2, <<9>>, "alu16"))
  @@ ("ADC" :> AluRows(136, 206) \o <<Row(<<"HL", "dd">>, 2, <<237, 74>>, "alu16")>>)
  @@ ("SUB" :> AluRows(144, 214))
  @@ ("SBC" :> AluRows(152, 222) \o <<Row(<<"HL", "dd">>, 2, <<237, 66>>, "alu16")>>)
  @@ ("AND" :> AluRows(160, 230)) @@ ("XOR" :> AluRows(168, 238)) @@ ("OR" :> AluRows(176, 246)) @@ ("CP" :> AluRows(184, 254))
  @@ ("INC" :> IncRows(4) \o StepRows(3, 35)) @@ ("DEC" :> IncRows(5) \o StepRows(11, 43))
  @@ [m \in DOMAIN Singles |-> <<Alone(1, <<Singles[m]>>)>>] @@ [m \in DOMAIN Doubles |-> <<Alone(2, <<237, Doubles[m]>>)>>]
  @@ ("IM" :> <<Row(<<"imm8">>, 2, <<237, 70>>, "im")>>)
  @@ ("EX" :> <<Row(<<"DE", "HL">>, 1, <<235>>, "noargs"), Row(<<"AF", "AF'">>, 1, <<8>>, "noargs"),
                Row(<<"(SP)", "HL">>, 1, <<227>>, "noargs")>> \o Both(<<"(SP)", "IX">>, <<"(SP)", "IY">>, 2, <<227>>, "noargs"))
  @@ [m \in ToSet(Rot) |-> RotRows(8 * ((CHOOSE i \in 1 .. 8 : Rot[i] = m) - 1))]
  @@ ("BIT" :> BitRows(64)) @@ ("RES" :> BitRows(128) \o CopyRows(128)) @@ ("SET" :> BitRows(192) \o CopyRows(192))
  @@ ("IN" :> <<Row(<<"A", "(n)">>, 2, <<219>>, "inout"), Row(<<"r", "(C)">>, 2, <<237, 64>>, "inout"),
                Row(<<"F", "(C)">>, 2, <<237, 112>>, "inout")>>)
  @@ ("OUT" :> <<Row(<<"(n)", "A">>, 2, <<211>>, "inout"), Row(<<"(C)", "r">>, 2, <<237, 65>>, "inout"),
                 Row(<<"(C)", "0">>, 2, <<237, 113>>, "inout")>>)
  @@ ("JP" :> <<Row(<<"imm16">>, 3, <<195>>, "jp"), Row(<<"cc", "imm16">>, 3, <<194>>, "jp"), Row(<<"HL">>, 1, <<233>>, "noargs")>>
              \o Both(<<"IX">>, <<"IY">>, 2, <<233>>, "noargs"))
  @@ ("JR" :> <<Row(<<"imm16">>, 2, <<24>>, "jr"), Row(<<"ss", "imm16">>, 2, <<0>>, "jr")>>)
  @@ ("DJNZ" :> <<Row(<<"imm16">>, 2, <<16>>, "jr")>>)
  @@ ("CALL" :> <<Row(<<"imm16">>, 3, <<205>>, "jp"), Row(<<"cc", "imm16">>, 3, <<196>>, "jp")>>)
  @@ ("RET" :> <<Row(<<>>, 1, <<201>>, "noargs"), Row(<<"cc">>, 1, <<192>>, "jp")>>)
  @@ ("RST" :> <<Row(<<"rst">>, 1, <<199>>, "rst")>>)

MCoptab == Directives @@ Instructions

\* Every opcode, plain and after each prefix, with operand bytes 5 and 6.
Defined(o) == (Fx(o) = 1 /\ Fz(o) # 6 /\ (Fz(o) = 7 => Fy(o) < 6) /\ (Fz(o) \in {4, 5} => Fy(o) < 2))
              \/ (Fx(o) = 1 /\ Fz(o) = 6 /\ Fy(o) < 4) \/ (Fx(o) = 2 /\ Fz(o) < 4 /\ Fy(o) > 3)
MCCodes ==
  {<<o, 5, 6>> : o \in 0 .. 255 \ {203, 221, 237, 253}}
  \cup {<<p, o, 5, 6>> : p \in {221, 253}, o \in 0 .. 255 \ {203, 221, 237, 253}}
  \cup {<<203, o>> : o \in 0 .. 255} \cup {<<237, o, 5, 6>> : o \in {o \in 0 .. 255 : Defined(o)}}
  \cup {<<p, 203, 5, o>> : p \in {221, 253}, o \in {o \in 0 .. 255 : Fx(o) = 1 => Fz(o) = 6}}

Back(o) ==
  CASE o.k = "reg" -> Name(o.r) [] o.k = "at" -> Opnd("ind", o.r, <<>>) [] o.k = "num" -> Imm(<<D(o.v)>>)
    [] o.k = "idx" -> Opnd("idx", o.r, <<O("+"), D(o.v)>>) [] OTHER -> Opnd("dir", "", <<D(o.v)>>)

Whole == {L("", d[1], [i \in DOMAIN d[2] |-> Back(d[2][i])]) : d \in {Decoded(b, 0) : b \in MCCodes}}

Wrong ==
  {L("", "LD", <<Name("HL"), Name("A")>>), L("", "LD", <<Name("A"), Imm(<<D(300)>>)>>), L("", "LD", <<>>),
   L("", "LD", <<Name("A"), Opnd("idx", "IX", <<O("+"), D(300)>>)>>), L("", "OUT", <<Opnd("ind", "C", <<>>), Imm(<<D(5)>>)>>),
   L("", "BAD", <<>>), L("", "JR", <<Imm(<<D(1000)>>)>>), L("", "LD", <<Name("A"), Opnd("idx", "IX", <<O("-"), D(1)>>)>>),
   L("", "IN", <<Name("A"), Opnd("dir", "", <<D(300)>>)>>)}

\* Expressions, in one line of data.
Expressions ==
  {<<N(<<8>>, 8)>>, <<N(<<7, 7>>, 8)>>, <<N(<<10, 15>>, 16)>>, <<N(<<1, 0, 4, 8, 5, 7, 5>>, 10)>>, <<N(<<9, 9, 9, 9, 9, 9, 9, 9>>, 10)>>,
   <<O("-"), D(1)>>, <<O("!"), D(0)>>, <<O("!"), D(3)>>, <<O("+"), D(3)>>, <<O("-"), Id("K")>>, <<O("("), D(1), O(")")>>,
   <<D(9), O("-"), D(3), O("-"), D(2)>>, <<D(1), O("+"), D(2), O("|"), D(4)>>, <<D(4), O("|"), D(1), O("+"), D(2)>>,
   <<D(3), O("="), D(1), O("+"), D(2)>>, <<D(1), O("-"), D(2), O("+"), D(3)>>, <<D(5), D(6)>>, <<D(7), O("+")>>, <<D(1), O("/"), D(0)>>}
  \cup {<<D(6), O(op), D(3)>> : op \in UNION {Levels[k] : k \in 1 .. 5}}
Exprs == {L("", ".DB", <<Imm(e)>>) : e \in Expressions} \cup {L("", ".DB", <<Imm(<<D(1)>>), Imm(e)>>) : e \in {<<D(2)>>, <<D(300)>>}}
         \cup {L("", ".DB", <<Name("A")>>), L("", ".DB", <<>>), L("", ".DB", <<Imm(<<D(300)>>)>>), L("", ".ALIGN", <<Imm(<<D(3)>>)>>)}

\* Directives and labels, in any order.
Parts ==
  {L("K", "NOP", <<>>), L("K", "", <<>>), L("J", "NOP", <<>>), L(".x", "NOP", <<>>), L("A", "", <<>>),
   L("", "JP", <<Imm(<<Id("K")>>)>>), L("", "JR", <<Imm(<<Id(".x")>>)>>), L("K", "JR", <<Imm(<<Id("J")>>)>>),
   L("", "LD", <<Name("A"), Imm(<<D(2)>>)>>),
   L("", ".DB", <<Imm(<<Id("K"), O("+"), D(1)>>)>>), L("", ".DB", <<Imm(<<Id("J")>>), Imm(<<D(7)>>)>>), L("", ".DW", <<Imm(<<Id("K")>>)>>),
   L("", ".STRING", <<Quoted("ab")>>), L("", ".ALIGN", <<Imm(<<D(2)>>)>>), L("", ".ALIGN", <<Imm(<<Id("K")>>)>>),
   L("", ".EQU", <<Name("K"), Imm(<<D(2)>>)>>), L("K", ".EQU", <<Imm(<<D(3)>>)>>), L("", ".EQU", <<Name("J"), Imm(<<Id("K"), O("+"), D(1)>>)>>),
   L("", ".EQU", <<Name("J"), Imm(<<Id("K")>>)>>),
   L("", ".DATA", <<>>), L("", ".TEXT", <<>>), L("", ".BSS", <<>>),
   L("", ".SECTION", <<Name("S"), Quoted("mrwcl")>>), L("", ".SECTION", <<Name(".s"), Quoted("mrwcl")>>),
   L("", ".SECTION", <<Name("S"), Quoted("xca")>>), L("", ".SECTION", <<Name("K"), Quoted("xca")>>),
   L("", ".SECTION", <<Name("S"), Quoted("rw")>>), L("", ".SECTION", <<Name("S"), Quoted("z")>>), L("", ".SECTION", <<Name("S")>>),
   L("", ".GLOBL", <<Name("K")>>), L("", ".COMM", <<Name("J"), Imm(<<D(4)>>)>>),
   L("", ".INCLUDE", <<Quoted("i")>>), L("", ".INCLUDE", <<Quoted("a")>>), L("", ".END", <<>>)}

Late ==
  {L("K", "NOP", <<>>), L(".x", "NOP", <<>>), L("", "JP", <<Imm(<<Id("K")>>)>>), L("", ".DB", <<Imm(<<Id("K"), O("+"), D(1)>>)>>),
   L("", ".DB", <<Imm(<<Id("J")>>), Imm(<<D(7)>>)>>), L("", ".ALIGN", <<Imm(<<D(2)>>)>>), L("", ".EQU", <<Name("K"), Imm(<<D(2)>>)>>),
   L("", ".DATA", <<>>), L("", ".SECTION", <<Name(".s"), Quoted("mrwcl")>>), L("", ".INCLUDE", <<Quoted("i")>>), L("", ".END", <<>>)}

Total0(t) == FoldLeft(LAMBDA n, f : n + Len(t[f]), 0, <<"a", "b", "i">>)
MCMenu(t) ==
  IF Total0(t) = 0 THEN Whole \cup Wrong \cup Exprs \cup Parts
  ELSE IF Total0(t) < MaxLines /\ \A f \in Files : \A i \in DOMAIN t[f] : t[f][i] \in Parts
  THEN (IF Total0(t) = 1 THEN Parts ELSE Late) ELSE {}

MCAttributes == [s \in {"mrwcl", "xca", "rw", "z"} |->
  CASE s = "mrwcl" -> {"m", "r", "w", "c", "l"} [] s = "xca" -> {"x", "c", "a"} [] s = "rw" -> {"r", "w"} [] OTHER -> {"z"}]
MCText == [s \in {"ab"} |-> <<97, 98>>]
MCCommandLines == {<<"a">>, <<"a", "b">>}
=============================================================================
