----------------------------- MODULE MCObjTools -----------------------------
(***************************************************************************)
(* Object files and libraries for TLC, and the sessions on them.           *)
(***************************************************************************)
EXTENDS ObjTools

\* A section: its name, flags and size, whether it has contents, how many
\* relocations (their symbols) and line numbers.
Sec(n, fl, size, has, rels, lns) == [name |-> n, flags |-> fl, size |-> size, has |-> has, rels |-> rels, lns |-> lns]
Text == Sec(".text", "TEXT", 8, TRUE, <<>>, <<>>)
Data == Sec(".data", "DATA", 6, TRUE, <<>>, <<>>)
Bss  == Sec(".bss", "BSS", 4, FALSE, <<>>, <<>>)
Info == Sec(".comment", "INFO", 3, TRUE, <<>>, <<>>)
Lit  == Sec(".lit", "LIT", 2, TRUE, <<>>, <<>>)
Over == Sec(".copy", "COPY", 2, TRUE, <<>>, <<>>)

\* A symbol, with its auxiliary entries.
Sym(n, val, scn, cl) == [name |-> n, value |-> val, scnum |-> scn, sclass |-> cl, d1 |-> "NON", null |-> TRUE, aux |-> <<>>]
Fun(n, end) == [Sym(n, 0, 1, "EXT") EXCEPT !.d1 = "FCN", !.aux = <<[nreloc |-> 0, nlinno |-> 0, endndx |-> end, tagndx |-> 0, tvndx |-> 0]>>]
Scn(n, scn, nrel) == [Sym(n, 0, scn, "STAT") EXCEPT !.aux = <<[nreloc |-> nrel, nlinno |-> 0, endndx |-> 0, tagndx |-> 0, tvndx |-> 0]>>]
Ary(n) == [Fun(n, 0) EXCEPT !.d1 = "ARY"]

SumOver(s, op(_)) == FoldLeft(LAMBDA n, x : n + op(x), 0, s)
Flat(s, op(_)) == FoldLeft(LAMBDA l, x : l \o op(x), <<>>, s)

\* An object as an assembler lays it out: headers, contents, relocations, lines,
\* symbols and strings.
Obj(magic, opt, long, secs, ss) ==
  LET n     == Len(secs)
      base  == FILHSZ + opt + n * SCNHSZ
      upto(i) == SubSeq(secs, 1, i)
      rels0 == base + SumOver(secs, LAMBDA x : IF x.has THEN x.size ELSE 0)
      lns0  == rels0 + RELSZ * SumOver(secs, LAMBDA x : Len(x.rels))
      syms0 == lns0 + LINESZ * SumOver(secs, LAMBDA x : Len(x.lns))
      nsyms == SumOver(ss, LAMBDA x : 1 + Len(x.aux))
      head(i) == [name |-> secs[i].name, long |-> long, size |-> secs[i].size, flags |-> secs[i].flags,
                  scnptr |-> IF secs[i].has THEN base + SumOver(upto(i - 1), LAMBDA x : IF x.has THEN x.size ELSE 0) ELSE 0,
                  nrelloc |-> Len(secs[i].rels), nlnno |-> Len(secs[i].lns),
                  relptr |-> rels0 + RELSZ * SumOver(upto(i - 1), LAMBDA x : Len(x.rels)),
                  lnnoptr |-> lns0 + LINESZ * SumOver(upto(i - 1), LAMBDA x : Len(x.lns))]
      entry(x) == <<Piece("sym", SYMESZ, [name |-> x.name, value |-> x.value, scnum |-> x.scnum, sclass |-> x.sclass,
                                         d1 |-> x.d1, null |-> x.null, numaux |-> Len(x.aux)])>>
                  \o [i \in DOMAIN x.aux |-> Piece("aux", SYMESZ, x.aux[i])]
  IN [k |-> "obj", f |->
        <<Piece("hdr", FILHSZ, [magic |-> magic, nscns |-> n, symptr |-> IF ss = <<>> THEN 0 ELSE syms0,
                               nsyms |-> nsyms, opthdr |-> opt, lsyms |-> FALSE])>>
        \o (IF opt = 0 THEN <<>> ELSE <<Piece("aout", AOUTSZ, [magic |-> "aout"])>>)
        \o [i \in 1 .. n |-> Piece("scn", SCNHSZ, head(i))]
        \o Flat(secs, LAMBDA x : IF x.has THEN <<Piece("data", x.size, [val |-> x.name, size |-> x.size])>> ELSE <<>>)
        \o Flat(secs, LAMBDA x : [i \in DOMAIN x.rels |-> Piece("rel", RELSZ, [symndx |-> x.rels[i]])])
        \o Flat(secs, LAMBDA x : [i \in DOMAIN x.lns |-> Piece("line", LINESZ, x.lns[i])])
        \o Flat(ss, entry)
        \o (IF ss = <<>> THEN <<>> ELSE <<Piece("str", IF long THEN 24 ELSE 4, [siz |-> IF long THEN 24 ELSE 4])>>)]

WithRels(s, r) == [s EXCEPT !.rels = r]
WithLines(s, l) == [s EXCEPT !.lns = l]
Z80(secs, ss) == Obj("z80", 0, FALSE, secs, ss)
Cut(o, n) == [o EXCEPT !.f = SubSeq(@, 1, Len(@) - n)]

Plain  == Z80(<<Text, Data>>, <<Fun("f", 2), Sym("x", 0, 2, "EXT"), Sym("l", 1, 1, "STAT")>>)
Mixed  == Z80(<<WithRels(Text, <<0>>), Info, Bss, Data, Over>>,
              <<Scn(".text", 1, 1), Sym("u", 0, 0, "EXT"), Sym("c", 4, 0, "EXT"), Sym("n", 0, -2, "NULL"), Sym("k", 7, -1, "EXT"),
                Sym("z", 0, 5, "EXT"), Sym("x", 0, 4, "EXT")>>)
Objects ==
  {Plain, Mixed, Z80(<<>>, <<>>), Z80(<<Bss, Text>>, <<>>), Z80(<<Lit, Text>>, <<Sym("r", 0, 1, "EXT")>>),
   Z80(<<Data, Text, Data>>, <<Sym("f", 0, 2, "EXT")>>),
   Z80(<<WithRels(Text, <<0, 1>>), WithRels(Data, <<1>>)>>, <<Sym("u", 0, 0, "EXT"), Sym("v", 0, 0, "EXT")>>),
   Z80(<<WithRels(Text, <<2>>)>>, <<Sym("u", 0, 0, "EXT")>>),
   Z80(<<WithLines(Text, <<[lnno |-> 0, addr |-> 0], [lnno |-> 1, addr |-> 0]>>)>>, <<Fun("f", 2)>>),
   Z80(<<WithLines(Text, <<[lnno |-> 1, addr |-> 4]>>)>>, <<Fun("f", 2)>>),
   Z80(<<Text>>, <<Fun("f", 3)>>), Z80(<<Text>>, <<Scn(".text", 1, 2)>>), Z80(<<Text>>, <<Ary("v")>>),
   Z80(<<Text>>, <<Sym("x", 0, 2, "EXT")>>),
   Obj("z80", AOUTSZ, FALSE, <<Text, Data>>, <<Sym("f", 0, 1, "EXT")>>),
   Obj("z80", 0, TRUE, <<Text>>, <<Sym("f", 0, 1, "EXT")>>),
   Cut(Plain, 1), Cut(Plain, 2), [k |-> "elf"], [k |-> "text"], [k |-> "none"]}

Uses(n)    == Z80(<<Text>>, <<Sym(n, 0, 0, "EXT")>>)
Has(n)     == Z80(<<Text>>, <<Sym(n, 0, 1, "EXT"), Sym("u", 0, 0, "EXT")>>)
Common(n)  == Z80(<<Text>>, <<Sym(n, 4, 0, "EXT")>>)
Other      == Obj("i386", 0, FALSE, <<Text>>, <<Sym("q", 0, 1, "EXT")>>)
Members    == {Uses("f"), Has("f"), Common("f"), Plain, Other, [k |-> "elf"], [k |-> "text"], [k |-> "empty"]}
Defining   == {Uses("f"), Has("f"), Common("f"), Plain}
Alone      == Members \cup {Cut(Plain, 1), Z80(<<Text>>, <<Ary("v")>>)}
Ar(ms, b)  == [k |-> "ar", mem |-> ms, bad |-> b]
Libraries  == {Ar(<<>>, FALSE), Ar(<<>>, TRUE)} \cup {Ar(<<m1>>, b) : m1 \in Alone, b \in BOOLEAN}
              \cup {Ar(<<m1, m2>>, FALSE) : m1 \in Defining, m2 \in Members}
              \cup {Ar(<<m1, Has("f")>>, FALSE) : m1 \in Members}
              \cup {Ar(<<m1, Plain, m2>>, FALSE) : m1, m2 \in {Uses("f"), Has("g"), Common("x")}}

MCContents == [a : Objects, b : {Plain}, lib : {Ar(<<Common("f"), Has("f")>>, FALSE)}]
              \cup [a : {Plain}, b : {[k |-> "none"]}, lib : Libraries]

Cmd(t, as, f) == [tool |-> t, args |-> as, fl |-> f]
MCCommands ==
  {Cmd("strip", <<"a">>, {}), Cmd("strip", <<"a", "b">>, {}), Cmd("strip", <<"lib">>, {}),
   Cmd("ranlib", <<"lib">>, {}), Cmd("ranlib", <<"a", "lib">>, {}),
   Cmd("size", <<"a", "lib">>, {}), Cmd("nm", <<"lib">>, {})}
  \cup {Cmd("nm", <<"a">>, f) : f \in {{}, {"u"}, {"f", "g"}}}
=============================================================================
