------------------------------- MODULE Coff32 -------------------------------
(***************************************************************************)
(* COFF object files in libmach (libmach/coff32): reading one, its         *)
(* sections and symbols, stripping it and writing it again.                *)
(*                                                                         *)
(* A file is a sequence of pieces: a header, a section header, an entry of *)
(* the symbol table, the contents of a section, each with its kind k, its  *)
(* size n in bytes and its value v.  Positions are counted in bytes, so    *)
(* that what the writer puts in the pointers and what the reader finds     *)
(* there can differ: a piece is read only from where it begins.  The       *)
(* fields that no property tells apart (addresses, dates) are left out,    *)
(* and pack() and unpack() with them.                                      *)
(***************************************************************************)
EXTENDS Integers, Sequences, SequencesExt, FiniteSets, Once

FILHSZ == 20
AOUTSZ == 28
SCNHSZ == 40
SYMESZ == 18
RELSZ  == 10
LINESZ == 6
NBYTES == 32   \* what objprobe() reads

Piece(kind, size, value) == [k |-> kind, n |-> size, v |-> value]

SizeTo(f, i) == FoldLeft(LAMBDA s, p : s + p.n, 0, SubSeq(f, 1, i))
Size(f)      == SizeTo(f, Len(f))

\* The piece of the kind k that begins at the position p.
Begins(f, p, k) == {i \in DOMAIN f : f[i].k = k /\ SizeTo(f, i - 1) = p}
Found(f, p, k)  == Begins(f, p, k) # {}
At(f, p, k)     == f[CHOOSE i \in Begins(f, p, k) : TRUE].v

\* objprobe() and coff32probe(): the type of an object, or "none".
objprobe(f) == IF Size(f) >= NBYTES /\ Found(f, 0, "hdr") THEN At(f, 0, "hdr").magic ELSE "none"

(***************************************************************************)
(* coff32read().  The object c being read: st says whether it is good      *)
(* (ok), refused, read from the wrong place (junk), or the end of the      *)
(* program by an assertion (abort); spill: something was stored outside    *)
(* of an array.                                                            *)
(***************************************************************************)
NoHeader == [magic |-> "none", nscns |-> 0, symptr |-> 0, nsyms |-> 0, opthdr |-> 0, lsyms |-> FALSE]

Failed(c, how) == [c EXCEPT !.st = how]

\* fread() of a piece: past the end it fails.
Missing(c, f, p) == Failed(c, IF p >= Size(f) THEN "refused" ELSE "junk")

readhdr(c, f) ==
  IF Found(f, 0, "hdr") THEN [c EXCEPT !.hdr = At(f, 0, "hdr"), !.pos = FILHSZ] ELSE Missing(c, f, 0)

readaout(c, f) ==
  IF c.hdr.opthdr = 0 THEN c
  ELSE IF Found(f, c.pos, "aout") THEN [c EXCEPT !.pos = @ + AOUTSZ]
  ELSE Missing(c, f, c.pos)

readscns(c, f) ==
  LET where(i) == c.pos + (i - 1) * SCNHSZ
  IN IF \A i \in 1 .. c.hdr.nscns : Found(f, where(i), "scn")
     THEN [c EXCEPT !.scns = [i \in 1 .. c.hdr.nscns |-> At(f, where(i), "scn")]]
     ELSE Failed(c, "junk")

\* readauxs(): what an auxiliary entry is depends on the symbol before it.
AuxKind(ent) ==
  IF ent.sclass = "FILE" THEN "file"
  ELSE IF ent.sclass = "STAT" /\ ent.d1 = "NON" /\ ent.null THEN "scn"
  ELSE CASE ent.d1 = "FCN" -> "fun" [] ent.d1 = "ARY" -> "ary" [] OTHER -> "sym"

\* One turn of readents() and readauxs(): entry i, and the auxiliary entries that
\* follow it, unless it is one of those.
readent(c, f, i) ==
  IF c.st # "ok" \/ i <= Len(c.ents) THEN c
  ELSE IF ~Found(f, c.pos, "sym") THEN Missing(c, f, c.pos)
  ELSE LET ent    == At(f, c.pos, "sym")
           aux(j) == c.pos + j * SYMESZ
           lacks  == {j \in 1 .. ent.numaux : ~Found(f, aux(j), "aux")}
       IN IF ent.scnum > c.hdr.nscns THEN Failed(c, "refused")
          ELSE IF lacks # {} THEN Missing(c, f, aux(CHOOSE j \in lacks : TRUE))
          ELSE IF ent.numaux > 0 /\ AuxKind(ent) = "ary" THEN Failed(c, "abort")
          ELSE [c EXCEPT !.pos = aux(ent.numaux + 1),
                         !.ents = Append(@, [kind |-> "ent", e |-> ent])
                           \o [j \in 1 .. ent.numaux |-> [kind |-> IF j = 1 THEN AuxKind(ent) ELSE "unk", e |-> At(f, aux(j), "aux")]],
                         !.spill = @ \/ i + ent.numaux > c.hdr.nsyms]

readents(c, f) ==
  IF c.hdr.nsyms = 0 THEN c
  ELSE FoldLeft(LAMBDA d, i : readent(d, f, i), [c EXCEPT !.pos = c.hdr.symptr], [i \in 1 .. c.hdr.nsyms |-> i])

\* The string table is read from where the symbols end.
readstr(c, f) ==
  IF c.hdr.nsyms = 0 THEN c
  ELSE IF ~Found(f, c.pos, "str") THEN Missing(c, f, c.pos)
  ELSE IF At(f, c.pos, "str").siz < 4 THEN Failed(c, "refused") ELSE c

\* readreloc() and readlines(): n pieces of each section, from its pointer.  A
\* relocation is stored under the number of its section.
Pieces(f, ptr, size, n, k) == \A j \in 0 .. n - 1 : Found(f, ptr + j * size, k)

readreloc(c, f) ==
  LET used   == {i \in DOMAIN c.scns : c.scns[i].nrelloc > 0}
      rel(i) == {At(f, c.scns[i].relptr + j * RELSZ, "rel") : j \in 0 .. c.scns[i].nrelloc - 1}
  IN IF \E i \in used : ~Pieces(f, c.scns[i].relptr, RELSZ, c.scns[i].nrelloc, "rel") THEN Failed(c, "refused")
     ELSE IF \E i \in used : \E r \in rel(i) : r.symndx >= c.hdr.nsyms THEN Failed(c, "refused")
     ELSE [c EXCEPT !.spill = @ \/ \E i \in used : i - 1 >= c.scns[i].nrelloc]

readlines(c, f) ==
  LET used    == {i \in DOMAIN c.scns : c.scns[i].nlnno > 0}
      line(i) == {At(f, c.scns[i].lnnoptr + j * LINESZ, "line") : j \in 0 .. c.scns[i].nlnno - 1}
  IN IF \E i \in used : ~Pieces(f, c.scns[i].lnnoptr, LINESZ, c.scns[i].nlnno, "line") THEN Failed(c, "refused")
     ELSE IF \E i \in used : \E l \in line(i) : l.lnno # 0 /\ l.addr >= c.hdr.nsyms THEN Failed(c, "refused")
     ELSE c

\* validate(): the indexes that the auxiliary entries hold.
validate(c) ==
  LET within(n) == n >= 0 /\ n <= c.hdr.nsyms
      before(i) == c.ents[CHOOSE j \in 1 .. i : c.ents[j].kind = "ent" /\ \A k \in j + 1 .. i : c.ents[k].kind # "ent"].e
      good(i) ==
        LET a == c.ents[i].e
        IN CASE c.ents[i].kind = "scn" ->
                  /\ before(i).scnum > 0
                  /\ c.scns[before(i).scnum].nrelloc = a.nreloc
                  /\ c.scns[before(i).scnum].nlnno = a.nlinno
             [] c.ents[i].kind \in {"fun", "sym"} -> within(a.endndx) /\ within(a.tagndx) /\ within(a.tvndx)
             [] OTHER -> TRUE
  IN IF \A i \in 1 .. c.hdr.nsyms : good(i) THEN c ELSE Failed(c, "refused")

NewObj == [st |-> "ok", spill |-> FALSE, pos |-> 0, hdr |-> NoHeader, scns |-> <<>>, ents |-> <<>>]

\* The first part that fails ends the reading.
coff32read(f) ==
  With(readhdr(NewObj, f), LAMBDA c1 :
  With(IF c1.st = "ok" THEN readaout(c1, f) ELSE c1, LAMBDA c2 :
  With(IF c2.st = "ok" THEN readscns(c2, f) ELSE c2, LAMBDA c3 :
  With(IF c3.st = "ok" THEN readents(c3, f) ELSE c3, LAMBDA c4 :
  With(IF c4.st = "ok" THEN readstr(c4, f) ELSE c4, LAMBDA c5 :
  With(IF c5.st = "ok" THEN readreloc(c5, f) ELSE c5, LAMBDA c6 :
  With(IF c6.st = "ok" THEN readlines(c6, f) ELSE c6, LAMBDA c7 :
  IF c7.st = "ok" THEN validate(c7) ELSE c7)))))))

(***************************************************************************)
(* Sections and symbols of an object.                                      *)
(***************************************************************************)

\* coff32getsec(): the type of a section.
SectionType(scn) ==
  CASE scn.flags = "TEXT" -> "T"
    [] scn.flags \in {"REG", "NOLOAD", "DATA", "RDATA", "LIT", "TEXTDATA"} -> "D"
    [] scn.flags = "BSS" -> "B"
    [] scn.flags \in {"LIB", "INFO"} -> "N"
    [] OTHER -> "?"

\* coff32getsec(): whether SALLOC is set; for STYP_COPY the flags are not
\* initialised.
Alloc(scn) ==
  CASE scn.flags \in {"REG", "NOLOAD", "TEXT", "DATA", "BSS", "TEXTDATA", "RDATA", "LIT"} -> {TRUE}
    [] scn.flags = "COPY" -> BOOLEAN
    [] OTHER -> {FALSE}

toupper(ch) == CASE ch = "t" -> "T" [] ch = "d" -> "D" [] ch = "b" -> "B" [] ch = "r" -> "R" [] ch = "a" -> "A" [] OTHER -> ch

\* typeof(): the letter of a symbol.
typeof(c, ent) ==
  LET low == CASE ent.scnum = -2 -> "N"
               [] ent.scnum = -1 -> "a"
               [] ent.scnum = 0  -> IF ent.value # 0 THEN "C" ELSE "U"
               [] OTHER -> LET fl == c.scns[ent.scnum].flags
                           IN CASE fl = "TEXT" -> "t" [] fl = "DATA" -> "d" [] fl = "BSS" -> "b"
                                [] fl = "INFO" -> "N" [] fl = "LIT" -> "r" [] OTHER -> "?"
  IN IF ent.sclass = "EXT" THEN toupper(low) ELSE low

\* The loop over coff32getsym(), which jumps over the auxiliary entries.
Symbols(c) ==
  IF c.hdr.lsyms THEN <<>>
  ELSE LET own == SelectSeq([i \in 1 .. c.hdr.nsyms |-> c.ents[i]], LAMBDA e : e.kind = "ent")
       IN [i \in DOMAIN own |-> [name |-> own[i].e.name, type |-> typeof(c, own[i].e), value |-> own[i].e.value]]

(***************************************************************************)
(* coff32strip(), coff32loadmap() and coff32write().                       *)
(***************************************************************************)
coff32strip(c) ==
  [c EXCEPT !.scns = [i \in DOMAIN @ |-> [@[i] EXCEPT !.nrelloc = 0, !.relptr = 0, !.nlnno = 0, !.lnnoptr = 0]],
            !.hdr = [@ EXCEPT !.nsyms = 0, !.symptr = 0, !.lsyms = TRUE],
            !.ents = <<>>]

\* mapsec(): a section of the same name is replaced, otherwise a place is taken.
mapsec(map, name, m) ==
  IF \E k \in DOMAIN map : map[k].name = name
  THEN [k \in DOMAIN map |-> IF map[k].name = name THEN m ELSE map[k]]
  ELSE Append(map, m)

\* coff32loadmap() for a choice of the sections that are taken to have contents.
coff32loadmap(c, alloc) ==
  FoldLeft(LAMBDA map, i : mapsec(map, c.scns[i].name,
             [name |-> c.scns[i].name, fp |-> alloc[i], off |-> c.scns[i].scnptr, fsiz |-> c.scns[i].size]),
           <<>>, [i \in DOMAIN c.scns |-> i])

\* findsec(), with the name that is in the header itself.
findsec(map, scn) == {k \in DOMAIN map : ~scn.long /\ map[k].name = scn.name /\ map[k].fp}

\* Mutant of Layout: a section that has nothing in the file takes its place too.
LayoutAll(c, map) ==
  LET start == FILHSZ + c.hdr.opthdr + c.hdr.nscns * SCNHSZ
      upto(i) == FoldLeft(LAMBDA s, j : s + c.scns[j].size, start, [j \in 1 .. i - 1 |-> j])
  IN [i \in DOMAIN c.scns |-> [c.scns[i] EXCEPT !.scnptr = IF findsec(map, c.scns[i]) = {} THEN 0 ELSE upto(i)]]

\* coff32write(): where the contents of each section are to begin.
Layout(c, map) ==
  LET start == FILHSZ + c.hdr.opthdr + c.hdr.nscns * SCNHSZ
      upto(i) == FoldLeft(LAMBDA s, j : IF findsec(map, c.scns[j]) = {} THEN s ELSE s + c.scns[j].size,
                          start, [j \in 1 .. i - 1 |-> j])
  IN [i \in DOMAIN c.scns |-> [c.scns[i] EXCEPT !.scnptr = IF findsec(map, c.scns[i]) = {} THEN 0 ELSE upto(i)]]

\* copysec(): n bytes from where the old contents begin, whatever is there.
copysec(m, src) ==
  Piece("data", m.fsiz,
        IF Found(src, m.off, "data") /\ At(src, m.off, "data").size = m.fsiz
        THEN At(src, m.off, "data") ELSE [val |-> "junk", size |-> m.fsiz])

\* writedata(): the contents in the order of the sections.
writedata(c, map, src) ==
  FoldLeft(LAMBDA out, i : LET k == findsec(map, c.scns[i])
                           IN IF k = {} THEN out
                              ELSE Append(out, copysec(map[CHOOSE j \in k : \A h \in k : j <= h], src)),
           <<>>, [i \in DOMAIN c.scns |-> i])

\* writeaout() reads from the file it should write to: with an optional header
\* the file has an error and the object is not written.
writeaout(c) == c.hdr.opthdr = 0

\* allocstring() compares the length with what is always less, and fails.
allocstring(scn) == FALSE

writescns(c) == \A i \in DOMAIN c.scns : c.scns[i].long => allocstring(c.scns[i])

\* writestr() of a table without strings.
writestr == <<Piece("str", 4, [siz |-> 0])>>

\* coff32write() of an object without symbols, relocations and lines.
coff32write(c, map, src) ==
  With(Layout(c, map), LAMBDA scns :
  [fail |-> ~writeaout(c) \/ ~writescns(c),
   file |-> <<Piece("hdr", FILHSZ, c.hdr)>> \o [i \in DOMAIN scns |-> Piece("scn", SCNHSZ, scns[i])]
            \o writedata(c, map, src) \o writestr])
=============================================================================
