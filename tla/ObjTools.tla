------------------------------ MODULE ObjTools ------------------------------
(***************************************************************************)
(* Sessions with scc-strip, scc-ranlib, scc-nm and scc-size on the same    *)
(* object files and libraries, and what is expected of them.  A command    *)
(* may meet failures of the system and may be killed at any step; the      *)
(* commands of a session follow one another on the same files.             *)
(*                                                                         *)
(* A file holds a COFF object ("obj", with its pieces f), an ELF object,   *)
(* a library ("ar", with its members and whether a damaged header follows  *)
(* them), something else ("text"), a part of what a tool was writing       *)
(* ("part"), or there is no such file ("none").  A member is also the      *)
(* index of a library ("index") or empty ("empty").                        *)
(***************************************************************************)
EXTENDS Coff32

CONSTANTS
  Contents,    \* files to start from: functions from paths to contents
  Commands,    \* command lines: [tool, args, fl]
  MaxCommands, \* bound: commands in a session
  MaxFaults    \* bound: failures of the system in a session

Sequence(s) == s \in Seq({s[i] : i \in DOMAIN s})
ASSUME ContentsAssumption ==
  \A f \in Contents : \A p \in DOMAIN f :
    f[p].k \in {"none", "obj", "elf", "text", "ar"} /\ (f[p].k = "ar" => Sequence(f[p].mem))
ASSUME CommandsAssumption ==
  \A c \in Commands :
    c.tool \in {"strip", "ranlib", "nm", "size"} /\ \A f \in Contents : c.args \in Seq(DOMAIN f) \ {<<>>}

VARIABLES
  fs,          \* fs[p]: the file p
  tmp,         \* tmp[p]: the file p.tmp
  cmd, argv,   \* the command line, the files still to do
  pc,          \* where the tool is, "idle" between commands
  obj, map,    \* the object in memory, the map of its sections
  syms, artype, nolib, at,  \* ranlib's symbols, type of the members, flag; next member
  out,         \* what nm or size has printed
  status,      \* the exit status: ok, fail, killed
  faults, ncmds,
  \* History, for the properties only:
  orig,        \* the files at the start
  damaged,     \* files whose contents strip could not read while it copied them
  lost,        \* files whose copy could not be given its name
  clean,       \* libraries that the last ranlib found nothing wrong with
  left         \* files whose temporary a killed tool has left

memory  == <<obj, map, syms, artype, nolib, at>>
history == <<orig, damaged, lost, clean, left>>
vars    == <<fs, tmp, cmd, argv, pc, memory, out, status, faults, ncmds, history>>

Paths == DOMAIN fs
None  == [k |-> "none"]
Part  == [k |-> "part"]

Init ==
  /\ fs \in Contents /\ tmp = [p \in DOMAIN fs |-> None]
  /\ cmd = [tool |-> "none", args |-> <<>>, fl |-> {}] /\ argv = <<>> /\ pc = "idle"
  /\ obj = NewObj /\ map = <<>> /\ syms = <<>> /\ artype = "none" /\ nolib = FALSE /\ at = 1
  /\ out = <<>> /\ status = "ok" /\ faults = 0 /\ ncmds = 0
  /\ orig = fs /\ damaged = {} /\ lost = {} /\ clean = {} /\ left = {}

Path == Head(argv)

\* The system fails.
Fault == faults < MaxFaults /\ faults' = faults + 1

\* main(): the next command.
command ==
  /\ pc = "idle" /\ ncmds < MaxCommands
  /\ cmd' \in Commands /\ argv' = cmd'.args /\ pc' = "open"
  /\ out' = <<>> /\ status' = "ok" /\ ncmds' = ncmds + 1
  /\ obj' = NewObj /\ map' = <<>> /\ syms' = <<>> /\ artype' = "none" /\ nolib' = FALSE /\ at' = 1
  /\ UNCHANGED <<fs, tmp, faults, history>>

\* The next file of the command, or its end.
Done(how) ==
  /\ argv' = Tail(argv) /\ pc' = IF Len(argv) = 1 THEN "idle" ELSE "open"
  /\ status' = how /\ cmd' = cmd

\* error() and return.
Error == Done("fail") /\ UNCHANGED <<fs, memory, out, ncmds, history>>

\* The end of the program, by a signal or by a store or a call through nothing.
Killed ==
  /\ pc' = "idle" /\ argv' = <<>> /\ status' = "killed"
  /\ left' = left \cup {p \in Paths : tmp[p].k # "none"}
  /\ UNCHANGED <<fs, tmp, cmd, memory, out, faults, ncmds, orig, damaged, lost, clean>>

kill == pc # "idle" /\ Killed

\* objprobe() of the contents of a file or a member.
Probe(c) == CASE c.k = "obj" -> objprobe(c.f) [] c.k = "elf" -> "elf" [] OTHER -> "none"

\* readobj(): an ELF object has one global symbol, which is all that is modelled.
readobj(c) ==
  IF c.k = "obj" THEN coff32read(c.f)
  ELSE [NewObj EXCEPT !.hdr.magic = "elf", !.hdr.nsyms = 1, !.hdr.nscns = 1,
          !.scns = <<[name |-> ".text", long |-> FALSE, size |-> 4, scnptr |-> 0, relptr |-> 0, lnnoptr |-> 0,
                      nrelloc |-> 0, nlnno |-> 0, flags |-> "TEXT"]>>,
          !.ents = <<[kind |-> "ent", e |-> [name |-> "elf", value |-> 0, scnum |-> 1, sclass |-> "EXT",
                      d1 |-> "NON", null |-> TRUE, numaux |-> 0]]>>]

\* armember(): there is one more member to read; an empty one counts as damage.
HasMember(lib, i) == i <= Len(lib.mem) /\ lib.mem[i].k # "empty"
Corrupted(lib, i) == IF i <= Len(lib.mem) THEN lib.mem[i].k = "empty" ELSE lib.bad

\* fopen() of the file, for reading.
open ==
  /\ pc = "open"
  /\ \/ fs[Path].k = "none" /\ Error /\ UNCHANGED <<tmp, faults>>
     \/ Fault /\ Error /\ UNCHANGED tmp
     \/ /\ fs[Path].k # "none"
        /\ pc' = cmd.tool /\ at' = 1 /\ syms' = <<>> /\ artype' = "none" /\ nolib' = FALSE
        /\ UNCHANGED <<fs, tmp, cmd, argv, obj, map, out, status, faults, ncmds, history>>

-----------------------------------------------------------------------------
(* scc-strip (scc-strip.c): each file is read, stripped, written to a      *)
(* temporary, removed, and the temporary takes its name.                   *)

Kept == <<cmd, out, ncmds>>

\* objprobe(), newobj() and readobj().
doitRead ==
  /\ pc = "strip"
  /\ \/ (Probe(fs[Path]) = "none" \/ readobj(fs[Path]).st \in {"refused", "junk"}) /\ Error /\ UNCHANGED <<tmp, faults>>
     \/ Fault /\ Error /\ UNCHANGED tmp
     \/ /\ Probe(fs[Path]) # "none"
        /\ \/ readobj(fs[Path]).st = "abort" /\ Killed
           \/ readobj(fs[Path]).spill /\ Killed
           \/ /\ readobj(fs[Path]).st = "ok"
              /\ obj' = readobj(fs[Path]) /\ pc' = "map"
              /\ UNCHANGED <<Kept, fs, tmp, argv, map, syms, artype, nolib, at, status, faults, history>>

\* loadmap() and strip().  Without memory delmap() is called with no map; there
\* is no function to strip an ELF object.
doitMap ==
  /\ pc = "map"
  /\ \/ faults < MaxFaults /\ Killed
     \/ obj.hdr.magic = "elf" /\ Killed
     \/ /\ obj.hdr.magic # "elf"
        /\ \E alloc \in [DOMAIN obj.scns -> BOOLEAN] :
             /\ \A i \in DOMAIN obj.scns : alloc[i] \in Alloc(obj.scns[i])
             /\ map' = coff32loadmap(obj, alloc)
        /\ obj' = coff32strip(obj) /\ pc' = "create"
        /\ UNCHANGED <<Kept, fs, tmp, argv, syms, artype, nolib, at, status, faults, history>>

\* fopen() of the temporary.
doitCreate ==
  /\ pc = "create"
  /\ \/ Fault /\ Error /\ UNCHANGED tmp
     \/ /\ tmp' = [tmp EXCEPT ![Path] = Part] /\ pc' = "write"
        /\ UNCHANGED <<Kept, fs, argv, memory, status, faults, history>>

\* The labels err5 and err4.
GiveUp == Error /\ tmp' = [tmp EXCEPT ![Path] = None]

Copy == coff32write(obj, map, fs[Path].f)

\* writeobj(): an error of the source while it is copied is not noticed, and the
\* copy has something else in place of the contents.
doitWrite ==
  /\ pc = "write"
  /\ \/ Copy.fail /\ GiveUp /\ UNCHANGED faults
     \/ Fault /\ GiveUp
     \/ /\ ~Copy.fail /\ pc' = "close"
        /\ \/ UNCHANGED <<faults, damaged>>
           \/ Fault /\ damaged' = damaged \cup {Path}
        /\ UNCHANGED <<Kept, fs, tmp, argv, memory, status, orig, lost, clean, left>>

\* fclose() of the temporary.
doitClose ==
  /\ pc = "close"
  /\ \/ Fault /\ GiveUp
     \/ /\ tmp' = [tmp EXCEPT ![Path] = [k |-> "obj", f |-> Copy.file]] /\ pc' = "remove"
        /\ UNCHANGED <<Kept, fs, argv, memory, status, faults, history>>

\* Mutant of doitRemove: the old file goes before the new one is whole.
doitRemoveEarly ==
  /\ pc \in {"close", "remove"}
  /\ \/ Fault /\ GiveUp
     \/ /\ fs' = [fs EXCEPT ![Path] = None] /\ pc' = "rename"
        /\ UNCHANGED <<Kept, tmp, argv, memory, status, faults, history>>

doitRemove ==
  /\ pc = "remove"
  /\ \/ Fault /\ GiveUp
     \/ /\ fs' = [fs EXCEPT ![Path] = None] /\ pc' = "rename"
        /\ UNCHANGED <<Kept, tmp, argv, memory, status, faults, history>>

\* rename(): when it fails the temporary goes as well.
doitRename ==
  /\ pc = "rename"
  /\ \/ /\ Fault /\ Done("fail")
        /\ tmp' = [tmp EXCEPT ![Path] = None] /\ lost' = lost \cup {Path}
        /\ UNCHANGED <<fs, memory, out, ncmds, orig, damaged, clean, left>>
     \/ /\ fs' = [fs EXCEPT ![Path] = tmp[Path]] /\ tmp' = [tmp EXCEPT ![Path] = None]
        /\ Done(status)
        /\ UNCHANGED <<memory, out, faults, ncmds, history>>

StripNext == doitRead \/ doitMap \/ doitCreate \/ doitWrite \/ doitClose \/ doitRemove \/ doitRename

-----------------------------------------------------------------------------
(* scc-ranlib (scc-ranlib.c): the global symbols of the objects of a       *)
(* library are collected, and a copy of the library with an index of them  *)
(* in front takes its place.                                               *)

Lib  == fs[Path]
Same == <<cmd, out, ncmds, obj, map>>

\* archive() and the first armember(): an old index is jumped over.  What is not
\* a library, or begins with a damaged header, is reported and has no symbols.
readsyms ==
  /\ pc = "ranlib"
  /\ IF Lib.k # "ar" \/ Corrupted(Lib, 1)
     THEN pc' = "index" /\ status' = "fail" /\ UNCHANGED at
     ELSE pc' = "scan" /\ at' = (IF HasMember(Lib, 1) /\ Lib.mem[1].k = "index" THEN 2 ELSE 1) /\ UNCHANGED status
  /\ UNCHANGED <<Same, fs, tmp, argv, syms, artype, nolib, faults, history>>

Upper == {"T", "D", "B", "R", "A", "C", "U", "N"}

\* Mutant of Defined: the first symbol of a name stays.
DefinedFirst(s, new) == IF s.memb = 0 THEN [s EXCEPT !.type = new.type, !.memb = at] ELSE s

\* The switch of newsymbol(): the symbol s of the table when the symbol new of
\* the member number at is met.
Defined(s, new) ==
  IF s.type = "U" \/ (s.type = "C" /\ new.type # "C") THEN [name |-> s.name, type |-> new.type, memb |-> at] ELSE s

Clash(s, new) == s.type \notin {"U", "C"} /\ new.type # "C"

\* lookup(): the table with the name, which is new in front.
lookup(tab, name) ==
  IF \E k \in DOMAIN tab : tab[k].name = name THEN tab ELSE <<[name |-> name, type |-> "U", memb |-> 0]>> \o tab
Place(tab, name) == CHOOSE k \in DOMAIN tab : tab[k].name = name

\* newsymbol(): the table after the symbol, or the failure that ends the member.
newsymbol(t, new) ==
  IF t.stop \/ new.type \notin Upper \ {"N"} THEN t
  ELSE With(lookup(t.syms, new.name), LAMBDA all :
       With(Place(all, new.name), LAMBDA k :
       IF Clash(all[k], new) THEN [t EXCEPT !.stop = TRUE]
       ELSE [t EXCEPT !.syms = [all EXCEPT ![k] = Defined(all[k], new)]]))

\* newmember(): an object of another type makes it no library to index.
newmember ==
  LET c == Lib.mem[at]
  IN \/ /\ artype # "none" /\ artype # Probe(c)
        /\ nolib' = TRUE /\ at' = at + 1
        /\ UNCHANGED <<fs, tmp, argv, pc, syms, artype, status, faults, history>>
     \/ /\ artype \in {"none", Probe(c)}
        /\ artype' = Probe(c) /\ at' = at + 1
        /\ \/ Fault /\ status' = "fail" /\ UNCHANGED syms
           \/ readobj(c).st \in {"refused", "junk"} /\ status' = "fail" /\ UNCHANGED <<syms, faults>>
           \/ /\ readobj(c).st = "ok"
              /\ \E t \in {FoldLeft(newsymbol, [syms |-> syms, stop |-> FALSE], Symbols(readobj(c)))} :
                   syms' = t.syms /\ status' = (IF t.stop THEN "fail" ELSE status)
              /\ UNCHANGED faults
        /\ UNCHANGED <<fs, tmp, argv, pc, nolib, history>>

\* One turn of the loop of readsyms().
scan ==
  /\ pc = "scan"
  /\ \/ /\ HasMember(Lib, at) /\ Probe(Lib.mem[at]) = "none" /\ at' = at + 1
        /\ UNCHANGED <<Same, fs, tmp, argv, pc, syms, artype, nolib, status, faults, history>>
     \/ /\ HasMember(Lib, at) /\ Probe(Lib.mem[at]) # "none"
        /\ newmember /\ UNCHANGED Same
     \/ /\ HasMember(Lib, at) /\ Probe(Lib.mem[at]) # "none" /\ artype \in {"none", Probe(Lib.mem[at])}
        /\ (readobj(Lib.mem[at]).st = "abort" \/ readobj(Lib.mem[at]).spill)
        /\ Killed
     \/ /\ Corrupted(Lib, at)
        /\ pc' = "index" /\ status' = "fail"
        /\ UNCHANGED <<Same, fs, tmp, argv, syms, artype, nolib, at, faults, history>>
     \/ /\ ~HasMember(Lib, at) /\ ~Corrupted(Lib, at)
        /\ IF nolib \/ syms = <<>> THEN Done(status) ELSE pc' = "index" /\ UNCHANGED <<cmd, argv, status>>
        /\ UNCHANGED <<fs, tmp, memory, out, faults, ncmds, history>>

\* tmpfile(), malloc(), setindex() and getstat().  There is no index for ELF
\* objects, and the call goes through nothing.
setindex ==
  /\ pc = "index"
  /\ \/ artype = "none" /\ Error /\ UNCHANGED <<tmp, faults>>
     \/ Fault /\ Error /\ UNCHANGED tmp
     \/ artype = "elf" /\ Killed
     \/ /\ artype \notin {"none", "elf"} /\ pc' = "copy"
        /\ UNCHANGED <<Same, fs, tmp, argv, syms, artype, nolib, at, status, faults, history>>

\* fopen() of the temporary.
create ==
  /\ pc = "copy"
  /\ \/ Fault /\ Error /\ UNCHANGED tmp
     \/ /\ tmp' = [tmp EXCEPT ![Path] = Part] /\ pc' = "merge"
        /\ UNCHANGED <<Same, fs, argv, syms, artype, nolib, at, status, faults, history>>

Index == [k |-> "index", ents |-> [i \in DOMAIN syms |-> [name |-> syms[i].name, memb |-> syms[i].memb]]]

\* merge() and the look at the errors of the three files.  The name of the first
\* member, filled with blanks, is never the one of an index: an old index stays.
merge ==
  /\ pc = "merge"
  /\ \/ Fault /\ Error /\ tmp' = [tmp EXCEPT ![Path] = None]
     \/ /\ tmp' = [tmp EXCEPT ![Path] = [k |-> "ar", mem |-> <<Index>> \o Lib.mem, bad |-> Lib.bad]]
        /\ pc' = "name"
        /\ UNCHANGED <<Same, fs, argv, syms, artype, nolib, at, status, faults, history>>

\* rename(), and remove() of the temporary.
rename ==
  /\ pc = "name"
  /\ \/ Fault /\ Error /\ tmp' = [tmp EXCEPT ![Path] = None]
     \/ /\ fs' = [fs EXCEPT ![Path] = tmp[Path]] /\ tmp' = [tmp EXCEPT ![Path] = None]
        /\ clean' = IF status = "ok" THEN clean \cup {Path} ELSE clean \ {Path}
        /\ Done(status)
        /\ UNCHANGED <<memory, out, faults, ncmds, orig, damaged, lost, left>>

RanlibNext == readsyms \/ scan \/ setindex \/ create \/ merge \/ rename

(***************************************************************************)
(* scc-nm (scc-nm.c) and scc-size (scc-size.c): the objects of a file, one *)
(* after the other.                                                        *)
(***************************************************************************)

\* newsym() of nm: the symbols that the options choose.
Shown(c) ==
  SelectSeq(Symbols(c), LAMBDA s :
    /\ "f" \in cmd.fl \/ s.type \notin {"?", "N"}
    /\ "u" \in cmd.fl => s.type = "U"
    /\ "g" \in cmd.fl => s.type \in Upper)

\* nmobj() and printsyms(): an object without such symbols is an error too.
nmobj(c) ==
  \E o \in {readobj(c)} :
  IF o.st = "ok" /\ Shown(o) # <<>>
  THEN out' = Append(out, Shown(o)) /\ UNCHANGED status
  ELSE status' = "fail" /\ UNCHANGED out

\* Mutant of Sum: a section takes the place of the one before it.
SumLast(c, t) == FoldLeft(LAMBDA s, x : IF SectionType(x) = t THEN x.size ELSE s, 0, c.scns)

Sum(c, t) == FoldLeft(LAMBDA s, x : IF SectionType(x) = t THEN s + x.size ELSE s, 0, c.scns)
Sizes(c)  == <<Sum(c, "T"), Sum(c, "D"), Sum(c, "B")>>

\* sizeobj(): text, data and bss.
sizeobj(c) ==
  \E o \in {readobj(c)} :
  IF o.st = "ok" THEN out' = Append(out, Sizes(o)) /\ UNCHANGED status
  ELSE status' = "fail" /\ UNCHANGED out

\* nmobj() or sizeobj(), and where the tool goes on.
Look(c, next) ==
  \/ /\ IF cmd.tool = "nm" THEN nmobj(c) ELSE sizeobj(c)
     /\ pc' = next /\ at' = at + 1
     /\ UNCHANGED <<fs, tmp, cmd, argv, obj, map, syms, artype, nolib, faults, ncmds, history>>
  \/ Fault /\ status' = "fail" /\ pc' = next /\ at' = at + 1
     /\ UNCHANGED <<fs, tmp, cmd, argv, obj, map, syms, artype, nolib, out, ncmds, history>>
  \/ (readobj(c).st = "abort" \/ readobj(c).spill) /\ Killed

\* nm(), size(): an object, a library or something else.
look ==
  /\ pc \in {"nm", "size"}
  /\ \/ Probe(Lib) # "none" /\ Look(Lib, "last")
     \/ /\ Probe(Lib) = "none" /\ Lib.k = "ar" /\ pc' = "members"
        /\ UNCHANGED <<fs, tmp, cmd, argv, memory, out, status, faults, ncmds, history>>
     \/ Probe(Lib) = "none" /\ Lib.k # "ar" /\ Error /\ UNCHANGED <<tmp, faults>>

\* One turn of nmlib() or sizelib().
members ==
  /\ pc = "members"
  /\ \/ HasMember(Lib, at) /\ Probe(Lib.mem[at]) # "none" /\ Look(Lib.mem[at], "members")
     \/ /\ HasMember(Lib, at) /\ Probe(Lib.mem[at]) = "none" /\ at' = at + 1
        /\ UNCHANGED <<fs, tmp, cmd, argv, pc, obj, map, syms, artype, nolib, out, status, faults, ncmds, history>>
     \/ /\ ~HasMember(Lib, at)
        /\ pc' = "last" /\ status' = IF Corrupted(Lib, at) THEN "fail" ELSE status
        /\ UNCHANGED <<fs, tmp, cmd, argv, memory, out, faults, ncmds, history>>

\* fclose(), and the next file.
last ==
  /\ pc = "last" /\ Done(status)
  /\ UNCHANGED <<fs, tmp, memory, out, faults, ncmds, history>>

Ended == pc = "idle" /\ ncmds = MaxCommands /\ UNCHANGED vars

Next == command \/ open \/ StripNext \/ RanlibNext \/ look \/ members \/ last \/ kill \/ Ended

Spec == Init /\ [][Next]_vars

(***************************************************************************)
(* Reference definitions: an object by its pieces, without the pointers.   *)
(***************************************************************************)
Of(f, k) == SelectSeq(f, LAMBDA p : p.k = k)
Values(f, k) == LET s == Of(f, k) IN [i \in DOMAIN s |-> s[i].v]

\* The contents of a section: what begins where its header points.
ContentsOf(f, scn) == IF Found(f, scn.scnptr, "data") THEN At(f, scn.scnptr, "data") ELSE [val |-> "none", size |-> 0]

\* What a program that only loads the object sees of a section.
Essence(f, scn) == [name |-> scn.name, flags |-> scn.flags, size |-> scn.size,
                    has |-> IF scn.scnptr = 0 THEN [val |-> "none", size |-> 0] ELSE ContentsOf(f, scn)]

\* The sections whose contents strip copies: coff32loadmap() leaves out those
\* that are not in memory, and takes the ones without contents from the beginning
\* of the file.
Copied(scn) == scn.scnptr # 0 /\ Alloc(scn) = {TRUE}

\* The letter of a symbol: undefined, common, absolute, of debugging or of the
\* kind of its section, a capital when it is external.
LetterOf(f, e) ==
  LET small == [TEXT |-> "t", DATA |-> "d", BSS |-> "b", INFO |-> "N", LIT |-> "r"]
      big   == [TEXT |-> "T", DATA |-> "D", BSS |-> "B", INFO |-> "N", LIT |-> "R"]
      kind  == Values(f, "scn")[e.scnum].flags
  IN IF e.scnum = 0 THEN IF e.value = 0 THEN "U" ELSE "C"
     ELSE IF e.scnum = -1 THEN IF e.sclass = "EXT" THEN "A" ELSE "a"
     ELSE IF e.scnum = -2 THEN "N"
     ELSE IF kind \notin DOMAIN small THEN "?"
     ELSE IF e.sclass = "EXT" THEN big[kind] ELSE small[kind]

Named(f) == With(Values(f, "sym"), LAMBDA s :
            [i \in DOMAIN s |-> [name |-> s[i].name, type |-> LetterOf(f, s[i]), value |-> s[i].value]])

Asked(s) == /\ "f" \in cmd.fl \/ s.type \notin {"?", "N"}
            /\ "u" \in cmd.fl => s.type = "U"
            /\ "g" \in cmd.fl => s.type \in Upper

\* The size of the sections with these flags.
Kinds == <<{"TEXT"}, {"DATA", "REG", "NOLOAD", "RDATA", "LIT", "TEXTDATA"}, {"BSS"}>>
Total(s, flags) == FoldLeft(LAMBDA n, x : IF x.flags \in flags THEN n + x.size ELSE n, 0, s)

SymbolsOf(c) == CASE c.k = "obj" -> Named(c.f) [] c.k = "elf" -> Symbols(readobj(c)) [] OTHER -> <<>>

\* The members of the libraries: an object that readobj() accepts has the symbols
\* that its pieces give it, and what objprobe() does not know has none.
ReadAsIs(c) ==
  /\ Sequence(SymbolsOf(c)) /\ (Probe(c) = "none" => SymbolsOf(c) = <<>>)
  /\ Probe(c) # "none" /\ readobj(c).st = "ok" => Symbols(readobj(c)) = SymbolsOf(c)
ASSUME MembersAssumption ==
  \A f \in Contents : \A p \in DOMAIN f : f[p].k = "ar" => \A j \in DOMAIN f[p].mem : ReadAsIs(f[p].mem[j])

\* The library new is the library old behind one index more for each run of ranlib.
Behind(new, old) ==
  /\ new.k = "ar" /\ new.bad = old.bad
  /\ \E n \in 0 .. Len(new.mem) :
       /\ \A i \in 1 .. n : new.mem[i].k = "index"
       /\ SubSeq(new.mem, n + 1, Len(new.mem)) = old.mem

\* Member j of a library defines the name n, as a common symbol or better.
DefinesAs(lib, j, n, strong) ==
  \E i \in DOMAIN SymbolsOf(lib.mem[j]) :
    With(SymbolsOf(lib.mem[j])[i], LAMBDA s :
    s.name = n /\ s.type \in Upper \ {"U", "N"} /\ (strong => s.type # "C"))

\* Member j of a library uses the name n without defining it.
UsedBy(lib, j, n) == \E i \in DOMAIN SymbolsOf(lib.mem[j]) :
                       SymbolsOf(lib.mem[j])[i].name = n /\ SymbolsOf(lib.mem[j])[i].type = "U"

\* A name that is only common, and used by a later member: newsymbol() takes the
\* use for the definition.
TakenByUser(lib, n) ==
  /\ ~\E h \in DOMAIN lib.mem : DefinesAs(lib, h, n, TRUE)
  /\ \E j, k \in DOMAIN lib.mem : j < k /\ DefinesAs(lib, j, n, FALSE) /\ UsedBy(lib, k, n)

(***************************************************************************)
(* Properties.                                                             *)
(***************************************************************************)

\* strip keeps the object: whenever a file has been replaced by its stripped copy,
\* the library of objects can read the copy, it has the same sections with the
\* same contents where its headers point, size says the same of it, and no symbol
\* is left.  The pointers are laid out in one pass of coff32write() and the
\* contents written in another.
StripKeepsObject ==
  \A p \in Paths : fs[p].k = "obj" /\ fs[p] # orig[p] /\ p \notin damaged =>
    LET old == orig[p].f
        new == fs[p].f
    IN With(Values(old, "scn"), LAMBDA o :
    With(coff32read(new), LAMBDA n :
    /\ n.st = "ok" /\ Len(n.scns) = Len(o) /\ Symbols(n) = <<>>
    /\ \A i \in DOMAIN o : Copied(o[i]) => Essence(new, n.scns[i]) = Essence(old, o[i])
    /\ Sizes(n) = Sizes(coff32read(old))))

\* strip never leaves the user without the object: at every moment, and after a
\* failure or a signal at any step, the file or its whole copy is there; only a
\* rename() that fails loses both.
NeverLost ==
  \A p \in Paths : orig[p].k # "none" /\ fs[p].k = "none" /\ p \notin lost =>
    tmp[p].k = "obj"

\* A strip or ranlib that came to its end, well or with an error, leaves no
\* temporary behind.
TemporariesGo ==
  \A p \in Paths : tmp[p].k # "none" => p \in left \/ (argv # <<>> /\ p = Path)

\* ranlib keeps the members: whatever fails and whenever it is killed, a library
\* has what it had, in its order, behind the indexes that ranlib has put there.
LibraryKept ==
  \A p \in Paths : orig[p].k = "ar" => Behind(fs[p], orig[p])

\* The index of a library that ranlib found nothing wrong with leads every name
\* that an object of the library defines to a member that defines it, and not to
\* one that has it as a common symbol when another one really defines it.
IndexFindsDefinitions ==
  \A p \in clean :
    LET lib  == [fs[p] EXCEPT !.mem = Tail(@)]
        ents == Head(fs[p].mem).ents
    IN \A j \in DOMAIN lib.mem : \A i \in DOMAIN SymbolsOf(lib.mem[j]) :
         With(SymbolsOf(lib.mem[j])[i].name, LAMBDA n :
         DefinesAs(lib, j, n, FALSE) /\ ~TakenByUser(lib, n) =>
           \E e \in DOMAIN ents :
             /\ ents[e].name = n /\ \A d \in DOMAIN ents : ents[d].name = n => d = e
             /\ DefinesAs(lib, ents[e].memb, n, \E h \in DOMAIN lib.mem : DefinesAs(lib, h, n, TRUE)))

\* What nm and size say of an object is what is in it: nm shows every symbol that
\* its options ask for, the auxiliary entries between them neither shown nor hiding
\* any, and size counts every section of its kind once.  Nothing is said of an
\* object that is refused.
ReportsAsInFile ==
  pc = "last" /\ fs[Path].k = "obj" /\ Len(argv) = Len(cmd.args) =>
    IF status # "ok" THEN out = <<>>
    ELSE IF cmd.tool = "nm" THEN out = <<SelectSeq(Named(fs[Path].f), Asked)>>
    ELSE out = <<[t \in 1 .. 3 |-> Total(Values(fs[Path].f, "scn"), Kinds[t])]>>

\* An object that the library accepts has no relocation and no auxiliary entry
\* that names a symbol beyond the table, and the counts in the symbols of sections
\* are the ones of the sections.
AcceptedIsSound ==
  pc = "map" /\ fs[Path].k = "obj" =>
    LET f == fs[Path].f
        n == Len(Of(f, "sym")) + Len(Of(f, "aux"))
    IN /\ \A i \in DOMAIN Values(f, "rel") : Values(f, "rel")[i].symndx < n
       /\ \A i \in DOMAIN f : f[i].k = "aux" /\ f[i - 1].k = "sym" =>
            CASE AuxKind(f[i - 1].v) = "scn" ->
                   f[i].v.nreloc = Values(f, "scn")[f[i - 1].v.scnum].nrelloc
              [] AuxKind(f[i - 1].v) = "fun" -> f[i].v.endndx <= n
              [] OTHER -> TRUE

\* Whatever fails and whenever a tool is killed, no object and no member of a
\* library is lost, and the temporaries of a tool that ended are gone.
FilesKept == NeverLost /\ TemporariesGo /\ LibraryKept

\* Objects are read as they are: what is accepted is sound and what is reported
\* of it is in it.
ReadAsInFile == ReportsAsInFile /\ AcceptedIsSound
=============================================================================
