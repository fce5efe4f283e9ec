--------------------------------- MODULE Ar ---------------------------------
(***************************************************************************)
(* The archiver scc-ar (scc-ar.c): one run of ar on an archive, from any   *)
(* archive and any files, with failures and a signal at any moment.        *)
(*                                                                         *)
(* A member is its name and the version (the date) of the file it was made *)
(* from.  r, m and d read the archive member by member and sort the        *)
(* members into three temporaries, which are then written over the         *)
(* archive; q appends in place.  Paths are identified with the names that  *)
(* canonical() gives them.  Writing to a temporary is taken to succeed.    *)
(***************************************************************************)
EXTENDS Naturals, Sequences, SequencesExt, FiniteSets

CONSTANTS
  Names,       \* names of files and members
  BadNames,    \* the names that checkfnames() refuses
  NULL,        \* no name; an argument that has been dealt with
  MaxVersion,  \* bound: versions of a file, 0 when there is none
  Archives,    \* archives to start from: [st, mem]
  Files,       \* files to start from: functions from names to versions
  Commands     \* command lines: [key, pos, b, u, c, l, args]

BEFORE == 1
INDOT  == 2
AFTER  == 3
Dots   == {BEFORE, INDOT, AFTER}
Keys   == {"d", "r", "q", "t", "p", "m", "x"}
Member == [name : Names, ver : 1 .. MaxVersion]

\* An archive is missing, has no magic number, ends in a part of a header, has a
\* bad header after its members, or is whole.
States  == {"absent", "foreign", "cut", "corrupt", "ok"}
Archive == [st : States, mem : Seq(Member)]

CommandLine == [key : Keys, pos : Names \cup {NULL}, b : BOOLEAN, u : BOOLEAN, c : BOOLEAN,
                l : BOOLEAN, args : Seq(Names)]

ASSUME NullAssumption == NULL \notin Names
ASSUME ArchivesAssumption ==
  Archives \subseteq {a \in Archive : a.st \in {"absent", "foreign"} => a.mem = <<>>}
ASSUME FilesAssumption == Files \subseteq [Names -> 0 .. MaxVersion]
ASSUME CommandsAssumption == Commands \subseteq CommandLine

VARIABLES
  cmd,         \* the command line
  arch,        \* the archive: its state st and its readable members mem
  file,        \* file[n]: the version of the file n, 0 when there is none
  argv,        \* the arguments; NULL once dealt with
  pc,          \* where ar is
  at, cur,     \* the next member to read, the temporary for members
  tmp,         \* tmp[d]: the members in the temporary d
  named,       \* the temporaries with a name in tmps[] (-l)
  local,       \* the temporaries that are files in this directory
  pending,     \* members written to the archive and not flushed
  out,         \* members listed or printed
  outcome,     \* running, ok, fail, killed
  \* History, for the properties only:
  arch0, file0 \* the archive and the files at the start

vars == <<cmd, arch, file, argv, pc, at, cur, tmp, named, local, pending, out, outcome, arch0, file0>>
history == <<cmd, arch0, file0>>

Running == outcome = "running"
Given   == ToSet(argv) \ {NULL}

Init ==
  /\ cmd \in Commands
  /\ arch \in Archives /\ file \in Files
  /\ argv = cmd.args /\ pc = "main" /\ at = 1 /\ cur = BEFORE
  /\ tmp = [d \in Dots |-> <<>>] /\ named = {} /\ local = {} /\ pending = <<>> /\ out = <<>>
  /\ outcome = "running"
  /\ arch0 = arch /\ file0 = file

(***************************************************************************)
(* Ends.                                                                   *)
(***************************************************************************)

\* The archive once what is pending has been written.
Written ==
  IF pending = <<>> \/ arch.st = "corrupt" THEN arch
  ELSE IF arch.st = "cut" THEN [arch EXCEPT !.st = "corrupt"]
  ELSE [arch EXCEPT !.mem = @ \o pending]

\* The archives with nothing, or a part, of what is pending.
PartlyWritten ==
  {arch} \cup
  IF pending = <<>> /\ pc # "copy" THEN {}
  ELSE IF arch.st \in {"cut", "corrupt"} THEN {[arch EXCEPT !.st = "corrupt"]}
  ELSE {[st |-> "cut", mem |-> arch.mem \o p] : p \in Prefixes(pending)}

\* cleanup() removes the temporaries that have a name in tmps[].
cleanup == local' = local \ named

Ends(how) ==
  /\ outcome' = how
  /\ cleanup
  /\ pending' = <<>>
  /\ UNCHANGED <<history, file, argv, pc, at, cur, tmp, named, out>>

\* error(), or the return from main(): exit() flushes the archive.
Exit(how) == Ends(how) /\ arch' = Written

\* sigfun(): nothing more is flushed.
sigfun == Running /\ Ends("killed") /\ arch' \in PartlyWritten

(***************************************************************************)
(* main(), ar() and openar().                                              *)
(***************************************************************************)
Usage ==
  \/ cmd.pos # NULL /\ cmd.key \notin {"m", "r"}
  \/ cmd.c /\ cmd.key \notin {"q", "r"}
  \/ cmd.u /\ cmd.key # "r"

main ==
  /\ Running /\ pc = "main"
  /\ IF Usage \/ Given \cap BadNames # {} THEN Exit("fail")
     ELSE /\ pc' = "open"
          /\ UNCHANGED <<history, arch, file, argv, at, cur, tmp, named, local, pending, out, outcome>>

Rewrites == cmd.key \in {"r", "m", "d"}

\* Mutant of Opened: fopen() with the mode "w+b" only.
OpenedAnew == [st |-> "ok", mem |-> <<>>]

\* fopen() with the mode "r+b", then "w+b" and the magic number.
Opened == IF arch.st = "absent" THEN [st |-> "ok", mem |-> <<>>] ELSE arch

\* openar() and the early return of ar().
openar ==
  /\ Running /\ pc = "open"
  /\ \/ arch.st \in {"absent", "foreign"} /\ Exit("fail")
     \/ /\ arch.st # "foreign"
        /\ arch' = Opened
        /\ pc' = IF cmd.args = <<>> /\ cmd.key \in {"r", "m", "d", "q"} THEN "end"
                 ELSE CASE Rewrites      -> "opentmp"
                        [] cmd.key = "q" -> "append"
                        [] OTHER         -> "run"
        /\ UNCHANGED <<history, file, argv, at, cur, tmp, named, local, pending, out, outcome>>

Temporaries == IF cmd.key = "d" THEN {BEFORE} ELSE Dots

\* ar() opens the temporaries.  Without -l they have no name.
opentmps ==
  /\ Running /\ pc = "opentmp" /\ (cmd.l => local = Temporaries /\ named = local)
  /\ pc' = "run"
  /\ UNCHANGED <<history, arch, file, argv, at, cur, tmp, named, local, pending, out, outcome>>

\* opentmp(): the name is kept before the file is made.
opentmp(d) ==
  /\ Running /\ pc = "opentmp" /\ cmd.l
  /\ d \in Temporaries /\ \A e \in Temporaries : e < d => e \in local
  /\ \/ d \notin named /\ named' = named \cup {d} /\ UNCHANGED local
     \/ d \in named /\ d \notin local /\ local' = local \cup {d} /\ UNCHANGED named
  /\ UNCHANGED <<history, arch, file, argv, pc, at, cur, tmp, pending, out, outcome>>

\* fopen() or tmpfile() fails.
opentmpFails ==
  /\ Running /\ pc = "opentmp"
  /\ Exit("fail")

(***************************************************************************)
(* run() and what it calls for each member.                                *)
(***************************************************************************)
m == arch.mem[at]

\* inlist(): the first argument called n, if any, is taken from the list.
inlist(n, rest) ==
  /\ n \in Given
  /\ LET k == CHOOSE j \in DOMAIN argv : argv[j] = n /\ \A i \in 1 .. j - 1 : argv[i] # n
     IN rest = [argv EXCEPT ![k] = NULL]

\* archive() can open the file.
Readable(n) == file[n] # 0

Put(d, x) == tmp' = [tmp EXCEPT ![d] = Append(@, x)]
Made(n)   == [name |-> n, ver |-> file[n]]

\* Mutant of Here: the members after posname stay in the same temporary.
HereBlind == Put(cur, m) /\ UNCHANGED cur

\* The member stays: copy() to where it belongs with respect to posname.
Here ==
  IF cmd.pos = m.name
  THEN Put(IF cmd.b THEN AFTER ELSE BEFORE, m) /\ cur' = AFTER
  ELSE Put(cur, m) /\ UNCHANGED cur

Older(n, x) == file[n] > x.ver

\* update(): older() or archive() fails, always when there is no such file.
update ==
  \/ m.name \in Given /\ Exit("fail")
  \/ /\ inlist(m.name, argv') /\ Readable(m.name)
     /\ IF ~cmd.u \/ Older(m.name, m)
        THEN Put(cur, Made(m.name)) /\ UNCHANGED cur
        ELSE Here
     /\ at' = at + 1
     /\ UNCHANGED <<history, arch, file, pc, named, local, pending, out, outcome>>
  \/ /\ m.name \notin Given
     /\ Here /\ at' = at + 1
     /\ UNCHANGED <<history, arch, file, argv, pc, named, local, pending, out, outcome>>

move ==
  \/ /\ inlist(m.name, argv')
     /\ Put(INDOT, m) /\ at' = at + 1
     /\ UNCHANGED <<history, arch, file, pc, cur, named, local, pending, out, outcome>>
  \/ /\ m.name \notin Given
     /\ Here /\ at' = at + 1
     /\ UNCHANGED <<history, arch, file, argv, pc, named, local, pending, out, outcome>>

del ==
  /\ at' = at + 1
  /\ \/ inlist(m.name, argv') /\ UNCHANGED tmp
     \/ m.name \notin Given /\ Put(BEFORE, m) /\ UNCHANGED argv
  /\ UNCHANGED <<history, arch, file, pc, cur, named, local, pending, out, outcome>>

\* list() and print(): without arguments, every member.
list ==
  /\ at' = at + 1
  /\ \/ cmd.args = <<>> /\ out' = Append(out, m) /\ UNCHANGED argv
     \/ cmd.args # <<>> /\ inlist(m.name, argv') /\ out' = Append(out, m)
     \/ cmd.args # <<>> /\ m.name \notin Given /\ UNCHANGED <<argv, out>>
  /\ UNCHANGED <<history, arch, file, pc, cur, tmp, named, local, pending, outcome>>

\* extract(): the file gets the contents and the date of the member; writing it
\* may fail.
extract ==
  \/ /\ at' = at + 1
     /\ \/ cmd.args = <<>> /\ UNCHANGED argv
        \/ cmd.args # <<>> /\ inlist(m.name, argv')
     /\ file' = [file EXCEPT ![m.name] = m.ver]
     /\ UNCHANGED <<history, arch, pc, cur, tmp, named, local, pending, out, outcome>>
  \/ /\ cmd.args # <<>> /\ m.name \notin Given
     /\ at' = at + 1
     /\ UNCHANGED <<history, arch, file, argv, pc, cur, tmp, named, local, pending, out, outcome>>
  \/ /\ cmd.args = <<>> \/ m.name \in Given
     /\ Exit("fail")

\* One turn of the loop of run().
run ==
  /\ Running /\ pc = "run" /\ at <= Len(arch.mem)
  /\ CASE cmd.key = "r" -> update
       [] cmd.key = "m" -> move
       [] cmd.key = "d" -> del
       [] cmd.key = "x" -> extract
       [] OTHER         -> list

\* The end of run(): a header that valid() refuses is an error, a part of a
\* header is not.
ran ==
  /\ Running /\ pc = "run" /\ at > Len(arch.mem)
  /\ IF arch.st = "corrupt" THEN Exit("fail")
     ELSE /\ pc' = CASE cmd.key = "r" -> "insert" [] cmd.key \in {"m", "d"} -> "merge" [] OTHER -> "end"
          /\ UNCHANGED <<history, arch, file, argv, at, cur, tmp, named, local, pending, out, outcome>>

(***************************************************************************)
(* insert(), merge() and append().                                         *)
(***************************************************************************)

\* Argument k is the next one to deal with.
Upcoming(k) == argv[k] # NULL /\ \A j \in 1 .. k - 1 : argv[j] = NULL

\* insert(): the next file that replaced no member.
insert ==
  /\ Running /\ pc = "insert"
  /\ \/ /\ Given = {}
        /\ pc' = "merge"
        /\ UNCHANGED <<history, arch, file, argv, at, cur, tmp, named, local, pending, out, outcome>>
     \/ Given # {} /\ Exit("fail")
     \/ /\ \E k \in DOMAIN argv :
             /\ Upcoming(k) /\ Readable(argv[k])
             /\ Put(INDOT, Made(argv[k]))
             /\ argv' = [argv EXCEPT ![k] = NULL]
        /\ UNCHANGED <<history, arch, file, pc, at, cur, named, local, pending, out, outcome>>

\* merge(): the archive is truncated, or cannot be opened.
merge ==
  /\ Running /\ pc = "merge"
  /\ \/ /\ arch' = [st |-> "foreign", mem |-> <<>>]
        /\ pc' = "copy" /\ at' = BEFORE
        /\ UNCHANGED <<history, file, argv, cur, tmp, named, local, pending, out, outcome>>
     \/ Exit("fail")

\* merge(): a temporary is copied, the archive is closed after the last one;
\* reading and closing may fail.
mergeTmp ==
  /\ Running /\ pc = "copy"
  /\ \/ /\ at \in Dots
        /\ pending' = pending \o tmp[at]
        /\ at' = at + 1
        /\ UNCHANGED <<history, arch, file, argv, pc, cur, tmp, named, local, out, outcome>>
     \/ /\ at \notin Dots
        /\ arch' = [st |-> "ok", mem |-> pending]
        /\ pending' = <<>> /\ pc' = "end"
        /\ UNCHANGED <<history, file, argv, at, cur, tmp, named, local, out, outcome>>
     \/ Ends("fail") /\ arch' \in PartlyWritten

\* append(): the next file is written at the end of the archive.  A file that
\* cannot be opened adds nothing, one that cannot be read to its end adds a part;
\* closing the archive may fail.
append ==
  /\ Running /\ pc = "append"
  /\ \/ /\ Given = {}
        /\ arch' = Written /\ pending' = <<>> /\ pc' = "end"
        /\ UNCHANGED <<history, file, argv, at, cur, tmp, named, local, out, outcome>>
     \/ Given = {} /\ Ends("fail") /\ arch' \in PartlyWritten
     \/ Given # {} /\ Exit("fail")
     \/ /\ \E k \in DOMAIN argv :
             /\ Upcoming(k) /\ Readable(argv[k])
             /\ pending' = Append(pending, Made(argv[k]))
             /\ argv' = [argv EXCEPT ![k] = NULL]
        /\ UNCHANGED <<history, arch, file, pc, at, cur, tmp, named, local, out, outcome>>
     \/ /\ \E k \in DOMAIN argv : Upcoming(k) /\ Readable(argv[k])
        /\ Ends("fail")
        /\ arch' = [Written EXCEPT !.st = IF arch.st = "ok" THEN "cut" ELSE "corrupt"]

\* The end of ar(): an argument that was not dealt with names no member.
end ==
  /\ Running /\ pc = "end"
  /\ Exit(IF Given = {} THEN "ok" ELSE "fail")

Stopped == ~Running /\ UNCHANGED vars

Next ==
  \/ main \/ openar \/ opentmps \/ (\E d \in Dots : opentmp(d)) \/ opentmpFails
  \/ run \/ ran \/ insert \/ merge \/ mergeTmp \/ append \/ end
  \/ sigfun \/ Stopped

Spec == Init /\ [][Next]_vars

(***************************************************************************)
(* Reference definitions: the result as a function of the start.           *)
(***************************************************************************)
old == arch0.mem

\* What I picks of s, and of its first k elements.
Picked(s, I) ==
  LET f[k \in 0 .. Len(s)] ==
        IF k = 0 THEN <<>> ELSE IF k \in I THEN Append(f[k - 1], s[k]) ELSE f[k - 1]
  IN f
Pick(s, I) == Picked(s, I)[Len(s)]

\* How often n is among the first k arguments, and the first k members.
Asked(n, k) == Cardinality({i \in 1 .. k : cmd.args[i] = n})
Found(n, k) == Cardinality({i \in 1 .. k : old[i].name = n})

\* The members that the arguments name: an argument names one member.
Matched == {i \in DOMAIN old : Found(old[i].name, i) <= Asked(old[i].name, Len(cmd.args))}

\* The arguments that name no member.
Unmatched == {k \in DOMAIN cmd.args : Asked(cmd.args[k], k) > Found(cmd.args[k], Len(old))}

Current(n) == [name |-> n, ver |-> file0[n]]
NewOnes    == [k \in DOMAIN cmd.args |-> Current(cmd.args[k])]
Replaced   == [i \in DOMAIN old |->
                 IF i \in Matched /\ (cmd.u => file0[old[i].name] > old[i].ver)
                 THEN Current(old[i].name) ELSE old[i]]

\* s with new inserted after or before the member called cmd.pos, or at the end.
Insert(s, new) ==
  LET p == {i \in DOMAIN s : s[i].name = cmd.pos}
      n == IF p = {} THEN Len(s) ELSE (CHOOSE i \in p : TRUE) - (IF cmd.b THEN 1 ELSE 0)
  IN SubSeq(s, 1, n) \o new \o SubSeq(s, n + 1, Len(s))

Expected ==
  CASE cmd.key = "r" -> Insert(Replaced, Pick(NewOnes, Unmatched))
    [] cmd.key = "m" -> Insert(Pick(old, DOMAIN old \ Matched), Pick(old, Matched))
    [] cmd.key = "d" -> Pick(old, DOMAIN old \ Matched)
    [] cmd.key = "q" -> old \o NewOnes
    [] OTHER         -> old

\* The members that t, p and x deal with.
Chosen == IF cmd.args = <<>> THEN DOMAIN old ELSE Matched

\* The position is a member that appears once and is not itself an argument.
PlainPosition ==
  cmd.pos = NULL \/ (Found(cmd.pos, Len(old)) <= 1 /\ cmd.pos \notin ToSet(cmd.args))

(***************************************************************************)
(* Properties.                                                             *)
(***************************************************************************)

\* Types of the variables: a member always comes from a file that was there.
TypeOK ==
  /\ cmd \in CommandLine /\ arch \in Archive /\ arch0 \in Archive
  /\ file \in [Names -> 0 .. MaxVersion] /\ argv \in Seq(Names \cup {NULL})
  /\ pc \in {"main", "open", "opentmp", "run", "insert", "merge", "copy", "append", "end"}
  /\ at \in Nat \ {0} /\ cur \in {BEFORE, AFTER} /\ tmp \in [Dots -> Seq(Member)]
  /\ local \subseteq Dots /\ named \subseteq Dots
  /\ pending \in Seq(Member) /\ out \in Seq(Member)
  /\ outcome \in {"running", "ok", "fail", "killed"}

\* When ar has done its work, the archive is the one that the command asks for:
\* the sorting of the members into three temporaries while they are read puts
\* every member, old, new or moved, where it belongs, also with names that
\* appear several times in the archive or among the arguments.  The exit status
\* tells whether every argument named a member.
ResultAsAsked ==
  pc = "end" /\ ~Running /\ outcome # "killed" =>
    /\ cmd.args # <<>> /\ Rewrites => arch.st = "ok"
    /\ PlainPosition /\ arch.st = "ok" => arch.mem = Expected
    /\ cmd.key \in {"t", "p"} => out = Pick(old, Chosen)
    /\ cmd.key = "x" => \A n \in Names :
         LET mine == {i \in Chosen : old[i].name = n}
         IN file[n] = IF mine = {} THEN file0[n] ELSE old[Max(mine)].ver
    /\ outcome = "ok" <=> cmd.args = <<>> \/ cmd.key \in {"r", "q"} \/ Unmatched = {}

\* Until all the members and files have been read, a failure or a signal leaves
\* the archive as it was; q leaves the old members where they were.
OldArchiveSafe ==
  ~Running /\ pc \notin {"copy", "end"} /\ arch0.st # "absent" =>
    IF cmd.key = "q" THEN IsPrefix(arch0.mem, arch.mem) ELSE arch = arch0

\* However ar ends, it leaves no temporary in the directory.
NoTemporaryLeft == ~Running => local = {}

\* However ar ends, it has not lost what was there and has left nothing behind.
NothingLostOrLeft == TypeOK /\ OldArchiveSafe /\ NoTemporaryLeft
=============================================================================
