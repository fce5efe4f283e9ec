------------------------------ MODULE ArProofs ------------------------------
(***************************************************************************)
(* What a failure or a signal leaves of the archive and of the directory,  *)
(* and what a run that comes to its end makes of the archive, proved for   *)
(* any names, archives, files and command lines.                           *)
(***************************************************************************)
EXTENDS Ar, FoldLemmas, SequenceTheorems, FiniteSetTheorems, TLAPS

\* What cleanup() can remove: while ar runs it knows all its temporaries.
Temps == local \subseteq named /\ (~Running => local = {})

\* The archive in each phase of ar(): untouched before it is opened, created at
\* most before merge(), and with q written only at the end of it.
Phases ==
  /\ pc \in {"main", "open"} => arch = arch0 /\ pending = <<>>
  /\ pc \in {"opentmp", "run", "insert", "merge"} =>
       /\ pending = <<>> /\ cmd.key # "q"
       /\ arch0.st # "absent" => arch = arch0
  /\ pc = "append" => cmd.key = "q"
  /\ pc = "append" /\ arch0.st # "absent" =>
       IF Running THEN arch = arch0 ELSE IsPrefix(arch0.mem, arch.mem)

AInv == TypeOK /\ Temps /\ Phases

\* A sequence begins like itself, and like what it is the beginning of.
LEMMA PrefixFacts ==
  ASSUME NEW S, NEW s \in Seq(S), NEW t \in Seq(S)
  PROVE  IsPrefix(s, s) /\ IsPrefix(s, s \o t)
BY DEF IsPrefix

\* The beginnings of a sequence are sequences over the same set.
LEMMA PrefixesTyped ==
  ASSUME NEW S, NEW s \in Seq(S), NEW t \in Prefixes(s)
  PROVE  t \in Seq(S)
BY DEF Prefixes

\* What exit() or a signal can leave of the archive.
LEMMA WrittenFacts ==
  ASSUME TypeOK
  PROVE  /\ Written \in Archive
         /\ arch.mem \in Seq(Member) /\ IsPrefix(arch.mem, Written.mem)
         /\ pending = <<>> => Written = arch
<1>1. arch \in Archive /\ arch.mem \in Seq(Member) /\ arch.st \in States /\ pending \in Seq(Member)
  BY DEF TypeOK, Archive
<1>2. CASE pending = <<>> \/ arch.st = "corrupt"
  BY <1>1, <1>2, PrefixFacts DEF Written
<1>3. CASE ~(pending = <<>> \/ arch.st = "corrupt") /\ arch.st = "cut"
  <2>1. Written = [arch EXCEPT !.st = "corrupt"]
    BY <1>3 DEF Written
  <2> QED BY <1>1, <1>3, <2>1, PrefixFacts DEF Archive, States
<1>4. CASE ~(pending = <<>> \/ arch.st = "corrupt") /\ arch.st # "cut"
  <2>1. Written = [arch EXCEPT !.mem = @ \o pending]
    BY <1>4 DEF Written
  <2>2. arch.mem \o pending \in Seq(Member)
    BY <1>1
  <2>3. Written = [st |-> arch.st, mem |-> arch.mem \o pending]
    BY <1>1, <2>1 DEF Archive
  <2>4. Written.mem = arch.mem \o pending /\ Written \in Archive
    BY <1>1, <2>2, <2>3 DEF Archive
  <2> QED BY <1>1, <1>4, <2>4, PrefixFacts
<1> QED BY <1>2, <1>3, <1>4

LEMMA PartlyFacts ==
  ASSUME TypeOK, NEW a \in PartlyWritten
  PROVE  /\ a \in Archive /\ IsPrefix(arch.mem, a.mem)
         /\ pending = <<>> /\ pc # "copy" => a = arch
<1>1. arch \in Archive /\ arch.mem \in Seq(Member) /\ arch.st \in States /\ pending \in Seq(Member)
  BY DEF TypeOK, Archive
<1>2. CASE a = arch
  BY <1>1, <1>2, PrefixFacts
<1>3. CASE a # arch /\ arch.st \in {"cut", "corrupt"}
  <2>1. a = [arch EXCEPT !.st = "corrupt"] /\ ~(pending = <<>> /\ pc # "copy")
    BY <1>3 DEF PartlyWritten
  <2> QED BY <1>1, <2>1, PrefixFacts DEF Archive, States
<1>4. CASE a # arch /\ arch.st \notin {"cut", "corrupt"}
  <2>1. /\ a \in {[st |-> "cut", mem |-> arch.mem \o p] : p \in Prefixes(pending)}
        /\ ~(pending = <<>> /\ pc # "copy")
    BY <1>4 DEF PartlyWritten
  <2>2. PICK p \in Prefixes(pending) : a = [st |-> "cut", mem |-> arch.mem \o p]
    BY <2>1
  <2>3. p \in Seq(Member)
    BY <1>1, PrefixesTyped
  <2> QED BY <1>1, <2>1, <2>2, <2>3, PrefixFacts DEF Archive, States
<1> QED BY <1>2, <1>3, <1>4

LEMMA InitAr == Init => AInv
<1> SUFFICES ASSUME Init PROVE AInv
  OBVIOUS
<1>1. TypeOK
  <2>1. cmd \in CommandLine /\ arch \in Archive /\ file \in [Names -> 0 .. MaxVersion]
    BY CommandsAssumption, ArchivesAssumption, FilesAssumption DEF Init
  <2>2. argv \in Seq(Names \cup {NULL})
    BY <2>1 DEF Init, CommandLine
  <2>3. tmp \in [Dots -> Seq(Member)]
    BY DEF Init
  <2> QED BY <2>1, <2>2, <2>3 DEF Init, TypeOK, BEFORE, AFTER
<1>2. Temps /\ Phases
  BY DEF Init, Temps, Phases, Running
<1> QED BY <1>1, <1>2 DEF AInv

\* However ar ends, the invariant holds.
LEMMA EndsInv ==
  ASSUME AInv, NEW how \in {"ok", "fail", "killed"}, Running, Ends(how),
         arch' \in Archive, IsPrefix(arch.mem, arch'.mem),
         pending = <<>> /\ pc # "copy" => arch' = arch
  PROVE  AInv'
<1>1. /\ UNCHANGED <<cmd, arch0, file0, file, argv, pc, at, cur, tmp, named, out>>
      /\ outcome' = how /\ local' = local \ named /\ pending' = <<>>
  BY DEF Ends, cleanup, history
<1>2. TypeOK'
  BY <1>1 DEF AInv, TypeOK
<1>3. Temps'
  BY <1>1 DEF AInv, Temps, Running
<1>4. Phases'
  <2>1. ~Running'
    BY <1>1 DEF Running
  <2> QED BY <1>1, <2>1 DEF AInv, Phases
<1> QED BY <1>2, <1>3, <1>4 DEF AInv

LEMMA ExitInv ==
  ASSUME AInv, NEW how \in {"ok", "fail", "killed"}, Running, Exit(how)
  PROVE  AInv'
BY EndsInv, WrittenFacts DEF AInv, Exit

LEMMA DiesInv ==
  ASSUME AInv, NEW how \in {"ok", "fail", "killed"}, Running, Ends(how), arch' \in PartlyWritten
  PROVE  AInv'
BY EndsInv, PartlyFacts DEF AInv

\* A member that is copied or made lands in a temporary.
LEMMA PutTyped ==
  ASSUME TypeOK, NEW d \in Dots, NEW x \in Member, Put(d, x)
  PROVE  tmp' \in [Dots -> Seq(Member)]
BY DEF TypeOK, Put

LEMMA MadeTyped ==
  ASSUME TypeOK, NEW n \in Names, Readable(n)
  PROVE  Made(n) \in Member
BY DEF TypeOK, Made, Readable, Member

LEMMA HereTyped ==
  ASSUME TypeOK, m \in Member, Here
  PROVE  tmp' \in [Dots -> Seq(Member)] /\ cur' \in {BEFORE, AFTER}
<1>1. cur \in Dots /\ BEFORE \in Dots /\ AFTER \in Dots
  BY DEF TypeOK, Dots
<1> QED BY <1>1, PutTyped DEF Here, TypeOK

LEMMA InlistTyped ==
  ASSUME TypeOK, NEW n, NEW rest, inlist(n, rest)
  PROVE  rest \in Seq(Names \cup {NULL})
<1>1. PICK k : rest = [argv EXCEPT ![k] = NULL]
  BY DEF inlist
<1>2. argv \in Seq(Names \cup {NULL}) /\ NULL \in Names \cup {NULL}
  BY DEF TypeOK
<1>3. ASSUME NEW S, NEW s \in Seq(S), NEW x \in S, NEW j PROVE [s EXCEPT ![j] = x] \in Seq(S)
  <2>1. DOMAIN s = 1 .. Len(s) /\ Len(s) \in Nat /\ \A i \in 1 .. Len(s) : s[i] \in S
    OBVIOUS
  <2>2. [s EXCEPT ![j] = x] = [i \in DOMAIN s |-> IF i = j THEN x ELSE s[i]]
    OBVIOUS
  <2> DEFINE r == [i \in DOMAIN s |-> IF i = j THEN x ELSE s[i]]
  <2>3. r \in [1 .. Len(s) -> S]
    BY <2>1
  <2> HIDE DEF r
  <2>4. r \in Seq(S)
    BY <2>1, <2>3
  <2> QED BY <2>2, <2>4 DEF r
<1> QED BY <1>1, <1>2, <1>3

\* A step of the loop of run() that does not end ar.
LEMMA RunInv ==
  ASSUME AInv, Running, pc = "run",
         UNCHANGED <<cmd, arch, pc, named, local, pending, outcome, arch0>>,
         at' = at + 1, argv' \in Seq(Names \cup {NULL}),
         file' \in [Names -> 0 .. MaxVersion], cur' \in {BEFORE, AFTER},
         tmp' \in [Dots -> Seq(Member)], out' \in Seq(Member)
  PROVE  AInv'
BY DEF AInv, TypeOK, Temps, Phases, Running

LEMMA StepRun == ASSUME AInv, run PROVE AInv'
<1>1. Running /\ pc = "run" /\ TypeOK /\ m \in Member
  BY DEF AInv, TypeOK, run, m, Archive
<1>2. m.name \in Names /\ m.ver \in 0 .. MaxVersion
  BY <1>1 DEF Member
<1>t. /\ argv \in Seq(Names \cup {NULL}) /\ file \in [Names -> 0 .. MaxVersion]
      /\ cur \in {BEFORE, AFTER} /\ tmp \in [Dots -> Seq(Member)] /\ out \in Seq(Member)
      /\ cur \in Dots /\ INDOT \in Dots /\ BEFORE \in Dots
  BY <1>1 DEF TypeOK, Dots
<1>3. CASE update
  <2>1. CASE Exit("fail")
    BY <2>1, <1>1, ExitInv
  <2>2. ASSUME inlist(m.name, argv'), Readable(m.name),
               IF ~cmd.u \/ Older(m.name, m)
               THEN Put(cur, Made(m.name)) /\ UNCHANGED cur
               ELSE Here,
               at' = at + 1,
               UNCHANGED <<history, arch, file, pc, named, local, pending, out, outcome>>
        PROVE  AInv'
    <3>1. argv' \in Seq(Names \cup {NULL})
      BY <2>2, <1>1, InlistTyped
    <3>2. tmp' \in [Dots -> Seq(Member)] /\ cur' \in {BEFORE, AFTER}
      BY <2>2, <1>1, <1>2, <1>t, MadeTyped, PutTyped, HereTyped
    <3> QED BY <2>2, <1>1, <1>t, <3>1, <3>2, RunInv DEF history
  <2>3. ASSUME Here, at' = at + 1,
               UNCHANGED <<history, arch, file, argv, pc, named, local, pending, out, outcome>>
        PROVE  AInv'
    BY <2>3, <1>1, <1>t, HereTyped, RunInv DEF history
  <2> QED BY <1>3, <2>1, <2>2, <2>3 DEF update
<1>4. CASE move
  <2>1. ASSUME inlist(m.name, argv'), Put(INDOT, m), at' = at + 1,
               UNCHANGED <<history, arch, file, pc, cur, named, local, pending, out, outcome>>
        PROVE  AInv'
    BY <2>1, <1>1, <1>t, InlistTyped, PutTyped, RunInv DEF history
  <2>2. ASSUME Here, at' = at + 1,
               UNCHANGED <<history, arch, file, argv, pc, named, local, pending, out, outcome>>
        PROVE  AInv'
    BY <2>2, <1>1, <1>t, HereTyped, RunInv DEF history
  <2> QED BY <1>4, <2>1, <2>2 DEF move
<1>5. CASE del
  <2>1. argv' \in Seq(Names \cup {NULL}) /\ tmp' \in [Dots -> Seq(Member)]
    BY <1>5, <1>1, <1>t, InlistTyped, PutTyped DEF del
  <2> QED BY <1>5, <2>1, <1>1, <1>t, RunInv DEF del, history
<1>6. CASE list
  <2>1. argv' \in Seq(Names \cup {NULL}) /\ out' \in Seq(Member)
    <3>1. Append(out, m) \in Seq(Member)
      BY <1>1, <1>t
    <3> QED BY <1>6, <1>1, <1>t, <3>1, InlistTyped DEF list
  <2> QED BY <1>6, <2>1, <1>1, <1>t, RunInv DEF list, history
<1>7. CASE extract
  <2>1. CASE Exit("fail")
    BY <2>1, <1>1, ExitInv
  <2>2. ASSUME at' = at + 1, argv' = argv \/ inlist(m.name, argv'),
               file' = [file EXCEPT ![m.name] = m.ver],
               UNCHANGED <<history, arch, pc, cur, tmp, named, local, pending, out, outcome>>
        PROVE  AInv'
    <3>1. argv' \in Seq(Names \cup {NULL}) /\ file' \in [Names -> 0 .. MaxVersion]
      BY <2>2, <1>1, <1>2, <1>t, InlistTyped
    <3> QED BY <2>2, <3>1, <1>1, <1>t, RunInv DEF history
  <2>3. ASSUME at' = at + 1,
               UNCHANGED <<history, arch, file, argv, pc, cur, tmp, named, local, pending, out, outcome>>
        PROVE  AInv'
    BY <2>3, <1>1, <1>t, RunInv DEF history
  <2> QED BY <1>7, <2>1, <2>2, <2>3 DEF extract
<1> QED BY <1>3, <1>4, <1>5, <1>6, <1>7 DEF run

\* Every step keeps the invariant.
LEMMA NextAr == ASSUME AInv, [Next]_vars PROVE AInv'
<1>0. TypeOK
  BY DEF AInv
<1>1. CASE main
  <2>1. CASE Exit("fail")
    BY <2>1, <1>1, ExitInv DEF main
  <2>2. CASE ~Exit("fail")
    BY <1>1, <2>2 DEF main, AInv, TypeOK, Temps, Phases, Running, history
  <2> QED BY <2>1, <2>2
<1>2. CASE openar
  <2>1. CASE Exit("fail")
    BY <2>1, <1>2, ExitInv DEF openar
  <2>2. CASE ~Exit("fail")
    <3>1. /\ UNCHANGED <<cmd, arch0, file, argv, at, cur, tmp, named, local, pending, out, outcome>>
          /\ arch' = Opened /\ Running /\ pc = "open"
          /\ pc' \in {"end", "opentmp", "append", "run"}
          /\ pc' = "append" => cmd.key = "q"
          /\ pc' \in {"opentmp", "run"} => cmd.key # "q"
      BY <1>2, <2>2 DEF openar, Rewrites, history
    <3>2. arch' \in Archive /\ (arch.st # "absent" => arch' = arch)
      BY <1>0, <3>1 DEF TypeOK, Opened, Archive, States
    <3>3. arch = arch0 /\ pending = <<>>
      BY <3>1 DEF AInv, Phases
    <3>4. TypeOK'
      BY <1>0, <3>1, <3>2 DEF TypeOK
    <3>5. Temps' /\ Phases'
      BY <3>1, <3>2, <3>3 DEF AInv, Temps, Phases, Running
    <3> QED BY <3>4, <3>5 DEF AInv
  <2> QED BY <2>1, <2>2
<1>3. CASE opentmps
  BY <1>3 DEF opentmps, AInv, TypeOK, Temps, Phases, Running, history
<1>4. ASSUME NEW d \in Dots, opentmp(d) PROVE AInv'
  <2>1. /\ UNCHANGED <<cmd, arch0, arch, file, argv, pc, at, cur, tmp, pending, out, outcome>>
        /\ Running
        /\ \/ named' = named \cup {d} /\ local' = local
           \/ d \in named /\ local' = local \cup {d} /\ named' = named
    BY <1>4 DEF opentmp, history
  <2>2. TypeOK'
    BY <1>0, <2>1 DEF TypeOK
  <2>3. Temps'
    BY <2>1 DEF AInv, Temps, Running
  <2>4. Phases'
    BY <2>1 DEF AInv, Phases, Running
  <2> QED BY <2>2, <2>3, <2>4 DEF AInv
<1>5. CASE opentmpFails
  BY <1>5, ExitInv DEF opentmpFails
<1>6. CASE run
  BY <1>6, StepRun
<1>7. CASE ran
  <2>1. CASE Exit("fail")
    BY <2>1, <1>7, ExitInv DEF ran
  <2>2. CASE ~Exit("fail")
    <3>1. /\ UNCHANGED <<cmd, arch0, arch, file, argv, at, cur, tmp, named, local, pending, out, outcome>>
          /\ Running /\ pc = "run" /\ pc' \in {"insert", "merge", "end"}
      BY <1>7, <2>2 DEF ran, history
    <3> QED BY <3>1 DEF AInv, TypeOK, Temps, Phases, Running
  <2> QED BY <2>1, <2>2
<1>8. CASE insert
  <2>1. CASE Exit("fail")
    BY <2>1, <1>8, ExitInv DEF insert
  <2>2. CASE pc' = "merge" /\ UNCHANGED <<history, arch, file, argv, at, cur, tmp, named, local, pending, out, outcome>>
    BY <1>8, <2>2 DEF insert, AInv, TypeOK, Temps, Phases, Running, history
  <2>3. ASSUME NEW k \in DOMAIN argv, Upcoming(k), Readable(argv[k]), Put(INDOT, Made(argv[k])),
               argv' = [argv EXCEPT ![k] = NULL],
               UNCHANGED <<history, arch, file, pc, at, cur, named, local, pending, out, outcome>>
        PROVE  AInv'
    <3>1. argv[k] \in Names /\ argv' \in Seq(Names \cup {NULL})
      BY <1>0, <2>3 DEF TypeOK, Upcoming
    <3>2. tmp' \in [Dots -> Seq(Member)]
      BY <1>0, <2>3, <3>1, MadeTyped, PutTyped DEF Dots
    <3> QED BY <2>3, <3>1, <3>2 DEF AInv, TypeOK, Temps, Phases, Running, history
  <2> QED BY <1>8, <2>1, <2>2, <2>3 DEF insert
<1>9. CASE merge
  <2>1. CASE Exit("fail")
    BY <2>1, <1>9, ExitInv DEF merge
  <2>2. CASE ~Exit("fail")
    <3>1. /\ UNCHANGED <<cmd, arch0, file, argv, cur, tmp, named, local, pending, out, outcome>>
          /\ arch' = [st |-> "foreign", mem |-> <<>>] /\ pc' = "copy" /\ at' = 1
      BY <1>9, <2>2 DEF merge, history, BEFORE
    <3>2. arch' \in Archive
      BY <3>1 DEF Archive, States
    <3> QED BY <3>1, <3>2 DEF AInv, TypeOK, Temps, Phases, Running
  <2> QED BY <2>1, <2>2
<1>10. CASE mergeTmp
  <2>0. Running /\ pc = "copy"
    BY <1>10 DEF mergeTmp
  <2>1. CASE at \in Dots /\ pending' = pending \o tmp[at] /\ at' = at + 1
             /\ UNCHANGED <<history, arch, file, argv, pc, cur, tmp, named, local, out, outcome>>
    <3>1. pending' \in Seq(Member)
      BY <1>0, <2>1 DEF TypeOK
    <3> QED BY <2>0, <2>1, <3>1 DEF AInv, TypeOK, Temps, Phases, Running, history
  <2>2. CASE arch' = [st |-> "ok", mem |-> pending] /\ pending' = <<>> /\ pc' = "end"
             /\ UNCHANGED <<history, file, argv, at, cur, tmp, named, local, out, outcome>>
    <3>1. arch' \in Archive
      BY <1>0, <2>2 DEF TypeOK, Archive, States
    <3> QED BY <2>0, <2>2, <3>1 DEF AInv, TypeOK, Temps, Phases, Running, history
  <2>3. CASE Ends("fail") /\ arch' \in PartlyWritten
    BY <2>0, <2>3, DiesInv
  <2> QED BY <1>10, <2>1, <2>2, <2>3 DEF mergeTmp
<1>11. CASE append
  <2>0. Running /\ pc = "append"
    BY <1>11 DEF append
  <2>1. CASE arch' = Written /\ pending' = <<>> /\ pc' = "end"
             /\ UNCHANGED <<history, file, argv, at, cur, tmp, named, local, out, outcome>>
    BY <1>0, <2>0, <2>1, WrittenFacts DEF AInv, TypeOK, Temps, Phases, Running, history
  <2>2. CASE Ends("fail") /\ arch' \in PartlyWritten
    BY <2>0, <2>2, DiesInv
  <2>3. CASE Exit("fail")
    BY <2>0, <2>3, ExitInv
  <2>4. ASSUME NEW k \in DOMAIN argv, Upcoming(k), Readable(argv[k]),
               pending' = Append(pending, Made(argv[k])), argv' = [argv EXCEPT ![k] = NULL],
               UNCHANGED <<history, arch, file, pc, at, cur, tmp, named, local, out, outcome>>
        PROVE  AInv'
    <3>1. argv[k] \in Names /\ argv' \in Seq(Names \cup {NULL})
      BY <1>0, <2>4 DEF TypeOK, Upcoming
    <3>2. pending' \in Seq(Member)
      BY <1>0, <2>4, <3>1, MadeTyped DEF TypeOK
    <3> QED BY <2>0, <2>4, <3>1, <3>2 DEF AInv, TypeOK, Temps, Phases, Running, history
  <2>5. CASE Ends("fail") /\ arch' = [Written EXCEPT !.st = IF arch.st = "ok" THEN "cut" ELSE "corrupt"]
    <3>1. arch' \in Archive /\ arch'.mem = Written.mem
      BY <1>0, <2>5, WrittenFacts DEF Archive, States
    <3>2. IsPrefix(arch.mem, arch'.mem)
      BY <1>0, <3>1, WrittenFacts
    <3>3. /\ UNCHANGED <<cmd, arch0, file0, file, argv, pc, at, cur, tmp, named, out>>
          /\ outcome' = "fail" /\ local' = local \ named /\ pending' = <<>>
      BY <2>5 DEF Ends, cleanup, history
    <3>4. TypeOK'
      BY <1>0, <3>1, <3>3 DEF TypeOK
    <3>5. Temps' /\ Phases'
      BY <2>0, <3>2, <3>3 DEF AInv, Temps, Phases, Running
    <3> QED BY <3>4, <3>5 DEF AInv
  <2> QED BY <1>11, <2>1, <2>2, <2>3, <2>4, <2>5 DEF append
<1>12. CASE end
  BY <1>12, ExitInv DEF end
<1>13. CASE sigfun
  BY <1>13, DiesInv DEF sigfun
<1>14. CASE UNCHANGED vars
  BY <1>14 DEF vars, AInv, TypeOK, Temps, Phases, Running
<1>15. CASE Stopped
  BY <1>14, <1>15 DEF Stopped
<1> QED BY <1>1, <1>2, <1>3, <1>4, <1>5, <1>6, <1>7, <1>8, <1>9, <1>10, <1>11, <1>12, <1>13,
           <1>14, <1>15 DEF Next

\* The invariant, for any archive, files and command line.
THEOREM ArInv == Spec => []AInv
BY InitAr, NextAr, PTL DEF Spec

\* Every member that ar writes was made from a file that was there, or copied.
THEOREM TypesHold == Spec => []TypeOK
<1>1. AInv => TypeOK
  BY DEF AInv
<1> QED BY <1>1, ArInv, PTL

\* A failure or a signal before merge() leaves the old archive, and during q its
\* members.
THEOREM OldArchiveStays == Spec => []OldArchiveSafe
<1>1. AInv => OldArchiveSafe
  <2> SUFFICES ASSUME AInv, ~Running, pc \notin {"copy", "end"}, arch0.st # "absent"
               PROVE  IF cmd.key = "q" THEN IsPrefix(arch0.mem, arch.mem) ELSE arch = arch0
    BY DEF OldArchiveSafe
  <2>1. IsPrefix(arch0.mem, arch0.mem)
    BY PrefixFacts DEF AInv, TypeOK, Archive
  <2> QED BY <2>1 DEF AInv, TypeOK, Phases
<1> QED BY <1>1, ArInv, PTL

\* However ar ends, its temporaries are gone.
THEOREM TemporariesGo == Spec => []NoTemporaryLeft
<1>1. AInv => NoTemporaryLeft
  BY DEF AInv, Temps, NoTemporaryLeft
<1> QED BY <1>1, ArInv, PTL

\* The two together: what ar leaves behind when it is interrupted or fails.
THEOREM NothingLost == Spec => []NothingLostOrLeft
BY TypesHold, OldArchiveStays, TemporariesGo, PTL DEF NothingLostOrLeft

(***************************************************************************)
(* The invariant behind ResultAsAsked: what each phase has done so far,    *)
(* said in terms of the archive and the arguments at the start.            *)
(***************************************************************************)

\* A member, or a file that may be missing.
Entry == [name : Names, ver : 0 .. MaxVersion]

N == Len(old)
L == Len(cmd.args)

\* a is what is left of the arguments when each of the first p members has taken the
\* one that names it, if any.
Dealt(a, p) ==
  a = [k \in DOMAIN cmd.args |->
            IF Asked(cmd.args[k], k) <= Found(cmd.args[k], p) THEN NULL ELSE cmd.args[k]]

\* The members that stay, as they are written.
Source == IF cmd.key = "r" THEN Replaced ELSE old
StayAt == IF cmd.key = "r" THEN DOMAIN old ELSE DOMAIN old \ Matched
Stay(p) == Picked(Source, StayAt)[p]

\* t, the temporaries, have s cut in two at the only place of posname; while c is
\* BEFORE it has not been met.
Cut(s, c, t) ==
  IF c = BEFORE
  THEN t[BEFORE] = s /\ t[AFTER] = <<>> /\ \A i \in DOMAIN s : s[i].name # cmd.pos
  ELSE \E i \in DOMAIN s :
         /\ \A j \in DOMAIN s : s[j].name = cmd.pos <=> j = i
         /\ LET n == i - (IF cmd.b THEN 1 ELSE 0)
            IN t[BEFORE] = SubSeq(s, 1, n) /\ t[AFTER] = SubSeq(s, n + 1, Len(s))

Sorted(p) ==
  Cut(Stay(p), cur, tmp) /\ (cur = AFTER => \E i \in 1 .. p : old[i].name = cmd.pos)

Moved(p) == IF cmd.key = "m" THEN Picked(old, Matched)[p] ELSE <<>>

\* The files that x has made from the first p members.
Extracted(p) ==
  \A n \in Names :
    LET mine == {i \in Chosen : i <= p /\ old[i].name = n}
    IN file[n] = IF mine = {} THEN file0[n] ELSE old[Max(mine)].ver

\* Where run() is after p members.
Loop(p) ==
  /\ Dealt(argv, p)
  /\ Rewrites => cmd.args # <<>> /\ tmp[INDOT] = Moved(p) /\ (PlainPosition => Sorted(p))
  /\ cmd.key \in {"t", "p"} => out = Picked(old, Chosen)[p]
  /\ IF cmd.key = "x" THEN Extracted(p) ELSE file = file0

\* insert() has dealt with the first q arguments.
Inserting(q) ==
  /\ argv = [k \in DOMAIN cmd.args |-> IF k <= q \/ k \notin Unmatched THEN NULL ELSE cmd.args[k]]
  /\ tmp[INDOT] = Picked(NewOnes, Unmatched)[q]

\* The temporaries are complete.
Middle == IF cmd.key = "r" THEN Pick(NewOnes, Unmatched) ELSE Moved(N)
Complete ==
  /\ Rewrites /\ cmd.args # <<>>
  /\ PlainPosition => Sorted(N)
  /\ tmp[INDOT] = Middle
  /\ Given = {} <=> cmd.key = "r" \/ Unmatched = {}

\* append() has dealt with the first q arguments.
Appending(q) ==
  /\ argv = [k \in DOMAIN cmd.args |-> IF k <= q THEN NULL ELSE cmd.args[k]]
  /\ pending = SubSeq(NewOnes, 1, q)

Joined(k) ==
  IF k = 1 THEN <<>>
  ELSE IF k = 2 THEN tmp[BEFORE]
  ELSE IF k = 3 THEN tmp[BEFORE] \o tmp[INDOT]
  ELSE (tmp[BEFORE] \o tmp[INDOT]) \o tmp[AFTER]

\* What ar has done is what was asked.
Result ==
  /\ cmd.args # <<>> /\ Rewrites => arch.st = "ok"
  /\ PlainPosition /\ arch.st = "ok" => arch.mem = Expected
  /\ cmd.key \in {"t", "p"} => out = Pick(old, Chosen)
  /\ cmd.key = "x" => \A n \in Names :
       LET mine == {i \in Chosen : old[i].name = n}
       IN file[n] = IF mine = {} THEN file0[n] ELSE old[Max(mine)].ver
  /\ Given = {} <=> cmd.args = <<>> \/ cmd.key \in {"r", "q"} \/ Unmatched = {}

Untouched ==
  /\ at = 1 /\ cur = BEFORE /\ tmp = [d \in Dots |-> <<>>] /\ out = <<>>
  /\ file = file0 /\ argv = cmd.args

History == file0 \in [Names -> 0 .. MaxVersion] /\ (arch0.st \in {"absent", "foreign"} => old = <<>>)

Progress ==
  Running =>
    /\ pc # "main" => ~Usage
    /\ pc \in {"main", "open", "opentmp", "append"} => at = 1
    /\ pc \in {"main", "open", "opentmp"} => Untouched
    /\ pc = "opentmp" => Rewrites /\ cmd.args # <<>> /\ arch.mem = old
    /\ pc = "run" => arch.mem = old /\ \E p \in 0 .. N : at = p + 1 /\ Loop(p)
    /\ pc = "insert" => /\ cmd.key = "r" /\ cmd.args # <<>> /\ file = file0
                        /\ PlainPosition => Sorted(N)
                        /\ \E q \in 0 .. L : Inserting(q)
    /\ pc = "merge" => Complete
    /\ pc = "copy" => Complete /\ at \in 1 .. 4 /\ pending = Joined(at)
    /\ pc = "append" => cmd.key = "q" /\ file = file0 /\ arch.mem = old /\ \E q \in 0 .. L : Appending(q)
    /\ pc = "end" => Result /\ pending = <<>>

Ended == pc = "end" /\ ~Running /\ outcome # "killed" =>
           Result /\ (outcome = "ok" <=> Given = {})

RInv == History /\ Progress /\ Ended

(***************************************************************************)
(* Counting and picking.                                                   *)
(***************************************************************************)

\* How many of the first k numbers are in P.
Number(P, k) == Cardinality({i \in 1 .. k : i \in P})

LEMMA Numbers ==
  ASSUME NEW P
  PROVE  /\ Number(P, 0) = 0
         /\ \A k \in Nat : /\ Number(P, k) \in Nat
                           /\ Number(P, k + 1) = Number(P, k) + (IF k + 1 \in P THEN 1 ELSE 0)
         /\ \A j, k \in Nat : j <= k => Number(P, j) <= Number(P, k)
<1>1. Number(P, 0) = 0
  <2>1. {i \in 1 .. 0 : i \in P} = {}
    OBVIOUS
  <2> QED BY <2>1, FS_EmptySet DEF Number
<1>2. ASSUME NEW k \in Nat
      PROVE  IsFiniteSet({i \in 1 .. k : i \in P}) /\ Number(P, k) \in Nat
  <2>1. IsFiniteSet(1 .. k)
    BY FS_Interval
  <2>2. {i \in 1 .. k : i \in P} \in SUBSET (1 .. k)
    OBVIOUS
  <2>3. IsFiniteSet({i \in 1 .. k : i \in P})
    BY <2>1, <2>2, FS_Subset
  <2> QED BY <2>3, FS_CardinalityType DEF Number
<1>3. ASSUME NEW k \in Nat
      PROVE  Number(P, k + 1) = Number(P, k) + (IF k + 1 \in P THEN 1 ELSE 0)
  <2> DEFINE T == {i \in 1 .. k : i \in P}
  <2>1. IsFiniteSet(T) /\ Number(P, k) = Cardinality(T) /\ Number(P, k) \in Nat
    BY <1>2 DEF Number
  <2>2. CASE k + 1 \in P
    <3>1. {i \in 1 .. k + 1 : i \in P} = T \cup {k + 1} /\ k + 1 \notin T
      BY <2>2
    <3> HIDE DEF T
    <3>2. Cardinality(T \cup {k + 1}) = Cardinality(T) + 1
      BY <2>1, <3>1, FS_AddElement
    <3> QED BY <2>1, <2>2, <3>1, <3>2 DEF Number
  <2>3. CASE k + 1 \notin P
    <3>1. {i \in 1 .. k + 1 : i \in P} = T
      BY <2>3
    <3> QED BY <2>1, <2>3, <3>1 DEF Number
  <2> QED BY <2>2, <2>3
<1>4. ASSUME NEW j \in Nat, NEW k \in Nat, j <= k PROVE Number(P, j) <= Number(P, k)
  <2>1. {i \in 1 .. j : i \in P} \in SUBSET {i \in 1 .. k : i \in P}
    BY <1>4
  <2>2. IsFiniteSet({i \in 1 .. k : i \in P})
    BY <1>2
  <2> QED BY <2>1, <2>2, FS_Subset DEF Number
<1> QED BY <1>1, <1>2, <1>3, <1>4


\* A name is asked for, and found, once more where it stands.
LEMMA AskedGrows ==
  ASSUME NEW n
  PROVE  /\ Asked(n, 0) = 0
         /\ \A k \in Nat : /\ Asked(n, k) \in Nat
                           /\ Asked(n, k + 1) = Asked(n, k) + (IF cmd.args[k + 1] = n THEN 1 ELSE 0)
         /\ \A j, k \in Nat : j <= k => Asked(n, j) <= Asked(n, k)
<1> DEFINE P == {i \in Nat : cmd.args[i] = n}
<1>1. ASSUME NEW k \in Nat PROVE Asked(n, k) = Number(P, k)
  <2>1. {i \in 1 .. k : cmd.args[i] = n} = {i \in 1 .. k : i \in P}
    OBVIOUS
  <2> QED BY <2>1 DEF Asked, Number
<1>2. \A k \in Nat : k + 1 \in Nat /\ (k + 1 \in P <=> cmd.args[k + 1] = n)
  OBVIOUS
<1> HIDE DEF P
<1>3. Asked(n, 0) = 0
  BY <1>1, Numbers
<1>4. ASSUME NEW k \in Nat
      PROVE  Asked(n, k) \in Nat /\ Asked(n, k + 1) = Asked(n, k) + (IF cmd.args[k + 1] = n THEN 1 ELSE 0)
  <2>1. k + 1 \in Nat /\ Asked(n, k) = Number(P, k) /\ Asked(n, k + 1) = Number(P, k + 1)
    BY <1>1
  <2>2. Number(P, k) \in Nat /\ Number(P, k + 1) = Number(P, k) + (IF k + 1 \in P THEN 1 ELSE 0)
    BY Numbers
  <2> QED BY <1>2, <2>1, <2>2
<1>5. ASSUME NEW j \in Nat, NEW k \in Nat, j <= k PROVE Asked(n, j) <= Asked(n, k)
  <2>1. Number(P, j) <= Number(P, k)
    BY <1>5, Numbers
  <2> QED BY <1>1, <2>1
<1> QED BY <1>3, <1>4, <1>5

LEMMA FoundGrows ==
  ASSUME NEW n
  PROVE  /\ Found(n, 0) = 0
         /\ \A k \in Nat : /\ Found(n, k) \in Nat
                           /\ Found(n, k + 1) = Found(n, k) + (IF old[k + 1].name = n THEN 1 ELSE 0)
         /\ \A j, k \in Nat : j <= k => Found(n, j) <= Found(n, k)
<1> DEFINE P == {i \in Nat : old[i].name = n}
<1>1. ASSUME NEW k \in Nat PROVE Found(n, k) = Number(P, k)
  <2>1. {i \in 1 .. k : old[i].name = n} = {i \in 1 .. k : i \in P}
    OBVIOUS
  <2> QED BY <2>1 DEF Found, Number
<1>2. \A k \in Nat : k + 1 \in Nat /\ (k + 1 \in P <=> old[k + 1].name = n)
  OBVIOUS
<1> HIDE DEF P
<1>3. Found(n, 0) = 0
  BY <1>1, Numbers
<1>4. ASSUME NEW k \in Nat
      PROVE  Found(n, k) \in Nat /\ Found(n, k + 1) = Found(n, k) + (IF old[k + 1].name = n THEN 1 ELSE 0)
  <2>1. k + 1 \in Nat /\ Found(n, k) = Number(P, k) /\ Found(n, k + 1) = Number(P, k + 1)
    BY <1>1
  <2>2. Number(P, k) \in Nat /\ Number(P, k + 1) = Number(P, k) + (IF k + 1 \in P THEN 1 ELSE 0)
    BY Numbers
  <2> QED BY <1>2, <2>1, <2>2
<1>5. ASSUME NEW j \in Nat, NEW k \in Nat, j <= k PROVE Found(n, j) <= Found(n, k)
  <2>1. Number(P, j) <= Number(P, k)
    BY <1>5, Numbers
  <2> QED BY <1>1, <2>1
<1> QED BY <1>3, <1>4, <1>5

\* The count exceeds c for the first time at an argument called n.
LEMMA NotYetAsked ==
  ASSUME NEW n, NEW c \in Nat, NEW j \in Nat,
         \A i \in 1 .. j : cmd.args[i] = n => Asked(n, i) <= c
  PROVE  Asked(n, j) <= c
<1> DEFINE I == {k \in Nat : k <= j => Asked(n, k) <= c}
<1>1. 0 \in I
  BY AskedGrows
<1>2. ASSUME NEW k \in Nat, k \in I PROVE k + 1 \in I
  <2>1. SUFFICES ASSUME k + 1 <= j PROVE Asked(n, k + 1) <= c
    OBVIOUS
  <2>2. k + 1 \in 1 .. j /\ k <= j /\ Asked(n, k) <= c
    BY <1>2, <2>1
  <2>3. CASE cmd.args[k + 1] = n
    BY <2>2, <2>3
  <2>4. CASE cmd.args[k + 1] # n
    <3>1. Asked(n, k + 1) = Asked(n, k) + 0 /\ Asked(n, k) \in Nat
      BY <2>4, AskedGrows
    <3> QED BY <2>2, <3>1
  <2> QED BY <2>3, <2>4
<1> HIDE DEF I
<1>3. j \in I
  BY <1>1, <1>2, AllNumbers
<1> QED BY <1>3 DEF I

\* Picked() is the run that its recursion describes.
PicksAt(f, s, I, k) == f[k] = IF k \in I THEN Append(f[k - 1], s[k]) ELSE f[k - 1]
LEMMA PickedRun ==
  ASSUME NEW S, NEW s \in Seq(S), NEW I
  PROVE  /\ Picked(s, I) \in [0 .. Len(s) -> Seq(S)]
         /\ Picked(s, I)[0] = <<>>
         /\ \A k \in 1 .. Len(s) : PicksAt(Picked(s, I), s, I, k)
<1> DEFINE n == Len(s)
<1> DEFINE none == <<>>
<1> DEFINE step == [k \in 1 .. n |-> [x \in Seq(S) |-> IF k \in I THEN Append(x, s[k]) ELSE x]]
<1>1. n \in Nat /\ none \in Seq(S) /\ \A k \in 1 .. n : s[k] \in S
  OBVIOUS
<1>2. step \in [1 .. n -> [Seq(S) -> Seq(S)]]
  BY <1>1
<1>3. ASSUME NEW k \in 1 .. n, NEW x \in Seq(S)
      PROVE  step[k][x] = IF k \in I THEN Append(x, s[k]) ELSE x
  OBVIOUS
<1>4. Picked(s, I) = CHOOSE f : f = [k \in 0 .. n |-> IF k = 0 THEN none
                                      ELSE IF k \in I THEN Append(f[k - 1], s[k]) ELSE f[k - 1]]
  BY DEF Picked
<1> HIDE DEF n, none, step
<1>5. PICK g : Run(g, n, Seq(S), none, step)
  BY <1>1, <1>2, RunExists
<1>6. /\ g \in [0 .. n -> Seq(S)] /\ g[0] = none
      /\ \A k \in 1 .. n : g[k] = step[k][g[k - 1]]
  BY <1>5 DEF Run
<1>7. ASSUME NEW k \in 1 .. n PROVE PicksAt(g, s, I, k)
  <2>1. k - 1 \in 0 .. n
    BY <1>1
  <2> QED BY <1>3, <1>6, <2>1 DEF PicksAt
<1>8. g = [k \in 0 .. n |-> IF k = 0 THEN none
                            ELSE IF k \in I THEN Append(g[k - 1], s[k]) ELSE g[k - 1]]
  <2>1. ASSUME NEW k \in 0 .. n
        PROVE  g[k] = IF k = 0 THEN none ELSE IF k \in I THEN Append(g[k - 1], s[k]) ELSE g[k - 1]
    <3>1. k = 0 \/ k \in 1 .. n
      BY <1>1
    <3> QED BY <1>1, <1>6, <1>7, <3>1 DEF PicksAt
  <2> QED BY <1>6, <2>1
<1> DEFINE f == Picked(s, I)
<1>9. f = [k \in 0 .. n |-> IF k = 0 THEN none
                            ELSE IF k \in I THEN Append(f[k - 1], s[k]) ELSE f[k - 1]]
  BY <1>4, <1>8
<1> HIDE DEF f
<1>10. f[0] = none
  BY <1>1, <1>9
<1>11. ASSUME NEW k \in 1 .. n PROVE PicksAt(f, s, I, k)
  <2>1. k \in 0 .. n /\ k # 0
    BY <1>1
  <2>2. f[k] = IF k = 0 THEN none ELSE IF k \in I THEN Append(f[k - 1], s[k]) ELSE f[k - 1]
    BY <1>9, <2>1
  <2> QED BY <2>1, <2>2 DEF PicksAt
<1>12. GoAlike(f, g, n)
  BY <1>6, <1>7, <1>10, <1>11 DEF GoAlike, PicksAt
<1>13. \A k \in 0 .. n : f[k] = g[k]
  BY <1>1, <1>12, SameRun
<1>14. f \in [0 .. n -> Seq(S)]
  <2>1. DOMAIN f = 0 .. n /\ f = [k \in DOMAIN f |-> f[k]]
    BY <1>9
  <2> QED BY <1>6, <1>13, <2>1
<1> QED BY <1>10, <1>11, <1>14 DEF f, n, none

\* Nothing is picked between q and k.
LEMMA PickedSame ==
  ASSUME NEW S, NEW s \in Seq(S), NEW I, NEW q \in 0 .. Len(s), NEW k \in q .. Len(s),
         \A i \in q + 1 .. k : i \notin I
  PROVE  Picked(s, I)[k] = Picked(s, I)[q]
<1> DEFINE f == Picked(s, I)
<1> DEFINE J == {i \in Nat : i >= q /\ i <= k => f[i] = f[q]}
<1>0. Len(s) \in Nat /\ q \in Nat /\ k \in Nat /\ q <= k /\ k <= Len(s)
  OBVIOUS
<1>1. 0 \in J
  BY <1>0
<1>2. ASSUME NEW i \in Nat, i \in J PROVE i + 1 \in J
  <2>1. SUFFICES ASSUME i + 1 >= q, i + 1 <= k, i + 1 # q PROVE f[i + 1] = f[q]
    BY <1>0
  <2>2. i >= q /\ i <= k /\ i + 1 \in 1 .. Len(s) /\ i + 1 \in q + 1 .. k /\ (i + 1) - 1 = i
    BY <1>0, <2>1
  <2>3. f[i] = f[q] /\ i + 1 \notin I
    BY <1>2, <2>2
  <2>4. PicksAt(f, s, I, i + 1)
    BY <2>2, PickedRun
  <2> QED BY <2>2, <2>3, <2>4 DEF PicksAt
<1> HIDE DEF J
<1>3. k \in J
  BY <1>0, <1>1, <1>2, AllNumbers
<1> QED BY <1>0, <1>3 DEF J

\* Everything is picked.
LEMMA PickedAll ==
  ASSUME NEW S, NEW s \in Seq(S), NEW I, 1 .. Len(s) \subseteq I
  PROVE  \A k \in 0 .. Len(s) : Picked(s, I)[k] = SubSeq(s, 1, k)
<1> DEFINE f == Picked(s, I)
<1> DEFINE g == [k \in 0 .. Len(s) |-> SubSeq(s, 1, k)]
<1>0. Len(s) \in Nat
  OBVIOUS
<1>1. f[0] = g[0]
  <2>1. SubSeq(s, 1, 0) = <<>> /\ 0 \in 0 .. Len(s)
    OBVIOUS
  <2> QED BY <2>1, PickedRun
<1>2. ASSUME NEW k \in 1 .. Len(s), f[k - 1] = g[k - 1] PROVE f[k] = g[k]
  <2>1. k - 1 \in 0 .. Len(s) /\ k \in 0 .. Len(s) /\ k \in I
    BY <1>0
  <2>2. PicksAt(f, s, I, k)
    BY PickedRun
  <2>3. Append(SubSeq(s, 1, k - 1), s[k]) = SubSeq(s, 1, k)
    BY <1>0
  <2> QED BY <1>2, <2>1, <2>2, <2>3 DEF PicksAt
<1> HIDE DEF f, g
<1>3. \A k \in 0 .. Len(s) : f[k] = g[k]
  BY <1>0, <1>1, <1>2, SameRun DEF GoAlike
<1> QED BY <1>3 DEF f, g

(***************************************************************************)
(* The arguments while the members are read.                               *)
(***************************************************************************)

LEMMA Shapes ==
  ASSUME TypeOK
  PROVE  /\ cmd.args \in Seq(Names) /\ L \in Nat /\ DOMAIN cmd.args = 1 .. L
         /\ \A k \in 1 .. L : cmd.args[k] \in Names
         /\ old \in Seq(Member) /\ N \in Nat /\ DOMAIN old = 1 .. N
         /\ \A i \in 1 .. N : old[i] \in Member /\ old[i].name \in Names
                              /\ old[i].ver \in 1 .. MaxVersion
         /\ cmd.key \in Keys /\ cmd.pos \in Names \cup {NULL} /\ cmd.b \in BOOLEAN
<1>1. cmd \in CommandLine /\ arch0 \in Archive
  BY DEF TypeOK
<1>2. cmd.args \in Seq(Names) /\ cmd.key \in Keys /\ cmd.pos \in Names \cup {NULL} /\ cmd.b \in BOOLEAN
  BY <1>1 DEF CommandLine
<1>3. old \in Seq(Member)
  BY <1>1 DEF Archive, old
<1>4. \A i \in 1 .. Len(old) : old[i] \in Member
  BY <1>3
<1>5. \A x \in Member : x.name \in Names /\ x.ver \in 1 .. MaxVersion
  BY DEF Member
<1> QED BY <1>2, <1>3, <1>4, <1>5 DEF L, N

\* A set of numbers has a least one.
LEMMA LeastNumber ==
  ASSUME NEW T \in SUBSET Nat, NEW x \in T
  PROVE  \E y \in T : \A z \in T : y <= z
<1>1. PICK y \in T : \A z \in T : ~ (<<z, y>> \in OpToRel(<, Nat))
  BY WFMin, NatLessThanWellFounded
<1>2. \A z \in T : z \in Nat /\ y \in Nat /\ ~ (z < y)
  BY <1>1 DEF OpToRel
<1> QED BY <1>2

\* What an argument that is left is.
LEMMA LeftIsGiven ==
  ASSUME TypeOK, NEW p \in 0 .. N, Dealt(argv, p)
  PROVE  /\ DOMAIN argv = 1 .. L
         /\ \A k \in 1 .. L :
              argv[k] = IF Asked(cmd.args[k], k) <= Found(cmd.args[k], p) THEN NULL ELSE cmd.args[k]
         /\ \A n : n \in Given <=> n # NULL /\ \E k \in 1 .. L : argv[k] = n
<1>1. DOMAIN cmd.args = 1 .. L
  BY Shapes
<1>2. /\ DOMAIN argv = 1 .. L
      /\ \A k \in 1 .. L :
           argv[k] = IF Asked(cmd.args[k], k) <= Found(cmd.args[k], p) THEN NULL ELSE cmd.args[k]
  BY <1>1 DEF Dealt
<1>3. \A n : n \in Given <=> n # NULL /\ \E k \in 1 .. L : argv[k] = n
  BY <1>2 DEF Given, ToSet
<1> QED BY <1>2, <1>3

\* A member is named by an argument that is left when it is one of those that the
\* arguments name.
LEMMA GivenIsMatched ==
  ASSUME TypeOK, NEW p \in 0 .. N, p < N, Dealt(argv, p)
  PROVE  old[p + 1].name \in Given <=> p + 1 \in Matched
<1> DEFINE n == old[p + 1].name
<1> DEFINE c == Found(n, p)
<1>1. /\ p \in Nat /\ p + 1 \in 1 .. N /\ n \in Names /\ n # NULL /\ L \in Nat /\ N \in Nat
      /\ DOMAIN old = 1 .. N
  BY Shapes, NullAssumption
<1>2. c \in Nat /\ Found(n, p + 1) = c + 1
  BY <1>1, FoundGrows
<1>3. p + 1 \in Matched <=> c + 1 <= Asked(n, L)
  BY <1>1, <1>2 DEF Matched, L
<1>4. \A k \in 1 .. L : argv[k] = n <=> cmd.args[k] = n /\ ~(Asked(n, k) <= c)
  BY <1>1, LeftIsGiven
<1>5. n \in Given <=> \E k \in 1 .. L : cmd.args[k] = n /\ ~(Asked(n, k) <= c)
  BY <1>1, <1>4, LeftIsGiven
<1> HIDE DEF n, c
<1>6. ASSUME NEW k \in 1 .. L, ~(Asked(n, k) <= c) PROVE c + 1 <= Asked(n, L)
  <2>1. k \in Nat /\ k <= L
    BY <1>1
  <2>2. Asked(n, k) <= Asked(n, L) /\ Asked(n, k) \in Nat /\ Asked(n, L) \in Nat
    BY <1>1, <2>1, AskedGrows
  <2> QED BY <1>2, <1>6, <2>2
<1>7. ASSUME \A k \in 1 .. L : cmd.args[k] = n => Asked(n, k) <= c PROVE ~(c + 1 <= Asked(n, L))
  <2>1. Asked(n, L) <= c /\ Asked(n, L) \in Nat
    BY <1>1, <1>2, <1>7, NotYetAsked, AskedGrows
  <2> QED BY <1>2, <2>1
<1>8. n \in Given <=> p + 1 \in Matched
  BY <1>3, <1>5, <1>6, <1>7
<1> QED BY <1>8 DEF n

\* A member that no argument is left for takes none.
LEMMA NotGivenDeals ==
  ASSUME TypeOK, NEW p \in 0 .. N, p < N, Dealt(argv, p), old[p + 1].name \notin Given
  PROVE  Dealt(argv, p + 1)
<1> DEFINE n == old[p + 1].name
<1>1. p \in Nat /\ p + 1 \in 1 .. N /\ n \in Names /\ n # NULL /\ L \in Nat /\ DOMAIN cmd.args = 1 .. L
  BY Shapes, NullAssumption
<1>2. Found(n, p) \in Nat /\ Found(n, p + 1) = Found(n, p) + 1
  BY <1>1, FoundGrows
<1>3. DOMAIN argv = 1 .. L /\ argv = [k \in DOMAIN argv |-> argv[k]]
  BY LeftIsGiven DEF Dealt
<1>4. ASSUME NEW k \in 1 .. L
      PROVE  argv[k] = IF Asked(cmd.args[k], k) <= Found(cmd.args[k], p + 1) THEN NULL ELSE cmd.args[k]
  <2>1. argv[k] = IF Asked(cmd.args[k], k) <= Found(cmd.args[k], p) THEN NULL ELSE cmd.args[k]
    BY LeftIsGiven
  <2>2. CASE cmd.args[k] = n
    <3>1. argv[k] # n
      BY <1>1, LeftIsGiven
    <3>2. Asked(n, k) <= Found(n, p) /\ argv[k] = NULL
      BY <2>1, <2>2, <3>1
    <3>3. k \in Nat
      OBVIOUS
    <3>4. Asked(n, k) \in Nat
      BY <3>3, AskedGrows
    <3> QED BY <1>2, <2>2, <3>2, <3>4
  <2>3. CASE cmd.args[k] # n
    <3>1. Found(cmd.args[k], p + 1) = Found(cmd.args[k], p) + 0 /\ Found(cmd.args[k], p) \in Nat
      BY <1>1, <2>3, FoundGrows
    <3>2. Found(cmd.args[k], p + 1) = Found(cmd.args[k], p)
      BY <3>1
    <3> QED BY <2>1, <3>2
  <2> QED BY <2>2, <2>3
<1> QED BY <1>1, <1>3, <1>4 DEF Dealt

\* inlist() takes the argument that belongs to the member.
LEMMA InlistDeals ==
  ASSUME TypeOK, NEW p \in 0 .. N, p < N, Dealt(argv, p),
         NEW rest, inlist(old[p + 1].name, rest)
  PROVE  Dealt(rest, p + 1)
<1> DEFINE n == old[p + 1].name
<1> DEFINE c == Found(n, p)
<1> DEFINE First(j) == j \in DOMAIN argv /\ argv[j] = n /\ \A i \in 1 .. j - 1 : argv[i] # n
<1>1. p \in Nat /\ p + 1 \in 1 .. N /\ n \in Names /\ n # NULL /\ L \in Nat /\ DOMAIN cmd.args = 1 .. L
  BY Shapes, NullAssumption
<1>2. c \in Nat /\ Found(n, p + 1) = c + 1
  BY <1>1, FoundGrows
<1>3. DOMAIN argv = 1 .. L
  BY LeftIsGiven
<1>4. PICK k : First(k) /\ rest = [argv EXCEPT ![k] = NULL]
  <2>1. PICK x \in 1 .. L : argv[x] = n
    BY <1>1, LeftIsGiven DEF inlist
  <2> DEFINE T == {j \in 1 .. L : argv[j] = n}
  <2>2. T \in SUBSET Nat /\ x \in T
    BY <1>1, <2>1
  <2>3. PICK y \in T : \A z \in T : y <= z
    BY <2>2, LeastNumber
  <2>4. First(y)
    <3>1. y \in 1 .. L /\ argv[y] = n
      OBVIOUS
    <3>2. ASSUME NEW i \in 1 .. y - 1 PROVE argv[i] # n
      <4>1. i \in 1 .. L /\ ~(y <= i)
        BY <1>1, <3>1
      <4> QED BY <2>3, <4>1
    <3> QED BY <1>3, <3>1, <3>2
  <2>5. LET j == CHOOSE j \in DOMAIN argv : argv[j] = n /\ \A i \in 1 .. j - 1 : argv[i] # n
        IN First(j) /\ rest = [argv EXCEPT ![j] = NULL]
    BY <2>4 DEF inlist
  <2> QED BY <2>5
<1> HIDE DEF n, c
<1>5. /\ k \in 1 .. L /\ argv[k] = n /\ \A i \in 1 .. k - 1 : argv[i] # n
      /\ k \in Nat /\ k - 1 \in Nat /\ (k - 1) + 1 = k /\ 1 .. k - 1 \subseteq 1 .. L
  BY <1>1, <1>3, <1>4
<1>6. \A i \in 1 .. L : argv[i] = IF Asked(cmd.args[i], i) <= Found(cmd.args[i], p) THEN NULL ELSE cmd.args[i]
  BY LeftIsGiven
<1>7. cmd.args[k] = n /\ ~(Asked(n, k) <= c)
  BY <1>1, <1>5, <1>6 DEF c
<1>8. Asked(n, k) = c + 1
  <2>1. \A i \in 1 .. k - 1 : cmd.args[i] = n => Asked(n, i) <= c
    <3>1. SUFFICES ASSUME NEW i \in 1 .. k - 1, cmd.args[i] = n PROVE Asked(n, i) <= c
      OBVIOUS
    <3>2. i \in 1 .. L /\ argv[i] # n
      BY <1>5
    <3> QED BY <1>6, <3>1, <3>2 DEF c
  <2>2. Asked(n, k - 1) <= c
    BY <1>2, <1>5, <2>1, NotYetAsked
  <2>3. Asked(n, k - 1) \in Nat /\ Asked(n, k) = Asked(n, k - 1) + 1
    BY <1>5, <1>7, AskedGrows
  <2> QED BY <1>2, <1>7, <2>2, <2>3
<1>9. DOMAIN rest = 1 .. L /\ rest[k] = NULL /\ \A i \in 1 .. L : i # k => rest[i] = argv[i]
  BY <1>3, <1>4, <1>5
<1>10. rest = [i \in DOMAIN rest |-> rest[i]]
  BY <1>4
<1>11. ASSUME NEW i \in 1 .. L
       PROVE  rest[i] = IF Asked(cmd.args[i], i) <= Found(cmd.args[i], p + 1) THEN NULL ELSE cmd.args[i]
  <2>1. CASE i = k
    BY <1>2, <1>7, <1>8, <1>9, <2>1
  <2>2. CASE i # k /\ cmd.args[i] # n
    <3>1. Found(cmd.args[i], p + 1) = Found(cmd.args[i], p) + 0 /\ Found(cmd.args[i], p) \in Nat
      BY <1>1, <2>2, FoundGrows DEF n
    <3>2. Found(cmd.args[i], p + 1) = Found(cmd.args[i], p)
      BY <3>1
    <3> QED BY <1>6, <1>9, <2>2, <3>2
  <2>3. CASE i < k /\ cmd.args[i] = n
    <3>1. i \in 1 .. k - 1
      BY <1>5, <2>3
    <3>2. Asked(n, i) <= c /\ rest[i] = NULL
      BY <1>5, <1>6, <1>9, <2>3, <3>1 DEF c
    <3>3. i \in Nat
      OBVIOUS
    <3>4. Asked(n, i) \in Nat
      BY <3>3, AskedGrows
    <3> QED BY <1>2, <2>3, <3>2, <3>4
  <2>4. CASE i > k /\ cmd.args[i] = n
    <3>1. i \in Nat /\ i - 1 \in Nat /\ (i - 1) + 1 = i /\ k <= i - 1
      BY <1>5, <2>4
    <3>2. Asked(n, k) <= Asked(n, i - 1) /\ Asked(n, i - 1) \in Nat
      BY <1>5, <3>1, AskedGrows
    <3>3. Asked(n, i) = Asked(n, i - 1) + 1
      BY <2>4, <3>1, AskedGrows
    <3>4. ~(Asked(n, i) <= c + 1) /\ ~(Asked(n, i) <= c)
      BY <1>2, <1>8, <3>2, <3>3
    <3>5. rest[i] = cmd.args[i]
      BY <1>6, <1>9, <2>4, <3>4 DEF c
    <3> QED BY <1>2, <2>4, <3>4, <3>5
  <2> QED BY <1>5, <2>1, <2>2, <2>3, <2>4
<1> QED BY <1>1, <1>9, <1>10, <1>11 DEF Dealt

\* At the end of the members the arguments left are those that name no member.
LEMMA LeftAreUnmatched ==
  ASSUME TypeOK, Dealt(argv, N)
  PROVE  /\ argv = [k \in DOMAIN cmd.args |-> IF k \notin Unmatched THEN NULL ELSE cmd.args[k]]
         /\ Given = {} <=> Unmatched = {}
<1>1. N \in Nat /\ N \in 0 .. N /\ L \in Nat /\ DOMAIN cmd.args = 1 .. L
  BY Shapes
<1>2. \A k \in 1 .. L : cmd.args[k] \in Names /\ cmd.args[k] # NULL
  BY Shapes, NullAssumption
<1>3. ASSUME NEW k \in 1 .. L
      PROVE  k \notin Unmatched <=> Asked(cmd.args[k], k) <= Found(cmd.args[k], N)
  <2>0. k \in Nat
    OBVIOUS
  <2>1. Asked(cmd.args[k], k) \in Nat /\ Found(cmd.args[k], N) \in Nat
    BY <1>1, <2>0, AskedGrows, FoundGrows
  <2> QED BY <1>1, <2>1 DEF Unmatched, N
<1>4. argv = [k \in DOMAIN cmd.args |-> IF k \notin Unmatched THEN NULL ELSE cmd.args[k]]
  BY <1>1, <1>3 DEF Dealt
<1>5. \A n : n \in Given <=> n # NULL /\ \E k \in 1 .. L : argv[k] = n
  BY <1>1, LeftIsGiven
<1>6. Unmatched \subseteq 1 .. L
  BY <1>1 DEF Unmatched
<1> QED BY <1>1, <1>2, <1>4, <1>5, <1>6

(***************************************************************************)
(* The members that stay.                                                  *)
(***************************************************************************)

\* Parts of a sequence that gets one more element.
LEMMA Longer ==
  ASSUME NEW S, NEW s \in Seq(S), NEW x \in S
  PROVE  /\ Append(s, x) \in Seq(S) /\ Len(Append(s, x)) = Len(s) + 1
         /\ DOMAIN Append(s, x) = 1 .. Len(s) + 1 /\ Append(s, x)[Len(s) + 1] = x
         /\ \A i \in 1 .. Len(s) : Append(s, x)[i] = s[i]
OBVIOUS

LEMMA PartsGrow ==
  ASSUME NEW S, NEW s \in Seq(S), NEW x \in S, NEW n \in 0 .. Len(s)
  PROVE  /\ SubSeq(Append(s, x), 1, n) = SubSeq(s, 1, n)
         /\ SubSeq(Append(s, x), n + 1, Len(s) + 1) = Append(SubSeq(s, n + 1, Len(s)), x)
<1>1. /\ Append(s, x) \in Seq(S) /\ Len(Append(s, x)) = Len(s) + 1
      /\ Append(s, x)[Len(s) + 1] = x /\ \A i \in 1 .. Len(s) : Append(s, x)[i] = s[i]
  BY Longer
<1>2. SubSeq(Append(s, x), 1, n) = SubSeq(s, 1, n)
  OBVIOUS
<1>3. SubSeq(Append(s, x), n + 1, Len(s) + 1) = Append(SubSeq(s, n + 1, Len(s)), x)
  <2> DEFINE a == SubSeq(Append(s, x), n + 1, Len(s) + 1)
  <2> DEFINE b == SubSeq(s, n + 1, Len(s))
  <2>1. Len(s) \in Nat /\ n \in Nat /\ n <= Len(s)
    OBVIOUS
  <2>2. \A i \in n + 1 .. Len(s) : s[i] \in S
    BY <2>1
  <2>3. b \in Seq(S) /\ Len(b) = Len(s) - n /\ \A i \in 1 .. Len(s) - n : b[i] = s[n + i]
    BY <2>1, <2>2, SubSeqProperties
  <2>4. \A i \in n + 1 .. Len(s) + 1 : Append(s, x)[i] \in S
    BY <1>1, <2>1
  <2>5. /\ a \in Seq(S) /\ Len(a) = Len(s) + 1 - n
        /\ \A i \in 1 .. Len(s) + 1 - n : a[i] = Append(s, x)[n + i]
    BY <2>1, <2>4, SubSeqProperties
  <2> HIDE DEF a, b
  <2>6. /\ Append(b, x) \in Seq(S) /\ Len(Append(b, x)) = Len(b) + 1
        /\ Append(b, x)[Len(b) + 1] = x /\ \A i \in 1 .. Len(b) : Append(b, x)[i] = b[i]
    BY <2>3, AppendProperties
  <2>7. ASSUME NEW i \in 1 .. Len(s) + 1 - n PROVE a[i] = Append(b, x)[i]
    <3>1. CASE i = Len(s) + 1 - n
      <4>1. Append(b, x)[Len(b) + 1] = x /\ i = Len(b) + 1 /\ n + i = Len(s) + 1
        BY <2>1, <2>3, <2>6, <3>1
      <4> QED BY <1>1, <2>5, <4>1
    <3>2. CASE i # Len(s) + 1 - n
      <4>1. i \in 1 .. Len(s) - n /\ n + i \in 1 .. Len(s)
        BY <2>1, <3>2
      <4>2. Append(b, x)[i] = b[i]
        BY <2>3, <2>6, <4>1
      <4> QED BY <1>1, <2>3, <2>5, <4>1, <4>2
    <3> QED BY <3>1, <3>2
  <2>8. Len(a) = Len(Append(b, x)) /\ Len(a) = Len(s) + 1 - n
    BY <2>1, <2>3, <2>5, <2>6
  <2>9. a = Append(b, x)
    BY <2>5, <2>6, <2>7, <2>8, SeqEqual
  <2> QED BY <2>9 DEF a, b
<1> QED BY <1>2, <1>3

\* The whole of a sequence, and nothing of it.
LEMMA PartsEnd ==
  ASSUME NEW S, NEW s \in Seq(S)
  PROVE  /\ SubSeq(s, 1, Len(s)) = s /\ SubSeq(s, Len(s) + 1, Len(s)) = <<>>
         /\ SubSeq(s, 1, 0) = <<>>
<1>1. SubSeq(s, 1, Len(s)) = s
  OBVIOUS
<1>2. SubSeq(s, Len(s) + 1, Len(s)) = <<>>
  OBVIOUS
<1>3. SubSeq(s, 1, 0) = <<>>
  OBVIOUS
<1> QED BY <1>1, <1>2, <1>3

LEMMA Entries == Member \subseteq Entry /\ Seq(Member) \subseteq Seq(Entry)
<1>1. Member \subseteq Entry
  BY DEF Member, Entry
<1>2. ASSUME NEW s \in Seq(Member) PROVE s \in Seq(Entry)
  BY <1>1
<1> QED BY <1>1, <1>2

\* A member that stays, written as x, is copied to its side of posname.
Adds(x) ==
  IF cmd.pos = x.name
  THEN Put(IF cmd.b THEN AFTER ELSE BEFORE, x) /\ cur' = AFTER
  ELSE Put(cur, x) /\ UNCHANGED cur

LEMMA CutGrows ==
  ASSUME TypeOK, NEW s \in Seq(Entry), NEW x \in Member, Adds(x), Cut(s, cur, tmp),
         cur = AFTER => x.name # cmd.pos
  PROVE  Cut(Append(s, x), cur', tmp') /\ tmp'[INDOT] = tmp[INDOT]
<1>1. /\ tmp \in [Dots -> Seq(Member)] /\ cur \in {BEFORE, AFTER} /\ x \in Entry
      /\ BEFORE # AFTER /\ BEFORE # INDOT /\ INDOT # AFTER /\ {BEFORE, INDOT, AFTER} \subseteq Dots
  BY Entries DEF TypeOK, BEFORE, INDOT, AFTER, Dots
<1>2. /\ tmp[BEFORE] \in Seq(Member) /\ tmp[AFTER] \in Seq(Member) /\ cmd.b \in BOOLEAN
      /\ tmp[BEFORE] \in Seq(Entry) /\ tmp[AFTER] \in Seq(Entry) /\ Len(s) \in Nat
      /\ DOMAIN s = 1 .. Len(s)
  BY <1>1, Shapes, Entries
<1> DEFINE t == Append(s, x)
<1>3. /\ t \in Seq(Entry) /\ Len(t) = Len(s) + 1
      /\ DOMAIN t = 1 .. Len(s) + 1 /\ t[Len(s) + 1] = x
      /\ \A i \in 1 .. Len(s) : t[i] = s[i]
  BY <1>1, Longer
<1>p. ASSUME NEW n \in 0 .. Len(s)
      PROVE  /\ SubSeq(t, 1, n) = SubSeq(s, 1, n)
             /\ SubSeq(t, n + 1, Len(s) + 1) = Append(SubSeq(s, n + 1, Len(s)), x)
  BY <1>1, PartsGrow
<1> HIDE DEF t
<1>4. CASE cur = BEFORE /\ x.name # cmd.pos
  <2>1. cur' = BEFORE /\ tmp' = [tmp EXCEPT ![BEFORE] = Append(tmp[BEFORE], x)]
    BY <1>4 DEF Adds, Put
  <2>2. tmp'[BEFORE] = Append(tmp[BEFORE], x) /\ tmp'[AFTER] = tmp[AFTER] /\ tmp'[INDOT] = tmp[INDOT]
    BY <1>1, <2>1
  <2>3. tmp[BEFORE] = s /\ tmp[AFTER] = <<>> /\ \A i \in DOMAIN s : s[i].name # cmd.pos
    BY <1>4 DEF Cut
  <2>4. \A i \in DOMAIN t : t[i].name # cmd.pos
    <3>1. \A i \in DOMAIN t : i = Len(s) + 1 \/ i \in 1 .. Len(s)
      BY <1>2, <1>3
    <3> QED BY <1>2, <1>3, <1>4, <2>3, <3>1
  <2> QED BY <2>1, <2>2, <2>3, <2>4 DEF Cut, t
<1>5. CASE cur = BEFORE /\ x.name = cmd.pos
  <2> DEFINE d == IF cmd.b THEN AFTER ELSE BEFORE
  <2> DEFINE i == Len(s) + 1
  <2>1. cur' = AFTER /\ tmp' = [tmp EXCEPT ![d] = Append(tmp[d], x)]
    BY <1>5 DEF Adds, Put
  <2>2. tmp[BEFORE] = s /\ tmp[AFTER] = <<>> /\ \A j \in DOMAIN s : s[j].name # cmd.pos
    BY <1>5 DEF Cut
  <2>3. i \in DOMAIN t /\ \A j \in DOMAIN t : t[j].name = cmd.pos <=> j = i
    <3>1. \A j \in DOMAIN t : j = i \/ (j \in 1 .. Len(s) /\ j # i)
      BY <1>2, <1>3
    <3> QED BY <1>2, <1>3, <1>5, <2>2, <3>1
  <2>4. CASE cmd.b
    <3>1. tmp'[BEFORE] = s /\ tmp'[AFTER] = Append(<<>>, x) /\ tmp'[INDOT] = tmp[INDOT]
      BY <1>1, <2>1, <2>2, <2>4
    <3>2. i - 1 = Len(s) /\ Len(s) \in 0 .. Len(s)
      BY <1>2
    <3>3. SubSeq(t, 1, Len(s)) = s
      BY <1>p, <3>2, PartsEnd
    <3>4. SubSeq(t, Len(s) + 1, Len(t)) = Append(<<>>, x)
      BY <1>3, <1>p, <3>2, PartsEnd
    <3> HIDE DEF i
    <3>5. cur' # BEFORE /\ i - 1 = Len(s) /\ (i - 1) + 1 = Len(s) + 1
      BY <1>1, <2>1, <3>2
    <3>6. tmp'[BEFORE] = SubSeq(t, 1, i - 1) /\ tmp'[AFTER] = SubSeq(t, (i - 1) + 1, Len(t))
      BY <3>1, <3>3, <3>4, <3>5
    <3> QED BY <2>3, <2>4, <3>1, <3>5, <3>6 DEF Cut, t
  <2>5. CASE ~cmd.b
    <3>1. tmp'[BEFORE] = Append(s, x) /\ tmp'[AFTER] = <<>> /\ tmp'[INDOT] = tmp[INDOT]
      BY <1>1, <2>1, <2>2, <2>5
    <3>2. i - 0 = Len(t)
      BY <1>2, <1>3
    <3>3. SubSeq(t, 1, Len(t)) = t /\ SubSeq(t, Len(t) + 1, Len(t)) = <<>>
      BY <1>3, PartsEnd
    <3> QED BY <1>1, <2>1, <2>3, <2>5, <3>1, <3>2, <3>3 DEF Cut, t
  <2> QED BY <1>2, <2>4, <2>5
<1>6. CASE cur = AFTER
  <2>1. cur' = AFTER /\ tmp' = [tmp EXCEPT ![AFTER] = Append(tmp[AFTER], x)]
    BY <1>6 DEF Adds, Put
  <2>2. tmp'[BEFORE] = tmp[BEFORE] /\ tmp'[AFTER] = Append(tmp[AFTER], x) /\ tmp'[INDOT] = tmp[INDOT]
    BY <1>1, <2>1
  <2>3. PICK i \in DOMAIN s :
          /\ \A j \in DOMAIN s : s[j].name = cmd.pos <=> j = i
          /\ LET n == i - (IF cmd.b THEN 1 ELSE 0)
             IN tmp[BEFORE] = SubSeq(s, 1, n) /\ tmp[AFTER] = SubSeq(s, n + 1, Len(s))
    BY <1>1, <1>6 DEF Cut
  <2> DEFINE n == i - (IF cmd.b THEN 1 ELSE 0)
  <2>4. n \in 0 .. Len(s) /\ tmp[BEFORE] = SubSeq(s, 1, n) /\ tmp[AFTER] = SubSeq(s, n + 1, Len(s))
    BY <1>2, <2>3
  <2>5. i \in DOMAIN t /\ \A j \in DOMAIN t : t[j].name = cmd.pos <=> j = i
    <3>1. \A j \in DOMAIN t : (j = Len(s) + 1 /\ j # i) \/ j \in 1 .. Len(s)
      BY <1>2, <1>3
    <3> QED BY <1>2, <1>3, <1>6, <2>3, <3>1
  <2>6. SubSeq(t, 1, n) = SubSeq(s, 1, n) /\ SubSeq(t, n + 1, Len(t)) = Append(SubSeq(s, n + 1, Len(s)), x)
    BY <1>3, <1>p, <2>4
  <2> HIDE DEF n
  <2>7. tmp'[BEFORE] = SubSeq(t, 1, n) /\ tmp'[AFTER] = SubSeq(t, n + 1, Len(t))
    BY <2>2, <2>4, <2>6
  <2>8. cur' # BEFORE
    BY <1>1, <2>1
  <2> QED BY <2>2, <2>5, <2>7, <2>8 DEF Cut, t, n
<1> QED BY <1>1, <1>4, <1>5, <1>6

\* The three temporaries, one after the other, have mid at the position.
LEMMA CutIsInsert ==
  ASSUME NEW s \in Seq(Entry), NEW mid \in Seq(Entry), NEW c, NEW t, Cut(s, c, t), cmd.b \in BOOLEAN
  PROVE  (t[BEFORE] \o mid) \o t[AFTER] = Insert(s, mid)
<1> DEFINE p == {i \in DOMAIN s : s[i].name = cmd.pos}
<1> DEFINE n == IF p = {} THEN Len(s) ELSE (CHOOSE i \in p : TRUE) - (IF cmd.b THEN 1 ELSE 0)
<1>1. Insert(s, mid) = SubSeq(s, 1, n) \o mid \o SubSeq(s, n + 1, Len(s))
  BY DEF Insert
<1>2. t[BEFORE] = SubSeq(s, 1, n) /\ t[AFTER] = SubSeq(s, n + 1, Len(s))
  <2>1. CASE c = BEFORE
    <3>1. t[BEFORE] = s /\ t[AFTER] = <<>> /\ \A i \in DOMAIN s : s[i].name # cmd.pos
      BY <2>1 DEF Cut
    <3>2. n = Len(s)
      BY <3>1
    <3> QED BY <3>1, <3>2, PartsEnd
  <2>2. CASE c # BEFORE
    <3>1. PICK i \in DOMAIN s :
            /\ \A j \in DOMAIN s : s[j].name = cmd.pos <=> j = i
            /\ LET k == i - (IF cmd.b THEN 1 ELSE 0)
               IN t[BEFORE] = SubSeq(s, 1, k) /\ t[AFTER] = SubSeq(s, k + 1, Len(s))
      BY <2>2 DEF Cut
    <3>2. p = {i}
      BY <3>1
    <3>3. (CHOOSE j \in p : TRUE) = i
      BY <3>2
    <3>4. n = i - (IF cmd.b THEN 1 ELSE 0)
      BY <3>2, <3>3
    <3> HIDE DEF n
    <3> QED BY <3>1, <3>4
  <2> QED BY <2>1, <2>2
<1> HIDE DEF n
<1> QED BY <1>1, <1>2

\* What the definitions of the result are made of does not change.
LEMMA Fixed ==
  ASSUME UNCHANGED history
  PROVE  /\ cmd' = cmd /\ file0' = file0 /\ arch0' = arch0 /\ old' = old /\ N' = N /\ L' = L
         /\ Matched' = Matched /\ Unmatched' = Unmatched /\ Chosen' = Chosen
         /\ NewOnes' = NewOnes /\ Source' = Source /\ StayAt' = StayAt
         /\ PlainPosition' = PlainPosition /\ Rewrites' = Rewrites /\ Usage' = Usage
         /\ History' = History
<1>1. cmd' = cmd /\ file0' = file0 /\ arch0' = arch0
  BY DEF history
<1>2. old' = old
  BY <1>1 DEF old
<1>3. N' = N /\ L' = L /\ Rewrites' = Rewrites /\ Usage' = Usage
  BY <1>1, <1>2 DEF N, L, Rewrites, Usage
<1>4. \A n, k : Asked(n, k)' = Asked(n, k) /\ Found(n, k)' = Found(n, k)
  BY <1>1, <1>2 DEF Asked, Found
<1>5. Matched' = Matched
  BY <1>1, <1>2 DEF Matched, Asked, Found
<1>6. Unmatched' = Unmatched
  BY <1>1, <1>2 DEF Unmatched, Asked, Found
<1>7. Chosen' = Chosen
  BY <1>1, <1>2, <1>5 DEF Chosen
<1>8. NewOnes' = NewOnes
  BY <1>1 DEF NewOnes, Current
<1>9. Replaced' = Replaced
  BY <1>1, <1>2, <1>5 DEF Replaced, Current
<1>10. Source' = Source /\ StayAt' = StayAt
  BY <1>1, <1>2, <1>5, <1>9 DEF Source, StayAt
<1>11. PlainPosition' = PlainPosition
  BY <1>1, <1>2 DEF PlainPosition, Found
<1>12. History' = History
  BY <1>1, <1>2 DEF History
<1> QED BY <1>1, <1>2, <1>3, <1>5, <1>6, <1>7, <1>8, <1>10, <1>11, <1>12

LEMMA FixedParts ==
  ASSUME UNCHANGED history, NEW p
  PROVE  /\ Dealt(argv, p)' <=> Dealt(argv', p)
         /\ Stay(p)' = Stay(p) /\ Moved(p)' = Moved(p)
         /\ Picked(old, Chosen)' = Picked(old, Chosen)
         /\ Picked(NewOnes, Unmatched)' = Picked(NewOnes, Unmatched)
         /\ Cut(Stay(p), cur, tmp)' <=> Cut(Stay(p), cur', tmp')
<1>1. /\ cmd' = cmd /\ old' = old /\ Source' = Source /\ StayAt' = StayAt
      /\ Matched' = Matched /\ Chosen' = Chosen /\ NewOnes' = NewOnes /\ Unmatched' = Unmatched
  BY Fixed
<1>2. Dealt(argv, p)' <=> Dealt(argv', p)
  BY <1>1 DEF Dealt, Asked, Found
<1>3. Stay(p)' = Stay(p)
  BY <1>1 DEF Stay, Picked
<1>4. Moved(p)' = Moved(p)
  BY <1>1 DEF Moved, Picked
<1>5. Picked(old, Chosen)' = Picked(old, Chosen)
  BY <1>1 DEF Picked
<1>6. Picked(NewOnes, Unmatched)' = Picked(NewOnes, Unmatched)
  BY <1>1 DEF Picked
<1>7. Cut(Stay(p), cur, tmp)' <=> Cut(Stay(p), cur', tmp')
  BY <1>1, <1>3 DEF Cut
<1> QED BY <1>2, <1>3, <1>4, <1>5, <1>6, <1>7

\* The members as they are written.
LEMMA SourceFacts ==
  ASSUME TypeOK, History
  PROVE  /\ Source \in Seq(Entry) /\ Len(Source) = N /\ old \in Seq(Entry)
         /\ \A i \in 1 .. N : Source[i].name = old[i].name
         /\ NewOnes \in Seq(Entry) /\ Len(NewOnes) = L
         /\ \A k \in 1 .. L : NewOnes[k] = Current(cmd.args[k])
<1>1. /\ old \in Seq(Member) /\ N \in Nat /\ DOMAIN old = 1 .. N /\ Len(old) = N
      /\ \A i \in 1 .. N : old[i] \in Member /\ old[i].name \in Names
      /\ L \in Nat /\ DOMAIN cmd.args = 1 .. L /\ \A k \in 1 .. L : cmd.args[k] \in Names
  BY Shapes DEF N
<1>2. \A n \in Names : Current(n) \in Entry /\ Current(n).name = n
  BY DEF Current, Entry, History
<1>3. old \in Seq(Entry) /\ \A i \in 1 .. N : old[i] \in Entry
  BY <1>1, Entries
<1>4. \A i \in 1 .. N : Replaced[i] \in Entry /\ Replaced[i].name = old[i].name
  BY <1>1, <1>2, <1>3 DEF Replaced
<1>5. Replaced \in [1 .. N -> Entry]
  BY <1>1, <1>4 DEF Replaced
<1>6. Replaced \in Seq(Entry) /\ Len(Replaced) = N
  BY <1>1, <1>5
<1>7. /\ NewOnes \in [1 .. L -> Entry]
      /\ \A k \in 1 .. L : NewOnes[k] = Current(cmd.args[k])
  BY <1>1, <1>2 DEF NewOnes
<1>8. NewOnes \in Seq(Entry) /\ Len(NewOnes) = L
  BY <1>1, <1>7
<1> QED BY <1>1, <1>3, <1>4, <1>6, <1>7, <1>8 DEF Source

\* One more member is picked, or not.
LEMMA PickNext ==
  ASSUME NEW S, NEW s \in Seq(S), NEW I, NEW p \in Nat, p < Len(s)
  PROVE  /\ Picked(s, I)[p] \in Seq(S)
         /\ p + 1 \in I => Picked(s, I)[p + 1] = Append(Picked(s, I)[p], s[p + 1])
         /\ p + 1 \notin I => Picked(s, I)[p + 1] = Picked(s, I)[p]
<1>1. Len(s) \in Nat
  OBVIOUS
<1>2. p + 1 \in 1 .. Len(s) /\ (p + 1) - 1 = p /\ p \in 0 .. Len(s)
  BY <1>1
<1>3. Picked(s, I) \in [0 .. Len(s) -> Seq(S)] /\ PicksAt(Picked(s, I), s, I, p + 1)
  BY <1>2, PickedRun
<1> QED BY <1>2, <1>3 DEF PicksAt

\* The position, when it is plain, is met once.
LEMMA PlainOnce ==
  ASSUME TypeOK, PlainPosition, NEW i \in 1 .. N, NEW j \in 1 .. N, i < j,
         old[i].name = cmd.pos, old[j].name = cmd.pos
  PROVE  FALSE
<1>1. /\ N \in Nat /\ i \in Nat /\ j \in Nat /\ j - 1 \in Nat /\ (j - 1) + 1 = j /\ i <= j - 1 /\ j <= N
      /\ i - 1 \in Nat /\ (i - 1) + 1 = i
      /\ old[i].name \in Names
  BY Shapes
<1>2. Found(cmd.pos, N) <= 1
  BY <1>1, NullAssumption DEF PlainPosition, N
<1>3. Found(cmd.pos, i - 1) \in Nat /\ Found(cmd.pos, i) = Found(cmd.pos, i - 1) + 1
  BY <1>1, FoundGrows
<1>4. Found(cmd.pos, j - 1) \in Nat /\ Found(cmd.pos, j) = Found(cmd.pos, j - 1) + 1
  BY <1>1, FoundGrows
<1>5. Found(cmd.pos, i) <= Found(cmd.pos, j - 1) /\ Found(cmd.pos, j) <= Found(cmd.pos, N)
  BY <1>1, FoundGrows
<1>6. Found(cmd.pos, N) \in Nat
  BY <1>1, FoundGrows
<1> QED BY <1>2, <1>3, <1>4, <1>5, <1>6

\* A member that stays goes where it belongs.
LEMMA StaysSorted ==
  ASSUME TypeOK, History, UNCHANGED history, PlainPosition,
         NEW p \in 0 .. N, p < N, Sorted(p), p + 1 \in StayAt,
         NEW x \in Member, x = Source[p + 1], Adds(x)
  PROVE  Sorted(p + 1)'
<1>1. p \in Nat /\ N \in Nat /\ p + 1 \in 1 .. N
  BY Shapes
<1>2. Source \in Seq(Entry) /\ Len(Source) = N /\ x.name = old[p + 1].name
  BY <1>1, SourceFacts
<1>3. Stay(p) \in Seq(Entry) /\ Stay(p + 1) = Append(Stay(p), x)
  BY <1>1, <1>2, PickNext DEF Stay
<1>4. Cut(Stay(p), cur, tmp) /\ (cur = AFTER => \E i \in 1 .. p : old[i].name = cmd.pos)
  BY DEF Sorted
<1>5. cur = AFTER => x.name # cmd.pos
  <2>1. SUFFICES ASSUME cur = AFTER, x.name = cmd.pos PROVE FALSE
    OBVIOUS
  <2>2. PICK i \in 1 .. p : old[i].name = cmd.pos
    BY <1>4, <2>1
  <2>3. i \in 1 .. N /\ i < p + 1
    BY <1>1
  <2> QED BY <1>1, <1>2, <2>1, <2>2, <2>3, PlainOnce
<1>6. Cut(Stay(p + 1), cur', tmp')
  BY <1>3, <1>4, <1>5, CutGrows
<1>7. cur' = AFTER => \E i \in 1 .. p + 1 : old[i].name = cmd.pos
  <2>1. cur' = AFTER => cur = AFTER \/ cmd.pos = x.name
    BY DEF Adds
  <2>2. 1 .. p \subseteq 1 .. p + 1 /\ p + 1 \in 1 .. p + 1
    BY <1>1
  <2> QED BY <1>2, <1>4, <2>1, <2>2
<1>8. Cut(Stay(p + 1), cur, tmp)'
  BY <1>6, FixedParts
<1>9. (cur = AFTER => \E i \in 1 .. p + 1 : old[i].name = cmd.pos)'
  BY <1>7, Fixed
<1> QED BY <1>8, <1>9 DEF Sorted

\* A member that goes leaves the others where they are.
LEMMA LeavesSorted ==
  ASSUME TypeOK, History, UNCHANGED history,
         NEW p \in 0 .. N, p < N, Sorted(p), p + 1 \notin StayAt,
         cur' = cur, tmp'[BEFORE] = tmp[BEFORE], tmp'[AFTER] = tmp[AFTER]
  PROVE  Sorted(p + 1)'
<1>1. p \in Nat /\ N \in Nat /\ p + 1 \in 1 .. N
  BY Shapes
<1>2. Source \in Seq(Entry) /\ Len(Source) = N
  BY SourceFacts
<1>3. Stay(p + 1) = Stay(p)
  BY <1>1, <1>2, PickNext DEF Stay
<1>4. Cut(Stay(p), cur, tmp) /\ (cur = AFTER => \E i \in 1 .. p : old[i].name = cmd.pos)
  BY DEF Sorted
<1>5. Cut(Stay(p + 1), cur', tmp')
  BY <1>3, <1>4 DEF Cut
<1>6. cur' = AFTER => \E i \in 1 .. p + 1 : old[i].name = cmd.pos
  <2>1. 1 .. p \subseteq 1 .. p + 1
    BY <1>1
  <2> QED BY <1>4, <2>1
<1>7. Cut(Stay(p + 1), cur, tmp)'
  BY <1>5, FixedParts
<1>8. (cur = AFTER => \E i \in 1 .. p + 1 : old[i].name = cmd.pos)'
  BY <1>6, Fixed
<1> QED BY <1>7, <1>8 DEF Sorted

(***************************************************************************)
(* One turn of the loop of run().                                          *)
(***************************************************************************)

LEMMA DealtNext ==
  ASSUME TypeOK, NEW p \in 0 .. N, p < N, Dealt(argv, p),
         \/ inlist(old[p + 1].name, argv')
         \/ (old[p + 1].name \notin Given /\ argv' = argv)
  PROVE  Dealt(argv', p + 1)
BY InlistDeals, NotGivenDeals

LEMMA LoopFrom ==
  ASSUME UNCHANGED history, NEW q, Dealt(argv', q),
         Rewrites => cmd.args # <<>> /\ tmp'[INDOT] = Moved(q) /\ (PlainPosition => Sorted(q)'),
         cmd.key \in {"t", "p"} => out' = Picked(old, Chosen)[q],
         cmd.key = "x" => Extracted(q)', cmd.key # "x" => file' = file0
  PROVE  Loop(q)'
<1>1. Dealt(argv, q)'
  BY FixedParts
<1>2. (Rewrites => cmd.args # <<>> /\ tmp[INDOT] = Moved(q) /\ (PlainPosition => Sorted(q)))'
  BY Fixed, FixedParts
<1>3. (cmd.key \in {"t", "p"} => out = Picked(old, Chosen)[q])'
  BY Fixed, FixedParts
<1>4. (IF cmd.key = "x" THEN Extracted(q) ELSE file = file0)'
  BY Fixed
<1> QED BY <1>1, <1>2, <1>3, <1>4 DEF Loop

\* Writing to one temporary leaves the others alone.
LEMMA PutApart ==
  ASSUME TypeOK, NEW d \in Dots, NEW x, Put(d, x)
  PROVE  \A e \in Dots : tmp'[e] = IF e = d THEN Append(tmp[e], x) ELSE tmp[e]
BY DEF TypeOK, Put

LEMMA DotsApart ==
  ASSUME TypeOK
  PROVE  /\ BEFORE \in Dots /\ INDOT \in Dots /\ AFTER \in Dots
         /\ BEFORE # INDOT /\ BEFORE # AFTER /\ INDOT # AFTER
         /\ cur \in Dots /\ cur # INDOT
BY DEF TypeOK, BEFORE, INDOT, AFTER, Dots

LEMMA AddsApart ==
  ASSUME TypeOK, NEW x, Adds(x)
  PROVE  tmp'[INDOT] = tmp[INDOT]
<1>1. PICK d \in {BEFORE, AFTER, cur} : Put(d, x)
  BY DEF Adds
<1>2. d \in Dots /\ d # INDOT
  BY DotsApart
<1> QED BY <1>1, <1>2, DotsApart, PutApart

\* The arguments that are left are among those given.
LEMMA GivenAsked ==
  ASSUME TypeOK, NEW p \in 0 .. N, Dealt(argv, p), NEW n \in Given
  PROVE  n \in ToSet(cmd.args) /\ cmd.args # <<>>
<1>1. DOMAIN cmd.args = 1 .. L
  BY Shapes
<1>2. PICK k \in 1 .. L : argv[k] = n /\ n # NULL
  BY LeftIsGiven
<1>3. cmd.args[k] = n
  BY <1>2, LeftIsGiven
<1>4. n \in ToSet(cmd.args)
  BY <1>1, <1>3 DEF ToSet
<1>5. cmd.args # <<>>
  <2>1. DOMAIN cmd.args # {}
    BY <1>1
  <2> QED BY <2>1
<1> QED BY <1>4, <1>5

\* The member read is the next one of the archive.
Reading(p) ==
  /\ TypeOK /\ History /\ UNCHANGED history /\ arch.mem = old
  /\ p \in 0 .. N /\ p < N /\ at = p + 1 /\ Loop(p)

LEMMA ReadingFacts ==
  ASSUME NEW p, Reading(p)
  PROVE  /\ TypeOK /\ History /\ UNCHANGED history /\ p \in 0 .. N /\ p \in Nat /\ p < N
         /\ p + 1 \in 1 .. N /\ m = old[p + 1] /\ m \in Member /\ m.name \in Names
         /\ Dealt(argv, p) /\ (m.name \in Given <=> p + 1 \in Matched)
         /\ (m.name \in Given => m.name \in ToSet(cmd.args) /\ cmd.args # <<>>)
         /\ Rewrites => cmd.args # <<>> /\ tmp[INDOT] = Moved(p) /\ (PlainPosition => Sorted(p))
         /\ cmd.key \in {"t", "p"} => out = Picked(old, Chosen)[p]
         /\ IF cmd.key = "x" THEN Extracted(p) ELSE file = file0
<1>1. /\ TypeOK /\ History /\ UNCHANGED history /\ arch.mem = old
      /\ p \in 0 .. N /\ p < N /\ at = p + 1 /\ Loop(p)
  BY DEF Reading
<1>2. N \in Nat /\ p \in Nat
  BY <1>1, Shapes
<1>3. p + 1 \in 1 .. N /\ m = old[p + 1]
  BY <1>1, <1>2 DEF m
<1>4. m \in Member /\ m.name \in Names
  BY <1>1, <1>3, Shapes
<1>5. Dealt(argv, p)
  BY <1>1 DEF Loop
<1>6. m.name \in Given <=> p + 1 \in Matched
  BY <1>1, <1>3, <1>5, GivenIsMatched
<1>7. m.name \in Given => m.name \in ToSet(cmd.args) /\ cmd.args # <<>>
  BY <1>1, <1>5, GivenAsked
<1> QED BY <1>1, <1>2, <1>3, <1>4, <1>5, <1>6, <1>7 DEF Loop

LEMMA StepUpdate ==
  ASSUME NEW p, Reading(p), update, ~Exit("fail"), cmd.key = "r"
  PROVE  Loop(p + 1)'
<1>1. /\ TypeOK /\ History /\ UNCHANGED history /\ p \in 0 .. N /\ p \in Nat /\ p < N
      /\ p + 1 \in 1 .. N /\ m = old[p + 1] /\ m \in Member /\ m.name \in Names
      /\ Dealt(argv, p) /\ (m.name \in Given <=> p + 1 \in Matched)
      /\ (m.name \in Given => m.name \in ToSet(cmd.args))
      /\ Rewrites /\ cmd.args # <<>> /\ tmp[INDOT] = Moved(p) /\ (PlainPosition => Sorted(p))
      /\ file = file0
  BY ReadingFacts DEF Rewrites
<1> DEFINE x == Replaced[p + 1]
<1>2. DOMAIN old = 1 .. N
  BY <1>1, Shapes
<1>3. /\ Source = Replaced /\ p + 1 \in StayAt
      /\ x = IF p + 1 \in Matched /\ (cmd.u => Older(m.name, m)) THEN Made(m.name) ELSE m
  BY <1>1, <1>2 DEF Source, StayAt, Replaced, Current, Made, Older
<1>4. /\ Dealt(argv', p + 1) /\ file' = file
      /\ x \in Member /\ (PlainPosition => Adds(x)) /\ tmp'[INDOT] = tmp[INDOT]
  <2>1. CASE m.name \in Given /\ Readable(m.name) /\ inlist(m.name, argv') /\ (~cmd.u \/ Older(m.name, m))
             /\ Put(cur, Made(m.name)) /\ UNCHANGED cur /\ file' = file
    <3>1. x = Made(m.name) /\ x \in Member
      BY <1>1, <1>3, <2>1, MadeTyped
    <3>2. Made(m.name).name = m.name
      BY DEF Made
    <3>3. PlainPosition => cmd.pos # x.name
      BY <1>1, <2>1, <3>1, <3>2, NullAssumption DEF PlainPosition
    <3>4. tmp'[INDOT] = tmp[INDOT]
      BY <1>1, <2>1, DotsApart, PutApart
    <3> HIDE DEF x
    <3>5. PlainPosition => Adds(x)
      BY <2>1, <3>1, <3>3 DEF Adds
    <3> QED BY <1>1, <2>1, <3>1, <3>4, <3>5, DealtNext
  <2>2. CASE (m.name \in Given => cmd.u /\ ~Older(m.name, m)) /\ Here /\ file' = file
             /\ (inlist(m.name, argv') \/ (m.name \notin Given /\ argv' = argv))
    <3>1. x = m
      BY <1>1, <1>3, <2>2
    <3> HIDE DEF x
    <3>2. Adds(x)
      BY <2>2, <3>1 DEF Adds, Here
    <3> QED BY <1>1, <2>2, <3>1, <3>2, AddsApart, DealtNext
  <2>3. ASSUME inlist(m.name, argv'), Readable(m.name),
               IF ~cmd.u \/ Older(m.name, m)
               THEN Put(cur, Made(m.name)) /\ UNCHANGED cur
               ELSE Here,
               UNCHANGED <<history, arch, file, pc, named, local, pending, out, outcome>>
        PROVE  /\ Dealt(argv', p + 1) /\ file' = file
               /\ x \in Member /\ (PlainPosition => Adds(x)) /\ tmp'[INDOT] = tmp[INDOT]
    <3>1. m.name \in Given
      BY <2>3 DEF inlist
    <3> QED BY <2>1, <2>2, <2>3, <3>1
  <2>4. ASSUME m.name \notin Given, Here,
               UNCHANGED <<history, arch, file, argv, pc, named, local, pending, out, outcome>>
        PROVE  /\ Dealt(argv', p + 1) /\ file' = file
               /\ x \in Member /\ (PlainPosition => Adds(x)) /\ tmp'[INDOT] = tmp[INDOT]
    BY <2>2, <2>4
  <2> QED BY <2>3, <2>4 DEF update
<1>5. tmp'[INDOT] = Moved(p + 1)
  BY <1>1, <1>4 DEF Moved
<1>6. PlainPosition => Sorted(p + 1)'
  <2> HIDE DEF x
  <2>1. x = Source[p + 1]
    BY <1>3 DEF x
  <2> QED BY <1>1, <1>3, <1>4, <2>1, StaysSorted
<1> HIDE DEF x
<1> QED BY <1>1, <1>4, <1>5, <1>6, LoopFrom

LEMMA StepMove ==
  ASSUME NEW p, Reading(p), move, cmd.key = "m"
  PROVE  Loop(p + 1)'
<1>1. /\ TypeOK /\ History /\ UNCHANGED history /\ p \in 0 .. N /\ p \in Nat /\ p < N
      /\ p + 1 \in 1 .. N /\ m = old[p + 1] /\ m \in Member
      /\ Dealt(argv, p) /\ (m.name \in Given <=> p + 1 \in Matched)
      /\ Rewrites /\ cmd.args # <<>> /\ tmp[INDOT] = Moved(p) /\ (PlainPosition => Sorted(p))
      /\ file = file0
  BY ReadingFacts DEF Rewrites
<1>2. DOMAIN old = 1 .. N /\ old \in Seq(Member) /\ Len(old) = N
  BY <1>1, Shapes DEF N
<1>3. Source = old /\ (p + 1 \in StayAt <=> p + 1 \notin Matched)
  BY <1>1, <1>2 DEF Source, StayAt
<1>4. /\ p + 1 \in Matched => Moved(p + 1) = Append(Moved(p), m)
      /\ p + 1 \notin Matched => Moved(p + 1) = Moved(p)
  BY <1>1, <1>2, PickNext DEF Moved
<1>5. Dealt(argv', p + 1) /\ file' = file
  BY <1>1, DealtNext DEF move
<1>6. tmp'[INDOT] = Moved(p + 1) /\ (PlainPosition => Sorted(p + 1)')
  <2>1. CASE m.name \in Given /\ Put(INDOT, m) /\ UNCHANGED cur
    <3>1. /\ tmp'[INDOT] = Append(tmp[INDOT], m)
          /\ tmp'[BEFORE] = tmp[BEFORE] /\ tmp'[AFTER] = tmp[AFTER]
      BY <1>1, <2>1, DotsApart, PutApart
    <3>2. p + 1 \in Matched /\ p + 1 \notin StayAt
      BY <1>1, <1>3, <2>1
    <3> QED BY <1>1, <1>4, <2>1, <3>1, <3>2, LeavesSorted
  <2>2. CASE m.name \notin Given /\ Here
    <3>1. Adds(m) /\ tmp'[INDOT] = tmp[INDOT]
      BY <1>1, <2>2, AddsApart DEF Adds, Here
    <3>2. p + 1 \notin Matched /\ p + 1 \in StayAt /\ m = Source[p + 1]
      BY <1>1, <1>3, <2>2
    <3>3. PlainPosition => Sorted(p + 1)'
      BY <1>1, <3>1, <3>2, StaysSorted
    <3> QED BY <1>1, <1>4, <3>1, <3>2, <3>3
  <2> QED BY <2>1, <2>2 DEF move, inlist
<1> QED BY <1>1, <1>5, <1>6, LoopFrom

LEMMA StepDel ==
  ASSUME NEW p, Reading(p), del, cmd.key = "d", ~Usage
  PROVE  Loop(p + 1)'
<1>1. /\ TypeOK /\ History /\ UNCHANGED history /\ p \in 0 .. N /\ p \in Nat /\ p < N
      /\ p + 1 \in 1 .. N /\ m = old[p + 1] /\ m \in Member /\ m.name \in Names
      /\ Dealt(argv, p) /\ (m.name \in Given <=> p + 1 \in Matched)
      /\ Rewrites /\ cmd.args # <<>> /\ tmp[INDOT] = Moved(p) /\ (PlainPosition => Sorted(p))
      /\ file = file0
  BY ReadingFacts DEF Rewrites
<1>2. DOMAIN old = 1 .. N /\ \A i \in 1 .. N : old[i].name \in Names
  BY <1>1, Shapes
<1>3. Source = old /\ (p + 1 \in StayAt <=> p + 1 \notin Matched)
  BY <1>1, <1>2 DEF Source, StayAt
<1>4. cmd.pos = NULL /\ PlainPosition
  BY DEF Usage, PlainPosition
<1>5. cur = BEFORE
  <2>1. N \in Nat /\ 1 .. p \subseteq 1 .. N
    BY <1>1, Shapes
  <2> QED BY <1>1, <1>2, <1>4, <2>1, NullAssumption DEF Sorted, TypeOK
<1>6. Dealt(argv', p + 1) /\ file' = file
  BY <1>1, DealtNext DEF del
<1>7. Moved(p + 1) = Moved(p)
  BY DEF Moved
<1>8. tmp'[INDOT] = tmp[INDOT] /\ Sorted(p + 1)'
  <2>0. UNCHANGED cur
    BY DEF del
  <2>1. CASE m.name \in Given /\ UNCHANGED tmp
    BY <1>1, <1>3, <1>4, <2>0, <2>1, LeavesSorted
  <2>2. CASE m.name \notin Given /\ Put(BEFORE, m)
    <3>1. Adds(m) /\ tmp'[INDOT] = tmp[INDOT]
      BY <1>1, <1>4, <1>5, <2>0, <2>2, AddsApart, NullAssumption DEF Adds
    <3>2. p + 1 \in StayAt /\ m = Source[p + 1]
      BY <1>1, <1>3, <2>2
    <3> QED BY <1>1, <1>4, <3>1, <3>2, StaysSorted
  <2> QED BY <2>1, <2>2 DEF del, inlist
<1> QED BY <1>1, <1>6, <1>7, <1>8, LoopFrom

LEMMA StepList ==
  ASSUME NEW p, Reading(p), list, cmd.key \in {"t", "p"}
  PROVE  Loop(p + 1)'
<1>1. /\ TypeOK /\ History /\ UNCHANGED history /\ p \in 0 .. N /\ p \in Nat /\ p < N
      /\ p + 1 \in 1 .. N /\ m = old[p + 1] /\ m \in Member
      /\ Dealt(argv, p) /\ (m.name \in Given <=> p + 1 \in Matched)
      /\ (m.name \in Given => cmd.args # <<>>)
      /\ out = Picked(old, Chosen)[p] /\ file = file0 /\ ~Rewrites
  BY ReadingFacts DEF Rewrites
<1>2. DOMAIN old = 1 .. N /\ old \in Seq(Member) /\ Len(old) = N
  BY <1>1, Shapes DEF N
<1>3. p + 1 \in Chosen <=> cmd.args = <<>> \/ m.name \in Given
  BY <1>1, <1>2 DEF Chosen
<1>4. Dealt(argv', p + 1) /\ file' = file
  BY <1>1, DealtNext DEF list
<1>5. /\ p + 1 \in Chosen => out' = Append(out, m)
      /\ p + 1 \notin Chosen => out' = out
  BY <1>3 DEF list, inlist
<1>6. out' = Picked(old, Chosen)[p + 1]
  <2>1. p < Len(old)
    BY <1>1, <1>2
  <2>2. /\ p + 1 \in Chosen => Picked(old, Chosen)[p + 1] = Append(Picked(old, Chosen)[p], old[p + 1])
        /\ p + 1 \notin Chosen => Picked(old, Chosen)[p + 1] = Picked(old, Chosen)[p]
    BY <1>1, <1>2, <2>1, PickNext
  <2> QED BY <1>1, <1>5, <2>2
<1> QED BY <1>1, <1>4, <1>6, LoopFrom

LEMMA StepExtract ==
  ASSUME NEW p, Reading(p), extract, ~Exit("fail"), cmd.key = "x"
  PROVE  Loop(p + 1)'
<1>1. /\ TypeOK /\ History /\ UNCHANGED history /\ p \in 0 .. N /\ p \in Nat /\ p < N
      /\ p + 1 \in 1 .. N /\ m = old[p + 1] /\ m \in Member /\ m.name \in Names
      /\ Dealt(argv, p) /\ (m.name \in Given <=> p + 1 \in Matched)
      /\ (m.name \in Given => cmd.args # <<>>)
      /\ Extracted(p) /\ ~Rewrites
  BY ReadingFacts DEF Rewrites
<1>2. DOMAIN old = 1 .. N /\ Chosen \subseteq 1 .. N /\ file \in [Names -> 0 .. MaxVersion]
  BY <1>1, Shapes DEF Chosen, Matched, TypeOK
<1>3. p + 1 \in Chosen <=> cmd.args = <<>> \/ m.name \in Given
  BY <1>1, <1>2 DEF Chosen
<1>4. Dealt(argv', p + 1)
  BY <1>1, DealtNext DEF extract
<1>5. /\ p + 1 \in Chosen => file' = [file EXCEPT ![m.name] = m.ver]
      /\ p + 1 \notin Chosen => file' = file
  BY <1>3 DEF extract, inlist
<1>6. ASSUME NEW n \in Names
      PROVE  LET mine == {i \in Chosen : i <= p + 1 /\ old[i].name = n}
             IN file'[n] = IF mine = {} THEN file0[n] ELSE old[Max(mine)].ver
  <2> DEFINE was == {i \in Chosen : i <= p /\ old[i].name = n}
  <2> DEFINE mine == {i \in Chosen : i <= p + 1 /\ old[i].name = n}
  <2>1. file[n] = IF was = {} THEN file0[n] ELSE old[Max(was)].ver
    BY <1>1 DEF Extracted
  <2>2. \A i \in Chosen : i <= p + 1 <=> i <= p \/ i = p + 1
    BY <1>1, <1>2
  <2>3. CASE p + 1 \in Chosen /\ n = m.name
    <3>0. p + 1 \in mine
      BY <1>1, <2>3
    <3>1. mine \in SUBSET (1 .. p + 1)
      <4>1. \A i \in 1 .. N : i <= p + 1 => i \in 1 .. p + 1
        BY <1>1
      <4> QED BY <1>2, <4>1
    <3> HIDE DEF mine
    <3>2. Max(mine) = p + 1 /\ mine # {}
      BY <1>1, <3>0, <3>1, Greatest
    <3>3. file'[n] = m.ver
      BY <1>2, <1>5, <2>3
    <3> QED BY <1>1, <3>2, <3>3 DEF mine
  <2>4. CASE ~(p + 1 \in Chosen /\ n = m.name)
    <3>1. mine = was
      BY <1>1, <2>2, <2>4
    <3>2. file'[n] = file[n]
      BY <1>2, <1>5, <2>4
    <3> HIDE DEF mine, was
    <3>3. file'[n] = IF mine = {} THEN file0[n] ELSE old[Max(mine)].ver
      BY <2>1, <3>1, <3>2
    <3> QED BY <3>3 DEF mine
  <2> QED BY <2>3, <2>4
<1>7. Extracted(p + 1)'
  <2>1. Chosen' = Chosen /\ old' = old /\ file0' = file0
    BY <1>1, Fixed
  <2> QED BY <1>6, <2>1 DEF Extracted
<1> QED BY <1>1, <1>4, <1>7, LoopFrom

(***************************************************************************)
(* insert(), merge() and append(), and the result.                         *)
(***************************************************************************)

LEMMA FixedResult ==
  ASSUME UNCHANGED history
  PROVE  /\ Expected' = Expected /\ Middle' = Middle
         /\ Pick(old, Chosen)' = Pick(old, Chosen)
<1>1. /\ cmd' = cmd /\ old' = old /\ Matched' = Matched /\ Chosen' = Chosen /\ NewOnes' = NewOnes
      /\ Unmatched' = Unmatched /\ N' = N /\ file0' = file0
  BY Fixed
<1>2. Pick(old, Chosen)' = Pick(old, Chosen)
  BY <1>1 DEF Pick, Picked
<1>3. Pick(NewOnes, Unmatched)' = Pick(NewOnes, Unmatched)
  BY <1>1 DEF Pick, Picked
<1>4. Middle' = Middle
  BY <1>1, <1>3 DEF Middle, Moved, Picked
<1>5. Replaced' = Replaced
  BY <1>1 DEF Replaced, Current
<1>6. Expected' = Expected
  BY <1>1, <1>3, <1>5 DEF Expected, Insert, Pick, Picked
<1> QED BY <1>2, <1>4, <1>6

\* The argument that Upcoming() finds is the next one that names no member.
LEMMA InsertNext ==
  ASSUME TypeOK, History, file = file0, NEW q \in 0 .. L, Inserting(q),
         NEW k \in DOMAIN argv, Upcoming(k)
  PROVE  /\ k \in 1 .. L /\ k \in Unmatched /\ argv[k] = cmd.args[k]
         /\ [argv EXCEPT ![k] = NULL] =
              [j \in DOMAIN cmd.args |-> IF j <= k \/ j \notin Unmatched THEN NULL ELSE cmd.args[j]]
         /\ Picked(NewOnes, Unmatched)[k] = Append(tmp[INDOT], Made(argv[k]))
<1>1. L \in Nat /\ q \in Nat /\ q <= L /\ DOMAIN cmd.args = 1 .. L /\ DOMAIN argv = 1 .. L
  BY Shapes DEF Inserting
<1>2. /\ \A j \in 1 .. L : cmd.args[j] # NULL
      /\ \A j \in 1 .. L : argv[j] = IF j <= q \/ j \notin Unmatched THEN NULL ELSE cmd.args[j]
  BY <1>1, Shapes, NullAssumption DEF Inserting
<1>3. k \in 1 .. L /\ argv[k] # NULL /\ \A j \in 1 .. k - 1 : argv[j] = NULL
  BY <1>1 DEF Upcoming
<1>4. k > q /\ k \in Unmatched /\ argv[k] = cmd.args[k]
  BY <1>1, <1>2, <1>3
<1>5. \A j \in q + 1 .. k - 1 : j \notin Unmatched
  <2>1. SUFFICES ASSUME NEW j \in q + 1 .. k - 1 PROVE j \notin Unmatched
    OBVIOUS
  <2>2. j \in 1 .. L /\ j \in 1 .. k - 1 /\ ~(j <= q)
    BY <1>1, <1>3
  <2> QED BY <1>2, <1>3, <2>2
<1>6. [argv EXCEPT ![k] = NULL] =
        [j \in DOMAIN cmd.args |-> IF j <= k \/ j \notin Unmatched THEN NULL ELSE cmd.args[j]]
  <2>1. ASSUME NEW j \in 1 .. L
        PROVE  [argv EXCEPT ![k] = NULL][j] =
                 IF j <= k \/ j \notin Unmatched THEN NULL ELSE cmd.args[j]
    <3>1. CASE j = k
      BY <1>1, <2>1, <3>1
    <3>2. CASE j < k
      <4>1. j \in 1 .. k - 1
        BY <1>1, <1>3, <3>2
      <4> QED BY <1>1, <1>3, <3>2, <4>1
    <3>3. CASE j > k
      <4>1. ~(j <= q) /\ ~(j <= k)
        BY <1>1, <1>3, <1>4, <3>3
      <4> QED BY <1>1, <1>2, <3>3, <4>1
    <3> QED BY <1>1, <1>3, <3>1, <3>2, <3>3
  <2>2. DOMAIN [argv EXCEPT ![k] = NULL] = DOMAIN cmd.args
    BY <1>1
  <2> QED BY <1>1, <2>1, <2>2
<1>7. Picked(NewOnes, Unmatched)[k] = Append(tmp[INDOT], Made(argv[k]))
  <2>1. /\ NewOnes \in Seq(Entry) /\ Len(NewOnes) = L
        /\ NewOnes[k] = Current(cmd.args[k])
    BY <1>3, SourceFacts
  <2>2. Current(cmd.args[k]) = Made(argv[k])
    BY <1>4 DEF Current, Made
  <2>3. k - 1 \in Nat /\ (k - 1) + 1 = k /\ k - 1 < L /\ k - 1 \in q .. L
    BY <1>1, <1>3, <1>4
  <2>4. Picked(NewOnes, Unmatched)[k - 1] = Picked(NewOnes, Unmatched)[q]
    BY <1>5, <2>1, <2>3, PickedSame
  <2> DEFINE j == k - 1
  <2>5. j \in Nat /\ j < Len(NewOnes) /\ j + 1 = k
    BY <2>1, <2>3
  <2> HIDE DEF j
  <2>6. Picked(NewOnes, Unmatched)[j + 1] = Append(Picked(NewOnes, Unmatched)[j], NewOnes[j + 1])
    BY <1>4, <2>1, <2>5, PickNext
  <2>7. Picked(NewOnes, Unmatched)[q] = tmp[INDOT]
    BY DEF Inserting
  <2> QED BY <2>1, <2>2, <2>4, <2>5, <2>6, <2>7 DEF j
<1> QED BY <1>3, <1>4, <1>6, <1>7

\* insert() ends when all the new files are in the temporary.
LEMMA InsertEnds ==
  ASSUME TypeOK, History, NEW q \in 0 .. L, Inserting(q), Given = {}
  PROVE  tmp[INDOT] = Pick(NewOnes, Unmatched)
<1>1. L \in Nat /\ q \in Nat /\ q <= L /\ DOMAIN cmd.args = 1 .. L /\ DOMAIN argv = 1 .. L
  BY Shapes DEF Inserting
<1>2. \A j \in 1 .. L : cmd.args[j] # NULL
  BY Shapes, NullAssumption
<1>3. \A j \in q + 1 .. L : j \notin Unmatched
  <2>1. SUFFICES ASSUME NEW j \in q + 1 .. L, j \in Unmatched PROVE FALSE
    OBVIOUS
  <2>2. j \in 1 .. L /\ ~(j <= q)
    BY <1>1
  <2>3. argv[j] = cmd.args[j]
    BY <1>1, <2>1, <2>2 DEF Inserting
  <2> QED BY <1>1, <1>2, <2>2, <2>3 DEF Given, ToSet
<1>4. NewOnes \in Seq(Entry) /\ Len(NewOnes) = L /\ L \in q .. L
  BY <1>1, SourceFacts
<1>5. Picked(NewOnes, Unmatched)[L] = Picked(NewOnes, Unmatched)[q]
  BY <1>3, <1>4, PickedSame
<1> QED BY <1>4, <1>5 DEF Inserting, Pick

\* q takes the arguments one by one.
LEMMA AppendNext ==
  ASSUME TypeOK, History, file = file0, NEW q \in 0 .. L, Appending(q),
         NEW k \in DOMAIN argv, Upcoming(k)
  PROVE  /\ k \in 1 .. L
         /\ [argv EXCEPT ![k] = NULL] =
              [j \in DOMAIN cmd.args |-> IF j <= k THEN NULL ELSE cmd.args[j]]
         /\ SubSeq(NewOnes, 1, k) = Append(pending, Made(argv[k]))
<1>1. L \in Nat /\ q \in Nat /\ q <= L /\ DOMAIN cmd.args = 1 .. L /\ DOMAIN argv = 1 .. L
  BY Shapes DEF Appending
<1>2. /\ \A j \in 1 .. L : cmd.args[j] # NULL
      /\ \A j \in 1 .. L : argv[j] = IF j <= q THEN NULL ELSE cmd.args[j]
  BY <1>1, Shapes, NullAssumption DEF Appending
<1>3. k \in 1 .. L /\ argv[k] # NULL /\ \A j \in 1 .. k - 1 : argv[j] = NULL
  BY <1>1 DEF Upcoming
<1>4. k = q + 1 /\ argv[k] = cmd.args[k]
  <2>1. k > q /\ argv[k] = cmd.args[k]
    BY <1>1, <1>2, <1>3
  <2>2. CASE q + 1 < k
    <3>1. q + 1 \in 1 .. L /\ q + 1 \in 1 .. k - 1 /\ ~(q + 1 <= q)
      BY <1>1, <1>3, <2>2
    <3> QED BY <1>2, <1>3, <3>1
  <2> QED BY <1>1, <1>3, <2>1, <2>2
<1>5. [argv EXCEPT ![k] = NULL] = [j \in DOMAIN cmd.args |-> IF j <= k THEN NULL ELSE cmd.args[j]]
  <2>1. ASSUME NEW j \in 1 .. L
        PROVE  [argv EXCEPT ![k] = NULL][j] = IF j <= k THEN NULL ELSE cmd.args[j]
    <3>1. CASE j = k
      BY <1>1, <2>1, <3>1
    <3>2. CASE j # k
      <4>1. j <= q <=> j <= k
        BY <1>1, <1>3, <1>4, <3>2
      <4> QED BY <1>1, <1>2, <3>2, <4>1
    <3> QED BY <3>1, <3>2
  <2>2. DOMAIN [argv EXCEPT ![k] = NULL] = DOMAIN cmd.args
    BY <1>1
  <2> QED BY <1>1, <2>1, <2>2
<1>6. SubSeq(NewOnes, 1, k) = Append(pending, Made(argv[k]))
  <2>1. /\ NewOnes \in Seq(Entry) /\ Len(NewOnes) = L
        /\ NewOnes[k] = Current(cmd.args[k])
    BY <1>3, SourceFacts
  <2>2. Current(cmd.args[k]) = Made(argv[k])
    BY <1>4 DEF Current, Made
  <2>3. pending = SubSeq(NewOnes, 1, q)
    BY DEF Appending
  <2>4. SubSeq(NewOnes, 1, q + 1) = Append(SubSeq(NewOnes, 1, q), NewOnes[q + 1])
    BY <1>1, <1>3, <1>4, <2>1
  <2> QED BY <1>4, <2>1, <2>2, <2>3, <2>4
<1> QED BY <1>3, <1>5, <1>6

LEMMA AppendEnds ==
  ASSUME TypeOK, History, NEW q \in 0 .. L, Appending(q), Given = {}
  PROVE  pending = NewOnes
<1>1. L \in Nat /\ q \in Nat /\ q <= L /\ DOMAIN cmd.args = 1 .. L /\ DOMAIN argv = 1 .. L
  BY Shapes DEF Appending
<1>2. \A j \in 1 .. L : cmd.args[j] # NULL
  BY Shapes, NullAssumption
<1>3. q = L
  <2>1. SUFFICES ASSUME q # L PROVE FALSE
    OBVIOUS
  <2>2. L \in 1 .. L /\ ~(L <= q)
    BY <1>1, <2>1
  <2>3. argv[L] = cmd.args[L]
    BY <1>1, <2>2 DEF Appending
  <2> QED BY <1>1, <1>2, <2>2, <2>3 DEF Given, ToSet
<1>4. NewOnes \in Seq(Entry) /\ Len(NewOnes) = L
  BY SourceFacts
<1> QED BY <1>3, <1>4, PartsEnd DEF Appending

\* Nothing inserted changes nothing.
LEMMA InsertNothing ==
  ASSUME NEW s \in Seq(Entry), cmd.b \in BOOLEAN
  PROVE  Insert(s, <<>>) = s
<1> DEFINE p == {i \in DOMAIN s : s[i].name = cmd.pos}
<1> DEFINE n == IF p = {} THEN Len(s) ELSE (CHOOSE i \in p : TRUE) - (IF cmd.b THEN 1 ELSE 0)
<1>1. Insert(s, <<>>) = SubSeq(s, 1, n) \o <<>> \o SubSeq(s, n + 1, Len(s))
  BY DEF Insert
<1>2. n \in 0 .. Len(s)
  <2>1. Len(s) \in Nat /\ DOMAIN s = 1 .. Len(s)
    OBVIOUS
  <2>2. CASE p = {}
    BY <2>1, <2>2
  <2>3. CASE p # {}
    <3> DEFINE i == CHOOSE i \in p : TRUE
    <3>1. i \in p
      BY <2>3
    <3>2. i \in 1 .. Len(s)
      BY <2>1, <3>1
    <3>3. n = i - (IF cmd.b THEN 1 ELSE 0)
      BY <2>3
    <3> HIDE DEF i, n
    <3> QED BY <2>1, <3>2, <3>3
  <2> QED BY <2>2, <2>3
<1> HIDE DEF n
<1>3. (SubSeq(s, 1, n) \o <<>>) \o SubSeq(s, n + 1, Len(s)) = s
  <2>0. Len(s) \in Nat /\ n \in Nat /\ n <= Len(s)
    BY <1>2
  <2> DEFINE a == SubSeq(s, 1, n)
  <2> DEFINE b == SubSeq(s, n + 1, Len(s))
  <2>1. a \in Seq(Entry) /\ Len(a) = n /\ \A i \in 1 .. n : a[i] = s[i]
    BY <2>0
  <2>2. \A i \in n + 1 .. Len(s) : s[i] \in Entry
    BY <2>0
  <2>3. b \in Seq(Entry) /\ Len(b) = Len(s) - n /\ \A i \in 1 .. Len(s) - n : b[i] = s[n + i]
    BY <2>0, <2>2, SubSeqProperties
  <2> HIDE DEF a, b
  <2>4. a \o <<>> = a
    BY <2>1
  <2>5. a \o b \in Seq(Entry) /\ Len(a \o b) = Len(s)
    BY <2>0, <2>1, <2>3
  <2>6. ASSUME NEW i \in 1 .. Len(s) PROVE (a \o b)[i] = s[i]
    <3>1. i \in 1 .. Len(a) + Len(b)
      BY <2>0, <2>1, <2>3
    <3>2. (a \o b)[i] = IF i <= Len(a) THEN a[i] ELSE b[i - Len(a)]
      BY <2>1, <2>3, <3>1, ConcatProperties
    <3>3. CASE i <= n
      BY <2>0, <2>1, <3>2, <3>3
    <3>4. CASE ~(i <= n)
      <4>1. i - n \in 1 .. Len(s) - n /\ n + (i - n) = i
        BY <2>0, <3>4
      <4> QED BY <2>1, <2>3, <3>2, <3>4, <4>1
    <3> QED BY <3>3, <3>4
  <2>7. a \o b = s
    BY <2>5, <2>6, SeqEqual
  <2> QED BY <2>4, <2>7 DEF a, b
<1> QED BY <1>1, <1>3

\* Without arguments there is nothing to do.
LEMMA NothingAsked ==
  ASSUME TypeOK, History, cmd.args = <<>>
  PROVE  Expected = old /\ Unmatched = {}
<1>1. /\ L = 0 /\ DOMAIN cmd.args = {} /\ N \in Nat /\ DOMAIN old = 1 .. N
      /\ cmd.b \in BOOLEAN /\ cmd.key \in Keys
  BY Shapes DEF L
<1>2. old \in Seq(Entry) /\ Len(old) = N /\ NewOnes \in Seq(Entry) /\ Len(NewOnes) = 0
  BY <1>1, SourceFacts DEF N
<1>3. Matched = {}
  <2>1. SUFFICES ASSUME NEW i \in 1 .. N PROVE ~(Found(old[i].name, i) <= Asked(old[i].name, Len(cmd.args)))
    BY <1>1 DEF Matched
  <2>2. i - 1 \in Nat /\ (i - 1) + 1 = i
    BY <1>1
  <2>3. Found(old[i].name, i - 1) \in Nat /\ Found(old[i].name, i) = Found(old[i].name, i - 1) + 1
    BY <2>2, FoundGrows
  <2>4. Asked(old[i].name, Len(cmd.args)) = 0
    BY <1>1, AskedGrows DEF L
  <2> QED BY <2>3, <2>4
<1>4. Unmatched = {}
  BY <1>1 DEF Unmatched
<1>5. Pick(NewOnes, Unmatched) = <<>> /\ NewOnes = <<>>
  BY <1>2, PickedRun DEF Pick
<1>6. Pick(old, DOMAIN old \ Matched) = old
  <2>1. 1 .. Len(old) \subseteq DOMAIN old \ Matched
    BY <1>1, <1>2, <1>3
  <2>2. Picked(old, DOMAIN old \ Matched)[Len(old)] = SubSeq(old, 1, Len(old))
    BY <1>1, <1>2, <2>1, PickedAll
  <2> QED BY <1>2, <2>2, PartsEnd DEF Pick
<1>7. Pick(old, Matched) = <<>>
  <2>1. 0 \in 0 .. Len(old) /\ Len(old) \in 0 .. Len(old)
    BY <1>1, <1>2
  <2>2. Picked(old, Matched)[Len(old)] = Picked(old, Matched)[0]
    BY <1>2, <1>3, <2>1, PickedSame
  <2> QED BY <1>2, <2>2, PickedRun DEF Pick
<1>8. Replaced = old
  <2>1. Replaced = [i \in DOMAIN old |-> old[i]]
    BY <1>3 DEF Replaced
  <2> QED BY <1>2, <2>1
<1>9. Insert(old, <<>>) = old
  BY <1>1, <1>2, InsertNothing
<1>10. old \o <<>> = old
  BY <1>2
<1> QED BY <1>4, <1>5, <1>6, <1>7, <1>8, <1>9, <1>10 DEF Expected

\* The temporaries, copied one after the other, are what was asked.
LEMMA MergedAsAsked ==
  ASSUME TypeOK, History, Complete, PlainPosition
  PROVE  (tmp[BEFORE] \o tmp[INDOT]) \o tmp[AFTER] = Expected
<1>1. /\ N \in Nat /\ DOMAIN old = 1 .. N /\ cmd.b \in BOOLEAN /\ \A i \in 1 .. N : old[i].name \in Names
  BY Shapes
<1>2. /\ Source \in Seq(Entry) /\ Len(Source) = N /\ old \in Seq(Entry) /\ Len(old) = N
      /\ Cut(Stay(N), cur, tmp) /\ tmp[INDOT] = Middle
  BY SourceFacts DEF Complete, Sorted, N
<1>3. N \in 0 .. Len(Source) /\ N \in 0 .. Len(old)
  BY <1>1, <1>2
<1>4. Stay(N) \in Seq(Entry) /\ Stay(N) = Pick(Source, StayAt)
  BY <1>2, <1>3, PickedRun DEF Stay, Pick
<1>5. tmp[INDOT] \in Seq(Entry)
  BY Entries, DotsApart DEF TypeOK
<1>6. (tmp[BEFORE] \o tmp[INDOT]) \o tmp[AFTER] = Insert(Stay(N), tmp[INDOT])
  BY <1>1, <1>2, <1>4, <1>5, CutIsInsert
<1>7. CASE cmd.key = "r"
  <2>1. Pick(Source, StayAt) = Replaced
    <3>1. 1 .. Len(Source) \subseteq StayAt /\ Source = Replaced
      BY <1>1, <1>2, <1>7 DEF StayAt, Source
    <3>2. Picked(Source, StayAt)[Len(Source)] = SubSeq(Source, 1, Len(Source))
      BY <1>2, <1>3, <3>1, PickedAll
    <3> QED BY <1>2, <3>1, <3>2, PartsEnd DEF Pick
  <2> QED BY <1>2, <1>4, <1>6, <1>7, <2>1 DEF Middle, Expected
<1>8. CASE cmd.key = "m"
  <2>1. Middle = Pick(old, Matched)
    BY <1>2, <1>8 DEF Middle, Moved, Pick
  <2> QED BY <1>2, <1>4, <1>6, <1>8, <2>1 DEF Expected, Source, StayAt
<1>9. CASE cmd.key = "d"
  <2>1. Middle = <<>>
    BY <1>9 DEF Middle, Moved
  <2>2. Insert(Stay(N), <<>>) = Stay(N)
    BY <1>1, <1>4, InsertNothing
  <2> QED BY <1>2, <1>4, <1>6, <1>9, <2>1, <2>2 DEF Expected, Source, StayAt
<1> QED BY <1>7, <1>8, <1>9 DEF Complete, Rewrites

\* Steps that leave the variables alone leave what is known of them.
LEMMA SortedStays ==
  ASSUME UNCHANGED history, NEW p, Sorted(p), UNCHANGED <<cur, tmp>>
  PROVE  Sorted(p)'
<1>1. Cut(Stay(p), cur, tmp)'
  <2>1. Cut(Stay(p), cur', tmp')
    BY DEF Sorted
  <2> QED BY <2>1, FixedParts
<1>2. (cur = AFTER => \E i \in 1 .. p : old[i].name = cmd.pos)'
  BY Fixed DEF Sorted
<1> QED BY <1>1, <1>2 DEF Sorted

LEMMA LoopStays ==
  ASSUME UNCHANGED history, NEW p, Loop(p), UNCHANGED <<cur, tmp, argv, file, out>>
  PROVE  Loop(p)'
<1>1. Dealt(argv', p) /\ (Rewrites => cmd.args # <<>> /\ tmp'[INDOT] = Moved(p) /\ (PlainPosition => Sorted(p)'))
  BY SortedStays DEF Loop
<1>2. cmd.key \in {"t", "p"} => out' = Picked(old, Chosen)[p]
  BY DEF Loop
<1>3. cmd.key = "x" => Extracted(p)'
  <2>1. Chosen' = Chosen /\ old' = old /\ file0' = file0 /\ file' = file
    BY Fixed
  <2>2. cmd.key = "x" => Extracted(p)
    BY DEF Loop
  <2> QED BY <2>1, <2>2 DEF Extracted
<1>4. cmd.key # "x" => file' = file0
  BY DEF Loop
<1> QED BY <1>1, <1>2, <1>3, <1>4, LoopFrom

LEMMA InsertingStays ==
  ASSUME UNCHANGED history, NEW q, Inserting(q), UNCHANGED <<argv, tmp>>
  PROVE  Inserting(q)'
BY Fixed, FixedParts DEF Inserting

LEMMA CompleteStays ==
  ASSUME UNCHANGED history, Complete, UNCHANGED <<argv, cur, tmp>>
  PROVE  Complete'
<1>1. PlainPosition' => Sorted(N)'
  <2>1. PlainPosition => Sorted(N)'
    <3>1. N' = N
      BY Fixed
    <3>2. Sorted(N) => Sorted(N)'
      BY <3>1, SortedStays
    <3> QED BY <3>2 DEF Complete
  <2> QED BY <2>1, Fixed
<1>2. tmp'[INDOT] = Middle'
  BY FixedResult DEF Complete
<1>3. (Rewrites /\ cmd.args # <<>> /\ (Given = {} <=> cmd.key = "r" \/ Unmatched = {}))'
  BY Fixed DEF Complete, Given
<1> QED BY <1>1, <1>2, <1>3 DEF Complete

LEMMA AppendingStays ==
  ASSUME UNCHANGED history, NEW q, Appending(q), UNCHANGED <<argv, pending>>
  PROVE  Appending(q)'
BY Fixed DEF Appending

(***************************************************************************)
(* Every step.                                                             *)
(***************************************************************************)

\* However ar ends early, nothing is said of the result.
LEMMA EndsResult ==
  ASSUME RInv, NEW how \in {"fail", "killed"}, Ends(how), pc # "end" \/ how = "killed"
  PROVE  RInv'
<1>1. UNCHANGED history /\ pc' = pc /\ outcome' = how
  BY DEF Ends
<1>2. History'
  BY <1>1, Fixed DEF RInv
<1>3. Progress'
  BY <1>1 DEF Progress, Running
<1>4. Ended'
  BY <1>1 DEF Ended, Running
<1> QED BY <1>2, <1>3, <1>4 DEF RInv

\* While ar goes on only the phase it comes to matters.
LEMMA GoesOn ==
  ASSUME RInv, UNCHANGED history, Running', Progress'
  PROVE  RInv'
<1>1. History'
  BY Fixed DEF RInv
<1>2. Ended'
  BY DEF Ended
<1> QED BY <1>1, <1>2 DEF RInv

\* The result, in terms of the variables that it is read from.
LEMMA ResultFrom ==
  ASSUME UNCHANGED history,
         cmd.args # <<>> /\ Rewrites => arch'.st = "ok",
         PlainPosition /\ arch'.st = "ok" => arch'.mem = Expected,
         cmd.key \in {"t", "p"} => out' = Pick(old, Chosen),
         cmd.key = "x" => \A n \in Names :
           LET mine == {i \in Chosen : old[i].name = n}
           IN file'[n] = IF mine = {} THEN file0[n] ELSE old[Max(mine)].ver,
         Given' = {} <=> cmd.args = <<>> \/ cmd.key \in {"r", "q"} \/ Unmatched = {}
  PROVE  Result'
<1>1. (cmd.args # <<>> /\ Rewrites => arch.st = "ok")'
  BY Fixed
<1>2. (PlainPosition /\ arch.st = "ok" => arch.mem = Expected)'
  BY Fixed, FixedResult
<1>3. (cmd.key \in {"t", "p"} => out = Pick(old, Chosen))'
  BY Fixed, FixedResult
<1>4. (cmd.key = "x" => \A n \in Names :
         LET mine == {i \in Chosen : old[i].name = n}
         IN file[n] = IF mine = {} THEN file0[n] ELSE old[Max(mine)].ver)'
  BY Fixed
<1>5. (Given = {} <=> cmd.args = <<>> \/ cmd.key \in {"r", "q"} \/ Unmatched = {})'
  BY Fixed
<1> QED BY <1>1, <1>2, <1>3, <1>4, <1>5 DEF Result

LEMMA UntouchedFacts ==
  ASSUME TypeOK, History, Untouched
  PROVE  /\ at = 0 + 1 /\ 0 \in 0 .. N /\ 0 \in 0 .. L
         /\ Loop(0) \/ (Rewrites /\ cmd.args = <<>>)
         /\ Appending(0) \/ pending # <<>>
<1>1. /\ L \in Nat /\ N \in Nat /\ DOMAIN cmd.args = 1 .. L /\ cmd.args \in Seq(Names)
      /\ old \in Seq(Member) /\ \A k \in 1 .. L : cmd.args[k] \in Names
  BY Shapes
<1>2. /\ at = 1 /\ cur = BEFORE /\ tmp = [d \in Dots |-> <<>>] /\ out = <<>>
      /\ file = file0 /\ argv = cmd.args
  BY DEF Untouched
<1>3. /\ Source \in Seq(Entry) /\ Len(Source) = N /\ NewOnes \in Seq(Entry)
  BY SourceFacts
<1>4. Dealt(argv, 0)
  <2>1. ASSUME NEW k \in 1 .. L PROVE ~(Asked(cmd.args[k], k) <= Found(cmd.args[k], 0))
    <3>1. k - 1 \in Nat /\ (k - 1) + 1 = k
      BY <1>1
    <3>2. Asked(cmd.args[k], k - 1) \in Nat /\ Asked(cmd.args[k], k) = Asked(cmd.args[k], k - 1) + 1
      BY <3>1, AskedGrows
    <3>3. Found(cmd.args[k], 0) = 0
      BY FoundGrows
    <3> QED BY <3>2, <3>3
  <2>2. cmd.args = [k \in DOMAIN cmd.args |-> cmd.args[k]]
    BY <1>1
  <2> QED BY <1>1, <1>2, <2>1, <2>2 DEF Dealt
<1>5. tmp[INDOT] = <<>> /\ tmp[BEFORE] = <<>> /\ tmp[AFTER] = <<>> /\ BEFORE # AFTER
  BY <1>2, DotsApart
<1>6. Moved(0) = <<>>
  BY <1>1, PickedRun DEF Moved
<1>7. Picked(old, Chosen)[0] = <<>> /\ Stay(0) = <<>>
  BY <1>1, <1>3, PickedRun DEF Stay
<1>8. Sorted(0)
  BY <1>2, <1>5, <1>7 DEF Sorted, Cut
<1>9. Extracted(0)
  <2>1. \A n \in Names : {i \in Chosen : i <= 0 /\ old[i].name = n} = {}
    BY <1>1, Shapes DEF Chosen, Matched
  <2> QED BY <1>2, <2>1 DEF Extracted
<1>10. Loop(0) \/ (Rewrites /\ cmd.args = <<>>)
  BY <1>2, <1>4, <1>5, <1>6, <1>7, <1>8, <1>9 DEF Loop
<1>11. Appending(0) \/ pending # <<>>
  <2>1. SubSeq(NewOnes, 1, 0) = <<>>
    BY <1>3, PartsEnd
  <2>2. cmd.args = [k \in DOMAIN cmd.args |-> IF k <= 0 THEN NULL ELSE cmd.args[k]]
    BY <1>1
  <2> QED BY <1>2, <2>1, <2>2 DEF Appending
<1> QED BY <1>1, <1>2, <1>10, <1>11

\* What Progress says in each phase.
LEMMA Where ==
  ASSUME AInv, RInv, Running
  PROVE  /\ TypeOK /\ History
         /\ pc # "main" => ~Usage
         /\ pc \in {"main", "open", "opentmp", "append"} => at = 1
         /\ pc \in {"main", "open", "opentmp"} => Untouched
         /\ pc = "opentmp" => Rewrites /\ cmd.args # <<>> /\ arch.mem = old
         /\ pc = "run" => arch.mem = old /\ \E p \in 0 .. N : at = p + 1 /\ Loop(p)
         /\ pc = "insert" => /\ cmd.key = "r" /\ cmd.args # <<>> /\ file = file0
                             /\ PlainPosition => Sorted(N)
                             /\ \E q \in 0 .. L : Inserting(q)
         /\ pc = "merge" => Complete
         /\ pc = "copy" => Complete /\ at \in 1 .. 4 /\ pending = Joined(at)
         /\ pc = "append" => /\ cmd.key = "q" /\ file = file0 /\ arch.mem = old
                             /\ \E q \in 0 .. L : Appending(q)
         /\ pc = "end" => Result /\ pending = <<>>
BY DEF AInv, RInv, Progress

LEMMA UsageStays == ASSUME UNCHANGED history PROVE Usage' = Usage
BY Fixed

LEMMA StepMain == ASSUME AInv, RInv, main PROVE RInv'
<1>1. CASE Exit("fail")
  BY <1>1, EndsResult DEF main, Exit
<1>2. CASE ~Exit("fail")
  <2>1. /\ Running /\ pc = "main" /\ ~Usage /\ pc' = "open"
        /\ UNCHANGED <<history, arch, file, argv, at, cur, tmp, named, local, pending, out, outcome>>
    BY <1>2 DEF main
  <2>2. Untouched
    BY <2>1, Where
  <2>3. Untouched' /\ ~Usage' /\ at' = 1 /\ Running'
    BY <2>1, <2>2, UsageStays DEF Untouched, history, Running
  <2> QED BY <2>1, <2>3, GoesOn DEF Progress
<1> QED BY <1>1, <1>2

LEMMA StepOpen == ASSUME AInv, RInv, openar PROVE RInv'
<1>1. CASE Exit("fail")
  BY <1>1, EndsResult DEF openar, Exit
<1>2. CASE ~Exit("fail")
  <2>1. /\ Running /\ pc = "open" /\ arch' = Opened
        /\ pc' = IF cmd.args = <<>> /\ cmd.key \in {"r", "m", "d", "q"} THEN "end"
                 ELSE CASE Rewrites      -> "opentmp"
                        [] cmd.key = "q" -> "append"
                        [] OTHER         -> "run"
        /\ UNCHANGED <<history, file, argv, at, cur, tmp, named, local, pending, out, outcome>>
    BY <1>2 DEF openar
  <2>2. /\ Untouched /\ TypeOK /\ History /\ ~Usage /\ at = 1
        /\ pending = <<>> /\ arch = arch0
    BY <2>1, Where DEF AInv, Phases
  <2>3. Untouched' /\ ~Usage' /\ at' = 1 /\ Running' /\ pending' = <<>>
    BY <2>1, <2>2, UsageStays DEF Untouched, history, Running
  <2>4. arch'.mem = old
    BY <2>1, <2>2 DEF Opened, History, old
  <2>5. /\ cmd' = cmd /\ Rewrites' = Rewrites /\ old' = old /\ N' = N /\ L' = L
        /\ file' = file /\ file0' = file0 /\ file = file0 /\ argv = cmd.args /\ argv' = argv
    BY <2>1, <2>2, Fixed DEF Untouched
  <2>6. 0 \in 0 .. N /\ at = 0 + 1 /\ 0 \in 0 .. L /\ (Loop(0) \/ Rewrites) /\ Appending(0)
    BY <2>2, UntouchedFacts
  <2>7. Loop(0)' \/ Rewrites
    BY <2>1, <2>6, LoopStays
  <2>8. Appending(0)'
    BY <2>1, <2>6, AppendingStays
  <2>9. CASE cmd.args = <<>> /\ cmd.key \in {"r", "m", "d", "q"}
    <3>1. pc' = "end"
      BY <2>1, <2>9
    <3>2. Given' = {}
      <4>1. argv' = <<>>
        BY <2>5, <2>9
      <4> QED BY <4>1 DEF Given, ToSet
    <3>3. Result'
      BY <2>1, <2>2, <2>4, <2>9, <3>2, NothingAsked, ResultFrom
    <3> QED BY <2>1, <2>3, <3>1, <3>3, GoesOn DEF Progress
  <2>10. CASE ~(cmd.args = <<>> /\ cmd.key \in {"r", "m", "d", "q"}) /\ Rewrites
    <3>1. pc' = "opentmp" /\ cmd'.args # <<>> /\ Rewrites'
      BY <2>1, <2>5, <2>10 DEF Rewrites
    <3> QED BY <2>1, <2>3, <2>4, <2>5, <3>1, GoesOn DEF Progress
  <2>11. CASE ~(cmd.args = <<>> /\ cmd.key \in {"r", "m", "d", "q"}) /\ cmd.key = "q"
    <3>1. pc' = "append"
      BY <2>1, <2>11 DEF Rewrites
    <3>2. (\E q \in 0 .. L : Appending(q))'
      BY <2>5, <2>6, <2>8
    <3> QED BY <2>1, <2>3, <2>4, <2>5, <2>11, <3>1, <3>2, GoesOn DEF Progress
  <2>12. CASE ~Rewrites /\ cmd.key # "q"
    <3>1. pc' = "run"
      BY <2>1, <2>12 DEF Rewrites
    <3>2. (\E p \in 0 .. N : at = p + 1 /\ Loop(p))'
      BY <2>1, <2>5, <2>6, <2>7, <2>12
    <3> QED BY <2>1, <2>3, <2>4, <2>5, <3>1, <3>2, GoesOn DEF Progress
  <2> QED BY <2>9, <2>10, <2>11, <2>12
<1> QED BY <1>1, <1>2

LEMMA StepTemporaries ==
  ASSUME AInv, RInv, opentmps \/ (\E d \in Dots : opentmp(d)) \/ opentmpFails
  PROVE  RInv'
<1>1. CASE opentmpFails
  BY <1>1, EndsResult DEF opentmpFails, Exit
<1>2. ASSUME NEW d \in Dots, opentmp(d) PROVE RInv'
  <2>1. /\ Running /\ pc = "opentmp"
        /\ UNCHANGED <<history, arch, file, argv, pc, at, cur, tmp, pending, out, outcome>>
    BY <1>2 DEF opentmp
  <2>2. /\ Untouched /\ ~Usage /\ at = 1 /\ Rewrites /\ cmd.args # <<>> /\ arch.mem = old
    BY <2>1, Where
  <2>3. /\ Untouched' /\ ~Usage' /\ at' = 1 /\ Rewrites' /\ cmd'.args # <<>> /\ arch'.mem = old'
        /\ Running'
    BY <2>1, <2>2, Fixed DEF Untouched, history, Running
  <2> QED BY <2>1, <2>3, GoesOn DEF Progress
<1>3. CASE opentmps
  <2>1. /\ Running /\ pc = "opentmp" /\ pc' = "run"
        /\ UNCHANGED <<history, arch, file, argv, at, cur, tmp, named, local, pending, out, outcome>>
    BY <1>3 DEF opentmps
  <2>2. /\ Untouched /\ ~Usage /\ Rewrites /\ cmd.args # <<>> /\ arch.mem = old /\ TypeOK /\ History
    BY <2>1, Where
  <2>3. Loop(0) /\ at = 0 + 1 /\ 0 \in 0 .. N
    BY <2>2, UntouchedFacts
  <2>4. Loop(0)'
    BY <2>1, <2>3, LoopStays
  <2>5. ~Usage' /\ Running' /\ arch'.mem = old' /\ N' = N /\ at' = 0 + 1
    BY <2>1, <2>2, <2>3, Fixed DEF Running
  <2> QED BY <2>1, <2>3, <2>4, <2>5, GoesOn DEF Progress
<1> QED BY <1>1, <1>2, <1>3

LEMMA StepRunResult == ASSUME AInv, RInv, run PROVE RInv'
<1>1. CASE Exit("fail")
  BY <1>1, EndsResult DEF run, Exit
<1>2. CASE ~Exit("fail")
  <2>1. /\ Running /\ pc = "run" /\ at <= Len(arch.mem)
        /\ TypeOK /\ History /\ ~Usage /\ arch.mem = old
    BY Where DEF run
  <2>2. PICK p \in 0 .. N : at = p + 1 /\ Loop(p)
    BY <2>1, Where
  <2>3. /\ UNCHANGED history /\ UNCHANGED <<arch, pc, pending, outcome>> /\ at' = at + 1
    BY <1>2 DEF run, update, move, del, list, extract
  <2>4. N \in Nat /\ p \in Nat /\ p < N /\ p + 1 \in 0 .. N
    BY <2>1, <2>2, Shapes DEF N
  <2>5. Reading(p)
    BY <2>1, <2>2, <2>3, <2>4 DEF Reading
  <2>6. Loop(p + 1)'
    <3>1. cmd.key \in Keys
      BY <2>1, Shapes
    <3>2. CASE cmd.key = "r"
      BY <1>2, <2>5, <3>2, StepUpdate DEF run
    <3>3. CASE cmd.key = "m"
      BY <2>5, <3>3, StepMove DEF run
    <3>4. CASE cmd.key = "d"
      BY <2>1, <2>5, <3>4, StepDel DEF run
    <3>5. CASE cmd.key = "x"
      BY <1>2, <2>5, <3>5, StepExtract DEF run
    <3>6. CASE cmd.key \in {"t", "p"}
      BY <2>5, <3>6, StepList DEF run
    <3>7. cmd.key # "q"
      BY <2>1 DEF AInv, Phases
    <3> QED BY <3>1, <3>2, <3>3, <3>4, <3>5, <3>6, <3>7 DEF Keys
  <2>7. ~Usage' /\ Running' /\ arch'.mem = old' /\ N' = N /\ at' = (p + 1) + 1
    BY <2>1, <2>2, <2>3, Fixed DEF Running
  <2> QED BY <2>1, <2>3, <2>4, <2>6, <2>7, GoesOn DEF Progress
<1> QED BY <1>1, <1>2

LEMMA StepRan == ASSUME AInv, RInv, ran PROVE RInv'
<1>1. CASE Exit("fail")
  BY <1>1, EndsResult DEF ran, Exit
<1>2. CASE ~Exit("fail")
  <2>1. /\ Running /\ pc = "run" /\ at > Len(arch.mem)
        /\ pc' = CASE cmd.key = "r" -> "insert" [] cmd.key \in {"m", "d"} -> "merge" [] OTHER -> "end"
        /\ UNCHANGED <<history, arch, file, argv, at, cur, tmp, named, local, pending, out, outcome>>
    BY <1>2 DEF ran
  <2>2. TypeOK /\ History /\ ~Usage /\ arch.mem = old /\ \E p \in 0 .. N : at = p + 1 /\ Loop(p)
    BY <2>1, Where
  <2>3. PICK p \in 0 .. N : at = p + 1 /\ Loop(p)
    BY <2>2
  <2>4. N \in Nat /\ p = N /\ Len(old) = N /\ L \in Nat /\ DOMAIN cmd.args = 1 .. L /\ DOMAIN old = 1 .. N
    BY <2>1, <2>2, <2>3, Shapes DEF N
  <2>5. /\ Dealt(argv, N)
        /\ Rewrites => cmd.args # <<>> /\ tmp[INDOT] = Moved(N) /\ (PlainPosition => Sorted(N))
        /\ cmd.key \in {"t", "p"} => out = Picked(old, Chosen)[N]
        /\ IF cmd.key = "x" THEN Extracted(N) ELSE file = file0
    BY <2>3, <2>4 DEF Loop
  <2>6. ~Usage' /\ Running' /\ cmd' = cmd /\ N' = N /\ L' = L /\ PlainPosition' = PlainPosition
    BY <2>1, <2>2, Fixed DEF Running
  <2>7. CASE cmd.key = "r"
    <3>1. pc' = "insert" /\ Rewrites
      <4>1. cmd.key \notin {"m", "d"} /\ Rewrites
        BY <2>7 DEF Rewrites
      <4> QED BY <2>1, <2>7, <4>1
    <3>2. Inserting(0)
      <4>1. argv = [k \in DOMAIN cmd.args |-> IF k \notin Unmatched THEN NULL ELSE cmd.args[k]]
        BY <2>2, <2>5, LeftAreUnmatched
      <4>2. \A k \in DOMAIN cmd.args : ~(k <= 0)
        BY <2>4
      <4>3. tmp[INDOT] = <<>>
        BY <2>5, <2>7, <3>1 DEF Moved
      <4>4. Picked(NewOnes, Unmatched)[0] = <<>>
        BY <2>2, SourceFacts, PickedRun
      <4> QED BY <4>1, <4>2, <4>3, <4>4 DEF Inserting
    <3>3. Inserting(0)'
      BY <2>1, <3>2, InsertingStays
    <3>4. PlainPosition' => Sorted(N)'
      BY <2>1, <2>5, <2>6, <3>1, SortedStays
    <3>5. (\E q \in 0 .. L : Inserting(q))'
      <4>1. 0 \in 0 .. L
        BY <2>4
      <4> QED BY <2>6, <3>3, <4>1
    <3>6. (cmd.key = "r" /\ cmd.args # <<>> /\ file = file0)'
      BY <2>1, <2>5, <2>7, <3>1, Fixed
    <3> QED BY <2>1, <2>6, <3>1, <3>4, <3>5, <3>6, GoesOn DEF Progress
  <2>8. CASE cmd.key # "r" /\ Rewrites
    <3>1. pc' = "merge"
      BY <2>1, <2>8 DEF Rewrites
    <3>2. Complete
      BY <2>2, <2>5, <2>8, LeftAreUnmatched DEF Complete, Middle
    <3>3. Complete'
      BY <2>1, <3>2, CompleteStays
    <3> QED BY <2>1, <2>6, <3>1, <3>3, GoesOn DEF Progress
  <2>9. CASE ~Rewrites
    <3>1. pc' = "end" /\ pending' = <<>>
      BY <2>1, <2>9 DEF Rewrites, AInv, Phases
    <3>2. cmd.key \in {"t", "p", "x"}
      BY <2>1, <2>2, <2>9, Shapes DEF Rewrites, Keys, AInv, Phases
    <3>3. Expected = old
      BY <3>2 DEF Expected
    <3>4. Given' = Given /\ (Given = {} <=> Unmatched = {})
      BY <2>1, <2>2, <2>5, LeftAreUnmatched DEF Given
    <3>5. cmd.args = <<>> => Unmatched = {}
      BY <2>2, NothingAsked
    <3>6. cmd.key \in {"t", "p"} => out = Pick(old, Chosen)
      BY <2>4, <2>5 DEF Pick
    <3>7. cmd.key = "x" => \A n \in Names :
            LET mine == {i \in Chosen : old[i].name = n}
            IN file[n] = IF mine = {} THEN file0[n] ELSE old[Max(mine)].ver
      <4>1. \A i \in Chosen : i <= N
        BY <2>4 DEF Chosen, Matched
      <4>2. \A n \in Names : {i \in Chosen : old[i].name = n} = {i \in Chosen : i <= N /\ old[i].name = n}
        BY <4>1
      <4> QED BY <2>5, <4>2 DEF Extracted
    <3>8. Result'
      <4>1. UNCHANGED history /\ arch' = arch /\ out' = out /\ file' = file
        BY <2>1
      <4> QED BY <2>2, <2>9, <3>2, <3>3, <3>4, <3>5, <3>6, <3>7, <4>1, ResultFrom
    <3> QED BY <2>1, <2>6, <3>1, <3>8, GoesOn DEF Progress
  <2> QED BY <2>7, <2>8, <2>9
<1> QED BY <1>1, <1>2

LEMMA StepInsert == ASSUME AInv, RInv, insert PROVE RInv'
<1>1. CASE Exit("fail")
  BY <1>1, EndsResult DEF insert, Exit
<1>2. CASE ~Exit("fail")
  <2>1. Running /\ pc = "insert"
    BY DEF insert
  <2>2. /\ TypeOK /\ History /\ ~Usage
        /\ cmd.key = "r" /\ cmd.args # <<>> /\ file = file0 /\ (PlainPosition => Sorted(N))
        /\ \E q \in 0 .. L : Inserting(q)
    BY <2>1, Where
  <2>3. PICK q \in 0 .. L : Inserting(q)
    BY <2>2
  <2>4. ASSUME Given = {}, pc' = "merge",
               UNCHANGED <<history, arch, file, argv, at, cur, tmp, named, local, pending, out, outcome>>
        PROVE  RInv'
    <3>1. Complete
      BY <2>2, <2>3, <2>4, InsertEnds DEF Complete, Middle, Rewrites
    <3>2. Complete'
      BY <2>4, <3>1, CompleteStays
    <3>3. ~Usage' /\ Running'
      BY <2>1, <2>2, <2>4, Fixed DEF Running
    <3> QED BY <2>4, <3>2, <3>3, GoesOn DEF Progress
  <2>5. ASSUME NEW k \in DOMAIN argv, Upcoming(k), Readable(argv[k]), Put(INDOT, Made(argv[k])),
               argv' = [argv EXCEPT ![k] = NULL],
               UNCHANGED <<history, arch, file, pc, at, cur, named, local, pending, out, outcome>>
        PROVE  RInv'
    <3>1. /\ k \in 1 .. L
          /\ argv' = [j \in DOMAIN cmd.args |-> IF j <= k \/ j \notin Unmatched THEN NULL ELSE cmd.args[j]]
          /\ Picked(NewOnes, Unmatched)[k] = Append(tmp[INDOT], Made(argv[k]))
      BY <2>2, <2>3, <2>5, InsertNext
    <3>2. /\ tmp'[INDOT] = Append(tmp[INDOT], Made(argv[k]))
          /\ tmp'[BEFORE] = tmp[BEFORE] /\ tmp'[AFTER] = tmp[AFTER]
      BY <2>2, <2>5, DotsApart, PutApart
    <3>3. Inserting(k)'
      BY <2>5, <3>1, <3>2, Fixed, FixedParts DEF Inserting
    <3>4. L' = L /\ k \in 0 .. L
      BY <2>2, <2>5, <3>1, Shapes, Fixed
    <3>5. PlainPosition' => Sorted(N)'
      <4>1. N' = N /\ PlainPosition' = PlainPosition
        BY <2>5, Fixed
      <4>2. ASSUME NEW p, Sorted(p) PROVE Sorted(p)'
        <5>1. Cut(Stay(p), cur', tmp')
          BY <2>5, <3>2, <4>2 DEF Sorted, Cut
        <5>2. Cut(Stay(p), cur, tmp)'
          BY <2>5, <5>1, FixedParts
        <5>3. (cur = AFTER => \E i \in 1 .. p : old[i].name = cmd.pos)'
          BY <2>5, <4>2, Fixed DEF Sorted
        <5> QED BY <5>2, <5>3 DEF Sorted
      <4>3. Sorted(N) => Sorted(N)'
        BY <4>1, <4>2
      <4> QED BY <2>2, <4>1, <4>3
    <3>6. ~Usage' /\ Running' /\ pc' = "insert" /\ cmd'.key = "r" /\ cmd'.args # <<>> /\ file' = file0'
      BY <2>1, <2>2, <2>5, Fixed DEF Running
    <3> QED BY <2>5, <3>3, <3>4, <3>5, <3>6, GoesOn DEF Progress
  <2> QED BY <1>2, <2>4, <2>5 DEF insert
<1> QED BY <1>1, <1>2

LEMMA StepMerge == ASSUME AInv, RInv, merge PROVE RInv'
<1>1. CASE Exit("fail")
  BY <1>1, EndsResult DEF merge, Exit
<1>2. CASE ~Exit("fail")
  <2>1. /\ Running /\ pc = "merge" /\ pc' = "copy" /\ at' = 1
        /\ UNCHANGED <<history, file, argv, cur, tmp, named, local, pending, out, outcome>>
    BY <1>2 DEF merge, BEFORE
  <2>2. Complete /\ ~Usage /\ pending = <<>>
    BY <2>1, Where DEF AInv, Phases
  <2>3. Complete'
    BY <2>1, <2>2, CompleteStays
  <2>4. ~Usage' /\ Running' /\ pending' = <<>>
    BY <2>1, <2>2, Fixed DEF Running
  <2>5. (pending = Joined(at))'
    BY <2>1, <2>4 DEF Joined
  <2>6. (at \in 1 .. 4)'
    BY <2>1
  <2> QED BY <2>1, <2>3, <2>4, <2>5, <2>6, GoesOn DEF Progress
<1> QED BY <1>1, <1>2

LEMMA StepMergeTmp == ASSUME AInv, RInv, mergeTmp PROVE RInv'
<1>0. /\ Running /\ pc = "copy" /\ TypeOK /\ History /\ ~Usage
      /\ Complete /\ at \in 1 .. 4 /\ pending = Joined(at)
  BY Where DEF mergeTmp
<1>1. CASE Ends("fail")
  BY <1>0, <1>1, EndsResult
<1>2. CASE /\ at \in Dots /\ pending' = pending \o tmp[at] /\ at' = at + 1
           /\ UNCHANGED <<history, arch, file, argv, pc, cur, tmp, named, local, out, outcome>>
  <2>1. Complete'
    BY <1>0, <1>2, CompleteStays
  <2>2. ~Usage' /\ Running' /\ pc' = "copy"
    BY <1>0, <1>2, Fixed DEF Running
  <2>3. (at \in 1 .. 4)' /\ at \in {1, 2, 3}
    BY <1>2 DEF Dots, BEFORE, INDOT, AFTER
  <2>4. pending' = Joined(at')
    <3>1. tmp[BEFORE] \in Seq(Member)
      BY <1>0, DotsApart DEF TypeOK
    <3>2. <<>> \o tmp[BEFORE] = tmp[BEFORE]
      BY <3>1
    <3>3. CASE at = 1
      BY <1>0, <1>2, <3>2, <3>3 DEF Joined, BEFORE
    <3>4. CASE at = 2
      BY <1>0, <1>2, <3>4 DEF Joined, INDOT
    <3>5. CASE at = 3
      BY <1>0, <1>2, <3>5 DEF Joined, AFTER
    <3> QED BY <2>3, <3>3, <3>4, <3>5
  <2>5. (pending = Joined(at))'
    <3>1. tmp' = tmp
      BY <1>2
    <3> QED BY <2>4, <3>1 DEF Joined
  <2> QED BY <1>2, <2>1, <2>2, <2>3, <2>5, GoesOn DEF Progress
<1>3. CASE /\ at \notin Dots
           /\ arch' = [st |-> "ok", mem |-> pending] /\ pending' = <<>> /\ pc' = "end"
           /\ UNCHANGED <<history, file, argv, at, cur, tmp, named, local, out, outcome>>
  <2>1. at = 4
    BY <1>0, <1>3 DEF Dots, BEFORE, INDOT, AFTER
  <2>2. pending = (tmp[BEFORE] \o tmp[INDOT]) \o tmp[AFTER]
    BY <1>0, <2>1 DEF Joined
  <2>3. PlainPosition => arch'.mem = Expected
    BY <1>0, <1>3, <2>2, MergedAsAsked
  <2>4. cmd.key \notin {"t", "p", "x", "q"} /\ cmd.args # <<>> /\ arch'.st = "ok"
    BY <1>0, <1>3 DEF Complete, Rewrites
  <2>5. Given' = Given /\ (Given = {} <=> cmd.key = "r" \/ Unmatched = {})
    BY <1>0, <1>3 DEF Complete, Given
  <2>6. Result'
    <3>1. UNCHANGED history
      BY <1>3
    <3> QED BY <2>3, <2>4, <2>5, <3>1, ResultFrom
  <2>7. ~Usage' /\ Running'
    BY <1>0, <1>3, Fixed DEF Running
  <2> QED BY <1>3, <2>6, <2>7, GoesOn DEF Progress
<1> QED BY <1>1, <1>2, <1>3 DEF mergeTmp

LEMMA StepAppend == ASSUME AInv, RInv, append PROVE RInv'
<1>0. /\ Running /\ pc = "append" /\ TypeOK /\ History /\ ~Usage /\ at = 1
      /\ cmd.key = "q" /\ file = file0 /\ arch.mem = old /\ \E q \in 0 .. L : Appending(q)
  BY Where DEF append
<1>1. CASE Ends("fail") \/ Exit("fail")
  BY <1>0, <1>1, EndsResult DEF Exit
<1>2. PICK q \in 0 .. L : Appending(q)
  BY <1>0
<1>3. CASE /\ Given = {} /\ arch' = Written /\ pending' = <<>> /\ pc' = "end"
           /\ UNCHANGED <<history, file, argv, at, cur, tmp, named, local, out, outcome>>
  <2>1. pending = NewOnes
    BY <1>0, <1>2, <1>3, AppendEnds
  <2>2. arch'.st = "ok" => arch'.mem = Expected
    <3>1. Expected = old \o NewOnes /\ old \in Seq(Member) /\ arch \in Archive
      BY <1>0, Shapes DEF Expected, TypeOK
    <3>2. CASE pending = <<>>
      <4>1. arch' = arch /\ old \o NewOnes = old
        BY <1>3, <2>1, <3>1, <3>2 DEF Written
      <4> QED BY <1>0, <3>1, <4>1
    <3>3. CASE pending # <<>> /\ arch.st \in {"cut", "corrupt"}
      <4>1. arch'.st = "corrupt"
        BY <1>3, <3>1, <3>3 DEF Written, Archive
      <4> QED BY <4>1
    <3>4. CASE pending # <<>> /\ arch.st \notin {"cut", "corrupt"}
      <4>1. arch' = [arch EXCEPT !.mem = arch.mem \o pending]
        BY <1>3, <3>4 DEF Written
      <4>2. arch'.mem = arch.mem \o pending
        BY <3>1, <4>1 DEF Archive
      <4> QED BY <1>0, <2>1, <3>1, <4>2
    <3> QED BY <3>2, <3>3, <3>4
  <2>3. Given' = {}
    BY <1>3 DEF Given
  <2>4. Result'
    <3>1. UNCHANGED history /\ ~Rewrites
      BY <1>0, <1>3 DEF Rewrites
    <3> QED BY <1>0, <2>2, <2>3, <3>1, ResultFrom
  <2>5. ~Usage' /\ Running'
    BY <1>0, <1>3, Fixed DEF Running
  <2> QED BY <1>3, <2>4, <2>5, GoesOn DEF Progress
<1>4. ASSUME NEW k \in DOMAIN argv, Upcoming(k), Readable(argv[k]),
             pending' = Append(pending, Made(argv[k])), argv' = [argv EXCEPT ![k] = NULL],
             UNCHANGED <<history, arch, file, pc, at, cur, tmp, named, local, out, outcome>>
      PROVE  RInv'
  <2>1. /\ k \in 1 .. L
        /\ argv' = [j \in DOMAIN cmd.args |-> IF j <= k THEN NULL ELSE cmd.args[j]]
        /\ pending' = SubSeq(NewOnes, 1, k)
    BY <1>0, <1>2, <1>4, AppendNext
  <2>2. Appending(k)'
    BY <1>4, <2>1, Fixed DEF Appending
  <2>3. L' = L /\ k \in 0 .. L
    BY <1>0, <1>4, <2>1, Shapes, Fixed
  <2>4. /\ ~Usage' /\ Running' /\ pc' = "append" /\ at' = 1
        /\ cmd'.key = "q" /\ file' = file0' /\ arch'.mem = old'
    BY <1>0, <1>4, Fixed DEF Running
  <2> QED BY <1>4, <2>2, <2>3, <2>4, GoesOn DEF Progress
<1> QED BY <1>1, <1>3, <1>4 DEF append

LEMMA StepEnd == ASSUME AInv, RInv, end PROVE RInv'
<1>1. /\ Running /\ pc = "end" /\ TypeOK /\ History /\ Result /\ pending = <<>>
      /\ Exit(IF Given = {} THEN "ok" ELSE "fail")
  BY Where DEF end
<1>2. arch' = arch
  BY <1>1, WrittenFacts DEF Exit
<1>3. /\ UNCHANGED <<history, file, argv, pc, out>>
      /\ outcome' = IF Given = {} THEN "ok" ELSE "fail"
  BY <1>1 DEF Exit, Ends
<1>4. Given' = Given
  BY <1>3 DEF Given
<1>5. Result'
  BY <1>1, <1>2, <1>3, <1>4, ResultFrom DEF Result
<1>6. History' /\ ~Running'
  BY <1>1, <1>3, Fixed DEF Running
<1>7. Ended'
  BY <1>3, <1>4, <1>5 DEF Ended
<1> QED BY <1>6, <1>7 DEF RInv, Progress

LEMMA InitResult == Init => RInv
<1> SUFFICES ASSUME Init PROVE RInv
  OBVIOUS
<1>1. /\ arch \in Archives /\ file \in Files /\ arch0 = arch /\ file0 = file
      /\ pc = "main" /\ outcome = "running"
  BY DEF Init
<1>2. History
  BY <1>1, ArchivesAssumption, FilesAssumption DEF History, old
<1>3. Untouched /\ at = 1
  BY DEF Init, Untouched
<1>4. Progress
  BY <1>1, <1>3 DEF Progress
<1>5. Ended
  BY <1>1 DEF Ended
<1> QED BY <1>2, <1>4, <1>5 DEF RInv

\* Nothing changes, nothing is lost.
LEMMA SameResult == ASSUME RInv, UNCHANGED vars PROVE RInv'
<1>1. /\ UNCHANGED history
      /\ UNCHANGED <<arch, file, argv, pc, at, cur, tmp, pending, out, outcome>>
  BY DEF vars, history
<1>2. /\ History' = History /\ Usage' = Usage /\ Rewrites' = Rewrites /\ old' = old /\ N' = N /\ L' = L
      /\ PlainPosition' = PlainPosition /\ cmd' = cmd /\ file0' = file0 /\ Running' = Running
      /\ Given' = Given
  BY <1>1, Fixed DEF Running, Given
<1>3. Result => Result'
  BY <1>1, <1>2, ResultFrom DEF Result
<1>4. Progress'
  <2>1. SUFFICES ASSUME Running PROVE Progress'
    BY <1>2 DEF Progress
  <2>2. /\ (pc # "main" => ~Usage)'
        /\ (pc \in {"main", "open", "opentmp", "append"} => at = 1)'
        /\ (pc \in {"main", "open", "opentmp"} => Untouched)'
        /\ (pc = "opentmp" => Rewrites /\ cmd.args # <<>> /\ arch.mem = old)'
    BY <1>1, <1>2, <2>1 DEF RInv, Progress, Untouched
  <2>3. (pc = "run" => arch.mem = old /\ \E p \in 0 .. N : at = p + 1 /\ Loop(p))'
    BY <1>1, <1>2, <2>1, LoopStays DEF RInv, Progress
  <2>4. (pc = "insert" => /\ cmd.key = "r" /\ cmd.args # <<>> /\ file = file0
                          /\ PlainPosition => Sorted(N)
                          /\ \E q \in 0 .. L : Inserting(q))'
    BY <1>1, <1>2, <2>1, SortedStays, InsertingStays DEF RInv, Progress
  <2>5. (pc = "merge" => Complete)'
    BY <1>1, <2>1, CompleteStays DEF RInv, Progress
  <2>6. (pc = "copy" => Complete /\ at \in 1 .. 4 /\ pending = Joined(at))'
    BY <1>1, <2>1, CompleteStays DEF RInv, Progress, Joined
  <2>7. (pc = "append" => /\ cmd.key = "q" /\ file = file0 /\ arch.mem = old
                          /\ \E q \in 0 .. L : Appending(q))'
    BY <1>1, <1>2, <2>1, AppendingStays DEF RInv, Progress
  <2>8. (pc = "end" => Result /\ pending = <<>>)'
    BY <1>1, <1>3, <2>1 DEF RInv, Progress
  <2> QED BY <2>2, <2>3, <2>4, <2>5, <2>6, <2>7, <2>8 DEF Progress
<1>5. Ended'
  BY <1>1, <1>2, <1>3 DEF RInv, Ended
<1> QED BY <1>2, <1>4, <1>5 DEF RInv

LEMMA NextResult == ASSUME AInv, RInv, [Next]_vars PROVE RInv'
<1>1. CASE sigfun
  BY <1>1, EndsResult DEF sigfun
<1>2. CASE UNCHANGED vars
  BY <1>2, SameResult
<1>3. CASE Stopped
  BY <1>2, <1>3 DEF Stopped
<1> QED BY <1>1, <1>2, <1>3, StepMain, StepOpen, StepTemporaries, StepRunResult, StepRan,
           StepInsert, StepMerge, StepMergeTmp, StepAppend, StepEnd DEF Next

\* A run of ar that comes to its end has done what was asked.
THEOREM ResultIsAsked == Spec => []ResultAsAsked
<1>1. Init => AInv /\ RInv
  BY InitAr, InitResult
<1>2. AInv /\ RInv /\ [Next]_vars => (AInv /\ RInv)'
  BY NextAr, NextResult
<1>3. AInv /\ RInv => ResultAsAsked
  <2> SUFFICES ASSUME AInv, RInv, pc = "end", ~Running, outcome # "killed" PROVE ResultAsAsked
    BY DEF ResultAsAsked
  <2>1. Result /\ (outcome = "ok" <=> Given = {})
    BY DEF RInv, Ended
  <2> QED BY <2>1 DEF Result, ResultAsAsked
<1> QED BY <1>1, <1>2, <1>3, PTL DEF Spec
=============================================================================
