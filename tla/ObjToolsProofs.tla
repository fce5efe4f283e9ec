--------------------------- MODULE ObjToolsProofs ---------------------------
(***************************************************************************)
(* strip and ranlib keep what they are given, whatever fails and whenever  *)
(* they are killed: for any files, commands and numbers of failures.       *)
(***************************************************************************)
EXTENDS ObjTools, FoldLemmas, SequenceTheorems, TLAPS

\* Where a temporary of the tool that runs lies beside its file.
Writing == {"write", "close", "remove", "rename", "merge", "name"}

\* Where the tool is, and the file it is at.
Placed ==
  /\ DOMAIN fs = DOMAIN orig /\ DOMAIN tmp = DOMAIN orig /\ orig \in Contents
  /\ argv \in Seq(Paths) /\ (pc # "idle" => argv # <<>>)
  /\ pc \notin {"idle", "open"} => Path \in Paths

LibrariesWhole == \A p \in Paths : fs[p].k = "ar" => Sequence(fs[p].mem)

\* strip is past the reading of an object.
Stripping ==
  pc \in {"map", "create", "write", "close", "remove", "rename"} =>
    /\ orig[Path].k # "ar"
    /\ IF pc = "rename" THEN fs[Path].k = "none" ELSE fs[Path].k \notin {"none", "ar"}
    /\ pc \in {"remove", "rename"} => tmp[Path].k = "obj"

\* ranlib is past the look at the library.
Indexing ==
  /\ pc = "ranlib" => artype = "none" /\ fs[Path].k # "none"
  /\ pc = "strip" => fs[Path].k # "none"
  /\ pc = "index" /\ artype # "none" => fs[Path].k = "ar"
  /\ pc \in {"scan", "copy", "merge", "name"} => fs[Path].k = "ar"
  /\ pc = "name" => tmp[Path].k = "ar" /\ tmp[Path].mem = <<Index>> \o fs[Path].mem /\ tmp[Path].bad = fs[Path].bad

\* A temporary is the one in progress or was left by a tool that was killed.
Accounted == \A p \in Paths : tmp[p].k # "none" => p \in left \/ (pc \in Writing /\ p = Path)

\* A command that runs is one of the four tools.
Tooled == pc # "idle" => cmd.tool \in {"strip", "ranlib", "nm", "size"}

KInv == Placed /\ LibrariesWhole /\ Stripping /\ Indexing /\ Accounted /\ NeverLost /\ LibraryKept

-----------------------------------------------------------------------------
(* Steps in general.                                                        *)

\* The files still to do, and the first of them.
LEMMA Rest ==
  ASSUME NEW S, NEW s \in Seq(S), s # <<>>
  PROVE  Head(s) \in S /\ Tail(s) \in Seq(S) /\ (Len(s) = 1 <=> Tail(s) = <<>>)
<1>1. Len(s) \in Nat /\ Len(s) > 0 /\ Head(s) \in S
  OBVIOUS
<1>2. Tail(s) \in Seq(S) /\ Len(Tail(s)) = Len(s) - 1
  OBVIOUS
<1>3. Tail(s) = <<>> <=> Len(Tail(s)) = 0
  BY <1>2, EmptySeq
<1> QED BY <1>1, <1>2, <1>3

\* What no step on a file but its replacement can disturb.
LEMMA Untouched ==
  ASSUME KInv, UNCHANGED <<fs, orig, lost>>, UNCHANGED tmp
  PROVE  LibrariesWhole' /\ NeverLost' /\ LibraryKept'
<1>1. LibrariesWhole'
  BY DEF KInv, LibrariesWhole, Paths
<1>2. NeverLost'
  BY DEF KInv, NeverLost, Paths
<1>3. LibraryKept'
  BY DEF KInv, LibraryKept, Behind, Paths
<1> QED BY <1>1, <1>2, <1>3

\* The temporary of a file that is there goes or is begun.
LEMMA Rewritten ==
  ASSUME KInv, UNCHANGED <<fs, orig, lost>>, Path \in Paths, fs[Path].k # "none",
         NEW x, tmp' = [tmp EXCEPT ![Path] = x]
  PROVE  LibrariesWhole' /\ NeverLost' /\ LibraryKept'
<1>1. LibrariesWhole'
  BY DEF KInv, LibrariesWhole, Paths
<1>2. NeverLost'
  BY DEF KInv, Placed, NeverLost, Paths
<1>3. LibraryKept'
  BY DEF KInv, LibraryKept, Behind, Paths
<1> QED BY <1>1, <1>2, <1>3

\* The tool goes on with the same file.
LEMMA GoesOn ==
  ASSUME KInv, UNCHANGED <<fs, tmp, argv, orig, lost, left>>, pc # "idle", pc' # "idle", pc # "open",
         Stripping', Indexing', pc \in Writing => pc' \in Writing
  PROVE  KInv'
<1>1. Placed'
  BY DEF KInv, Placed, Paths, Path
<1>2. Accounted'
  BY DEF KInv, Accounted, Paths, Path
<1>3. LibrariesWhole' /\ NeverLost' /\ LibraryKept'
  BY Untouched
<1> QED BY <1>1, <1>2, <1>3 DEF KInv

\* The next file, or the end of the command.
LEMMA NextFile ==
  ASSUME KInv, UNCHANGED orig, DOMAIN fs' = DOMAIN fs, DOMAIN tmp' = DOMAIN tmp, pc # "idle", NEW how, Done(how),
         \A p \in Paths : tmp'[p].k # "none" => p \in left',
         LibrariesWhole', NeverLost', LibraryKept'
  PROVE  KInv'
<1>1. argv \in Seq(Paths) /\ argv # <<>>
  BY DEF KInv, Placed, Paths, Path
<1>2. Tail(argv) \in Seq(Paths) /\ (Len(argv) = 1 <=> Tail(argv) = <<>>)
  BY <1>1, Rest
<1>3. pc' \in {"idle", "open"} /\ (pc' # "idle" => argv' # <<>>) /\ argv' \in Seq(Paths)
  BY <1>2 DEF Done
<1>4. Placed'
  BY <1>3 DEF KInv, Placed, Paths, Path
<1>5. Stripping' /\ Indexing' /\ Accounted'
  BY <1>3 DEF Stripping, Indexing, Accounted, Writing, Paths
<1> QED BY <1>4, <1>5 DEF KInv

LEMMA ErrorKeeps ==
  ASSUME KInv, pc \notin {"idle", "open"}, Error,
         \/ tmp' = tmp /\ pc \notin Writing
         \/ tmp' = [tmp EXCEPT ![Path] = None] /\ fs[Path].k # "none"
  PROVE  KInv'
<1>1. UNCHANGED <<fs, orig, lost, left>> /\ Done("fail")
  BY DEF Error, history
<1>2. Path \in Paths
  BY DEF KInv, Placed, Paths, Path
<1>3. LibrariesWhole' /\ NeverLost' /\ LibraryKept'
  BY <1>1, <1>2, Untouched, Rewritten
<1>4. \A p \in Paths : tmp'[p].k # "none" => p \in left'
  BY <1>1, <1>2 DEF KInv, Placed, Accounted, None, Paths
<1>5. DOMAIN tmp' = DOMAIN tmp
  OBVIOUS
<1> QED BY <1>1, <1>3, <1>4, <1>5, NextFile

LEMMA OpenErrorKeeps ==
  ASSUME KInv, pc = "open", Error, UNCHANGED tmp
  PROVE  KInv'
<1>1. UNCHANGED <<fs, orig, lost, left>> /\ Done("fail")
  BY DEF Error, history
<1>2. LibrariesWhole' /\ NeverLost' /\ LibraryKept'
  BY <1>1, Untouched
<1>3. \A p \in Paths : tmp'[p].k # "none" => p \in left'
  BY <1>1 DEF KInv, Accounted, Writing, Paths
<1> QED BY <1>1, <1>2, <1>3, NextFile

LEMMA KilledKeeps ==
  ASSUME KInv, Killed
  PROVE  KInv'
<1>1. UNCHANGED <<fs, tmp, orig, lost>> /\ pc' = "idle" /\ argv' = <<>>
  BY DEF Killed
<1>2. Placed'
  BY <1>1 DEF KInv, Placed, Paths, Path
<1>3. Accounted'
  BY <1>1 DEF KInv, Accounted, Killed, Paths
<1>4. Stripping' /\ Indexing'
  BY <1>1 DEF Stripping, Indexing, Path, Index
<1> QED BY <1>1, <1>2, <1>3, <1>4, Untouched DEF KInv

-----------------------------------------------------------------------------
(* The steps of strip.                                                      *)

\* strip is at a file that is there and is no library.
Held == Path \in Paths /\ orig[Path].k # "ar" /\ fs[Path].k \notin {"none", "ar"}

LEMMA StripHolds ==
  ASSUME KInv, pc \in {"map", "create", "write", "close", "remove"}
  PROVE  Held
BY DEF KInv, Placed, Stripping, Held

LEMMA ReadKeeps ==
  ASSUME KInv, doitRead
  PROVE  KInv'
<1>1. pc = "strip" /\ Path \in Paths
  BY DEF doitRead, KInv, Placed
<1>2. CASE Error /\ UNCHANGED tmp
  BY <1>1, <1>2, ErrorKeeps DEF Writing
<1>3. CASE Killed
  BY <1>3, KilledKeeps
<1>4. CASE /\ Probe(fs[Path]) # "none" /\ pc' = "map"
           /\ UNCHANGED <<Kept, fs, tmp, argv, map, syms, artype, nolib, at, status, faults, history>>
  <2>1. fs[Path].k \notin {"none", "ar"}
    BY <1>4 DEF Probe
  <2>2. orig[Path].k # "ar"
    BY <1>1, <2>1 DEF KInv, LibraryKept, Behind
  <2>3. UNCHANGED <<fs, tmp, argv, orig, lost, left, Path>>
    BY <1>4 DEF history, Path
  <2> QED BY <1>1, <1>4, <2>1, <2>2, <2>3, GoesOn DEF Stripping, Indexing, Writing
<1> QED BY <1>2, <1>3, <1>4 DEF doitRead

LEMMA MapKeeps ==
  ASSUME KInv, doitMap
  PROVE  KInv'
<1>1. pc = "map" /\ Held
  BY StripHolds DEF doitMap
<1>2. CASE Killed
  BY <1>2, KilledKeeps
<1>3. CASE pc' = "create" /\ UNCHANGED <<Kept, fs, tmp, argv, syms, artype, nolib, at, status, faults, history>>
  <2>1. UNCHANGED <<fs, tmp, argv, orig, lost, left, Path>>
    BY <1>3 DEF history, Path
  <2> QED BY <1>1, <1>3, <2>1, GoesOn DEF Stripping, Indexing, Writing, Held
<1> QED BY <1>2, <1>3 DEF doitMap

\* The tool begins, fills or replaces its temporary.
LEMMA Fills ==
  ASSUME KInv, UNCHANGED <<fs, argv, orig, lost, left>>, pc \notin {"idle", "open"}, pc' \in Writing,
         fs[Path].k # "none", NEW x, tmp' = [tmp EXCEPT ![Path] = x],
         Stripping', Indexing'
  PROVE  KInv'
<1>1. Path \in Paths /\ Path' = Path /\ Paths' = Paths
  BY DEF KInv, Placed, Path, Paths
<1>2. Placed'
  BY DEF KInv, Placed, Paths, Path, Writing
<1>3. Accounted'
  BY <1>1 DEF KInv, Placed, Accounted
<1> QED BY <1>1, <1>2, <1>3, Rewritten DEF KInv

LEMMA CreateKeeps ==
  ASSUME KInv, doitCreate
  PROVE  KInv'
<1>1. pc = "create" /\ Held
  BY StripHolds DEF doitCreate
<1>2. CASE Error /\ UNCHANGED tmp
  BY <1>1, <1>2, ErrorKeeps DEF Writing
<1>3. CASE /\ tmp' = [tmp EXCEPT ![Path] = Part] /\ pc' = "write"
           /\ UNCHANGED <<Kept, fs, argv, memory, status, faults, history>>
  <2>1. UNCHANGED <<fs, argv, orig, lost, left, Path>>
    BY <1>3 DEF history, Path
  <2> QED BY <1>1, <1>3, <2>1, Fills DEF Stripping, Indexing, Writing, Held
<1> QED BY <1>2, <1>3 DEF doitCreate

LEMMA WriteKeeps ==
  ASSUME KInv, doitWrite
  PROVE  KInv'
<1>1. pc = "write" /\ Held
  BY StripHolds DEF doitWrite
<1>2. CASE GiveUp
  BY <1>1, <1>2, ErrorKeeps DEF GiveUp, Held
<1>3. CASE pc' = "close" /\ UNCHANGED <<Kept, fs, tmp, argv, memory, status, orig, lost, clean, left>>
  <2>1. UNCHANGED <<fs, tmp, argv, orig, lost, left, Path>>
    BY <1>3 DEF Path
  <2> QED BY <1>1, <1>3, <2>1, GoesOn DEF Stripping, Indexing, Writing, Held
<1> QED BY <1>2, <1>3 DEF doitWrite

LEMMA CloseKeeps ==
  ASSUME KInv, doitClose
  PROVE  KInv'
<1>1. pc = "close" /\ Held
  BY StripHolds DEF doitClose
<1>2. CASE GiveUp
  BY <1>1, <1>2, ErrorKeeps DEF GiveUp, Held
<1>3. CASE /\ tmp' = [tmp EXCEPT ![Path] = [k |-> "obj", f |-> Copy.file]] /\ pc' = "remove"
           /\ UNCHANGED <<Kept, fs, argv, memory, status, faults, history>>
  <2>1. UNCHANGED <<fs, argv, orig, lost, left, Path>>
    BY <1>3 DEF history, Path
  <2>2. tmp'[Path].k = "obj"
    BY <1>1, <1>3 DEF Held, KInv, Placed, Paths
  <2> QED BY <1>1, <1>3, <2>1, <2>2, Fills DEF Stripping, Indexing, Writing, Held
<1> QED BY <1>2, <1>3 DEF doitClose

\* One file is replaced, and no library is lost by that.
LEMMA OneReplaced ==
  ASSUME KInv, UNCHANGED <<orig, Paths>>, Path \in Paths, \A p \in Paths \ {Path} : fs'[p] = fs[p],
         orig[Path].k = "ar" => Behind(fs'[Path], orig'[Path])
  PROVE  LibraryKept'
<1>1. SUFFICES ASSUME NEW p \in Paths, orig[p].k = "ar" PROVE Behind(fs'[p], orig'[p])
  BY DEF LibraryKept
<1>2. CASE p = Path
  BY <1>1, <1>2
<1>3. CASE p # Path
  <2>1. fs'[p] = fs[p] /\ orig'[p] = orig[p] /\ Behind(fs[p], orig[p])
    BY <1>1, <1>3 DEF KInv, LibraryKept
  <2> QED BY <2>1
<1> QED BY <1>2, <1>3

LEMMA RemoveKeeps ==
  ASSUME KInv, doitRemove
  PROVE  KInv'
<1>1. pc = "remove" /\ Held /\ tmp[Path].k = "obj"
  BY StripHolds DEF doitRemove, KInv, Stripping
<1>2. CASE GiveUp
  BY <1>1, <1>2, ErrorKeeps DEF GiveUp, Held
<1>3. CASE /\ fs' = [fs EXCEPT ![Path] = None] /\ pc' = "rename"
           /\ UNCHANGED <<Kept, tmp, argv, memory, status, faults, history>>
  <2>1. UNCHANGED <<tmp, argv, orig, lost, left, Path, Paths>>
    BY <1>3 DEF history, Path, Paths
  <2>2. fs'[Path].k = "none" /\ \A p \in Paths \ {Path} : fs'[p] = fs[p]
    BY <1>1, <1>3 DEF Held, Paths, None
  <2>3. Placed'
    BY <1>1, <1>3, <2>1 DEF KInv, Placed, Paths
  <2>4. LibrariesWhole'
    BY <2>1, <2>2 DEF KInv, LibrariesWhole
  <2>5. Stripping' /\ Indexing'
    BY <1>1, <1>3, <2>1, <2>2 DEF Stripping, Indexing, Held
  <2>6. Accounted'
    BY <1>1, <1>3, <2>1 DEF KInv, Accounted, Writing
  <2>7. NeverLost'
    BY <1>1, <2>1, <2>2 DEF KInv, NeverLost
  <2>8. LibraryKept'
    BY <1>1, <2>1, <2>2, OneReplaced DEF Held
  <2> QED BY <2>3, <2>4, <2>5, <2>6, <2>7, <2>8 DEF KInv
<1> QED BY <1>2, <1>3 DEF doitRemove

LEMMA RenameKeeps ==
  ASSUME KInv, doitRename
  PROVE  KInv'
<1>1. pc = "rename" /\ Path \in Paths /\ orig[Path].k # "ar" /\ fs[Path].k = "none" /\ tmp[Path].k = "obj"
  BY DEF doitRename, KInv, Placed, Stripping
<1>2. CASE /\ Done("fail")
           /\ tmp' = [tmp EXCEPT ![Path] = None] /\ lost' = lost \cup {Path}
           /\ UNCHANGED <<fs, memory, out, ncmds, orig, damaged, clean, left>>
  <2>1. tmp'[Path].k = "none" /\ \A p \in Paths \ {Path} : tmp'[p] = tmp[p]
    BY <1>1, <1>2 DEF KInv, Placed, Paths, None
  <2>2. UNCHANGED <<fs, orig, left, Paths>> /\ lost' = lost \cup {Path}
    BY <1>2 DEF Paths
  <2>3. LibrariesWhole'
    BY <2>2 DEF KInv, LibrariesWhole
  <2>7. LibraryKept'
    <3>1. \A p \in Paths : fs'[p] = fs[p] /\ orig'[p] = orig[p]
      BY <2>2
    <3> QED BY <2>2, <3>1 DEF KInv, LibraryKept
  <2>4. NeverLost'
    BY <2>1, <2>2 DEF KInv, NeverLost
  <2>5. \A p \in Paths : tmp'[p].k # "none" => p \in left'
    BY <2>1, <2>2 DEF KInv, Accounted
  <2>6. DOMAIN fs' = DOMAIN fs /\ DOMAIN tmp' = DOMAIN tmp /\ pc # "idle" /\ Done("fail")
    BY <1>1, <1>2
  <2> QED BY <2>2, <2>3, <2>4, <2>5, <2>6, <2>7, NextFile
<1>3. CASE /\ fs' = [fs EXCEPT ![Path] = tmp[Path]] /\ tmp' = [tmp EXCEPT ![Path] = None]
           /\ Done(status) /\ UNCHANGED <<memory, out, faults, ncmds, history>>
  <2>1. /\ tmp'[Path].k = "none" /\ \A p \in Paths \ {Path} : tmp'[p] = tmp[p]
        /\ fs'[Path].k = "obj" /\ \A p \in Paths \ {Path} : fs'[p] = fs[p]
    BY <1>1, <1>3 DEF KInv, Placed, Paths, None
  <2>2. UNCHANGED <<orig, lost, left, Paths>>
    BY <1>3 DEF history, Paths
  <2>3. LibrariesWhole'
    BY <2>1, <2>2 DEF KInv, LibrariesWhole
  <2>4. LibraryKept'
    BY <1>1, <2>1, <2>2, OneReplaced
  <2>5. NeverLost'
    BY <2>1, <2>2 DEF KInv, NeverLost
  <2>6. \A p \in Paths : tmp'[p].k # "none" => p \in left'
    BY <2>1, <2>2 DEF KInv, Accounted
  <2>7. DOMAIN fs' = DOMAIN fs /\ DOMAIN tmp' = DOMAIN tmp /\ pc # "idle" /\ Done(status)
    BY <1>1, <1>3
  <2> QED BY <2>2, <2>3, <2>4, <2>5, <2>6, <2>7, NextFile
<1> QED BY <1>2, <1>3 DEF doitRename

LEMMA StripKeeps ==
  ASSUME KInv, StripNext
  PROVE  KInv'
BY ReadKeeps, MapKeeps, CreateKeeps, WriteKeeps, CloseKeeps, RemoveKeeps, RenameKeeps DEF StripNext

-----------------------------------------------------------------------------
(* The steps of ranlib.                                                     *)

\* A sequence with one more element in front.
LEMMA Prefixed ==
  ASSUME NEW m, Sequence(m), NEW x, NEW w, w = <<x>> \o m
  PROVE  /\ Sequence(w) /\ Len(w) = Len(m) + 1 /\ Len(m) \in Nat /\ w[1] = x
         /\ \A i \in 1 .. Len(m) : w[i + 1] = m[i]
         /\ \A n \in 0 .. Len(m) : SubSeq(w, n + 2, Len(w)) = SubSeq(m, n + 1, Len(m))
<1> DEFINE S == {m[i] : i \in DOMAIN m} \cup {x}
<1>1. m \in Seq(S) /\ x \in S
  BY DEF Sequence
<1> HIDE DEF S
<1>2. <<x>> \in Seq(S) /\ Len(<<x>>) = 1 /\ <<x>>[1] = x
  BY <1>1
<1>3. w \in Seq(S) /\ Len(w) = Len(m) + 1 /\ Len(m) \in Nat
  BY <1>1, <1>2
<1>4. w[1] = x /\ \A i \in 1 .. Len(m) : w[i + 1] = m[i]
  BY <1>1, <1>2, <1>3
<1>5. Sequence(w)
  <2>1. DOMAIN w = 1 .. Len(w) /\ w = [i \in 1 .. Len(w) |-> w[i]]
    BY <1>3
  <2> DEFINE T == {w[i] : i \in DOMAIN w}
  <2>2. \A i \in 1 .. Len(w) : w[i] \in T
    BY <2>1
  <2> HIDE DEF T
  <2>3. w \in Seq(T)
    <3> DEFINE D == 1 .. Len(w)
    <3>1. w = [i \in D |-> w[i]] /\ \A i \in D : w[i] \in T
      BY <2>1, <2>2
    <3> HIDE DEF D
    <3>2. w \in [D -> T]
      BY <3>1
    <3>3. \E n \in Nat : w \in [1 .. n -> T]
      <4>1. PICK n \in Nat : n = Len(w)
        BY <1>3
      <4>2. D = 1 .. n
        BY <4>1 DEF D
      <4>3. w \in [1 .. n -> T]
        BY <3>2, <4>2
      <4> QED BY <4>3
    <3>4. w \in UNION {[1 .. n -> T] : n \in Nat}
      BY <3>3
    <3> QED BY <3>4, SeqDef
  <2> QED BY <2>3 DEF Sequence, T
<1>6. ASSUME NEW n \in 0 .. Len(m)
      PROVE  SubSeq(w, n + 2, Len(w)) = SubSeq(m, n + 1, Len(m))
  <2>1. SubSeq(w, n + 2, Len(w)) \in Seq(S) /\ SubSeq(m, n + 1, Len(m)) \in Seq(S)
    BY <1>1, <1>3
  <2>2. Len(SubSeq(w, n + 2, Len(w))) = Len(m) - n /\ Len(SubSeq(m, n + 1, Len(m))) = Len(m) - n
    BY <1>1, <1>3
  <2>3. \A i \in 1 .. Len(m) - n : SubSeq(w, n + 2, Len(w))[i] = SubSeq(m, n + 1, Len(m))[i]
    <3>1. SUFFICES ASSUME NEW i \in 1 .. Len(m) - n PROVE SubSeq(w, n + 2, Len(w))[i] = SubSeq(m, n + 1, Len(m))[i]
      OBVIOUS
    <3>2. SubSeq(w, n + 2, Len(w))[i] = w[n + 2 + i - 1] /\ SubSeq(m, n + 1, Len(m))[i] = m[n + 1 + i - 1]
      BY <1>1, <1>3
    <3>3. n + i \in 1 .. Len(m) /\ n + 2 + i - 1 = (n + i) + 1 /\ n + 1 + i - 1 = n + i
      BY <1>3
    <3> QED BY <1>4, <3>2, <3>3
  <2> QED BY <2>1, <2>2, <2>3
<1> QED BY <1>3, <1>4, <1>5, <1>6

LEMMA ReadsymsKeeps ==
  ASSUME KInv, readsyms
  PROVE  KInv'
<1>1. pc = "ranlib" /\ artype = "none"
  BY DEF readsyms, KInv, Indexing
<1>2. UNCHANGED <<fs, tmp, argv, orig, lost, left, artype, Path>> /\ pc' \in {"index", "scan"}
  BY DEF readsyms, Same, history, Path
<1>3. pc' = "scan" => fs[Path].k = "ar"
  BY DEF readsyms, Lib
<1> QED BY <1>1, <1>2, <1>3, GoesOn DEF Stripping, Indexing, Writing

LEMMA ScanKeeps ==
  ASSUME KInv, scan
  PROVE  KInv'
<1>1. pc = "scan" /\ fs[Path].k = "ar"
  BY DEF scan, KInv, Indexing
<1>2. CASE Killed
  BY <1>2, KilledKeeps
<1>3. CASE UNCHANGED <<fs, tmp, argv, history>> /\ pc' \in {"scan", "index"}
  <2>1. UNCHANGED <<fs, tmp, argv, orig, lost, left, Path>>
    BY <1>3 DEF history, Path
  <2> QED BY <1>1, <1>3, <2>1, GoesOn DEF Stripping, Indexing, Writing
<1>4. CASE Done(status) /\ UNCHANGED <<fs, tmp, memory, out, faults, ncmds, history>>
  <2>1. UNCHANGED <<fs, tmp, orig, lost, left>>
    BY <1>4 DEF history
  <2>2. \A p \in Paths : tmp'[p].k # "none" => p \in left'
    BY <1>1, <2>1 DEF KInv, Accounted, Writing
  <2>3. LibrariesWhole' /\ NeverLost' /\ LibraryKept'
    BY <2>1, Untouched
  <2> QED BY <1>1, <1>4, <2>1, <2>2, <2>3, NextFile
<1> QED BY <1>1, <1>2, <1>3, <1>4 DEF scan, newmember, Same, memory

LEMMA SetindexKeeps ==
  ASSUME KInv, setindex
  PROVE  KInv'
<1>1. pc = "index"
  BY DEF setindex
<1>2. CASE Error /\ UNCHANGED tmp
  BY <1>1, <1>2, ErrorKeeps DEF Writing
<1>3. CASE Killed
  BY <1>3, KilledKeeps
<1>4. CASE /\ artype \notin {"none", "elf"} /\ pc' = "copy"
           /\ UNCHANGED <<Same, fs, tmp, argv, syms, artype, nolib, at, status, faults, history>>
  <2>1. UNCHANGED <<fs, tmp, argv, orig, lost, left, Path>> /\ fs[Path].k = "ar"
    BY <1>1, <1>4 DEF history, Path, KInv, Indexing
  <2> QED BY <1>1, <1>4, <2>1, GoesOn DEF Stripping, Indexing, Writing
<1> QED BY <1>2, <1>3, <1>4 DEF setindex

LEMMA CreateCopyKeeps ==
  ASSUME KInv, create
  PROVE  KInv'
<1>1. pc = "copy" /\ fs[Path].k = "ar"
  BY DEF create, KInv, Indexing
<1>2. CASE Error /\ UNCHANGED tmp
  BY <1>1, <1>2, ErrorKeeps DEF Writing
<1>3. CASE /\ tmp' = [tmp EXCEPT ![Path] = Part] /\ pc' = "merge"
           /\ UNCHANGED <<Same, fs, argv, syms, artype, nolib, at, status, faults, history>>
  <2>1. UNCHANGED <<fs, argv, orig, lost, left, Path>>
    BY <1>3 DEF history, Path
  <2> QED BY <1>1, <1>3, <2>1, Fills DEF Stripping, Indexing, Writing
<1> QED BY <1>2, <1>3 DEF create

LEMMA MergeKeeps ==
  ASSUME KInv, merge
  PROVE  KInv'
<1>1. pc = "merge" /\ fs[Path].k = "ar" /\ Path \in Paths
  BY DEF merge, KInv, Indexing, Placed
<1>2. CASE Error /\ tmp' = [tmp EXCEPT ![Path] = None]
  BY <1>1, <1>2, ErrorKeeps
<1>3. CASE /\ tmp' = [tmp EXCEPT ![Path] = [k |-> "ar", mem |-> <<Index>> \o Lib.mem, bad |-> Lib.bad]]
           /\ pc' = "name"
           /\ UNCHANGED <<Same, fs, argv, syms, artype, nolib, at, status, faults, history>>
  <2>1. UNCHANGED <<fs, argv, orig, lost, left, Path, Index>>
    BY <1>3 DEF history, Path, Index
  <2>2. tmp'[Path] = [k |-> "ar", mem |-> <<Index>> \o fs[Path].mem, bad |-> fs[Path].bad]
    BY <1>1, <1>3 DEF KInv, Placed, Paths, Lib
  <2>3. tmp'[Path].k = "ar" /\ tmp'[Path].mem = <<Index>> \o fs[Path].mem /\ tmp'[Path].bad = fs[Path].bad
    BY <2>2
  <2>4. Stripping' /\ Indexing'
    BY <1>1, <1>3, <2>1, <2>3 DEF Stripping, Indexing
  <2> QED BY <1>1, <1>3, <2>1, <2>4, Fills DEF Writing
<1> QED BY <1>2, <1>3 DEF merge

LEMMA NameKeeps ==
  ASSUME KInv, rename
  PROVE  KInv'
<1>1. /\ pc = "name" /\ fs[Path].k = "ar" /\ Path \in Paths /\ Sequence(fs[Path].mem)
      /\ tmp[Path].k = "ar" /\ tmp[Path].mem = <<Index>> \o fs[Path].mem /\ tmp[Path].bad = fs[Path].bad
  BY DEF rename, KInv, Indexing, Placed, LibrariesWhole
<1>2. CASE Error /\ tmp' = [tmp EXCEPT ![Path] = None]
  BY <1>1, <1>2, ErrorKeeps
<1>3. CASE /\ fs' = [fs EXCEPT ![Path] = tmp[Path]] /\ tmp' = [tmp EXCEPT ![Path] = None]
           /\ Done(status)
           /\ UNCHANGED <<memory, out, faults, ncmds, orig, damaged, lost, left>>
  <2>1. /\ tmp'[Path].k = "none" /\ \A p \in Paths \ {Path} : tmp'[p] = tmp[p]
        /\ fs'[Path] = tmp[Path] /\ \A p \in Paths \ {Path} : fs'[p] = fs[p]
    BY <1>1, <1>3 DEF KInv, Placed, Paths, None
  <2>2. UNCHANGED <<orig, lost, left, Paths>>
    BY <1>3 DEF Paths
  <2>3. LibrariesWhole'
    <3>1. fs'[Path].mem = <<Index>> \o fs[Path].mem
      BY <1>1, <2>1
    <3>2. Sequence(fs'[Path].mem)
      <4> DEFINE m == fs[Path].mem
                 w == fs'[Path].mem
      <4>1. w = <<Index>> \o m /\ Sequence(m)
        BY <1>1, <3>1
      <4> HIDE DEF m, w
      <4>2. Sequence(w)
        BY <4>1, Prefixed
      <4> QED BY <4>2 DEF w
    <3> QED BY <2>1, <2>2, <3>2 DEF KInv, LibrariesWhole
  <2>4. LibraryKept'
    <3>1. ASSUME Behind(fs[Path], orig[Path]) PROVE Behind(fs'[Path], orig'[Path])
      <4> DEFINE m == fs[Path].mem
                 w == fs'[Path].mem
      <4>1. /\ Len(w) = Len(m) + 1 /\ Len(m) \in Nat /\ w[1] = Index
            /\ \A i \in 1 .. Len(m) : w[i + 1] = m[i]
            /\ \A n \in 0 .. Len(m) : SubSeq(w, n + 2, Len(w)) = SubSeq(m, n + 1, Len(m))
        <5>1. w = <<Index>> \o m /\ Sequence(m)
          BY <1>1, <2>1
        <5> HIDE DEF m, w
        <5> QED BY <5>1, Prefixed
      <4>2. PICK n \in 0 .. Len(m) : (\A i \in 1 .. n : m[i].k = "index") /\ SubSeq(m, n + 1, Len(m)) = orig[Path].mem
        BY <3>1 DEF Behind
      <4>3. n + 1 \in 0 .. Len(w) /\ SubSeq(w, (n + 1) + 1, Len(w)) = orig'[Path].mem
        <5>1. n \in Nat /\ n + 2 = (n + 1) + 1 /\ n + 1 \in 0 .. Len(m) + 1
          BY <4>1, <4>2
        <5>2. SubSeq(w, n + 2, Len(w)) = SubSeq(m, n + 1, Len(m))
          BY <4>1
        <5> QED BY <2>2, <4>1, <4>2, <5>1, <5>2
      <4>4. \A i \in 1 .. n + 1 : w[i].k = "index"
        <5>1. SUFFICES ASSUME NEW i \in 1 .. n + 1 PROVE w[i].k = "index"
          OBVIOUS
        <5>2. CASE i = 1
          BY <4>1, <5>2 DEF Index
        <5>3. CASE i # 1
          <6>1. i - 1 \in 1 .. n /\ i - 1 \in 1 .. Len(m) /\ (i - 1) + 1 = i
            BY <4>1, <4>2, <5>3
          <6> QED BY <4>1, <4>2, <6>1
        <5> QED BY <5>2, <5>3
      <4>5. fs'[Path].k = "ar" /\ fs'[Path].bad = orig'[Path].bad
        BY <1>1, <2>1, <2>2, <3>1 DEF Behind
      <4> QED BY <4>3, <4>4, <4>5 DEF Behind
    <3>2. orig[Path].k = "ar" => Behind(fs[Path], orig[Path])
      BY <1>1 DEF KInv, LibraryKept
    <3> QED BY <1>1, <2>1, <2>2, <3>1, <3>2, OneReplaced
  <2>5. NeverLost'
    BY <1>1, <2>1, <2>2 DEF KInv, NeverLost
  <2>6. \A p \in Paths : tmp'[p].k # "none" => p \in left'
    BY <2>1, <2>2 DEF KInv, Accounted
  <2>7. DOMAIN fs' = DOMAIN fs /\ DOMAIN tmp' = DOMAIN tmp /\ pc # "idle" /\ Done(status)
    BY <1>1, <1>3
  <2> QED BY <2>2, <2>3, <2>4, <2>5, <2>6, <2>7, NextFile
<1> QED BY <1>2, <1>3 DEF rename

LEMMA RanlibKeeps ==
  ASSUME KInv, RanlibNext
  PROVE  KInv'
BY ReadsymsKeeps, ScanKeeps, SetindexKeeps, CreateCopyKeeps, MergeKeeps, NameKeeps DEF RanlibNext

-----------------------------------------------------------------------------
(* The steps of nm and size, and of every tool.                             *)

Looking == {"nm", "size", "members", "last"}

LEMMA OpenKeeps ==
  ASSUME KInv, Tooled, open
  PROVE  KInv'
<1>1. pc = "open" /\ argv # <<>> /\ argv \in Seq(Paths)
  BY DEF open, KInv, Placed
<1>2. CASE Error /\ UNCHANGED tmp
  BY <1>1, <1>2, OpenErrorKeeps
<1>3. CASE /\ fs[Path].k # "none" /\ pc' = cmd.tool /\ artype' = "none"
           /\ UNCHANGED <<fs, tmp, cmd, argv, obj, map, out, status, faults, ncmds, history>>
  <2>1. UNCHANGED <<fs, tmp, argv, orig, lost, left, Path, Paths>> /\ Path \in Paths
    BY <1>1, <1>3, Rest DEF history, Path, Paths
  <2>2. pc' \in {"strip", "ranlib", "nm", "size"}
    BY <1>1, <1>3 DEF Tooled
  <2>3. Placed'
    BY <1>1, <2>1, <2>2 DEF KInv, Placed, Paths
  <2>4. Stripping' /\ Indexing' /\ Accounted'
    BY <1>1, <1>3, <2>1, <2>2 DEF KInv, Stripping, Indexing, Accounted, Writing
  <2> QED BY <2>1, <2>3, <2>4, Untouched DEF KInv
<1> QED BY <1>2, <1>3 DEF open

LEMMA CommandKeeps ==
  ASSUME KInv, command
  PROVE  KInv'
<1>1. UNCHANGED <<fs, tmp, orig, lost, left, Paths>> /\ pc' = "open" /\ cmd' \in Commands /\ argv' = cmd'.args
  BY DEF command, history, Paths
<1>2. pc = "idle" /\ orig \in Contents /\ DOMAIN fs = DOMAIN orig
  BY DEF command, KInv, Placed
<1>3. argv' \in Seq(Paths) /\ argv' # <<>>
  BY <1>1, <1>2, CommandsAssumption DEF Paths
<1>4. Placed'
  BY <1>1, <1>3 DEF KInv, Placed, Paths
<1>5. Stripping' /\ Indexing' /\ Accounted'
  BY <1>1, <1>2 DEF KInv, Stripping, Indexing, Accounted, Writing
<1> QED BY <1>1, <1>4, <1>5, Untouched DEF KInv

LEMMA LookingOn ==
  ASSUME KInv, UNCHANGED <<fs, tmp, argv, history>>, pc \in Looking, pc' \in {"members", "last"}
  PROVE  KInv'
<1>1. UNCHANGED <<fs, tmp, argv, orig, lost, left>>
  BY DEF history
<1> QED BY <1>1, GoesOn DEF Stripping, Indexing, Writing, Looking

LEMMA LookOnKeeps ==
  ASSUME KInv, NEW c, NEW next \in {"members", "last"}, Look(c, next), pc \in Looking
  PROVE  KInv'
BY LookingOn, KilledKeeps DEF Look, Looking

LEMMA LookKeeps ==
  ASSUME KInv, look \/ members \/ last
  PROVE  KInv'
<1>1. pc \in Looking
  BY DEF look, members, last, Looking
<1>2. CASE look
  BY <1>1, <1>2, LookOnKeeps, LookingOn, ErrorKeeps DEF look, Looking, Writing
<1>3. CASE members
  BY <1>1, <1>3, LookOnKeeps, LookingOn DEF members
<1>4. CASE last
  <2>1. UNCHANGED <<fs, tmp, orig, lost, left>> /\ pc = "last" /\ Done(status)
    BY <1>4 DEF last, history
  <2>2. \A p \in Paths : tmp'[p].k # "none" => p \in left'
    BY <2>1 DEF KInv, Accounted, Writing
  <2> QED BY <2>1, <2>2, Untouched, NextFile
<1> QED BY <1>2, <1>3, <1>4

-----------------------------------------------------------------------------
(* The specification.                                                       *)

LEMMA KInvInit == Init => KInv /\ Tooled
<1> SUFFICES ASSUME Init PROVE KInv /\ Tooled
  OBVIOUS
<1>1. /\ orig = fs /\ fs \in Contents /\ pc = "idle" /\ argv = <<>>
      /\ DOMAIN tmp = DOMAIN fs /\ \A p \in Paths : tmp[p].k = "none"
  BY DEF Init, None, Paths
<1>2. Placed
  BY <1>1 DEF Placed, Paths
<1>3. LibrariesWhole
  BY <1>1, ContentsAssumption DEF LibrariesWhole, Paths
<1>4. Stripping /\ Indexing /\ Accounted /\ NeverLost
  BY <1>1 DEF Stripping, Indexing, Accounted, NeverLost
<1>5. LibraryKept
  <2>1. SUFFICES ASSUME NEW p \in Paths, fs[p].k = "ar" PROVE Behind(fs[p], fs[p])
    BY <1>1 DEF LibraryKept
  <2> DEFINE m == fs[p].mem
             S == {m[i] : i \in DOMAIN m}
  <2>2. m \in Seq(S)
    BY <1>3, <2>1 DEF LibrariesWhole, Sequence
  <2> HIDE DEF m, S
  <2>3. Len(m) \in Nat /\ SubSeq(m, 1, Len(m)) = m /\ 0 + 1 = 1
    BY <2>2
  <2>4. 0 \in 0 .. Len(m) /\ (\A i \in 1 .. 0 : m[i].k = "index") /\ SubSeq(m, 0 + 1, Len(m)) = m
    BY <2>3
  <2> QED BY <2>1, <2>4 DEF Behind, m
<1> QED BY <1>1, <1>2, <1>3, <1>4, <1>5 DEF KInv, Tooled

LEMMA TooledNext == Tooled /\ [Next]_vars => Tooled'
<1> SUFFICES ASSUME Tooled, [Next]_vars PROVE Tooled'
  OBVIOUS
<1>1. CASE command
  BY <1>1, CommandsAssumption DEF command, Tooled
<1>2. CASE (Error /\ pc # "idle") \/ Killed
  BY <1>2 DEF Error, Done, Killed, Tooled
<1>3. CASE open
  BY <1>2, <1>3 DEF open, Tooled
<1>4. CASE StripNext
  <2>1. CASE cmd' = cmd /\ pc # "idle"
    BY <2>1 DEF Tooled
  <2> QED BY <1>2, <1>4, <2>1 DEF StripNext, doitRead, doitMap, doitCreate, doitWrite, doitClose, doitRemove, doitRename,
                 GiveUp, Done, Kept
<1>5. CASE RanlibNext
  <2>1. CASE cmd' = cmd /\ pc # "idle"
    BY <2>1 DEF Tooled
  <2> QED BY <1>2, <1>5, <2>1 DEF RanlibNext, readsyms, scan, setindex, create, merge, rename, Done, Same
<1>6. CASE look \/ members \/ last
  <2>1. CASE cmd' = cmd /\ pc # "idle"
    BY <2>1 DEF Tooled
  <2> QED BY <1>2, <1>6, <2>1 DEF look, members, last, Look, Done
<1>7. CASE kill \/ Ended \/ UNCHANGED vars
  BY <1>2, <1>7 DEF kill, Ended, vars, Tooled
<1> QED BY <1>1, <1>3, <1>4, <1>5, <1>6, <1>7 DEF Next

LEMMA KInvNext == KInv /\ Tooled /\ [Next]_vars => KInv'
<1> SUFFICES ASSUME KInv, Tooled, [Next]_vars PROVE KInv'
  OBVIOUS
<1>1. CASE command
  BY <1>1, CommandKeeps
<1>2. CASE open
  BY <1>2, OpenKeeps
<1>3. CASE StripNext
  BY <1>3, StripKeeps
<1>4. CASE RanlibNext
  BY <1>4, RanlibKeeps
<1>5. CASE look \/ members \/ last
  BY <1>5, LookKeeps
<1>6. CASE kill
  BY <1>6, KilledKeeps DEF kill
<1>7. CASE Ended \/ UNCHANGED vars
  <2>1. UNCHANGED <<fs, tmp, argv, pc, syms, artype, orig, lost, left>>
    BY <1>7 DEF Ended, vars, memory, history
  <2>2. Placed' /\ Accounted'
    BY <2>1 DEF KInv, Placed, Accounted, Paths, Path
  <2>3. Stripping' /\ Indexing'
    BY <2>1 DEF KInv, Stripping, Indexing, Path, Index
  <2> QED BY <2>1, <2>2, <2>3, Untouched DEF KInv
<1> QED BY <1>1, <1>2, <1>3, <1>4, <1>5, <1>6, <1>7 DEF Next

LEMMA KInvKeeps == KInv => FilesKept
<1> SUFFICES ASSUME KInv PROVE FilesKept
  OBVIOUS
<1>1. TemporariesGo
  BY DEF KInv, Accounted, Placed, TemporariesGo, Writing
<1> QED BY <1>1 DEF KInv, FilesKept

\* For any files, libraries and commands, any failures of the system and a signal
\* at any step of strip or ranlib: an object is never lost but when rename() fails,
\* a library has the members it had behind the indexes ranlib put there, and a tool
\* that was not killed leaves no temporary.
THEOREM NothingIsLost == Spec => []FilesKept
BY KInvInit, KInvNext, TooledNext, KInvKeeps, PTL DEF Spec

(***************************************************************************)
(* The index that ranlib makes.                                            *)
(***************************************************************************)

\* The symbols that ranlib has met, each with its member: all those of the
\* members before number a.
SymbolsIn(j, s)   == {<<j, s[i].name, s[i].type>> : i \in DOMAIN s}
Met(mem, a) == UNION {SymbolsIn(j, SymbolsOf(mem[j])) : j \in 1 .. a - 1}

Defines == Upper \ {"N"}
Strong  == Upper \ {"N", "U", "C"}

Entries(t) == \E N, Y : t \in Seq([name : N, type : Y, memb : Nat])
Unique(t)  == \A i, k \in DOMAIN t : t[i].name = t[k].name => i = k

\* The table t after the symbols D: an entry is the symbol that gave it; only names
\* without a definition have a common one, and a use only those without a common
\* one in a later member.
Entered(t, D) == \A d \in D : d[3] \in Defines => \E k \in DOMAIN t : t[k].name = d[2]
Given(e, D) ==
  /\ e.type \in Defines /\ <<e.memb, e.name, e.type>> \in D
  /\ e.type \in {"U", "C"} => \A d \in D : d[2] = e.name => d[3] \notin Strong
  /\ e.type = "U" => \A d \in D : d[2] = e.name /\ d[3] = "C" => d[1] <= e.memb
Table(t, D) == Entries(t) /\ Unique(t) /\ Entered(t, D) /\ \A k \in DOMAIN t : Given(t[k], D)

\* A larger set has longer sequences.
LEMMA Wider ==
  ASSUME NEW S, NEW T, S \subseteq T, NEW s \in Seq(S)
  PROVE  s \in Seq(T)
<1>1. PICK n \in Nat : s \in [1 .. n -> S]
  <2>1. s \in UNION {[1 .. n -> S] : n \in Nat}
    BY SeqDef
  <2> QED BY <2>1
<1>2. s \in [1 .. n -> T]
  BY <1>1
<1>3. s \in UNION {[1 .. n2 -> T] : n2 \in Nat}
  BY <1>2
<1> QED BY <1>3, SeqDef

\* The table and the flag after one symbol.
Tables(N, Y) == [syms : Seq([name : N, type : Y, memb : Nat]), stop : BOOLEAN]

LEMMA SymbolKnown ==
  ASSUME NEW N, NEW Y, NEW t \in Tables(N, Y), ~t.stop, at \in Nat,
         NEW new, new.name \in N, new.type \in Y, new.type \in Defines,
         NEW k \in DOMAIN t.syms, t.syms[k].name = new.name, k = Place(t.syms, new.name)
  PROVE  /\ newsymbol(t, new) \in Tables(N, Y)
         /\ ~newsymbol(t, new).stop =>
              /\ ~Clash(t.syms[k], new)
              /\ newsymbol(t, new).syms = [t.syms EXCEPT ![k] = Defined(t.syms[k], new)]
<1> DEFINE T == t.syms
           E == [name : N, type : Y, memb : Nat]
<1>1. T \in Seq(E) /\ t = [syms |-> T, stop |-> FALSE] /\ DOMAIN T = 1 .. Len(T)
  BY DEF Tables
<1>4. newsymbol(t, new) = IF Clash(T[k], new) THEN [t EXCEPT !.stop = TRUE]
                          ELSE [t EXCEPT !.syms = [T EXCEPT ![k] = Defined(T[k], new)]]
  BY DEF newsymbol, With, Defines, lookup
<1>5. Defined(T[k], new) \in E
  <2> DEFINE s == T[k]
  <2> HIDE DEF E, T
  <2>1. k \in DOMAIN T
    BY DEF T
  <2>2. s \in E
    BY <1>1, <2>1
  <2> HIDE DEF s
  <2>3. s.name \in N
    BY <2>2 DEF E
  <2>4. [name |-> s.name, type |-> new.type, memb |-> at] \in E
    BY <2>3 DEF E
  <2>5. Defined(s, new) \in E
    BY <2>2, <2>4 DEF Defined
  <2> QED BY <2>5 DEF s
<1>6. [T EXCEPT ![k] = Defined(T[k], new)] \in Seq(E)
  BY <1>1, <1>5
<1> HIDE DEF T
<1>7. newsymbol(t, new) \in Tables(N, Y)
  <2>1. CASE Clash(T[k], new)
    BY <1>1, <1>4, <2>1 DEF Tables
  <2>2. CASE ~Clash(T[k], new)
    BY <1>1, <1>4, <1>6, <2>2 DEF Tables
  <2> QED BY <2>1, <2>2
<1>8. ~newsymbol(t, new).stop => ~Clash(T[k], new) /\ newsymbol(t, new).syms = [T EXCEPT ![k] = Defined(T[k], new)]
  BY <1>1, <1>4
<1> QED BY <1>7, <1>8 DEF T

LEMMA SymbolUnknown ==
  ASSUME NEW N, NEW Y, NEW t \in Tables(N, Y), ~t.stop, at \in Nat, "U" \in Y,
         NEW new, new.name \in N, new.type \in Y, new.type \in Defines,
         \A k \in DOMAIN t.syms : t.syms[k].name # new.name
  PROVE  /\ newsymbol(t, new) \in Tables(N, Y)
         /\ newsymbol(t, new).syms = <<[name |-> new.name, type |-> new.type, memb |-> at]>> \o t.syms
<1> DEFINE T == t.syms
           E == [name : N, type : Y, memb : Nat]
           e == [name |-> new.name, type |-> "U", memb |-> 0]
           g == [name |-> new.name, type |-> new.type, memb |-> at]
           all == <<e>> \o T
           w == <<g>> \o T
           c == Place(all, new.name)
<1>1. T \in Seq(E) /\ t = [syms |-> T, stop |-> FALSE] /\ DOMAIN T = 1 .. Len(T) /\ Len(T) \in Nat
  BY DEF Tables
<1>2. e \in E /\ g \in E
  OBVIOUS
<1>3. <<e>> \in Seq(E) /\ <<g>> \in Seq(E)
  BY <1>2
<1>4. /\ all \in Seq(E) /\ DOMAIN all = 1 .. Len(T) + 1 /\ all[1] = e
      /\ \A i \in 1 .. Len(T) + 1 : i # 1 => all[i] = T[i - 1]
  BY <1>1, <1>3
<1>5. /\ w \in Seq(E) /\ DOMAIN w = 1 .. Len(T) + 1 /\ w[1] = g
      /\ \A i \in 1 .. Len(T) + 1 : i # 1 => w[i] = T[i - 1]
  BY <1>1, <1>3
<1> HIDE DEF all, w
<1>6. 1 \in DOMAIN all /\ all[1].name = new.name /\ \A j \in DOMAIN all : all[j].name = new.name => j = 1
  <2>1. ASSUME NEW j \in DOMAIN all, j # 1 PROVE all[j].name # new.name
    <3>1. j - 1 \in DOMAIN T
      BY <1>1, <1>4, <2>1
    <3> QED BY <1>4, <2>1, <3>1
  <2>2. 1 \in DOMAIN all
    BY <1>1, <1>4
  <2> QED BY <1>4, <2>1, <2>2
<1>7. c = 1
  BY <1>6 DEF Place
<1> HIDE DEF c
<1>8. ~Clash(all[1], new) /\ Defined(all[1], new) = g
  <2>1. ~Clash(e, new)
    BY DEF Clash
  <2>2. Defined(e, new) = g
    BY DEF Defined
  <2> QED BY <1>4, <2>1, <2>2
<1>9. newsymbol(t, new) = [t EXCEPT !.syms = [all EXCEPT ![1] = g]]
  <2>1. newsymbol(t, new) = IF Clash(all[c], new) THEN [t EXCEPT !.stop = TRUE]
                            ELSE [t EXCEPT !.syms = [all EXCEPT ![c] = Defined(all[c], new)]]
    <3>1. lookup(T, new.name) = all
      BY DEF lookup, all
    <3> QED BY <3>1 DEF newsymbol, With, Defines, c
  <2> QED BY <1>7, <1>8, <2>1
<1>10. [all EXCEPT ![1] = g] = w
  BY <1>1, <1>4, <1>5
<1> HIDE DEF T
<1>11. newsymbol(t, new) = [syms |-> w, stop |-> FALSE]
  BY <1>1, <1>9, <1>10
<1> QED BY <1>5, <1>11 DEF Tables, w, T

\* An entry stays right when a symbol of another name is met.
LEMMA OtherName ==
  ASSUME NEW e, NEW D, Given(e, D), NEW a, NEW n, NEW y, n # e.name
  PROVE  Given(e, D \cup {<<a, n, y>>})
BY DEF Given

\* The entry of the symbol that was met.
LEMMA SameName ==
  ASSUME NEW e, NEW D, Given(e, D), NEW new, new.name = e.name, new.type \in Defines, at \in Nat,
         \A d \in D : d[1] \in Nat /\ d[1] <= at, ~Clash(e, new)
  PROVE  Given(Defined(e, new), D \cup {<<at, new.name, new.type>>}) /\ Defined(e, new).name = e.name
<1> DEFINE x == <<at, new.name, new.type>>
           g == [name |-> e.name, type |-> new.type, memb |-> at]
<1>1. x[1] = at /\ x[2] = e.name /\ x[3] = new.type
  OBVIOUS
<1>2. g.name = e.name /\ g.type = new.type /\ g.memb = at /\ <<g.memb, g.name, g.type>> = x
  OBVIOUS
<1> HIDE DEF x, g
<1>3. CASE e.type = "U" \/ (e.type = "C" /\ new.type # "C")
  <2>1. Defined(e, new) = g
    BY <1>3 DEF Defined, g
  <2>2. \A d \in D : d[2] = e.name => d[3] \notin Strong
    BY <1>3 DEF Given
  <2>3. Given(g, D \cup {x})
    BY <1>1, <1>2, <2>2 DEF Given, Strong
  <2> QED BY <1>2, <2>1, <2>3 DEF x
<1>4. CASE ~(e.type = "U" \/ (e.type = "C" /\ new.type # "C"))
  <2>1. Defined(e, new) = e
    BY <1>4 DEF Defined
  <2>2. new.type = "C" /\ e.type # "U"
    BY <1>4 DEF Clash
  <2>3. Given(e, D \cup {x})
    BY <1>1, <2>2 DEF Given, Strong
  <2> QED BY <2>1, <2>3 DEF x
<1> QED BY <1>3, <1>4

LEMMA SymbolEntered ==
  ASSUME NEW N, NEW Y, NEW t \in Tables(N, Y), ~t.stop, at \in Nat, "U" \in Y,
         NEW new, new.name \in N, new.type \in Y,
         NEW D, Table(t.syms, D), \A d \in D : d[1] \in Nat /\ d[1] <= at
  PROVE  /\ newsymbol(t, new) \in Tables(N, Y)
         /\ ~newsymbol(t, new).stop => Table(newsymbol(t, new).syms, D \cup {<<at, new.name, new.type>>})
<1> DEFINE T == t.syms
           r == newsymbol(t, new)
           x == <<at, new.name, new.type>>
<1>1. x[1] = at /\ x[2] = new.name /\ x[3] = new.type
  OBVIOUS
<1>2. /\ Entries(T) /\ Unique(T) /\ Entered(T, D) /\ \A k \in DOMAIN T : Given(T[k], D)
      /\ T \in Seq([name : N, type : Y, memb : Nat])
  BY DEF Table, Tables
<1>3. CASE new.type \notin Defines
  <2>1. r = t
    BY <1>3 DEF newsymbol, Defines
  <2> HIDE DEF x, r
  <2>2. Entered(T, D \cup {x})
    BY <1>1, <1>2, <1>3 DEF Entered
  <2>3. \A k \in DOMAIN T : Given(T[k], D \cup {x})
    BY <1>1, <1>2, <1>3 DEF Given, Strong, Defines, Upper
  <2>4. Table(T, D \cup {x})
    BY <1>2, <2>2, <2>3 DEF Table
  <2> QED BY <2>1, <2>4 DEF x, r
<1>4. ASSUME new.type \in Defines, NEW k \in DOMAIN T, T[k].name = new.name, k = Place(T, new.name)
      PROVE  r \in Tables(N, Y) /\ (~r.stop => Table(r.syms, D \cup {x}))
  <2>1. /\ r \in Tables(N, Y)
        /\ ~r.stop => ~Clash(T[k], new) /\ r.syms = [T EXCEPT ![k] = Defined(T[k], new)]
    BY <1>4, SymbolKnown
  <2>2. SUFFICES ASSUME ~r.stop PROVE Table(r.syms, D \cup {x})
    BY <2>1
  <2> DEFINE w == r.syms
             e == T[k]
  <2>3. DOMAIN w = DOMAIN T /\ w[k] = Defined(e, new) /\ \A i \in DOMAIN T : i # k => w[i] = T[i]
    BY <2>1, <2>2
  <2>4. Entries(w)
    BY <2>1 DEF Tables, Entries
  <2>5. Given(Defined(e, new), D \cup {x}) /\ Defined(e, new).name = e.name
    <3>1. Given(e, D) /\ new.name = e.name /\ ~Clash(e, new)
      BY <1>2, <1>4, <2>1, <2>2
    <3> HIDE DEF e, w, r, T
    <3> QED BY <1>4, <3>1, SameName
  <2> HIDE DEF w, x, r, T, e
  <2>6. \A i \in DOMAIN T : w[i].name = T[i].name
    BY <2>3, <2>5 DEF e
  <2>7. Unique(w)
    BY <1>2, <2>3, <2>6 DEF Unique
  <2>8. Entered(w, D \cup {x})
    <3>1. w[k].name = new.name
      BY <1>4, <2>6
    <3> QED BY <1>1, <1>2, <1>4, <2>3, <2>6, <3>1 DEF Entered
  <2>9. ASSUME NEW i \in DOMAIN w PROVE Given(w[i], D \cup {x})
    <3>1. CASE i = k
      BY <2>3, <2>5, <3>1
    <3>2. CASE i # k
      <4>1. i \in DOMAIN T /\ w[i] = T[i] /\ T[i].name # new.name
        BY <1>2, <1>4, <2>3, <3>2 DEF Unique
      <4>2. Given(T[i], D)
        BY <1>2, <4>1
      <4> QED BY <4>1, <4>2, OtherName DEF x
    <3> QED BY <3>1, <3>2
  <2> QED BY <2>4, <2>7, <2>8, <2>9 DEF Table, w
<1>5. ASSUME new.type \in Defines, \A k \in DOMAIN T : T[k].name # new.name
      PROVE  r \in Tables(N, Y) /\ (~r.stop => Table(r.syms, D \cup {x}))
  <2> DEFINE g == [name |-> new.name, type |-> new.type, memb |-> at]
             w == r.syms
             E == [name : N, type : Y, memb : Nat]
  <2>1. r \in Tables(N, Y) /\ w = <<g>> \o T
    BY <1>5, SymbolUnknown
  <2>2. g.name = new.name /\ g.type = new.type /\ g.memb = at /\ <<g.memb, g.name, g.type>> = x /\ g \in E
    OBVIOUS
  <2>3. Entries(w)
    BY <2>1 DEF Tables, Entries
  <2> HIDE DEF w, x, r, T, g, E
  <2>4. <<g>> \in Seq(E) /\ T \in Seq(E) /\ DOMAIN T = 1 .. Len(T) /\ Len(T) \in Nat
    BY <1>2, <2>2 DEF E
  <2>5. /\ DOMAIN w = 1 .. Len(T) + 1 /\ w[1] = g
        /\ \A i \in DOMAIN w : i # 1 => i - 1 \in DOMAIN T /\ w[i] = T[i - 1]
        /\ \A i \in DOMAIN T : i + 1 \in DOMAIN w /\ w[i + 1] = T[i] /\ i \in Nat
    BY <2>1, <2>4
  <2>6. Unique(w)
    <3>1. SUFFICES ASSUME NEW i \in DOMAIN w, NEW k \in DOMAIN w, w[i].name = w[k].name PROVE i = k
      BY DEF Unique
    <3>2. CASE i = 1 \/ k = 1
      BY <1>5, <2>2, <2>5, <3>1, <3>2
    <3>3. CASE i # 1 /\ k # 1
      <4>1. i - 1 = k - 1
        BY <1>2, <2>5, <3>1, <3>3 DEF Unique
      <4>2. i \in Int /\ k \in Int
        BY <2>4, <2>5
      <4> QED BY <4>1, <4>2
    <3> QED BY <3>2, <3>3
  <2>7. Entered(w, D \cup {x})
    <3>1. SUFFICES ASSUME NEW d \in D \cup {x}, d[3] \in Defines PROVE \E k \in DOMAIN w : w[k].name = d[2]
      BY DEF Entered
    <3>2. CASE d = x
      <4>1. 1 \in DOMAIN w
        BY <2>4, <2>5
      <4> QED BY <1>1, <2>2, <2>5, <3>2, <4>1
    <3>3. CASE d \in D
      <4>1. PICK k \in DOMAIN T : T[k].name = d[2]
        BY <1>2, <3>1, <3>3 DEF Entered
      <4> QED BY <2>5, <4>1
    <3> QED BY <3>2, <3>3
  <2>8. Given(g, D \cup {x})
    <3>1. \A d \in D : d[2] = new.name => d[3] \notin Defines
      BY <1>2, <1>5 DEF Entered
    <3> QED BY <1>1, <1>5, <2>2, <3>1 DEF Given, Strong, Defines, Upper
  <2>9. ASSUME NEW i \in DOMAIN w PROVE Given(w[i], D \cup {x})
    <3>1. CASE i = 1
      BY <2>5, <2>8, <3>1
    <3>2. CASE i # 1
      <4>1. i - 1 \in DOMAIN T /\ w[i] = T[i - 1] /\ T[i - 1].name # new.name
        BY <1>5, <2>5, <3>2
      <4>2. Given(T[i - 1], D)
        BY <1>2, <4>1
      <4> QED BY <4>1, <4>2, OtherName DEF x
    <3> QED BY <3>1, <3>2
  <2> QED BY <2>1, <2>3, <2>6, <2>7, <2>9 DEF Table, w
<1> QED BY <1>3, <1>4, <1>5 DEF Place

LEMMA SymbolTyped ==
  ASSUME NEW N, NEW Y, NEW t \in Tables(N, Y), at \in Nat, "U" \in Y,
         NEW new, new.name \in N, new.type \in Y
  PROVE  newsymbol(t, new) \in Tables(N, Y)
<1> DEFINE T == t.syms
<1>1. CASE t.stop \/ new.type \notin Defines
  BY <1>1 DEF newsymbol, Defines
<1>2. CASE ~t.stop /\ new.type \in Defines /\ \E k \in DOMAIN T : T[k].name = new.name
  <2>1. Place(T, new.name) \in DOMAIN T /\ T[Place(T, new.name)].name = new.name
    BY <1>2 DEF Place
  <2> QED BY <1>2, <2>1, SymbolKnown
<1>3. CASE ~t.stop /\ new.type \in Defines /\ ~\E k \in DOMAIN T : T[k].name = new.name
  BY <1>3, SymbolUnknown
<1> QED BY <1>1, <1>2, <1>3

\* The symbols of a member one after the other.
SymbolRun(g, B, b, s) ==
  g \in [0 .. Len(s) -> B] /\ g[0] = b /\ \A k \in 1 .. Len(s) : g[k] = newsymbol(g[k - 1], s[k])

LEMMA SymbolsRun ==
  ASSUME NEW N, NEW Y, NEW b \in Tables(N, Y), at \in Nat, "U" \in Y,
         NEW s, Len(s) \in Nat, DOMAIN s = 1 .. Len(s), \A k \in DOMAIN s : s[k].name \in N /\ s[k].type \in Y
  PROVE  \E g : SymbolRun(g, Tables(N, Y), b, s) /\ FoldLeft(newsymbol, b, s) = g[Len(s)]
<1> DEFINE n == Len(s)
           B == Tables(N, Y)
           step == [k \in 1 .. n |-> [x \in B |-> newsymbol(x, s[k])]]
           Eq(h) == h = [u \in SUBSET DOMAIN s |->
                           IF u = {} THEN b ELSE newsymbol(h[u \ {Max(u)}], s[Max(u)])]
           it == CHOOSE h : Eq(h)
<1>1. n \in Nat /\ DOMAIN s = 1 .. n /\ b \in B
  OBVIOUS
<1>2. FoldLeft(newsymbol, b, s) = it[DOMAIN s]
  BY DEF FoldLeft, MapThenFoldSet
<1> HIDE DEF n
<1>3. step \in [1 .. n -> [B -> B]]
  <2>1. ASSUME NEW k \in 1 .. n, NEW x \in B PROVE newsymbol(x, s[k]) \in B
    BY <1>1, <2>1, SymbolTyped
  <2> HIDE DEF B
  <2> QED BY <2>1
<1>4. \A k \in 1 .. n : \A x \in B : step[k][x] = newsymbol(x, s[k])
  OBVIOUS
<1> HIDE DEF step, B
<1>5. PICK h : Folding(h, n, B, b, step)
  BY <1>1, <1>3, FoldingExists
<1>6. Eq(h)
  <2>1. ASSUME NEW u \in SUBSET (1 .. n), u # {}
        PROVE  h[u] = newsymbol(h[u \ {Max(u)}], s[Max(u)])
    <3>1. Max(u) \in 1 .. n /\ u \ {Max(u)} \in SUBSET (1 .. n)
      BY <1>1, <2>1, HasGreatest
    <3>2. h[u \ {Max(u)}] \in B
      BY <1>5, <3>1 DEF Folding
    <3> QED BY <1>4, <1>5, <2>1, <3>1, <3>2 DEF Folding
  <2>2. h = [u \in SUBSET (1 .. n) |-> h[u]] /\ h[{}] = b
    BY <1>5 DEF Folding
  <2> QED BY <1>1, <2>1, <2>2
<1>7. Eq(it)
  BY <1>6
<1> HIDE DEF it
<1>8. Unfolds(it, n, B, b, step)
  <2>1. it[{}] = b
    BY <1>1, <1>7
  <2>2. ASSUME NEW u \in SUBSET (1 .. n), u # {}, it[u \ {Max(u)}] \in B
        PROVE  it[u] = step[Max(u)][it[u \ {Max(u)}]]
    <3>1. Max(u) \in 1 .. n
      BY <1>1, <2>2, HasGreatest
    <3>2. it[u] = newsymbol(it[u \ {Max(u)}], s[Max(u)])
      BY <1>1, <1>7, <2>2
    <3> QED BY <1>4, <2>2, <3>1, <3>2
  <2> QED BY <2>1, <2>2 DEF Unfolds
<1> HIDE DEF Eq
<1>9. PICK g : Run(g, n, B, b, step) /\ it[1 .. n] = g[n]
  <2>1. Arrives(it, n, B, b, step)
    BY <1>1, <1>3, <1>8, FoldIsRun
  <2> QED BY <2>1 DEF Arrives
<1>10. SymbolRun(g, B, b, s)
  <2>1. g \in [0 .. n -> B] /\ g[0] = b
    BY <1>9 DEF Run
  <2>2. ASSUME NEW k \in 1 .. n PROVE g[k] = newsymbol(g[k - 1], s[k])
    <3>1. k - 1 \in 0 .. n
      BY <1>1
    <3>2. g[k - 1] \in B
      BY <2>1, <3>1
    <3> QED BY <1>4, <1>9, <3>2 DEF Run
  <2> QED BY <2>1, <2>2 DEF SymbolRun, n
<1> QED BY <1>1, <1>2, <1>9, <1>10 DEF n, B

\* What is true of the state after each symbol while none was refused.
Going(t, D) == ~t.stop => Table(t.syms, D)

\* The table after the symbols s of the member at.
LEMMA SymbolsEntered ==
  ASSUME NEW N, NEW Y, NEW b \in Tables(N, Y), ~b.stop, at \in Nat, "U" \in Y,
         NEW s, Len(s) \in Nat, DOMAIN s = 1 .. Len(s), \A k \in DOMAIN s : s[k].name \in N /\ s[k].type \in Y,
         NEW D, Table(b.syms, D), \A d \in D : d[1] \in Nat /\ d[1] <= at
  PROVE  Going(FoldLeft(newsymbol, b, s), D \cup SymbolsIn(at, s))
<1> DEFINE n == Len(s)
           So(k) == D \cup {<<at, s[i].name, s[i].type>> : i \in 1 .. k}
<1>1. PICK g : SymbolRun(g, Tables(N, Y), b, s) /\ FoldLeft(newsymbol, b, s) = g[n]
  BY SymbolsRun
<1>2. /\ g \in [0 .. n -> Tables(N, Y)] /\ g[0] = b /\ \A k \in 1 .. n : g[k] = newsymbol(g[k - 1], s[k])
      /\ n \in Nat /\ DOMAIN s = 1 .. n
  BY <1>1 DEF SymbolRun
<1> HIDE DEF n
<1> DEFINE I == {k \in Nat : k <= n => Going(g[k], So(k))}
<1>3. 0 \in I
  <2>1. So(0) = D
    OBVIOUS
  <2> HIDE DEF So
  <2> QED BY <1>2, <2>1 DEF Going
<1>4. ASSUME NEW k \in Nat, k \in I PROVE k + 1 \in I
  <2>1. SUFFICES ASSUME k + 1 <= n PROVE Going(g[k + 1], So(k + 1))
    OBVIOUS
  <2>2. k <= n /\ k + 1 \in 1 .. n /\ (k + 1) - 1 = k /\ k \in 0 .. n
    BY <1>2, <2>1
  <2> DEFINE t == g[k]
             new == s[k + 1]
  <2>3. t \in Tables(N, Y) /\ g[k + 1] = newsymbol(t, new) /\ new.name \in N /\ new.type \in Y
    BY <1>2, <2>2
  <2>4. Going(t, So(k))
    BY <1>4, <2>2
  <2>5. So(k + 1) = So(k) \cup {<<at, new.name, new.type>>}
    <3>1. 1 .. k + 1 = (1 .. k) \cup {k + 1}
      OBVIOUS
    <3> QED BY <3>1
  <2>6. \A d \in So(k) : d[1] \in Nat /\ d[1] <= at
    OBVIOUS
  <2> HIDE DEF So, t, new
  <2>7. CASE t.stop
    <3>1. newsymbol(t, new) = t
      BY <2>7 DEF newsymbol
    <3> QED BY <2>3, <2>7, <3>1 DEF Going
  <2>8. CASE ~t.stop
    <3>1. Table(t.syms, So(k))
      BY <2>4, <2>8 DEF Going
    <3>2. ~newsymbol(t, new).stop => Table(newsymbol(t, new).syms, So(k) \cup {<<at, new.name, new.type>>})
      BY <2>3, <2>6, <2>8, <3>1, SymbolEntered
    <3> QED BY <2>3, <2>5, <3>2 DEF Going
  <2> QED BY <2>7, <2>8
<1>5. So(n) = D \cup SymbolsIn(at, s)
  BY <1>2 DEF SymbolsIn
<1> HIDE DEF I, So
<1>6. n \in I /\ n <= n
  BY <1>2, <1>3, <1>4, AllNumbers
<1>7. Going(g[n], So(n))
  BY <1>6 DEF I
<1> QED BY <1>1, <1>5, <1>7

\* One member more: what newmember() does to the table.
LEMMA MemberEntered ==
  ASSUME NEW t, NEW D, Table(t, D), at \in Nat, \A d \in D : d[1] \in Nat /\ d[1] <= at, NEW s, Sequence(s)
  PROVE  Going(FoldLeft(newsymbol, [syms |-> t, stop |-> FALSE], s), D \cup SymbolsIn(at, s))
<1>1. PICK N, Y : t \in Seq([name : N, type : Y, memb : Nat])
  BY DEF Table, Entries
<1> DEFINE NN == N \cup {s[i].name : i \in DOMAIN s}
           YY == Y \cup {s[i].type : i \in DOMAIN s} \cup {"U"}
           b == [syms |-> t, stop |-> FALSE]
<1>2. t \in Seq([name : NN, type : YY, memb : Nat])
  <2> DEFINE S == [name : N, type : Y, memb : Nat]
             T == [name : NN, type : YY, memb : Nat]
  <2>1. S \subseteq T /\ t \in Seq(S)
    BY <1>1
  <2> HIDE DEF S, T
  <2>2. t \in Seq(T)
    BY <2>1, Wider
  <2> QED BY <2>2 DEF T
<1>3. Len(s) \in Nat /\ DOMAIN s = 1 .. Len(s)
  BY DEF Sequence
<1>4. "U" \in YY /\ \A i \in DOMAIN s : s[i].name \in NN /\ s[i].type \in YY
  OBVIOUS
<1> HIDE DEF NN, YY
<1>5. b \in Tables(NN, YY) /\ ~b.stop /\ b.syms = t
  BY <1>2 DEF Tables
<1> HIDE DEF b
<1>6. Going(FoldLeft(newsymbol, b, s), D \cup SymbolsIn(at, s))
  BY <1>3, <1>4, <1>5, SymbolsEntered
<1> QED BY <1>6 DEF b

-----------------------------------------------------------------------------
(* The index of a whole library.                                            *)

LEMMA MetIs ==
  ASSUME NEW mem, NEW a \in Nat, NEW h, NEW n, NEW y
  PROVE  <<h, n, y>> \in Met(mem, a) <=>
           h \in 1 .. a - 1 /\ \E i \in DOMAIN SymbolsOf(mem[h]) : SymbolsOf(mem[h])[i].name = n /\ SymbolsOf(mem[h])[i].type = y
<1>1. <<h, n, y>> \in Met(mem, a) <=> \E j \in 1 .. a - 1 : <<h, n, y>> \in SymbolsIn(j, SymbolsOf(mem[j]))
  BY DEF Met
<1>2. \A j : <<h, n, y>> \in SymbolsIn(j, SymbolsOf(mem[j])) <=>
        j = h /\ \E i \in DOMAIN SymbolsOf(mem[j]) : SymbolsOf(mem[j])[i].name = n /\ SymbolsOf(mem[j])[i].type = y
  BY DEF SymbolsIn
<1> QED BY <1>1, <1>2

LEMMA MetTuples ==
  ASSUME NEW mem, NEW a \in Nat, NEW d \in Met(mem, a)
  PROVE  d = <<d[1], d[2], d[3]>> /\ d[1] \in 1 .. a - 1
<1>1. PICK j \in 1 .. a - 1 : d \in SymbolsIn(j, SymbolsOf(mem[j]))
  BY DEF Met
<1>2. PICK n, y : d = <<j, n, y>>
  BY <1>1 DEF SymbolsIn
<1> QED BY <1>2

\* A symbol of the name n and of a type in Q was met in member h.
MetAs(D, h, n, Q) == \E d \in D : d[1] = h /\ d[2] = n /\ d[3] \in Q

\* A member defines or uses a name when ranlib has met it there.
LEMMA DefinesMet ==
  ASSUME NEW lib, NEW a \in Nat, NEW h \in 1 .. a - 1, NEW n
  PROVE  /\ DefinesAs(lib, h, n, FALSE) <=> MetAs(Met(lib.mem, a), h, n, Defines \ {"U"})
         /\ DefinesAs(lib, h, n, TRUE) <=> MetAs(Met(lib.mem, a), h, n, Strong)
         /\ UsedBy(lib, h, n) <=> MetAs(Met(lib.mem, a), h, n, {"U"})
<1> DEFINE m == lib.mem
           s == SymbolsOf(m[h])
           Has(Q) == \E i \in DOMAIN s : s[i].name = n /\ s[i].type \in Q
           Seen(Q) == MetAs(Met(m, a), h, n, Q)
<1>1. ASSUME NEW Q PROVE Has(Q) <=> Seen(Q)
  <2>1. ASSUME Has(Q) PROVE Seen(Q)
    <3>1. PICK i \in DOMAIN s : s[i].name = n /\ s[i].type \in Q
      BY <2>1
    <3> DEFINE y == s[i].type
               d == <<h, n, y>>
    <3>2. d \in Met(m, a)
      BY <3>1, MetIs
    <3>3. d[1] = h /\ d[2] = n /\ d[3] = y
      OBVIOUS
    <3> HIDE DEF d, s
    <3> QED BY <3>1, <3>2, <3>3 DEF MetAs
  <2>2. ASSUME Seen(Q) PROVE Has(Q)
    <3>1. PICK d \in Met(m, a) : d[1] = h /\ d[2] = n /\ d[3] \in Q
      BY <2>2 DEF MetAs
    <3>2. <<h, n, d[3]>> \in Met(m, a)
      BY <3>1, MetTuples
    <3>3. \E i \in DOMAIN s : s[i].name = n /\ s[i].type = d[3]
      BY <3>2, MetIs
    <3> QED BY <3>1, <3>3
  <2> QED BY <2>1, <2>2
<1>2. DefinesAs(lib, h, n, FALSE) <=> Has(Defines \ {"U"})
  BY DEF DefinesAs, With, Defines
<1>3. DefinesAs(lib, h, n, TRUE) <=> Has(Strong)
  BY DEF DefinesAs, With, Strong
<1>4. UsedBy(lib, h, n) <=> Has({"U"})
  BY DEF UsedBy
<1> HIDE DEF Has, Seen, s
<1>5. /\ DefinesAs(lib, h, n, FALSE) <=> Seen(Defines \ {"U"})
      /\ DefinesAs(lib, h, n, TRUE) <=> Seen(Strong)
      /\ UsedBy(lib, h, n) <=> Seen({"U"})
  BY <1>1, <1>2, <1>3, <1>4
<1> QED BY <1>5 DEF Seen

\* The library that x had when its index was made, and what is asked of the index.
Behind1(x) == [x EXCEPT !.mem = Tail(@)]
Leads(lib, ents, n) ==
  \E e \in DOMAIN ents :
    /\ ents[e].name = n /\ \A d \in DOMAIN ents : ents[d].name = n => d = e
    /\ DefinesAs(lib, ents[e].memb, n, \E h \in DOMAIN lib.mem : DefinesAs(lib, h, n, TRUE))
Indexed(lib, ents) ==
  \A j \in DOMAIN lib.mem : \A i \in DOMAIN SymbolsOf(lib.mem[j]) :
    With(SymbolsOf(lib.mem[j])[i].name, LAMBDA n :
      DefinesAs(lib, j, n, FALSE) /\ ~TakenByUser(lib, n) => Leads(lib, ents, n))

LEMMA TableLeads ==
  ASSUME NEW lib, NEW t, NEW l \in Nat, DOMAIN lib.mem = 1 .. l, Table(t, Met(lib.mem, l + 1)),
         NEW ents, DOMAIN ents = DOMAIN t, \A k \in DOMAIN t : ents[k].name = t[k].name /\ ents[k].memb = t[k].memb
  PROVE  Indexed(lib, ents)
<1> DEFINE D == Met(lib.mem, l + 1)
<1>1. SUFFICES ASSUME NEW j \in 1 .. l, NEW n, DefinesAs(lib, j, n, FALSE), ~TakenByUser(lib, n)
               PROVE  Leads(lib, ents, n)
  BY DEF Indexed, With
<1>2. /\ l + 1 \in Nat /\ 1 .. (l + 1) - 1 = 1 .. l
      /\ \A d \in D : d[1] \in 1 .. l
      /\ \A h \in 1 .. l :
           /\ DefinesAs(lib, h, n, FALSE) <=> MetAs(D, h, n, Defines \ {"U"})
           /\ DefinesAs(lib, h, n, TRUE) <=> MetAs(D, h, n, Strong)
           /\ UsedBy(lib, h, n) <=> MetAs(D, h, n, {"U"})
  <2>1. l + 1 \in Nat /\ 1 .. (l + 1) - 1 = 1 .. l
    OBVIOUS
  <2>2. \A d \in D : d[1] \in 1 .. l
    BY <2>1, MetTuples
  <2>3. ASSUME NEW h \in 1 .. l
        PROVE  /\ DefinesAs(lib, h, n, FALSE) <=> MetAs(D, h, n, Defines \ {"U"})
               /\ DefinesAs(lib, h, n, TRUE) <=> MetAs(D, h, n, Strong)
               /\ UsedBy(lib, h, n) <=> MetAs(D, h, n, {"U"})
    <3> DEFINE a == l + 1
    <3>1. a \in Nat /\ h \in 1 .. a - 1
      OBVIOUS
    <3> HIDE DEF a
    <3>2. /\ DefinesAs(lib, h, n, FALSE) <=> MetAs(Met(lib.mem, a), h, n, Defines \ {"U"})
          /\ DefinesAs(lib, h, n, TRUE) <=> MetAs(Met(lib.mem, a), h, n, Strong)
          /\ UsedBy(lib, h, n) <=> MetAs(Met(lib.mem, a), h, n, {"U"})
      BY <3>1, DefinesMet
    <3> QED BY <3>2 DEF a
  <2> QED BY <2>1, <2>2, <2>3
<1> HIDE DEF D
<1>3. Unique(t) /\ Entered(t, D) /\ \A k \in DOMAIN t : Given(t[k], D)
  BY DEF Table, D
<1>4. PICK d0 \in D : d0[1] = j /\ d0[2] = n /\ d0[3] \in Defines \ {"U"}
  BY <1>1, <1>2 DEF MetAs
<1>5. PICK k \in DOMAIN t : t[k].name = n
  BY <1>3, <1>4 DEF Entered
<1> DEFINE m == t[k].memb
           y == t[k].type
           d1 == <<m, n, y>>
           some == \E h \in DOMAIN lib.mem : DefinesAs(lib, h, n, TRUE)
<1>6. y \in Defines /\ d1 \in D /\ d1[1] = m /\ d1[2] = n /\ d1[3] = y
  BY <1>3, <1>5 DEF Given
<1>7. y \in {"U", "C"} => \A d \in D : d[2] = n => d[3] \notin Strong
  BY <1>3, <1>5 DEF Given
<1>8. y = "U" => \A d \in D : d[2] = n /\ d[3] = "C" => d[1] <= m
  BY <1>3, <1>5 DEF Given
<1> HIDE DEF d1, m, y
<1>9. m \in 1 .. l
  BY <1>2, <1>6
<1>10. DefinesAs(lib, m, n, some)
  <2>1. CASE y \in Strong
    <3>1. DefinesAs(lib, m, n, TRUE)
      BY <1>2, <1>6, <1>9, <2>1 DEF MetAs
    <3>2. DefinesAs(lib, m, n, TRUE) => DefinesAs(lib, m, n, some)
      BY <1>9, <3>1
    <3> QED BY <3>1, <3>2
  <2>2. CASE y \notin Strong
    <3>1. y \in {"U", "C"}
      BY <1>6, <2>2 DEF Strong, Defines
    <3>2. ~some
      BY <1>2, <1>7, <3>1 DEF MetAs
    <3>3. DefinesAs(lib, m, n, FALSE)
      <4>1. CASE y = "C"
        <5>1. d1[3] \in Defines \ {"U"}
          BY <1>6, <4>1
        <5> QED BY <1>2, <1>6, <1>9, <5>1 DEF MetAs
      <4>2. CASE y = "U"
        <5>1. d0[3] = "C" /\ j <= m
          BY <1>4, <1>7, <1>8, <4>2 DEF Strong, Defines
        <5>2. UsedBy(lib, m, n)
          <6>1. d1[3] = "U"
            BY <1>6, <4>2
          <6> QED BY <1>2, <1>6, <1>9, <6>1 DEF MetAs
        <5>3. ~(j < m)
          BY <1>1, <1>9, <3>2, <5>2 DEF TakenByUser
        <5>4. j = m
          BY <1>9, <5>1, <5>3
        <5> QED BY <1>1, <5>4
      <4> QED BY <3>1, <4>1, <4>2
    <3> QED BY <3>2, <3>3
  <2> QED BY <2>1, <2>2
<1>11. ents[k].name = n /\ ents[k].memb = m /\ \A d \in DOMAIN ents : ents[d].name = n => d = k
  BY <1>3, <1>5 DEF Unique, m
<1> HIDE DEF some
<1>12. DefinesAs(lib, ents[k].memb, n, some)
  BY <1>10, <1>11
<1> QED BY <1>5, <1>11, <1>12 DEF Leads, some

\* The index in front of a library, and the library behind it.
Right(x) == Indexed(Behind1(x), Head(x.mem).ents)

\* A table of the whole library in front of its members, as merge() writes it.
LEMMA FrontIndex ==
  ASSUME NEW mem, Sequence(mem), NEW t, Table(t, Met(mem, Len(mem) + 1)), NEW b, NEW ents,
         DOMAIN ents = DOMAIN t, \A k \in DOMAIN t : ents[k].name = t[k].name /\ ents[k].memb = t[k].memb,
         NEW x, x = [k |-> "ar", mem |-> <<[k |-> "index", ents |-> ents]>> \o mem, bad |-> b]
  PROVE  Right(x)
<1> DEFINE S == {mem[i] : i \in DOMAIN mem}
           e == [k |-> "index", ents |-> ents]
           all == <<e>> \o mem
           lib == Behind1(x)
           l == Len(mem)
<1>1. mem \in Seq(S)
  BY DEF Sequence
<1>2. l \in Nat /\ DOMAIN mem = 1 .. l
  BY <1>1
<1>3. Head(all) = e /\ Tail(all) = mem
  <2> DEFINE T == S \cup {e}
  <2>1. S \subseteq T
    OBVIOUS
  <2> HIDE DEF S
  <2>2. mem \in Seq(T)
    BY <1>1, <2>1, Wider
  <2>3. e \in T
    OBVIOUS
  <2> HIDE DEF T, e
  <2> QED BY <2>2, <2>3
<1>4. lib.mem = mem /\ Head(x.mem) = e
  <2>1. x.mem = all
    OBVIOUS
  <2>2. lib.mem = Tail(x.mem)
    BY DEF Behind1
  <2> QED BY <1>3, <2>1, <2>2
<1>5. e.ents = ents
  OBVIOUS
<1> HIDE DEF lib, e, all, l
<1>6. DOMAIN lib.mem = 1 .. l /\ Table(t, Met(lib.mem, l + 1))
  BY <1>2, <1>4 DEF l
<1>7. Indexed(lib, ents)
  BY <1>2, <1>6, TableLeads
<1> QED BY <1>4, <1>5, <1>7 DEF Right, lib

-----------------------------------------------------------------------------
(* The steps of ranlib on its table.                                        *)

LibrariesKnown == \A p \in Paths : fs[p].k = "ar" => \A j \in DOMAIN fs[p].mem : ReadAsIs(fs[p].mem[j])
CleanIndexed   == \A p \in clean : p \in Paths /\ fs[p].k = "ar" /\ Right(fs[p])

\* The table has the symbols of the members before the next one; after the last
\* one it has those of all; and the temporary has it in front.
Full     == Len(Lib.mem) + 1
Begun    == pc = "ranlib" => syms = <<>> /\ at = 1 /\ ~nolib
Scanned  == pc = "scan" /\ status = "ok" /\ ~nolib => at \in 1 .. Full /\ Table(syms, Met(Lib.mem, at))
Gathered == pc \in {"index", "copy", "merge", "name"} /\ status = "ok" => Table(syms, Met(Lib.mem, Full))
Written  == pc = "name" => tmp[Path] = [k |-> "ar", mem |-> <<Index>> \o Lib.mem, bad |-> Lib.bad]

Collecting == Begun /\ Scanned /\ Gathered /\ Written
XInv == LibrariesKnown /\ CleanIndexed /\ Collecting

RanlibAt == {"ranlib", "scan", "index", "copy", "merge", "name"}

LEMMA Elsewhere ==
  ASSUME pc' \notin RanlibAt
  PROVE  Collecting'
BY DEF Collecting, Begun, Scanned, Gathered, Written, RanlibAt

LEMMA SameFiles ==
  ASSUME XInv, UNCHANGED <<fs, clean>>
  PROVE  LibrariesKnown' /\ CleanIndexed'
BY DEF XInv, LibrariesKnown, CleanIndexed, Paths

\* A step that leaves the libraries alone, and ranlib.
LEMMA Apart ==
  ASSUME XInv, UNCHANGED <<fs, clean>>, pc' \notin RanlibAt
  PROVE  XInv'
BY SameFiles, Elsewhere DEF XInv

LEMMA EndsApart ==
  ASSUME XInv, Error \/ Killed
  PROVE  XInv'
<1>1. UNCHANGED <<fs, clean>>
  BY DEF Error, Killed, history
<1>2. pc' \in {"idle", "open"}
  BY DEF Error, Done, Killed
<1> QED BY <1>1, <1>2, Apart DEF RanlibAt

LEMMA StripApart ==
  ASSUME XInv, KInv, StripNext
  PROVE  XInv'
<1>1. CASE Error \/ Killed
  BY <1>1, EndsApart
<1>2. CASE UNCHANGED <<fs, clean>> /\ pc' \in {"map", "create", "write", "close", "remove", "idle", "open"}
  BY <1>2, Apart DEF RanlibAt
<1>3. ASSUME pc \in {"remove", "rename"}, NEW x, x.k # "ar", fs' = [fs EXCEPT ![Path] = x],
             pc' \in {"rename", "idle", "open"}, UNCHANGED clean
      PROVE  XInv'
  <2>1. fs[Path].k # "ar"
    BY <1>3 DEF KInv, Stripping
  <2>2. LibrariesKnown'
    BY <1>3 DEF XInv, LibrariesKnown, Paths
  <2>3. CleanIndexed'
    BY <1>3, <2>1 DEF XInv, CleanIndexed, Paths
  <2> QED BY <1>3, <2>2, <2>3, Elsewhere DEF XInv, RanlibAt
<1>4. CASE doitRead \/ doitMap \/ doitCreate \/ doitWrite \/ doitClose
  BY <1>1, <1>2, <1>4 DEF doitRead, doitMap, doitCreate, doitWrite, doitClose, GiveUp, history
<1>5. CASE doitRemove
  BY <1>1, <1>3, <1>5 DEF doitRemove, GiveUp, None, history
<1>6. CASE doitRename
  <2>1. CASE UNCHANGED <<fs, clean>>
    BY <1>2, <1>6, <2>1 DEF doitRename, Done
  <2>2. CASE fs' = [fs EXCEPT ![Path] = tmp[Path]] /\ UNCHANGED clean
    <3>1. pc = "rename" /\ pc' \in {"idle", "open"}
      BY <1>6 DEF doitRename, Done
    <3>2. tmp[Path].k = "obj"
      BY <3>1 DEF KInv, Stripping
    <3> QED BY <1>3, <2>2, <3>1, <3>2
  <2> QED BY <1>6, <2>1, <2>2 DEF doitRename, history
<1> QED BY <1>4, <1>5, <1>6 DEF StripNext

\* The members met up to one more.
LEMMA MetOneMore ==
  ASSUME NEW mem, NEW a \in Nat, a >= 1
  PROVE  Met(mem, a + 1) = Met(mem, a) \cup SymbolsIn(a, SymbolsOf(mem[a]))
<1>1. 1 .. (a + 1) - 1 = (1 .. a - 1) \cup {a}
  OBVIOUS
<1> QED BY <1>1 DEF Met

LEMMA NoneMet ==
  ASSUME NEW mem
  PROVE  Table(<<>>, Met(mem, 1))
<1>1. 1 .. 1 - 1 = {}
  OBVIOUS
<1>2. Met(mem, 1) = {}
  BY <1>1 DEF Met
<1>3. <<>> \in Seq([name : {}, type : {}, memb : Nat]) /\ DOMAIN <<>> = {}
  OBVIOUS
<1> QED BY <1>2, <1>3 DEF Table, Entries, Unique, Entered

\* A member without symbols leaves the table as it was.
LEMMA MemberSkipped ==
  ASSUME NEW mem, NEW a \in Nat, a >= 1, SymbolsOf(mem[a]) = <<>>
  PROVE  Met(mem, a + 1) = Met(mem, a)
<1>1. SymbolsIn(a, <<>>) = {}
  BY DEF SymbolsIn
<1> QED BY <1>1, MetOneMore

\* The library that ranlib is at, and the member it is at.
LEMMA AtMember ==
  ASSUME KInv, XInv, pc = "scan"
  PROVE  /\ Len(Lib.mem) \in Nat /\ DOMAIN Lib.mem = 1 .. Len(Lib.mem)
         /\ \A j \in DOMAIN Lib.mem : ReadAsIs(Lib.mem[j])
<1>1. Path \in Paths /\ Lib.k = "ar"
  BY DEF KInv, Placed, Indexing, Lib
<1>2. Sequence(Lib.mem)
  BY <1>1 DEF KInv, LibrariesWhole, Lib
<1>3. \A j \in DOMAIN Lib.mem : ReadAsIs(Lib.mem[j])
  BY <1>1 DEF XInv, LibrariesKnown, Lib
<1> QED BY <1>2, <1>3 DEF Sequence

LEMMA ReadsymsEnters ==
  ASSUME KInv, XInv, readsyms
  PROVE  XInv'
<1>1. pc = "ranlib" /\ UNCHANGED <<fs, clean, tmp, argv, syms, nolib, Lib>> /\ pc' \in {"index", "scan"}
  BY DEF readsyms, history, Lib, Path
<1>2. syms = <<>> /\ at = 1 /\ ~nolib
  BY <1>1 DEF XInv, Collecting, Begun
<1>3. CASE pc' = "index"
  <2>1. status' = "fail"
    BY <1>3 DEF readsyms
  <2> QED BY <1>1, <1>3, <2>1, SameFiles DEF XInv, Collecting, Begun, Scanned, Gathered, Written
<1>4. CASE pc' = "scan"
  <2>1. at' = (IF HasMember(Lib, 1) /\ Lib.mem[1].k = "index" THEN 2 ELSE 1) /\ Lib.k = "ar"
    BY <1>4 DEF readsyms
  <2>2. Len(Lib.mem) \in Nat
    <3>1. Path \in Paths
      BY <1>1 DEF KInv, Placed
    <3> QED BY <2>1, <3>1 DEF KInv, LibrariesWhole, Lib, Sequence
  <2>3. at' \in 1 .. Len(Lib.mem) + 1
    BY <2>1, <2>2 DEF HasMember
  <2>4. Table(<<>>, Met(Lib.mem, 1))
    BY NoneMet
  <2>5. Met(Lib.mem, at') = Met(Lib.mem, 1)
    <3>1. CASE at' = 1
      BY <3>1
    <3>2. CASE at' # 1
      <4>1. SymbolsOf(Lib.mem[1]) = <<>> /\ at' = 1 + 1
        BY <2>1, <3>2 DEF SymbolsOf
      <4> QED BY <4>1, MemberSkipped
    <3> QED BY <3>1, <3>2
  <2>6. Scanned'
    BY <1>1, <1>2, <2>3, <2>4, <2>5 DEF Scanned, Full
  <2> QED BY <1>1, <1>4, <2>6, SameFiles DEF XInv, Collecting, Begun, Gathered, Written
<1> QED BY <1>1, <1>3, <1>4

\* newmember(): the table has the symbols of the member as well.
LEMMA NewmemberEnters ==
  ASSUME KInv, XInv, pc = "scan", HasMember(Lib, at), Probe(Lib.mem[at]) # "none", newmember
  PROVE  Scanned'
<1> DEFINE c == Lib.mem[at]
           s == SymbolsOf(c)
           D == Met(Lib.mem, at)
<1>1. UNCHANGED <<fs, argv, pc, Lib>> /\ at' = at + 1
  BY DEF newmember, Lib, Path
<1>2. SUFFICES ASSUME status' = "ok", ~nolib'
               PROVE  at' \in 1 .. Full /\ Table(syms', Met(Lib.mem, at'))
  BY <1>1 DEF Scanned, Full
<1>3. /\ readobj(c).st = "ok" /\ ~nolib /\ status = "ok"
      /\ \E t \in {FoldLeft(newsymbol, [syms |-> syms, stop |-> FALSE], Symbols(readobj(c)))} :
           syms' = t.syms /\ ~t.stop
  BY <1>2 DEF newmember
<1>4. at \in 1 .. Full /\ Table(syms, D)
  BY <1>3 DEF XInv, Collecting, Scanned
<1>5. Len(Lib.mem) \in Nat /\ at \in DOMAIN Lib.mem /\ ReadAsIs(c)
  <2>1. Len(Lib.mem) \in Nat /\ DOMAIN Lib.mem = 1 .. Len(Lib.mem) /\ \A j \in DOMAIN Lib.mem : ReadAsIs(Lib.mem[j])
    BY AtMember
  <2>2. at \in DOMAIN Lib.mem
    BY <1>4, <2>1 DEF HasMember, Full
  <2> QED BY <2>1, <2>2
<1>6. at \in Nat /\ at >= 1 /\ at + 1 \in 1 .. Full
  BY <1>4, <1>5 DEF HasMember, Full
<1>7. Sequence(s) /\ Symbols(readobj(c)) = s
  BY <1>3, <1>5 DEF ReadAsIs
<1>8. \A d \in D : d[1] \in Nat /\ d[1] <= at
  <2>1. \A d \in D : d[1] \in 1 .. at - 1
    BY <1>6, MetTuples
  <2> QED BY <1>6, <2>1
<1> HIDE DEF s, D
<1>9. Going(FoldLeft(newsymbol, [syms |-> syms, stop |-> FALSE], s), D \cup SymbolsIn(at, s))
  BY <1>4, <1>6, <1>7, <1>8, MemberEntered
<1>10. Table(syms', D \cup SymbolsIn(at, s))
  BY <1>3, <1>7, <1>9 DEF Going
<1>11. Met(Lib.mem, at + 1) = D \cup SymbolsIn(at, s)
  BY <1>6, MetOneMore DEF D, s
<1> QED BY <1>1, <1>6, <1>10, <1>11

LEMMA ScanEnters ==
  ASSUME KInv, XInv, scan
  PROVE  XInv'
<1>1. pc = "scan"
  BY DEF scan
<1>2. CASE Killed
  BY <1>2, EndsApart
<1>3. CASE HasMember(Lib, at) /\ Probe(Lib.mem[at]) = "none" /\ at' = at + 1 /\ UNCHANGED <<fs, argv, pc, syms, nolib, status, history>>
  <2>1. UNCHANGED <<Lib, clean>>
    BY <1>3 DEF Lib, Path, history
  <2>2. ASSUME status = "ok", ~nolib PROVE at' \in 1 .. Full /\ Table(syms, Met(Lib.mem, at'))
    <3>1. at \in 1 .. Full /\ Table(syms, Met(Lib.mem, at))
      BY <1>1, <2>2 DEF XInv, Collecting, Scanned
    <3>2. Len(Lib.mem) \in Nat /\ at \in DOMAIN Lib.mem /\ ReadAsIs(Lib.mem[at])
      <4>1. Len(Lib.mem) \in Nat /\ DOMAIN Lib.mem = 1 .. Len(Lib.mem) /\ \A j \in DOMAIN Lib.mem : ReadAsIs(Lib.mem[j])
        BY <1>1, AtMember
      <4>2. at \in DOMAIN Lib.mem
        BY <1>3, <3>1, <4>1 DEF HasMember, Full
      <4> QED BY <4>1, <4>2
    <3>3. at \in Nat /\ at >= 1 /\ at + 1 \in 1 .. Full
      BY <1>3, <3>1, <3>2 DEF HasMember, Full
    <3>4. SymbolsOf(Lib.mem[at]) = <<>>
      BY <1>3, <3>2 DEF ReadAsIs
    <3>5. Met(Lib.mem, at + 1) = Met(Lib.mem, at)
      BY <3>3, <3>4, MemberSkipped
    <3> QED BY <1>3, <3>1, <3>3, <3>5
  <2>3. Scanned'
    BY <1>3, <2>1, <2>2 DEF Scanned, Full
  <2> QED BY <1>1, <1>3, <2>1, <2>3, SameFiles DEF XInv, Collecting, Begun, Gathered, Written
<1>4. CASE HasMember(Lib, at) /\ Probe(Lib.mem[at]) # "none" /\ newmember
  <2>1. Scanned'
    BY <1>1, <1>4, NewmemberEnters
  <2>2. UNCHANGED <<fs, clean, pc>>
    BY <1>4 DEF newmember, history
  <2> QED BY <1>1, <2>1, <2>2, SameFiles DEF XInv, Collecting, Begun, Gathered, Written
<1>5. CASE pc' = "index" /\ status' = "fail" /\ UNCHANGED <<fs, history>>
  BY <1>5, SameFiles DEF XInv, Collecting, Begun, Scanned, Gathered, Written, history
<1>6. CASE /\ ~HasMember(Lib, at) /\ ~Corrupted(Lib, at)
           /\ IF nolib \/ syms = <<>> THEN Done(status) ELSE pc' = "index" /\ UNCHANGED <<cmd, argv, status>>
           /\ UNCHANGED <<fs, tmp, memory, out, faults, ncmds, history>>
  <2>1. UNCHANGED <<fs, clean, syms, nolib>>
    BY <1>6 DEF history, memory
  <2>2. CASE nolib \/ syms = <<>>
    <3>1. pc' \in {"idle", "open"}
      BY <1>6, <2>2 DEF Done
    <3> QED BY <2>1, <3>1, Apart DEF RanlibAt
  <2>3. CASE ~(nolib \/ syms = <<>>)
    <3>1. pc' = "index" /\ UNCHANGED <<Lib, status>>
      BY <1>6, <2>1, <2>3 DEF Lib, Path
    <3>2. ASSUME status = "ok" PROVE Table(syms, Met(Lib.mem, Full))
      <4>1. at \in 1 .. Full /\ Table(syms, Met(Lib.mem, at)) /\ Len(Lib.mem) \in Nat
        BY <1>1, <2>3, <3>2, AtMember DEF XInv, Collecting, Scanned
      <4>2. at = Full
        BY <1>6, <4>1 DEF HasMember, Corrupted, Full
      <4> QED BY <4>1, <4>2
    <3>3. Gathered'
      BY <2>1, <3>1, <3>2 DEF Gathered, Full
    <3> QED BY <2>1, <3>1, <3>3, SameFiles DEF XInv, Collecting, Begun, Scanned, Written
  <2> QED BY <2>2, <2>3
<1> QED BY <1>2, <1>3, <1>4, <1>5, <1>6 DEF scan

\* The table is whole, and the library and the status stay.
LEMMA TableStays ==
  ASSUME XInv, UNCHANGED <<fs, clean, argv, syms, status>>, pc \in {"index", "copy", "merge", "name"},
         pc' \in {"copy", "merge", "name"}, Written'
  PROVE  XInv'
<1>1. UNCHANGED Lib
  BY DEF Lib, Path
<1>2. Gathered'
  BY <1>1 DEF XInv, Collecting, Gathered, Full
<1> QED BY <1>2, SameFiles DEF XInv, Collecting, Begun, Scanned

LEMMA CopyEnters ==
  ASSUME KInv, XInv, setindex \/ create
  PROVE  XInv'
<1>1. CASE Error \/ Killed
  BY <1>1, EndsApart
<1>2. CASE /\ pc \in {"index", "copy"} /\ pc' \in {"copy", "merge"}
           /\ UNCHANGED <<fs, argv, syms, status, history>>
  <2>1. Written' /\ UNCHANGED clean
    BY <1>2 DEF Written, history
  <2> QED BY <1>2, <2>1, TableStays
<1> QED BY <1>1, <1>2 DEF setindex, create

LEMMA MergeEnters ==
  ASSUME KInv, XInv, merge
  PROVE  XInv'
<1>1. CASE Error
  BY <1>1, EndsApart
<1>2. CASE /\ tmp' = [tmp EXCEPT ![Path] = [k |-> "ar", mem |-> <<Index>> \o Lib.mem, bad |-> Lib.bad]]
           /\ pc' = "name" /\ UNCHANGED <<fs, argv, syms, status, history>>
  <2>1. pc = "merge"
    BY DEF merge
  <2>2. Path \in DOMAIN tmp /\ UNCHANGED <<Lib, Path, Index, clean>>
    BY <1>2, <2>1 DEF KInv, Placed, Paths, Lib, Path, Index, history
  <2>3. Written'
    BY <1>2, <2>2 DEF Written
  <2> QED BY <1>2, <2>1, <2>2, <2>3, TableStays
<1> QED BY <1>1, <1>2 DEF merge

\* The library that takes the place of the old one.
LEMMA NewLibrary ==
  ASSUME KInv, XInv, pc = "name"
  PROVE  /\ \A j \in DOMAIN tmp[Path].mem : ReadAsIs(tmp[Path].mem[j])
         /\ status = "ok" => Right(tmp[Path])
<1> DEFINE mem == Lib.mem
           new == tmp[Path]
           S == {mem[i] : i \in DOMAIN mem}
<1>1. Path \in Paths /\ Lib.k = "ar" /\ new = [k |-> "ar", mem |-> <<Index>> \o mem, bad |-> Lib.bad]
  BY DEF KInv, Placed, Indexing, XInv, Collecting, Written, Lib
<1>2. Sequence(mem) /\ \A j \in DOMAIN mem : ReadAsIs(mem[j])
  BY <1>1 DEF KInv, LibrariesWhole, XInv, LibrariesKnown, Lib
<1>3. status = "ok" => Table(syms, Met(mem, Len(mem) + 1))
  BY DEF XInv, Collecting, Gathered, Full
<1> DEFINE ents == [i \in DOMAIN syms |-> [name |-> syms[i].name, memb |-> syms[i].memb]]
<1>4. /\ DOMAIN ents = DOMAIN syms
      /\ \A k \in DOMAIN syms : ents[k].name = syms[k].name /\ ents[k].memb = syms[k].memb
  OBVIOUS
<1>5. Index = [k |-> "index", ents |-> ents]
  BY DEF Index
<1> HIDE DEF ents, new, mem
<1>6. status = "ok" => Right(new)
  BY <1>1, <1>2, <1>3, <1>4, <1>5, FrontIndex
<1>7. ReadAsIs(Index)
  <2>1. Index.k = "index"
    BY <1>5
  <2>2. Sequence(<<>>)
    BY DEF Sequence
  <2>3. SymbolsOf(Index) = <<>> /\ Probe(Index) = "none"
    BY <2>1 DEF SymbolsOf, Probe
  <2> QED BY <2>2, <2>3 DEF ReadAsIs
<1>8. ASSUME NEW j \in DOMAIN new.mem PROVE ReadAsIs(new.mem[j])
  <2>1. mem \in Seq(S)
    BY <1>2 DEF Sequence, mem
  <2> HIDE DEF S
  <2> DEFINE all == <<Index>> \o mem
  <2>2. Len(mem) \in Nat /\ DOMAIN mem = 1 .. Len(mem) /\ DOMAIN all = 1 .. Len(mem) + 1 /\ all[1] = Index
    BY <2>1
  <2>3. \A i \in 1 .. Len(mem) + 1 : i # 1 => all[i] = mem[i - 1] /\ i - 1 \in 1 .. Len(mem)
    BY <2>1, <2>2
  <2>4. new.mem = all
    BY <1>1
  <2> HIDE DEF all
  <2> QED BY <1>2, <1>7, <2>2, <2>3, <2>4
<1> QED BY <1>6, <1>8 DEF new

LEMMA NameEnters ==
  ASSUME KInv, XInv, rename
  PROVE  XInv'
<1>1. CASE Error
  BY <1>1, EndsApart
<1>2. CASE /\ fs' = [fs EXCEPT ![Path] = tmp[Path]]
           /\ clean' = (IF status = "ok" THEN clean \cup {Path} ELSE clean \ {Path})
           /\ Done(status)
  <2>1. pc = "name"
    BY DEF rename
  <2>2. Path \in Paths /\ tmp[Path].k = "ar"
    BY <2>1 DEF KInv, Placed, Indexing
  <2> DEFINE q == Path
             new == tmp[Path]
  <2>3. (\A j \in DOMAIN new.mem : ReadAsIs(new.mem[j])) /\ (status = "ok" => Right(new))
    BY <2>1, NewLibrary
  <2>4. /\ q \in Paths /\ new.k = "ar" /\ fs' = [fs EXCEPT ![q] = new]
        /\ clean' = (IF status = "ok" THEN clean \cup {q} ELSE clean \ {q})
    BY <1>2, <2>2
  <2> HIDE DEF q, new
  <2>5. Paths' = Paths /\ fs'[q] = new /\ \A p \in Paths : p # q => fs'[p] = fs[p]
    BY <2>4 DEF Paths
  <2>6. LibrariesKnown'
    BY <2>3, <2>5 DEF XInv, LibrariesKnown
  <2>7. CleanIndexed'
    BY <2>3, <2>4, <2>5 DEF XInv, CleanIndexed
  <2>8. pc' \in {"idle", "open"}
    BY <1>2 DEF Done
  <2> QED BY <2>6, <2>7, <2>8, Elsewhere DEF XInv, RanlibAt
<1> QED BY <1>1, <1>2 DEF rename

LEMMA XInvNext == XInv /\ KInv /\ Tooled /\ [Next]_vars => XInv'
<1> SUFFICES ASSUME XInv, KInv, Tooled, [Next]_vars PROVE XInv'
  OBVIOUS
<1>1. CASE Error \/ Killed
  BY <1>1, EndsApart
<1>2. CASE command
  BY <1>2, Apart DEF command, history, RanlibAt
<1>3. CASE open
  <2>1. CASE UNCHANGED <<fs, history>> /\ pc' = cmd.tool /\ at' = 1 /\ syms' = <<>> /\ nolib' = FALSE /\ pc # "idle"
    <3>1. pc' \in {"strip", "ranlib", "nm", "size"}
      BY <2>1 DEF Tooled
    <3>2. Collecting'
      BY <2>1, <3>1 DEF Collecting, Begun, Scanned, Gathered, Written
    <3> QED BY <2>1, <3>2, SameFiles DEF XInv, history
  <2> QED BY <1>1, <1>3, <2>1 DEF open
<1>4. CASE StripNext
  BY <1>4, StripApart
<1>5. CASE RanlibNext
  BY <1>5, ReadsymsEnters, ScanEnters, CopyEnters, MergeEnters, NameEnters DEF RanlibNext
<1>6. CASE look \/ members \/ last
  <2>1. CASE UNCHANGED <<fs, clean>> /\ pc' \notin RanlibAt
    BY <2>1, Apart
  <2>2. CASE UNCHANGED <<fs, history>> /\ pc' \in {"members", "last", "idle", "open"}
    BY <2>1, <2>2 DEF history, RanlibAt
  <2> QED BY <1>1, <1>6, <2>2 DEF look, members, last, Look, Done
<1>7. CASE kill
  BY <1>1, <1>7 DEF kill
<1>8. CASE Ended \/ UNCHANGED vars
  <2>1. UNCHANGED <<fs, tmp, argv, pc, syms, nolib, at, status, clean>>
    BY <1>8 DEF Ended, vars, memory, history
  <2>2. UNCHANGED <<Lib, Path, Index>>
    BY <2>1 DEF Lib, Path, Index
  <2>3. Collecting'
    BY <2>1, <2>2 DEF XInv, Collecting, Begun, Scanned, Gathered, Written, Full
  <2> QED BY <2>1, <2>3, SameFiles DEF XInv
<1> QED BY <1>2, <1>3, <1>4, <1>5, <1>6, <1>7, <1>8 DEF Next

LEMMA XInvInit == Init => XInv
<1> SUFFICES ASSUME Init PROVE XInv
  OBVIOUS
<1>1. fs \in Contents /\ pc = "idle" /\ clean = {}
  BY DEF Init
<1>2. LibrariesKnown
  BY <1>1, MembersAssumption DEF LibrariesKnown, Paths
<1> QED BY <1>1, <1>2 DEF XInv, CleanIndexed, Collecting, Begun, Scanned, Gathered, Written

LEMMA XInvFinds == XInv => IndexFindsDefinitions
BY DEF XInv, CleanIndexed, Right, Indexed, Behind1, Leads, IndexFindsDefinitions

\* For any libraries, commands, failures and signals: the index of a library that
\* ranlib found nothing wrong with leads every name that a member defines to a member
\* that really defines it, unless a later member's use was taken for the definition.
THEOREM IndexIsRight == Spec => []IndexFindsDefinitions
BY KInvInit, KInvNext, TooledNext, XInvInit, XInvNext, XInvFinds, PTL DEF Spec
=============================================================================
