--------------------------- MODULE CcDriverProofs ---------------------------
(***************************************************************************)
(* What the compiler driver leaves behind, proved for any command line,    *)
(* any sizes of pipes and outputs, any failures of tools and system calls  *)
(* and signals at any moment: exit status 0 means whole outputs, and after *)
(* an exit there is no truncated file and no temporary object.             *)
(***************************************************************************)
EXTENDS CcDriver, TLAPS, SequenceTheorems

(***************************************************************************)
(* Types.                                                                  *)
(***************************************************************************)
Proc == [st : {"none", "new", "run", "ok", "bad"}, n : Nat, inp : Tools \cup {NONE},
         out : BOOLEAN, file : Files \cup {NONE}, of : SUBSET Sources, whole : BOOLEAN]

Ends2 == [Tools -> SUBSET (Tools \cup {DRIVER})]

Typed ==
  /\ TypeOK
  /\ proc \in [Tools -> Proc]
  /\ rd \in Ends2 /\ wr \in Ends2 /\ buf \in [Tools -> 0 .. Cap]
  /\ objfile \in Files \cup {NONE}
  /\ linkargs \in Seq(Files \cup {NONE} \cup {Input(f) : f \in Sources})
  /\ ended \in {"running", "ok", "fail", "died", "killed"}
  /\ ntmp \in Nat

(***************************************************************************)
(* The pipeline of a file.                                                 *)
(***************************************************************************)

\* The options that main() lets pass.
OptionsFit ==
  /\ ~(Flag("E") /\ Flag("M"))
  /\ ~((Flag("E") \/ Flag("M")) /\ (Flag("S") \/ Flag("k")))
  /\ cmd.files # <<>>
  /\ ~(Len(cmd.files) > 1 /\ Flag("c") /\ Flag("o"))

\* The tools that buildfile() runs on f.
Chain(f) ==
  LET parsed    == toolfor(f) = CC1
      generated == (parsed /\ ~Flag("E") /\ ~Flag("M")) \/ toolfor(f) = CC2
      lowered   == (generated /\ Flag("Q")) \/ toolfor(f) = QBE
      assembly  == (generated /\ ~Flag("Q")) \/ lowered
  IN {t \in Tools :
        \/ t = CC1 /\ parsed
        \/ t = TEEIR /\ parsed /\ IF Flag("E") THEN Flag("o") ELSE ~Flag("M") /\ Flag("k")
        \/ t = CC2 /\ generated
        \/ t = TEEQBE /\ generated /\ Flag("Q") /\ Flag("k")
        \/ t = QBE /\ lowered
        \/ t = TEEAS /\ assembly /\ (Flag("S") \/ Flag("k"))
        \/ t = AS /\ ((assembly /\ ~Flag("S")) \/ toolfor(f) = AS)}

\* The file that t writes for f, when n temporaries were made up to then.
Target(t, f, n) ==
  CASE t = TEEIR  -> IF Flag("E") /\ Flag("o") THEN OUT ELSE Made(f, "ir")
    [] t = TEEQBE -> Made(f, "qbe")
    [] t = TEEAS  -> Made(f, "s")
    [] t = AS     -> IF Flag("c") /\ Flag("o") THEN OUT
                     ELSE IF Flag("c") \/ Flag("k") THEN Made(f, "o") ELSE Tmp(n)
    [] t = LD     -> OUT
    [] OTHER      -> NONE

\* The pipeline at work, of a file or of the linker alone.
Current   == IF todo = <<>> THEN {LD} ELSE Chain(Head(todo))
Making(t) == IF todo = <<>> THEN OUT ELSE Target(t, Head(todo), ntmp)
Busy(t)   == proc[t].st # "none"

\* The tools of the pipeline that were started and not waited for.
Pending(t) == (pc = "spawn" /\ t < tool) \/ (pc = "wait" /\ t >= tool)

\* Files of the command line that were dealt with.
Dealt == Len(cmd.files) - Len(todo)

\* The assembler of the file at work was started.
Assembled == /\ todo # <<>> /\ AS \in Current
             /\ pc = "wait" \/ (pc = "spawn" /\ AS < tool)

Place ==
  /\ pc = "main" => todo = cmd.files
  /\ pc # "main" => OptionsFit
  /\ Len(todo) <= Len(cmd.files) /\ \A i \in 1 .. Len(todo) : todo[i] = cmd.files[Dealt + i]
  /\ pc = "spawn" => todo # <<>> /\ tool \in Current \cup {LAST}
  /\ pc \in {"spawn", "wait"} /\ todo # <<>> => toolfor(Head(todo)) \notin {NONE, LD}
  /\ pc = "link" => failure = 0
  /\ pc = "link" \/ (pc = "wait" /\ todo = <<>>) => Linking
  /\ pc \in {"link", "exit"} => todo = <<>>
  /\ fdin # NONE => /\ pc = "spawn" /\ tool # LAST
                    /\ fdin \in Current /\ fdin < tool /\ proc[fdin].out
  /\ ntmp <= Dealt + IF Assembled THEN 1 ELSE 0

(***************************************************************************)
(* Who holds what, and what is whole.                                      *)
(***************************************************************************)

\* What the linker should be given, and what it should make.
AllLinked(S) ==
  /\ S # {} /\ S \subseteq ToSet(cmd.files)
  /\ \A i \in DOMAIN cmd.files : cmd.files[i] \in S \/ (Flag("k") /\ Overwritten(i))

Right(S) == IF todo = <<>> THEN AllLinked(S) ELSE S = {Head(todo)}

\* A process of the pipeline.  A running writer holds the write end of its
\* pipe, so a reader that met the end of file did so after the writer's end,
\* and knows by the writer's success that its input was whole.
Process(t) ==
  LET p == proc[t] IN
  /\ t \in Current
  /\ Pending(t)
  /\ p.file = Making(t) /\ Right(p.of)
  /\ p.inp # NONE => p.inp \in Current /\ p.inp < t /\ (Busy(p.inp) => proc[p.inp].out)
  /\ Alive(t) /\ p.out => t \in wr[t]
  /\ p.st = "ok" => (p.whole <=> InWhole(t)) /\ (p.inp # NONE => ~Alive(p.inp))
  /\ p.st # "ok" => ~p.whole
  /\ p.whole /\ p.file # NONE => p.file \in DOMAIN disk /\ disk[p.file] = p.of

\* While the tools are waited for, those before the first that failed have done
\* their work.
Waiting ==
  /\ failed # LAST => failed < tool /\ failure = 1
  /\ failed = LAST => \A t \in Current : t < tool =>
       /\ proc[t].whole
       /\ Making(t) # NONE => Making(t) \in DOMAIN disk /\ Right(disk[Making(t)])

Pipeline ==
  /\ \A t \in Tools : Busy(t) => Process(t)
  /\ \A t \in Current : Pending(t) => Busy(t)
  /\ pc = "wait" => Waiting

(***************************************************************************)
(* Files.                                                                  *)
(***************************************************************************)
InProgress(f) == \E t \in Tools : Busy(t) /\ proc[t].file = f

\* No file but those in progress is partial, and cleaning up will find every
\* temporary object.
Tidy ==
  /\ \A f \in DOMAIN disk : disk[f] # {} \/ InProgress(f)
  /\ Assembled => objfile = Making(AS) /\ objfile # NONE
  /\ objtmp # {} => Linking /\ ~Flag("k")
  /\ objtmp \subseteq {Tmp(m) : m \in 1 .. ntmp}
  /\ Linking /\ ~Flag("k") => \A f \in DOMAIN disk : IsTmp(f) =>
       f \in objtmp \/ InProgress(f) \/ (pc = "wait" /\ todo # <<>> /\ f = objfile)

\* The files that must be on disk for f in the end: those wanted, and the
\* object for the linker that -k gives a name.
Kept(f) == Wanted(f) \cup IF Linking /\ Flag("k") /\ Kind[f] # LD THEN {Made(f, "o")} ELSE {}

\* Until something fails, the outputs of the files dealt with are there, unless
\* they belong to a later file by now.
Outputs == failure = 0 =>
  \A i \in 1 .. Dealt : \A x \in Kept(cmd.files[i]) :
    \/ /\ x \in DOMAIN disk
       /\ \E j \in i .. Dealt : x \in Kept(cmd.files[j]) /\ disk[x] = {cmd.files[j]}
    \/ pc \in {"spawn", "wait"} /\ todo # <<>> /\ x \in Kept(Head(todo))

\* Until something fails, the linker has an argument for each file dealt with.
Argument(i, x) ==
  CASE Kind[cmd.files[i]] = LD -> x = Input(cmd.files[i])
    [] Kind[cmd.files[i]] # LD /\ Flag("k")  -> x = Made(cmd.files[i], "o")
    [] Kind[cmd.files[i]] # LD /\ ~Flag("k") ->
         /\ x \in DOMAIN disk /\ disk[x] = {cmd.files[i]}
         /\ \E m \in 1 .. ntmp : x = Tmp(m) /\ (Assembled => m < ntmp)

Arguments == failure = 0 /\ Linking =>
  /\ Len(linkargs) = Dealt
  /\ \A i \in 1 .. Dealt : Argument(i, linkargs[i])

Executable == pc = "exit" /\ failure = 0 /\ Linking => OUT \in DOMAIN disk /\ AllLinked(disk[OUT])

Live == Place /\ Pipeline /\ Tidy /\ Outputs /\ Arguments /\ Executable

Final == Normal => \A t \in Tools : ~Busy(t)

DriverInv ==
  /\ Typed
  /\ Running => Live
  /\ Final /\ SuccessMeansWhole /\ NothingTruncated /\ TemporariesRemoved

(***************************************************************************)
(* Names of files and tools.                                               *)
(***************************************************************************)
LEMMA ScenarioTyped ==
  ASSUME cmd \in Scenarios
  PROVE  /\ cmd.files \in Seq(Sources) /\ Len(cmd.files) \in Nat
         /\ cmd.size \in Nat /\ cmd.early \in BOOLEAN /\ cmd.faults \in BOOLEAN
         /\ NONE \notin Files /\ NONE \notin Nat
BY ScenarioAssumption, NoneAssumption DEF Files

\* The three kinds of names do not meet.
LEMMA NamesDiffer ==
  /\ \A f, g, x, y : Made(f, x) = Made(g, y) => x = y /\ Base[f] = Base[g]
  /\ \A f : \A x \in {"ir", "qbe", "s", "o"} : Made(f, x) # OUT /\ ~IsTmp(Made(f, x))
  /\ \A f, n : \A x \in {"ir", "qbe", "s", "o"} : Made(f, x) # Tmp(n)
  /\ \A m, n : Tmp(m) = Tmp(n) => m = n
  /\ \A n : Tmp(n) # OUT /\ (Tmp(n) # NONE => IsTmp(Tmp(n)))
  /\ ~IsTmp(OUT) /\ ~IsTmp(NONE)
BY DEF Made, OUT, Tmp, IsTmp

LEMMA FileNames ==
  /\ OUT \in Files
  /\ \A f \in Sources : \A x \in {"ir", "qbe", "s", "o"} : Made(f, x) \in Files
  /\ \A n : Tmp(n) \in Files <=> n \in 1 .. Len(cmd.files)
BY NamesDiffer DEF Files, FilesOf

LEMMA Toolnames ==
  /\ Tools = {CC1, TEEIR, CC2, TEEQBE, QBE, TEEAS, AS, LD}
  /\ Tools \subseteq Nat /\ LAST \in Nat /\ LAST \notin Tools
  /\ \A t \in Tools : CC1 <= t /\ t < LAST
  /\ DRIVER \notin Tools
BY DEF Tools, CC1, TEEIR, CC2, TEEQBE, QBE, TEEAS, AS, LD, LAST, DRIVER

LEMMA KindTyped ==
  ASSUME cmd \in Scenarios, NEW f \in Sources
  PROVE  toolfor(f) \in {CC1, CC2, QBE, AS, LD, NONE} /\ (~Flag("E") => toolfor(f) = Kind[f])
BY KindAssumption DEF toolfor

(***************************************************************************)
(* The tools of a file, in their order, and what they write.               *)
(***************************************************************************)
LEMMA ChainStart ==
  ASSUME cmd \in Scenarios, NEW f \in Sources, toolfor(f) \notin {NONE, LD}
  PROVE  /\ toolfor(f) \in Chain(f)
         /\ Chain(f) \subseteq Tools \ {LD}
         /\ \A t \in Chain(f) : toolfor(f) <= t
<1>1. NONE \notin Tools
  BY ScenarioTyped, Toolnames
<1>2. toolfor(f) \in {CC1, CC2, QBE, AS}
  BY KindTyped
<1> QED BY <1>1, <1>2 DEF Chain, Tools, CC1, TEEIR, CC2, TEEQBE, QBE, TEEAS, AS, LD

LEMMA ChainNext ==
  ASSUME cmd \in Scenarios, NEW f \in Sources, toolfor(f) \notin {NONE, LD}, NEW t \in Chain(f)
  PROVE  /\ nexttool(t) \in Chain(f) \cup {LAST}
         /\ t < nexttool(t)
         /\ \A u \in Chain(f) : u <= t \/ nexttool(t) <= u
<1>1. NONE \notin Tools
  BY ScenarioTyped, Toolnames
<1>2. toolfor(f) \in {CC1, CC2, QBE, AS}
  BY KindTyped
<1> QED BY <1>1, <1>2 DEF Chain, nexttool, Tools, CC1, TEEIR, CC2, TEEQBE, QBE, TEEAS, AS, LD, LAST

LEMMA TargetValues ==
  ASSUME NEW f, NEW n
  PROVE  /\ Target(TEEIR, f, n) = IF Flag("E") /\ Flag("o") THEN OUT ELSE Made(f, "ir")
         /\ Target(TEEQBE, f, n) = Made(f, "qbe")
         /\ Target(TEEAS, f, n) = Made(f, "s")
         /\ Target(AS, f, n) = IF Flag("c") /\ Flag("o") THEN OUT
                               ELSE IF Flag("c") \/ Flag("k") THEN Made(f, "o") ELSE Tmp(n)
         /\ \A t \in Tools : t \notin {TEEIR, TEEQBE, TEEAS, AS, LD} => Target(t, f, n) = NONE
BY DEF Target, Tools, CC1, TEEIR, CC2, TEEQBE, QBE, TEEAS, AS, LD

LEMMA TargetNames ==
  ASSUME NEW f \in Sources, NEW n, NEW t \in Tools
  PROVE  /\ Target(t, f, n) \in {NONE, OUT, Made(f, "ir"), Made(f, "qbe"), Made(f, "s"), Made(f, "o"), Tmp(n)}
         /\ t # AS => Target(t, f, n) \in {NONE, OUT, Made(f, "ir"), Made(f, "qbe"), Made(f, "s")}
         /\ t = AS => Target(t, f, n) \in {OUT, Made(f, "o"), Tmp(n)}
BY DEF Target, Tools, CC1, TEEIR, CC2, TEEQBE, QBE, TEEAS, AS, LD

\* Two tools of one pipeline write two files.
LEMMA TargetsDiffer ==
  ASSUME cmd \in Scenarios, NEW f \in Sources, toolfor(f) \notin {NONE, LD}, NEW n,
         NEW t \in Chain(f), NEW u \in Chain(f), t # u
  PROVE  Target(t, f, n) # Target(u, f, n) \/ Target(t, f, n) = NONE
<1>1. toolfor(f) \in {CC1, CC2, QBE, AS}
  BY KindTyped
<1>2. AS \in Chain(f) => ~Flag("E")
  BY <1>1 DEF Chain, toolfor, Tools, CC1, TEEIR, CC2, TEEQBE, QBE, TEEAS, AS, LD
<1>3. Chain(f) \subseteq Tools \ {LD}
  BY ChainStart
<1>4. /\ Made(f, "ir") # Made(f, "qbe") /\ Made(f, "ir") # Made(f, "s") /\ Made(f, "ir") # Made(f, "o")
      /\ Made(f, "qbe") # Made(f, "s") /\ Made(f, "qbe") # Made(f, "o") /\ Made(f, "s") # Made(f, "o")
  BY NamesDiffer
<1>5. \A x \in {"ir", "qbe", "s", "o"} : Made(f, x) # OUT /\ Made(f, x) # Tmp(n)
  BY NamesDiffer
<1>6. Tmp(n) # OUT
  BY NamesDiffer
<1>7. CASE t = TEEIR
  BY <1>2, <1>3, <1>4, <1>5, <1>6, <1>7 DEF Target, Tools, CC1, TEEIR, CC2, TEEQBE, QBE, TEEAS, AS, LD
<1>8. CASE t = TEEQBE
  BY <1>2, <1>3, <1>4, <1>5, <1>6, <1>8 DEF Target, Tools, CC1, TEEIR, CC2, TEEQBE, QBE, TEEAS, AS, LD
<1>9. CASE t = TEEAS
  BY <1>2, <1>3, <1>4, <1>5, <1>6, <1>9 DEF Target, Tools, CC1, TEEIR, CC2, TEEQBE, QBE, TEEAS, AS, LD
<1>10. CASE t = AS
  BY <1>2, <1>3, <1>4, <1>5, <1>6, <1>10 DEF Target, Tools, CC1, TEEIR, CC2, TEEQBE, QBE, TEEAS, AS, LD
<1>11. CASE t \notin {TEEIR, TEEQBE, TEEAS, AS}
  BY <1>3, <1>11 DEF Target, Tools, CC1, TEEIR, CC2, TEEQBE, QBE, TEEAS, AS, LD
<1> QED BY <1>7, <1>8, <1>9, <1>10, <1>11

\* What tools write is a file of its kind; only the assembler writes a temporary.
LEMMA TargetTyped ==
  ASSUME cmd \in Scenarios, NEW f \in Sources, NEW n, NEW t \in Tools
  PROVE  /\ t # AS => Target(t, f, n) \in Files \cup {NONE}
         /\ t = AS /\ n \in 1 .. Len(cmd.files) => Target(t, f, n) \in Files
         /\ IsTmp(Target(t, f, n)) => t = AS /\ Target(t, f, n) = Tmp(n)
         /\ \A m : t # AS => Target(t, f, n) = Target(t, f, m)
<1>1. t # AS => Target(t, f, n) \in Files \cup {NONE}
  BY TargetNames, FileNames
<1>2. t = AS /\ n \in 1 .. Len(cmd.files) => Target(t, f, n) \in Files
  BY TargetNames, FileNames
<1>3. IsTmp(Target(t, f, n)) => t = AS /\ Target(t, f, n) = Tmp(n)
  <2>1. \A y \in {NONE, OUT, Made(f, "ir"), Made(f, "qbe"), Made(f, "s"), Made(f, "o")} : ~IsTmp(y)
    BY NamesDiffer
  <2> QED BY <2>1, TargetNames
<1>4. \A m : t # AS => Target(t, f, n) = Target(t, f, m)
  BY DEF Target, Tools, CC1, TEEIR, CC2, TEEQBE, QBE, TEEAS, AS, LD
<1> QED BY <1>1, <1>2, <1>3, <1>4

\* Objects that only the linker needs are temporaries, and nothing else is written.
LEMMA TargetLinked ==
  ASSUME cmd \in Scenarios, NEW f \in Sources, toolfor(f) \notin {NONE, LD}, Linking, NEW n
  PROVE  /\ AS \in Chain(f)
         /\ Flag("k") => Target(AS, f, n) = Made(f, "o")
         /\ ~Flag("k") => \A t \in Chain(f) : Target(t, f, n) = IF t = AS THEN Tmp(n) ELSE NONE
<1>1. toolfor(f) \in {CC1, CC2, QBE, AS}
  BY KindTyped
<1>2. ~Flag("E") /\ ~Flag("M") /\ ~Flag("S") /\ ~Flag("c")
  BY DEF Linking, Flag
<1>3. AS \in Chain(f)
  BY <1>1, <1>2 DEF Chain, Tools, CC1, TEEIR, CC2, TEEQBE, QBE, TEEAS, AS, LD
<1>4. Flag("k") => Target(AS, f, n) = Made(f, "o")
  BY <1>2 DEF Target, Tools, CC1, TEEIR, CC2, TEEQBE, QBE, TEEAS, AS, LD
<1>5. ASSUME ~Flag("k"), NEW t \in Chain(f)
      PROVE  Target(t, f, n) = IF t = AS THEN Tmp(n) ELSE NONE
  <2>1. t \in {CC1, CC2, QBE, AS}
    BY <1>1, <1>2, <1>5 DEF Chain, Tools, CC1, TEEIR, CC2, TEEQBE, QBE, TEEAS, AS, LD
  <2> QED BY <1>2, <1>5, <2>1 DEF Target, Tools, CC1, TEEIR, CC2, TEEQBE, QBE, TEEAS, AS, LD
<1> QED BY <1>3, <1>4, <1>5

\* Every file that must be kept for f is the target of a tool of f.
LEMMA KeptMade ==
  ASSUME cmd \in Scenarios, OptionsFit, NEW f \in Sources, toolfor(f) \notin {NONE, LD}, NEW n,
         NEW x \in Kept(f)
  PROVE  \E t \in Chain(f) : Target(t, f, n) = x
<1>1. toolfor(f) \in {CC1, CC2, QBE, AS} /\ (~Flag("E") => toolfor(f) = Kind[f])
  BY KindTyped
<1>2. CASE Linking /\ Flag("k") /\ x = Made(f, "o")
  BY <1>2, TargetLinked
<1>3. CASE Flag("E") /\ Flag("o") /\ x = OUT
  <2>1. TEEIR \in Chain(f)
    BY <1>3 DEF Chain, toolfor, Tools, CC1, TEEIR, LD
  <2> QED BY <1>3, <2>1, TargetValues
<1>4. CASE ~Flag("E") /\ Kind[f] # AS /\ Flag("S") /\ x = Made(f, "s")
  <2>1. TEEAS \in Chain(f)
    BY <1>1, <1>4 DEF Chain, OptionsFit, Tools, CC1, TEEIR, CC2, TEEQBE, QBE, TEEAS, AS, LD
  <2> QED BY <1>4, <2>1, TargetValues
<1>5. CASE ~Flag("E") /\ ~Flag("M") /\ (~Flag("S") \/ Kind[f] = AS) /\ Flag("c")
           /\ x = IF Flag("o") THEN OUT ELSE Made(f, "o")
  <2>1. AS \in Chain(f)
    BY <1>1, <1>5 DEF Chain, OptionsFit, Tools, CC1, TEEIR, CC2, TEEQBE, QBE, TEEAS, AS, LD
  <2> QED BY <1>5, <2>1, TargetValues
<1> QED BY <1>1, <1>2, <1>3, <1>4, <1>5 DEF Kept, Wanted, ObjectWanted

\* A tool of f writes nothing that another file wants and f does not.
LEMMA KeptOwn ==
  ASSUME cmd \in Scenarios, OptionsFit, NEW f \in Sources, toolfor(f) \notin {NONE, LD}, NEW n,
         NEW g \in Sources, NEW t \in Chain(f), Target(t, f, n) \in Kept(g)
  PROVE  Target(t, f, n) \in Kept(f)
<1>1. toolfor(f) \in {CC1, CC2, QBE, AS} /\ (~Flag("E") => toolfor(f) = Kind[f])
  BY KindTyped
<1>2. Chain(f) \subseteq Tools \ {LD}
  BY ChainStart
<1>3. Kept(g) \subseteq {OUT, Made(g, "s"), Made(g, "o")}
  BY DEF Kept, Wanted
<1>4. \A a, b : Made(f, a) = Made(g, b) => a = b
  BY NamesDiffer
<1>5. \A a \in {"ir", "qbe", "s", "o"} : Made(f, a) # OUT /\ Made(g, a) # OUT
  BY NamesDiffer
<1>6. \A a \in {"ir", "qbe", "s", "o"} : Made(f, a) # Tmp(n) /\ Made(g, a) # Tmp(n) /\ Tmp(n) # OUT
  BY NamesDiffer
<1>7. AS \in Chain(f) => ~Flag("E") /\ (~Flag("S") \/ Kind[f] = AS)
  BY <1>1 DEF Chain, toolfor, Tools, CC1, TEEIR, CC2, TEEQBE, QBE, TEEAS, AS, LD
<1>8. TEEAS \in Chain(f) => ~Flag("E") /\ Kind[f] \notin {AS, LD}
  BY <1>1 DEF Chain, toolfor, Tools, CC1, TEEIR, CC2, TEEQBE, QBE, TEEAS, AS, LD
<1>9. NONE \notin Kept(g)
  BY <1>3, ScenarioTyped, FileNames
<1>10. CASE t = TEEIR
  <2>1. Flag("E") /\ Flag("o") /\ Target(t, f, n) = OUT
    BY <1>3, <1>4, <1>5, <1>10, TargetValues
  <2> QED BY <2>1 DEF Kept, Wanted
<1>11. CASE t = TEEQBE
  BY <1>3, <1>4, <1>5, <1>11, TargetValues
<1>12. CASE t = TEEAS
  <2>1. Target(t, f, n) = Made(f, "s")
    BY <1>12, TargetValues
  <2>2. Flag("S")
    BY <1>4, <1>5, <2>1 DEF Kept, Wanted
  <2> QED BY <1>8, <1>12, <2>1, <2>2 DEF Kept, Wanted
<1>13. CASE t = AS
  <2>1. CASE Target(t, f, n) = OUT
    <3>1. Flag("c") /\ Flag("o")
      BY <1>5, <1>6, <1>13, <2>1, TargetValues
    <3>2. ~Flag("M")
      BY <1>5, <1>7, <1>13, <2>1 DEF Kept, Wanted, ObjectWanted, Linking, Flag
    <3>3. Kind[f] # LD
      BY <1>1, <1>7, <1>13
    <3> QED BY <1>7, <1>13, <2>1, <3>1, <3>2, <3>3 DEF Kept, Wanted, ObjectWanted
  <2>2. CASE Target(t, f, n) = Made(f, "o") /\ ~(Flag("c") /\ Flag("o"))
    <3>1. (ObjectWanted(g) /\ ~Flag("o")) \/ (Linking /\ Flag("k"))
      BY <1>4, <1>5, <2>2 DEF Kept, Wanted
    <3>2. Kind[f] # LD
      BY <1>1, <1>7, <1>13
    <3> QED BY <1>7, <1>13, <2>2, <3>1, <3>2 DEF Kept, Wanted, ObjectWanted
  <2>3. Target(t, f, n) # Tmp(n)
    BY <1>3, <1>6
  <2> QED BY <1>13, <2>1, <2>2, <2>3, TargetValues
<1>14. CASE t \notin {TEEIR, TEEQBE, TEEAS, AS}
  BY <1>2, <1>9, <1>14, TargetValues
<1> QED BY <1>10, <1>11, <1>12, <1>13, <1>14

\* What depends on the command line alone.
LEMMA SameCommand ==
  ASSUME cmd' = cmd
  PROVE  /\ Files' = Files /\ Proc' = Proc
         /\ \A c : Flag(c)' = Flag(c)
         /\ Linking' = Linking /\ OptionsFit' = OptionsFit
         /\ \A f : toolfor(f)' = toolfor(f)
         /\ \A f : Chain(f)' = Chain(f)
         /\ \A f : Kept(f)' = Kept(f)
         /\ \A S : AllLinked(S)' = AllLinked(S)
         /\ \A t, f, n : Target(t, f, n)' = Target(t, f, n)
<1>1. Files' = Files
  BY DEF Files
<1>2. Proc' = Proc
  BY <1>1 DEF Proc
<1>3. \A c : Flag(c)' = Flag(c)
  BY DEF Flag
<1>4. Linking' = Linking
  BY DEF Linking
<1>5. OptionsFit' = OptionsFit
  BY DEF OptionsFit, Flag
<1>6. \A f : toolfor(f)' = toolfor(f)
  BY DEF toolfor, Flag
<1>7. \A f : Chain(f)' = Chain(f)
  BY DEF Chain, toolfor, Flag
<1>8. \A f : Kept(f)' = Kept(f)
  BY DEF Kept, Wanted, ObjectWanted, Linking, Flag
<1>9. \A S : AllLinked(S)' = AllLinked(S)
  BY DEF AllLinked, Overwritten, Flag
<1>10. \A t, f, n : Target(t, f, n)' = Target(t, f, n)
  BY DEF Target, Flag
<1> QED BY <1>1, <1>2, <1>3, <1>4, <1>5, <1>6, <1>7, <1>8, <1>9, <1>10

LEMMA HeadTyped ==
  ASSUME Typed, todo # <<>>
  PROVE  /\ Head(todo) \in Sources /\ Tail(todo) \in Seq(Sources)
         /\ Len(todo) \in Nat \ {0} /\ Len(Tail(todo)) = Len(todo) - 1
         /\ Head(todo) = todo[1]
         /\ \A i \in 1 .. Len(todo) - 1 : Tail(todo)[i] = todo[i + 1]
BY DEF Typed, TypeOK

LEMMA InitTyped == Init => Typed
<1> SUFFICES ASSUME Init PROVE Typed
  OBVIOUS
<1>1. cmd.files \in Seq(Sources)
  BY ScenarioTyped DEF Init
<1>2. NoProc \in Proc
  BY DEF NoProc, Proc
<1>3. TypeOK
  BY <1>1, CapAssumption, Toolnames DEF Init, TypeOK, NoProc
<1> QED BY <1>1, <1>2, <1>3, CapAssumption DEF Init, Typed, Ends2

(***************************************************************************)
(* Types are kept.                                                         *)
(***************************************************************************)
TypedRest == /\ cmd \in Scenarios
             /\ pc \in {"main", "build", "spawn", "wait", "link", "exit"}
             /\ todo \in Seq(Sources) /\ tool \in Tools \cup {LAST}
             /\ fdin \in Tools \cup {NONE} /\ failed \in Tools \cup {LAST} /\ failure \in {0, 1}
             /\ objfile \in Files \cup {NONE}
             /\ linkargs \in Seq(Files \cup {NONE} \cup {Input(f) : f \in Sources})
             /\ ntmp \in Nat

TypedWorld == /\ proc \in [Tools -> Proc]
              /\ rd \in Ends2 /\ wr \in Ends2 /\ buf \in [Tools -> 0 .. Cap]
              /\ DOMAIN disk \subseteq Files /\ \A f \in DOMAIN disk : disk[f] \subseteq Sources
              /\ objtmp \subseteq Files
              /\ ended \in {"running", "ok", "fail", "died", "killed"}

LEMMA TypedParts == Typed <=> TypedRest /\ TypedWorld
<1>1. Typed => TypedRest /\ TypedWorld
  BY DEF Typed, TypedRest, TypedWorld, TypeOK
<1>2. ASSUME TypedRest, TypedWorld PROVE TypeOK
  <2>1. \A t \in Tools : /\ proc[t].st \in {"none", "new", "run", "ok", "bad"}
                         /\ proc[t].file \in Files \cup {NONE}
    BY <1>2 DEF TypedWorld, Proc
  <2>2. \A t \in Tools : buf[t] \in 0 .. Cap /\ rd[t] \cup wr[t] \subseteq Tools \cup {DRIVER}
    BY <1>2 DEF TypedWorld, Ends2
  <2> QED BY <1>2, <2>1, <2>2 DEF TypedRest, TypedWorld, TypeOK
<1> QED BY <1>1, <1>2 DEF Typed, TypedRest, TypedWorld

LEMMA CloseTyped ==
  ASSUME TypedWorld, NEW ps, Close(ps)
  PROVE  rd' \in Ends2 /\ wr' \in Ends2 /\ buf' \in [Tools -> 0 .. Cap]
<1>1. 0 \in 0 .. Cap
  BY CapAssumption
<1> QED BY <1>1 DEF TypedWorld, Close, Ends2

LEMMA ExitTyped ==
  ASSUME Typed, NEW how \in {"ok", "fail", "died", "killed"}, NEW left \in SUBSET Files, Exit(how, left)
  PROVE  Typed'
<1>1. TypedRest /\ TypedWorld
  BY TypedParts
<1>2. cmd' = cmd /\ Files' = Files /\ Proc' = Proc
  BY SameCommand DEF Exit
<1>3. TypedRest'
  BY <1>1, <1>2 DEF Exit, TypedRest, memory
<1>4. rd' \in Ends2 /\ wr' \in Ends2 /\ buf' \in [Tools -> 0 .. Cap]
  BY <1>1, CloseTyped DEF Exit
<1>5. DOMAIN disk' \subseteq Files /\ \A f \in DOMAIN disk' : disk'[f] \subseteq Sources
  BY <1>1 DEF Exit, TypedWorld, Removed
<1>6. TypedWorld'
  BY <1>1, <1>2, <1>4, <1>5 DEF Exit, TypedWorld, memory, Ends2
<1> QED BY <1>3, <1>6, TypedParts, PTL

\* The place where the next tool is spawned.
LEMMA SpawnFits ==
  ASSUME Typed, Place, pc = "spawn", tool # LAST
  PROVE  /\ todo # <<>> /\ Head(todo) \in Sources /\ toolfor(Head(todo)) \notin {NONE, LD}
         /\ tool \in Chain(Head(todo)) /\ tool \in Tools \ {LD}
         /\ outfile(tool, Head(todo)) = Target(tool, Head(todo), ntmp + 1)
         /\ outfile(tool, Head(todo)) \in Files \cup {NONE}
         /\ tool = AS => ntmp + 1 \in 1 .. Len(cmd.files) /\ outfile(tool, Head(todo)) # NONE
         /\ nexttool(tool) \in Tools \cup {LAST}
<1>1. todo # <<>> /\ Head(todo) \in Sources /\ toolfor(Head(todo)) \notin {NONE, LD}
  BY HeadTyped DEF Place
<1>2. cmd \in Scenarios
  BY DEF Typed, TypeOK
<1>3. tool \in Chain(Head(todo))
  BY <1>1 DEF Place, Current
<1>4. tool \in Tools \ {LD}
  BY <1>1, <1>2, <1>3, ChainStart
<1>5. outfile(tool, Head(todo)) = Target(tool, Head(todo), ntmp + 1)
  BY DEF outfile, Target
<1>6. tool = AS => ntmp + 1 \in 1 .. Len(cmd.files)
  <2>1. ASSUME tool = AS PROVE ~Assembled
    BY <2>1 DEF Assembled, AS
  <2>2. Len(todo) \in Nat \ {0} /\ Len(cmd.files) \in Nat /\ ntmp \in Nat
    BY <1>1, <1>2, HeadTyped, ScenarioTyped DEF Typed
  <2> QED BY <2>1, <2>2 DEF Place, Dealt
<1>7. outfile(tool, Head(todo)) \in Files \cup {NONE}
  BY <1>1, <1>2, <1>4, <1>5, <1>6, TargetTyped
<1>8. tool = AS => outfile(tool, Head(todo)) # NONE
  BY <1>1, <1>2, <1>4, <1>5, <1>6, TargetTyped, ScenarioTyped
<1>9. nexttool(tool) \in Tools \cup {LAST}
  BY <1>1, <1>2, <1>3, ChainNext, ChainStart
<1> QED BY <1>1, <1>3, <1>4, <1>5, <1>6, <1>7, <1>8, <1>9

LEMMA Spawned ==
  ASSUME NEW t, NEW next, NEW file, NEW of, Spawn(t, next, file, of)
  PROVE  proc' = [proc EXCEPT ![t] = NewProc(next # LAST, file, of)]
BY Zenon DEF Spawn

LEMMA SpawnTyped ==
  ASSUME TypedRest, TypedWorld, UNCHANGED cmd, NEW t \in Tools, NEW next \in Tools \cup {LAST},
         NEW file \in Files \cup {NONE}, NEW of \in SUBSET Sources, Spawn(t, next, file, of)
  PROVE  /\ proc' \in [Tools -> Proc]
         /\ rd' \in Ends2 /\ wr' \in Ends2 /\ buf' \in [Tools -> 0 .. Cap]
         /\ fdin' \in Tools \cup {NONE} /\ ntmp' \in Nat
         /\ DOMAIN disk' \subseteq Files /\ \A f \in DOMAIN disk' : disk'[f] \subseteq Sources
<1>1. 0 \in 0 .. Cap
  BY CapAssumption
<1>2. proc' \in [Tools -> Proc]
  <2>1. NewProc(next # LAST, file, of) \in Proc
    BY DEF Proc, TypedRest, NewProc
  <2> QED BY <2>1, Spawned DEF TypedWorld
<1>3. rd' \in Ends2
  BY DEF Spawn, TypedWorld, Ends2
<1>4. wr' \in Ends2
  BY DEF Spawn, TypedWorld, Ends2
<1>5. buf' \in [Tools -> 0 .. Cap]
  BY <1>1 DEF Spawn, TypedWorld
<1>6. fdin' \in Tools \cup {NONE} /\ ntmp' \in Nat
  BY DEF Spawn, TypedRest
<1>7. DOMAIN disk' \subseteq Files /\ \A f \in DOMAIN disk' : disk'[f] \subseteq Sources
  <2>1. IsTmp(file) => file \in Files
    BY NamesDiffer
  <2> QED BY <2>1 DEF Spawn, TypedWorld, Written
<1> QED BY <1>2, <1>3, <1>4, <1>5, <1>6, <1>7

\* When it comes to linking, only the objects that -k names must be kept.
LEMMA KeptLinked ==
  ASSUME Linking, NEW f
  PROVE  Kept(f) = IF Flag("k") /\ Kind[f] # LD THEN {Made(f, "o")} ELSE {}
<1>1. ~Flag("E") /\ ~Flag("S") /\ ~Flag("c")
  BY DEF Linking, Flag
<1>2. Wanted(f) = {}
  BY <1>1 DEF Wanted, ObjectWanted
<1> QED BY <1>2 DEF Kept

\* The linker is given what was made of all the files.
LEMMA LinkFits ==
  ASSUME Typed, Live, pc = "link"
  PROVE  AllLinked(UNION {Contents(x) : x \in ToSet(linkargs)})
<1> DEFINE S == UNION {Contents(x) : x \in ToSet(linkargs)}
<1>1. failure = 0 /\ Linking /\ todo = <<>> /\ OptionsFit
  BY DEF Live, Place
<1>2. cmd.files \in Seq(Sources) /\ Len(cmd.files) \in Nat \ {0} /\ DOMAIN cmd.files = 1 .. Len(cmd.files)
  BY <1>1, ScenarioTyped DEF Typed, TypeOK, OptionsFit
<1>3. Dealt = Len(cmd.files)
  BY <1>1, <1>2 DEF Dealt
<1>4. Len(linkargs) = Len(cmd.files) /\ \A i \in 1 .. Len(cmd.files) : Argument(i, linkargs[i])
  BY <1>1, <1>3 DEF Live, Arguments
<1>5. \A i \in 1 .. Len(cmd.files) : Contents(linkargs[i]) \subseteq S
  BY <1>2, <1>4 DEF ToSet
<1>6. \A i \in 1 .. Len(cmd.files) : cmd.files[i] \in ToSet(cmd.files)
  BY <1>2 DEF ToSet
<1>7. ASSUME NEW i \in 1 .. Len(cmd.files)
      PROVE  /\ Contents(linkargs[i]) # {} /\ Contents(linkargs[i]) \subseteq ToSet(cmd.files)
             /\ cmd.files[i] \in Contents(linkargs[i]) \/ (Flag("k") /\ Overwritten(i))
  <2>1. CASE Kind[cmd.files[i]] = LD
    <3>1. linkargs[i] = Input(cmd.files[i])
      BY <1>4, <2>1 DEF Argument
    <3>2. Contents(linkargs[i]) = {cmd.files[i]}
      BY <3>1 DEF Contents, Input
    <3> QED BY <1>6, <3>2
  <2>2. CASE Kind[cmd.files[i]] # LD /\ Flag("k")
    <3>1. linkargs[i] = Made(cmd.files[i], "o")
      BY <1>4, <2>2 DEF Argument
    <3>2. linkargs[i] \in Kept(cmd.files[i])
      BY <1>1, <2>2, <3>1, KeptLinked
    <3>3. PICK j \in i .. Len(cmd.files) :
            linkargs[i] \in Kept(cmd.files[j]) /\ disk[linkargs[i]] = {cmd.files[j]}
      BY <1>1, <1>3, <3>2 DEF Live, Outputs
    <3>4. Contents(linkargs[i]) = {cmd.files[j]}
      BY <3>1, <3>3 DEF Contents, Made
    <3>5. linkargs[i] = Made(cmd.files[j], "o")
      BY <1>1, <3>3, KeptLinked
    <3>6. Base[cmd.files[j]] = Base[cmd.files[i]]
      BY <3>1, <3>5, NamesDiffer
    <3>7. i = j \/ Overwritten(i)
      BY <1>2, <3>3, <3>6 DEF Overwritten
    <3>8. j \in 1 .. Len(cmd.files)
      BY <1>2, <3>3
    <3> QED BY <1>6, <2>2, <3>4, <3>7, <3>8
  <2>3. CASE Kind[cmd.files[i]] # LD /\ ~Flag("k")
    <3>1. disk[linkargs[i]] = {cmd.files[i]} /\ \E m \in 1 .. ntmp : linkargs[i] = Tmp(m)
      BY <1>4, <2>3 DEF Argument
    <3>2. Contents(linkargs[i]) = {cmd.files[i]}
      BY <3>1 DEF Contents, Tmp
    <3> QED BY <1>6, <3>2
  <2> QED BY <2>1, <2>2, <2>3
<1>8. S # {}
  <2>1. 1 \in 1 .. Len(cmd.files)
    BY <1>2
  <2>2. Contents(linkargs[1]) # {} /\ Contents(linkargs[1]) \subseteq S
    BY <1>5, <1>7, <2>1
  <2> HIDE DEF S
  <2> QED BY <2>2
<1>9. S \subseteq ToSet(cmd.files)
  <2>1. \A x \in ToSet(linkargs) : \E i \in 1 .. Len(cmd.files) : x = linkargs[i]
    BY <1>4 DEF ToSet, Typed
  <2> QED BY <1>7, <2>1
<1>10. \A i \in DOMAIN cmd.files : cmd.files[i] \in S \/ (Flag("k") /\ Overwritten(i))
  BY <1>2, <1>5, <1>7
<1> HIDE DEF S
<1>11. AllLinked(S)
  BY <1>8, <1>9, <1>10 DEF AllLinked
<1> QED BY <1>11 DEF S

\* When all tools of a file did well, its object is made.
LEMMA ObjectMade ==
  ASSUME Typed, Live, pc = "wait", tool = LAST, failed = LAST, todo # <<>>, Linking
  PROVE  /\ objfile = Making(AS) /\ objfile \in DOMAIN disk /\ disk[objfile] = {Head(todo)}
         /\ objfile \in Files
<1>1. Head(todo) \in Sources /\ toolfor(Head(todo)) \notin {NONE, LD} /\ cmd \in Scenarios
  BY HeadTyped DEF Live, Place, Typed, TypeOK
<1>2. AS \in Chain(Head(todo))
  BY <1>1, TargetLinked
<1>3. AS \in Current
  BY <1>2 DEF Current
<1>4. objfile = Making(AS) /\ objfile # NONE
  BY <1>3 DEF Live, Tidy, Assembled
<1>7. AS < LAST
  BY Toolnames
<1>8. Making(AS) \in DOMAIN disk /\ Right(disk[Making(AS)])
  BY <1>3, <1>4, <1>7 DEF Live, Pipeline, Waiting
<1> QED BY <1>4, <1>8 DEF Right, Typed, TypeOK

LEMMA DriverTyped ==
  ASSUME Typed, Live, Driver
  PROVE  Typed'
<1>1. TypedRest /\ TypedWorld
  BY TypedParts
<1>2. cmd' = cmd
  BY DEF Driver, main, nextFile, spawn, spawnFails, spawned, waitTool, validated, built, link, exit, Exit
<1>3. Files' = Files /\ Proc' = Proc
  BY <1>2, SameCommand
<1>4. CASE main
  <2>1. CASE Accepted
    <3>1. TypedRest'
      BY <1>1, <1>2, <1>3, <1>4, <2>1 DEF main, TypedRest, memory
    <3>2. TypedWorld'
      BY <1>1, <1>2, <1>3, <1>4, <2>1 DEF main, TypedWorld, memory, pipes, Ends2
    <3> QED BY <3>1, <3>2, TypedParts, PTL
  <2>2. CASE ~Accepted
    BY <1>4, <2>2, ExitTyped DEF main
  <2> QED BY <2>1, <2>2
<1>5. CASE nextFile
  <2> DEFINE f == Head(todo)
  <2>1. f \in Sources /\ Tail(todo) \in Seq(Sources)
    BY <1>5, HeadTyped DEF nextFile
  <2>2. CASE toolfor(f) = NONE
    <3>1. Exit("died", {})
      BY <1>1, <1>5, <2>2, ScenarioTyped DEF nextFile, LD, TypedRest
    <3> QED BY <3>1, ExitTyped
  <2>3. CASE toolfor(f) = LD
    <3>1. linkargs' = Append(linkargs, Input(f)) /\ todo' = Tail(todo)
          /\ UNCHANGED <<cmd, pc, tool, fdin, proc, pipes, disk, objfile, failed, failure, objtmp, ended, ntmp, nsig>>
      BY <1>1, <1>5, <2>3, ScenarioTyped DEF nextFile, LD, TypedRest
    <3>2. TypedRest'
      BY <1>1, <1>3, <2>1, <3>1 DEF TypedRest
    <3>3. TypedWorld'
      BY <1>1, <1>3, <3>1 DEF TypedWorld, pipes, Ends2
    <3> QED BY <3>2, <3>3, TypedParts, PTL
  <2>4. CASE toolfor(f) \notin {NONE, LD}
    <3>1. pc' = "spawn" /\ tool' = toolfor(f) /\ UNCHANGED <<cmd, memory, proc, pipes, disk, ended, nsig>>
      BY <1>5, <2>4 DEF nextFile
    <3>2. toolfor(f) \in Tools
      BY <1>1, <2>1, <2>4, KindTyped, Toolnames DEF TypedRest
    <3>3. TypedRest'
      BY <1>1, <1>3, <3>1, <3>2 DEF TypedRest, memory
    <3>4. TypedWorld'
      BY <1>1, <1>3, <3>1 DEF TypedWorld, pipes, memory, Ends2
    <3> QED BY <3>3, <3>4, TypedParts, PTL
  <2> QED BY <2>2, <2>3, <2>4
<1>6. CASE spawn
  <2> DEFINE file == outfile(tool, Head(todo))
  <2>1. /\ Head(todo) \in Sources /\ tool \in Tools /\ nexttool(tool) \in Tools \cup {LAST}
        /\ file \in Files \cup {NONE}
    BY <1>6, SpawnFits DEF spawn, Live
  <2>2. /\ Spawn(tool, nexttool(tool), file, {Head(todo)})
        /\ objfile' = IF tool = AS THEN file ELSE objfile
        /\ tool' = nexttool(tool)
        /\ UNCHANGED <<cmd, pc, todo, failed, failure, linkargs, objtmp, ended, nsig>>
    BY <1>6 DEF spawn
  <2> HIDE DEF file
  <2>3. /\ proc' \in [Tools -> Proc]
        /\ rd' \in Ends2 /\ wr' \in Ends2 /\ buf' \in [Tools -> 0 .. Cap]
        /\ fdin' \in Tools \cup {NONE} /\ ntmp' \in Nat
        /\ DOMAIN disk' \subseteq Files /\ \A f \in DOMAIN disk' : disk'[f] \subseteq Sources
    BY <1>1, <2>1, <2>2, SpawnTyped
  <2>4. TypedRest'
    BY <1>1, <1>3, <2>1, <2>2, <2>3 DEF TypedRest
  <2>5. TypedWorld'
    BY <1>1, <1>3, <2>2, <2>3 DEF TypedWorld, Ends2
  <2> QED BY <2>4, <2>5, TypedParts, PTL
<1>7. CASE spawnFails
  <2>1. PICK made \in BOOLEAN :
          LET file == IF pc = "spawn" THEN outfile(tool, Head(todo)) ELSE OUT
          IN Exit("died", IF made /\ IsTmp(file) THEN {file} ELSE {})
    BY <1>7 DEF spawnFails
  <2>2. pc = "spawn" => outfile(tool, Head(todo)) \in Files \cup {NONE}
    BY <1>7, SpawnFits DEF spawnFails, Live
  <2> QED BY <2>1, <2>2, ExitTyped, FileNames, NamesDiffer
<1>8. CASE spawned
  <2>1. TypedRest'
    BY <1>1, <1>3, <1>8, Toolnames DEF spawned, TypedRest
  <2>2. TypedWorld'
    BY <1>1, <1>3, <1>8 DEF spawned, TypedWorld, pipes, Ends2
  <2> QED BY <2>1, <2>2, TypedParts, PTL
<1>9. CASE waitTool
  <2>1. tool \in Tools /\ tool + 1 \in Tools \cup {LAST}
    BY <1>1, <1>9 DEF waitTool, TypedRest, Tools, CC1, LD, LAST
  <2>2. TypedRest'
    BY <1>1, <1>3, <1>9, <2>1 DEF waitTool, TypedRest, Failed
  <2>3. [NoProc EXCEPT !.whole = proc[tool].whole] \in Proc
    BY <1>1, <2>1 DEF NoProc, Proc, TypedWorld
  <2>4. DOMAIN disk' \subseteq Files /\ \A f \in DOMAIN disk' : disk'[f] \subseteq Sources
    BY <1>1, <1>9 DEF waitTool, TypedWorld, Removed
  <2>5. TypedWorld'
    BY <1>1, <1>3, <1>9, <2>3, <2>4 DEF waitTool, TypedWorld, pipes, Ends2
  <2> QED BY <2>2, <2>5, TypedParts, PTL
<1>10. CASE validated
  <2>1. TypedRest'
    <3>1. todo' \in Seq(Sources)
      BY <1>1, <1>10, HeadTyped DEF validated, TypedRest
    <3>2. linkargs' \in Seq(Files \cup {NONE} \cup {Input(f) : f \in Sources})
      <4> DEFINE S == Files \cup {NONE} \cup {Input(f) : f \in Sources}
      <4>1. linkargs \in Seq(S) /\ objfile \in S
        BY <1>1 DEF TypedRest
      <4>2. linkargs' = linkargs \/ linkargs' = Append(linkargs, objfile)
        BY <1>10 DEF validated
      <4> HIDE DEF S
      <4>3. linkargs' \in Seq(S)
        BY <4>1, <4>2
      <4> QED BY <4>3 DEF S
    <3> QED BY <1>1, <1>3, <1>10, <3>1, <3>2 DEF validated, TypedRest
  <2>2. DOMAIN disk' \subseteq Files /\ \A f \in DOMAIN disk' : disk'[f] \subseteq Sources
    BY <1>1, <1>10 DEF validated, TypedWorld, Removed
  <2>3. objtmp' \subseteq Files
    <3>1. todo # <<>> /\ failed = LAST /\ Linking /\ ~Flag("k") => objfile \in Files
      BY <1>10, ObjectMade DEF validated
    <3> QED BY <1>1, <1>10, <3>1 DEF validated, TypedWorld
  <2>4. NoProc \in Proc
    BY DEF NoProc, Proc
  <2>5. TypedWorld'
    BY <1>1, <1>3, <1>10, <2>2, <2>3, <2>4 DEF validated, TypedWorld, pipes, Ends2
  <2> QED BY <2>1, <2>5, TypedParts, PTL
<1>11. CASE built
  <2>1. TypedRest'
    BY <1>1, <1>3, <1>11 DEF built, TypedRest, memory
  <2>2. TypedWorld'
    BY <1>1, <1>3, <1>11 DEF built, TypedWorld, pipes, memory, Ends2
  <2> QED BY <2>1, <2>2, TypedParts, PTL
<1>12. CASE link
  <2> DEFINE of == UNION {Contents(x) : x \in ToSet(linkargs)}
  <2>1. of \in SUBSET Sources
    BY <1>12, LinkFits, ScenarioTyped DEF link, AllLinked, ToSet, TypedRest, Typed, TypeOK
  <2>2. outfile(LD, NONE) = OUT /\ OUT \in Files
    BY FileNames DEF outfile, TEEIR, TEEQBE, TEEAS, AS, LD
  <2>3. /\ Spawn(LD, LAST, OUT, of)
        /\ pc' = "wait" /\ tool' = CC1 /\ failed' = LAST
        /\ UNCHANGED <<cmd, todo, objfile, failure, linkargs, objtmp, ended, nsig>>
    BY <1>12, <2>2 DEF link
  <2> HIDE DEF of
  <2>4. LD \in Tools /\ LAST \in Tools \cup {LAST} /\ CC1 \in Tools
    BY Toolnames
  <2>5. /\ proc' \in [Tools -> Proc]
        /\ rd' \in Ends2 /\ wr' \in Ends2 /\ buf' \in [Tools -> 0 .. Cap]
        /\ fdin' \in Tools \cup {NONE} /\ ntmp' \in Nat
        /\ DOMAIN disk' \subseteq Files /\ \A f \in DOMAIN disk' : disk'[f] \subseteq Sources
    BY <1>1, <2>1, <2>2, <2>3, <2>4, SpawnTyped
  <2>6. TypedRest'
    BY <1>1, <1>3, <2>3, <2>4, <2>5 DEF TypedRest
  <2>7. TypedWorld'
    BY <1>1, <1>3, <2>3, <2>5 DEF TypedWorld, Ends2
  <2> QED BY <2>6, <2>7, TypedParts, PTL
<1>13. CASE exit
  BY <1>13, ExitTyped DEF exit
<1> QED BY <1>4, <1>5, <1>6, <1>7, <1>8, <1>9, <1>10, <1>11, <1>12, <1>13 DEF Driver

LEMMA EndsTyped ==
  ASSUME TypedWorld, NEW t \in Tools, NEW how \in {"ok", "bad"}, NEW whole \in BOOLEAN, Ends(t, how, whole)
  PROVE  /\ proc' \in [Tools -> Proc]
         /\ rd' \in Ends2 /\ wr' \in Ends2 /\ buf' \in [Tools -> 0 .. Cap]
<1>1. proc' \in [Tools -> Proc]
  <2>1. proc[t] \in Proc
    BY DEF TypedWorld
  <2>2. [proc[t] EXCEPT !.st = how, !.whole = whole] \in Proc
    BY <2>1 DEF Proc
  <2>3. proc' = [proc EXCEPT ![t] = [proc[t] EXCEPT !.st = how, !.whole = whole]]
    BY DEF Ends, TypedWorld
  <2> QED BY <2>2, <2>3 DEF TypedWorld
<1> QED BY <1>1, CloseTyped DEF Ends

LEMMA ToolTyped ==
  ASSUME Typed, NEW t \in Tools, Works(t) \/ toolFails(t)
  PROVE  Typed'
<1>1. TypedRest /\ TypedWorld
  BY TypedParts
<1>2. Others
  BY DEF Works, toolStarts, toolReads, toolWrites, toolSucceeds, toolFails
<1>3. Files' = Files /\ Proc' = Proc
  BY <1>2, SameCommand DEF Others
<1>4. TypedRest'
  BY <1>1, <1>2, <1>3 DEF Others, TypedRest, memory
<1>5. proc[t] \in Proc
  BY <1>1 DEF TypedWorld
<1> SUFFICES /\ proc' \in [Tools -> Proc]
             /\ rd' \in Ends2 /\ wr' \in Ends2 /\ buf' \in [Tools -> 0 .. Cap]
             /\ DOMAIN disk' \subseteq Files /\ \A f \in DOMAIN disk' : disk'[f] \subseteq Sources
  <2>1. ASSUME /\ proc' \in [Tools -> Proc]
               /\ rd' \in Ends2 /\ wr' \in Ends2 /\ buf' \in [Tools -> 0 .. Cap]
               /\ DOMAIN disk' \subseteq Files /\ \A f \in DOMAIN disk' : disk'[f] \subseteq Sources
        PROVE  TypedWorld'
    BY <1>1, <1>2, <1>3, <2>1 DEF TypedWorld, Others, memory, Ends2
  <2> QED BY <1>4, <2>1, TypedParts, PTL
<1>6. CASE toolStarts(t)
  <2>1. CASE /\ proc' = [proc EXCEPT ![t].st = "run"]
             /\ disk' = IF proc[t].file = NONE THEN disk ELSE Written(proc[t].file, {})
             /\ UNCHANGED <<pipes>>
    <3>1. [proc[t] EXCEPT !.st = "run"] \in Proc
      BY <1>5 DEF Proc
    <3>2. proc' \in [Tools -> Proc]
      BY <1>1, <2>1, <3>1 DEF TypedWorld
    <3>3. proc[t].file \in Files \cup {NONE}
      BY <1>5 DEF Proc
    <3> QED BY <1>1, <2>1, <3>2, <3>3 DEF TypedWorld, pipes, Written
  <2>2. CASE Ends(t, "bad", FALSE) /\ UNCHANGED disk
    BY <1>1, <2>2, EndsTyped DEF TypedWorld
  <2> QED BY <1>6, <2>1, <2>2 DEF toolStarts
<1>7. CASE toolReads(t)
  <2>1. proc[t].inp \in Tools
    BY <1>5, <1>7 DEF toolReads, Proc
  <2>2. buf[proc[t].inp] \in 1 .. Cap
    BY <1>1, <1>7, <2>1, CapAssumption DEF toolReads, TypedWorld
  <2>3. buf[proc[t].inp] - 1 \in 0 .. Cap
    BY <2>2, CapAssumption
  <2>4. buf' \in [Tools -> 0 .. Cap]
    BY <1>1, <1>7, <2>1, <2>3 DEF toolReads, TypedWorld
  <2> QED BY <1>1, <1>7, <2>4 DEF toolReads, TypedWorld
<1>8. CASE toolWrites(t)
  <2>1. CASE rd[t] = {}
    BY <1>1, <1>8, <2>1, EndsTyped DEF toolWrites, TypedWorld
  <2>2. CASE rd[t] # {}
    <3>1. buf[t] + 1 \in 0 .. Cap
      <4>1. buf[t] < Cap
        BY <1>8, <2>2 DEF toolWrites
      <4>2. buf[t] \in 0 .. Cap
        BY <1>1 DEF TypedWorld
      <4> QED BY <4>1, <4>2, CapAssumption
    <3>2. [proc[t] EXCEPT !.n = @ + 1] \in Proc
      BY <1>5 DEF Proc
    <3>3. buf' \in [Tools -> 0 .. Cap] /\ proc' \in [Tools -> Proc]
      BY <1>1, <1>8, <2>2, <3>1, <3>2 DEF toolWrites, TypedWorld
    <3> QED BY <1>1, <1>8, <2>2, <3>3 DEF toolWrites, TypedWorld
  <2> QED BY <2>1, <2>2
<1>9. CASE toolSucceeds(t)
  <2>1. InWhole(t) \in BOOLEAN
    BY DEF InWhole
  <2>2. proc[t].file \in Files \cup {NONE} /\ proc[t].of \subseteq Sources
    BY <1>5 DEF Proc
  <2>3. DOMAIN disk' \subseteq Files /\ \A f \in DOMAIN disk' : disk'[f] \subseteq Sources
    BY <1>1, <1>9, <2>2 DEF toolSucceeds, TypedWorld, Written
  <2> QED BY <1>1, <1>9, <2>1, <2>3, EndsTyped DEF toolSucceeds
<1>10. CASE toolFails(t)
  BY <1>1, <1>10, EndsTyped DEF toolFails, TypedWorld
<1> QED BY <1>6, <1>7, <1>8, <1>9, <1>10 DEF Works

LEMMA InterruptTyped ==
  ASSUME Typed, NEW group \in BOOLEAN, interrupt(group)
  PROVE  Typed'
<1>1. TypedRest /\ TypedWorld
  BY TypedParts
<1>2. cmd' = cmd /\ Files' = Files /\ Proc' = Proc
  BY SameCommand DEF interrupt
<1>3. TypedRest'
  BY <1>1, <1>2 DEF interrupt, TypedRest, memory
<1> DEFINE dead == {DRIVER} \cup IF group THEN {t \in Tools : Alive(t)} ELSE {}
<1>4. /\ proc' = [t \in Tools |-> IF t \in dead THEN [proc[t] EXCEPT !.st = "bad"] ELSE proc[t]]
      /\ Close(dead)
  BY DEF interrupt
<1> HIDE DEF dead
<1>5. proc' \in [Tools -> Proc]
  <2>1. \A t \in Tools : proc[t] \in Proc /\ [proc[t] EXCEPT !.st = "bad"] \in Proc
    BY <1>1 DEF TypedWorld, Proc
  <2> QED BY <1>4, <2>1
<1>6. rd' \in Ends2 /\ wr' \in Ends2 /\ buf' \in [Tools -> 0 .. Cap]
  BY <1>1, <1>4, CloseTyped
<1>7. DOMAIN disk' \subseteq Files /\ \A f \in DOMAIN disk' : disk'[f] \subseteq Sources
  BY <1>1 DEF interrupt, TypedWorld, Removed
<1>8. TypedWorld'
  BY <1>1, <1>2, <1>5, <1>6, <1>7 DEF interrupt, TypedWorld, memory, Ends2
<1> QED BY <1>3, <1>8, TypedParts, PTL

\* The state has its types.
LEMMA TypedStep ==
  ASSUME Typed, Running => Live, [Next]_vars
  PROVE  Typed'
<1>1. CASE Driver
  <2>1. Running
    BY <1>1 DEF Driver, main, nextFile, spawn, spawnFails, spawned, waitTool, validated, built, link, exit
  <2> QED BY <1>1, <2>1, DriverTyped
<1>2. ASSUME NEW t \in Tools, Works(t) \/ toolFails(t) PROVE Typed'
  BY <1>2, ToolTyped
<1>3. CASE User
  BY <1>3, InterruptTyped DEF User
<1>4. CASE UNCHANGED vars
  <2>1. UNCHANGED <<cmd, pc, todo, tool, fdin, proc, rd, wr, buf, disk, objfile, failed, failure,
                    linkargs, objtmp, ended, ntmp, nsig>>
    BY <1>4 DEF vars, memory, pipes
  <2>2. Files' = Files /\ Proc' = Proc
    BY <2>1, SameCommand
  <2>3. TypedRest /\ TypedWorld
    BY TypedParts
  <2>4. TypedRest'
    BY <2>1, <2>2, <2>3 DEF TypedRest
  <2>5. TypedWorld'
    BY <2>1, <2>2, <2>3 DEF TypedWorld, Ends2
  <2> QED BY <2>4, <2>5, TypedParts, PTL
<1> QED BY <1>1, <1>2, <1>3, <1>4 DEF Next, Stopped

(***************************************************************************)
(* A step of a tool.                                                       *)
(***************************************************************************)
LEMMA SamePlace ==
  ASSUME UNCHANGED <<cmd, pc, todo, tool, ntmp>>
  PROVE  /\ Current' = Current /\ Dealt' = Dealt /\ Assembled' = Assembled
         /\ \A t : Making(t)' = Making(t)
         /\ \A t : Pending(t)' = Pending(t)
         /\ \A S : Right(S)' = Right(S)
<1>1. Current' = Current
  BY DEF Current, Chain, toolfor, Flag
<1>2. \A t : Making(t)' = Making(t)
  BY DEF Making, Target, Flag
<1>3. \A S : Right(S)' = Right(S)
  BY DEF Right, AllLinked, Overwritten, Flag
<1>4. Dealt' = Dealt /\ Assembled' = Assembled
  BY <1>1 DEF Dealt, Assembled
<1>5. \A t : Pending(t)' = Pending(t)
  BY DEF Pending
<1> QED BY <1>1, <1>2, <1>3, <1>4, <1>5

\* What a step of t leaves alone, whichever it is.
ToolStep(t) ==
  /\ UNCHANGED <<cmd, pc, todo, tool, ntmp, fdin, objfile, failed, failure, linkargs, objtmp>>
  /\ Alive(t) /\ Busy(t)'
  /\ \A u \in Tools : /\ proc'[u].inp = proc[u].inp /\ proc'[u].out = proc[u].out
                      /\ proc'[u].file = proc[u].file /\ proc'[u].of = proc[u].of
  /\ \A u \in Tools \ {t} : proc'[u] = proc[u] /\ (u \in wr[u] => u \in wr'[u])
  /\ \A f : f # proc[t].file =>
       (f \in DOMAIN disk' <=> f \in DOMAIN disk) /\ (f \in DOMAIN disk => disk'[f] = disk[f])
  /\ DOMAIN disk \subseteq DOMAIN disk'

\* How a step of t may change t: it goes on, ends badly, or ends well.
ToolOutcome(t) ==
  \/ proc'[t].st = "run" /\ proc'[t].whole = proc[t].whole /\ wr' = wr
  \/ proc'[t].st = "bad" /\ proc'[t].whole = FALSE
  \/ /\ proc'[t].st = "ok" /\ (proc'[t].whole <=> InWhole(t)) /\ AtEOF(t)
     /\ (InWhole(t) /\ proc[t].file # NONE =>
           proc[t].file \in DOMAIN disk' /\ disk'[proc[t].file] = proc[t].of)

LEMMA EndsSteps ==
  ASSUME Typed, NEW t \in Tools, NEW how \in {"ok", "bad"}, NEW whole, Ends(t, how, whole)
  PROVE  /\ proc'[t].st = how /\ proc'[t].whole = whole
         /\ \A u \in Tools : /\ proc'[u].inp = proc[u].inp /\ proc'[u].out = proc[u].out
                             /\ proc'[u].file = proc[u].file /\ proc'[u].of = proc[u].of
         /\ \A u \in Tools \ {t} : proc'[u] = proc[u] /\ (u \in wr[u] => u \in wr'[u])
<1>1. proc \in [Tools -> Proc]
  BY DEF Typed
<1>2. proc[t] \in Proc
  BY <1>1
<1>3. proc' = [proc EXCEPT ![t] = [proc[t] EXCEPT !.st = how, !.whole = whole]]
  BY <1>1 DEF Ends
<1>4. proc'[t] = [proc[t] EXCEPT !.st = how, !.whole = whole] /\ \A u \in Tools \ {t} : proc'[u] = proc[u]
  BY <1>1, <1>3
<1>5. proc'[t].st = how /\ proc'[t].whole = whole
  BY <1>2, <1>4 DEF Proc
<1>6. /\ proc'[t].inp = proc[t].inp /\ proc'[t].out = proc[t].out
      /\ proc'[t].file = proc[t].file /\ proc'[t].of = proc[t].of
  BY <1>2, <1>4 DEF Proc
<1>7. \A u \in Tools \ {t} : u \in wr[u] => u \in wr'[u]
  BY DEF Ends, Close
<1> QED BY <1>4, <1>5, <1>6, <1>7

LEMMA ToolSteps ==
  ASSUME Typed, NEW t \in Tools, Works(t) \/ toolFails(t)
  PROVE  ToolStep(t) /\ ToolOutcome(t)
<1>1. Others
  BY DEF Works, toolStarts, toolReads, toolWrites, toolSucceeds, toolFails
<1>2. UNCHANGED <<cmd, pc, todo, tool, ntmp, fdin, objfile, failed, failure, linkargs, objtmp>>
  BY <1>1 DEF Others, memory
<1>3. Alive(t)
  BY DEF Works, toolStarts, toolReads, toolWrites, toolSucceeds, toolFails, Alive
<1>4. proc \in [Tools -> Proc] /\ proc[t] \in Proc
  BY DEF Typed
<1>5. ASSUME Ends(t, "bad", FALSE), disk' = disk
      PROVE  ToolStep(t) /\ ToolOutcome(t)
  <2>1. ToolStep(t)
    BY <1>2, <1>3, <1>5, EndsSteps DEF ToolStep, Busy
  <2>2. ToolOutcome(t)
    BY <1>5, EndsSteps DEF ToolOutcome
  <2> QED BY <2>1, <2>2
<1>6. CASE toolStarts(t)
  <2>1. CASE /\ proc' = [proc EXCEPT ![t].st = "run"]
             /\ disk' = IF proc[t].file = NONE THEN disk ELSE Written(proc[t].file, {})
             /\ UNCHANGED <<pipes>>
    <3>1. proc'[t] = [proc[t] EXCEPT !.st = "run"] /\ \A u \in Tools \ {t} : proc'[u] = proc[u]
      BY <1>4, <2>1
    <3>2. proc'[t].st = "run" /\ proc'[t].whole = proc[t].whole
      BY <1>4, <3>1 DEF Proc
    <3>3. /\ proc'[t].inp = proc[t].inp /\ proc'[t].out = proc[t].out
          /\ proc'[t].file = proc[t].file /\ proc'[t].of = proc[t].of
      BY <1>4, <3>1 DEF Proc
    <3>4. wr' = wr
      BY <2>1 DEF pipes
    <3>5. ToolStep(t)
      BY <1>2, <1>3, <2>1, <3>1, <3>2, <3>3, <3>4 DEF ToolStep, Busy, Written
    <3> QED BY <3>2, <3>4, <3>5 DEF ToolOutcome
  <2>2. CASE Ends(t, "bad", FALSE) /\ UNCHANGED disk
    BY <1>5, <2>2
  <2> QED BY <1>6, <2>1, <2>2 DEF toolStarts
<1>7. CASE toolReads(t)
  <2>1. proc' = proc /\ wr' = wr /\ disk' = disk /\ proc[t].st = "run"
    BY <1>7 DEF toolReads
  <2>2. ToolStep(t)
    BY <1>2, <1>3, <2>1 DEF ToolStep, Busy, Alive
  <2> QED BY <2>1, <2>2 DEF ToolOutcome
<1>8. CASE toolWrites(t)
  <2>1. CASE rd[t] = {}
    BY <1>5, <1>8, <2>1 DEF toolWrites
  <2>2. CASE rd[t] # {}
    <3>1. proc[t].st = "run" /\ proc' = [proc EXCEPT ![t].n = @ + 1] /\ wr' = wr /\ disk' = disk
      BY <1>8, <2>2 DEF toolWrites
    <3>2. proc'[t] = [proc[t] EXCEPT !.n = @ + 1] /\ \A u \in Tools \ {t} : proc'[u] = proc[u]
      BY <1>4, <3>1
    <3>3. proc'[t].st = "run" /\ proc'[t].whole = proc[t].whole
      BY <1>4, <3>1, <3>2 DEF Proc
    <3>4. /\ proc'[t].inp = proc[t].inp /\ proc'[t].out = proc[t].out
          /\ proc'[t].file = proc[t].file /\ proc'[t].of = proc[t].of
      BY <1>4, <3>2 DEF Proc
    <3>5. ToolStep(t)
      BY <1>2, <1>3, <3>1, <3>2, <3>3, <3>4 DEF ToolStep, Busy
    <3> QED BY <3>1, <3>3, <3>5 DEF ToolOutcome
  <2> QED BY <2>1, <2>2
<1>9. CASE toolSucceeds(t)
  <2>1. /\ Ends(t, "ok", InWhole(t)) /\ AtEOF(t)
        /\ disk' = IF proc[t].file # NONE /\ InWhole(t) THEN Written(proc[t].file, proc[t].of) ELSE disk
    BY <1>9 DEF toolSucceeds
  <2>2. ToolStep(t)
    BY <1>2, <1>3, <2>1, EndsSteps DEF ToolStep, Busy, Written
  <2>3. proc'[t].st = "ok" /\ proc'[t].whole = InWhole(t)
    BY <2>1, EndsSteps
  <2>4. InWhole(t) /\ proc[t].file # NONE =>
          proc[t].file \in DOMAIN disk' /\ disk'[proc[t].file] = proc[t].of
    BY <2>1 DEF Written
  <2> QED BY <2>1, <2>2, <2>3, <2>4 DEF ToolOutcome
<1>10. CASE toolFails(t)
  BY <1>5, <1>10 DEF toolFails
<1> QED BY <1>6, <1>7, <1>8, <1>9, <1>10 DEF Works

LEMMA CurrentTools == Current \subseteq Tools
BY DEF Current, Chain, Tools, CC1, LD

\* The tools at work write different files.
LEMMA MakingDiffers ==
  ASSUME Typed, Place, pc \in {"spawn", "wait"}, NEW t \in Current, NEW u \in Current, t # u,
         Making(t) # NONE
  PROVE  Making(t) # Making(u)
<1>1. todo # <<>>
  BY DEF Current
<1>2. Head(todo) \in Sources /\ toolfor(Head(todo)) \notin {NONE, LD} /\ cmd \in Scenarios
  BY <1>1, HeadTyped DEF Place, Typed, TypeOK
<1>3. t \in Chain(Head(todo)) /\ u \in Chain(Head(todo))
  BY <1>1 DEF Current
<1>4. Target(t, Head(todo), ntmp) # NONE
  BY <1>1 DEF Making
<1> QED BY <1>1, <1>2, <1>3, <1>4, TargetsDiffer DEF Making

LEMMA ToolPipeline ==
  ASSUME Typed, Place, Pipeline, NEW t \in Tools, ToolStep(t), ToolOutcome(t)
  PROVE  Pipeline'
<1>1. /\ Current' = Current /\ \A u : Making(u)' = Making(u) /\ Pending(u)' = Pending(u)
      /\ \A S : Right(S)' = Right(S)
  BY SamePlace DEF ToolStep
<1>2. Process(t) /\ Alive(t) /\ proc[t].st # "ok"
  BY DEF Pipeline, ToolStep, Alive, Busy
<1>3. t \in Current /\ Pending(t) /\ proc[t].file = Making(t) /\ pc \in {"spawn", "wait"}
  BY <1>2 DEF Process, Pending
<1>4. \A u \in Tools : Busy(u)' <=> Busy(u)
  BY <1>2 DEF ToolStep, Busy, Alive
<1>5. \A u \in Tools \ {t} : proc'[u] = proc[u] /\ Alive(u)' = Alive(u)
  BY DEF ToolStep, Alive
<1>6. ASSUME NEW u \in Current, u # t, Making(u) # NONE
      PROVE  /\ Making(u) \in DOMAIN disk => Making(u) \in DOMAIN disk' /\ disk'[Making(u)] = disk[Making(u)]
  BY <1>3, <1>6, MakingDiffers DEF ToolStep
<1>7. ASSUME NEW u \in Tools, Busy(u)
      PROVE  Process(u)'
  <2>1. Process(u)
    BY <1>7 DEF Pipeline
  <2>2. /\ proc'[u].inp = proc[u].inp /\ proc'[u].out = proc[u].out
        /\ proc'[u].file = proc[u].file /\ proc'[u].of = proc[u].of
    BY DEF ToolStep
  <2>3. (u \in Current /\ Pending(u) /\ proc[u].file = Making(u) /\ Right(proc[u].of))'
    BY <1>1, <2>1, <2>2 DEF Process
  <2>4. (proc[u].inp # NONE => proc[u].inp \in Current /\ proc[u].inp < u
                               /\ (Busy(proc[u].inp) => proc[proc[u].inp].out))'
    <3>1. HAVE proc'[u].inp # NONE
    <3>2. proc[u].inp \in Current /\ proc[u].inp < u /\ (Busy(proc[u].inp) => proc[proc[u].inp].out)
      BY <2>1, <2>2, <3>1 DEF Process
    <3>3. proc[u].inp \in Tools
      BY <3>2, CurrentTools
    <3>4. proc'[proc[u].inp].out = proc[proc[u].inp].out /\ (Busy(proc[u].inp)' <=> Busy(proc[u].inp))
      BY <1>4, <2>2, <3>3 DEF ToolStep, Busy
    <3> QED BY <1>1, <2>2, <3>2, <3>4 DEF Busy
  <2>5. CASE u # t
    <3>1. proc'[u] = proc[u]
      BY <1>5, <2>5
    <3>2. (Alive(u) /\ proc[u].out => u \in wr[u])'
      BY <2>1, <2>5, <3>1 DEF Process, ToolStep, Alive
    <3>3. (proc[u].st = "ok" => (proc[u].whole <=> InWhole(u))
                                /\ (proc[u].inp # NONE => ~Alive(proc[u].inp)))'
      <4>1. HAVE proc'[u].st = "ok"
      <4>2. (proc[u].whole <=> InWhole(u)) /\ (proc[u].inp # NONE => ~Alive(proc[u].inp))
        BY <2>1, <3>1, <4>1 DEF Process
      <4>3. CASE proc[u].inp = NONE
        BY <3>1, <4>2, <4>3 DEF InWhole
      <4>4. CASE proc[u].inp # NONE
        <5>1. proc[u].inp \in Tools \ {t}
          BY <1>2, <2>1, <4>2, <4>4, CurrentTools DEF Process
        <5>2. proc'[proc[u].inp] = proc[proc[u].inp]
          BY <1>5, <5>1
        <5> QED BY <3>1, <4>2, <4>4, <5>2 DEF InWhole, Alive
      <4> QED BY <4>3, <4>4
    <3>4. (proc[u].st # "ok" => ~proc[u].whole)'
      BY <2>1, <3>1 DEF Process
    <3>5. (proc[u].whole /\ proc[u].file # NONE =>
             proc[u].file \in DOMAIN disk /\ disk[proc[u].file] = proc[u].of)'
      BY <1>6, <2>1, <2>5, <3>1 DEF Process
    <3> QED BY <2>3, <2>4, <3>2, <3>3, <3>4, <3>5 DEF Process
  <2>6. CASE u = t
    <3>1. proc[t].st # "ok" /\ ~proc[t].whole /\ (proc[t].out => t \in wr[t])
      BY <1>2 DEF Process
    <3>2. ASSUME proc[t].inp # NONE
          PROVE  proc[t].inp \in Tools \ {t} /\ proc'[proc[t].inp] = proc[proc[t].inp]
      <4>1. proc[t].inp \in Tools /\ proc[t].inp < t
        BY <1>2, <3>2, CurrentTools DEF Process
      <4> QED BY <1>5, <4>1, Toolnames
    <3>3. CASE proc'[t].st = "run" /\ proc'[t].whole = proc[t].whole /\ wr' = wr
      BY <2>2, <2>3, <2>4, <2>6, <3>1, <3>3 DEF Process
    <3>4. CASE proc'[t].st = "bad" /\ proc'[t].whole = FALSE
      BY <2>3, <2>4, <2>6, <3>4 DEF Process, Alive
    <3>5. CASE /\ proc'[t].st = "ok" /\ (proc'[t].whole <=> InWhole(t)) /\ AtEOF(t)
               /\ (InWhole(t) /\ proc[t].file # NONE =>
                     proc[t].file \in DOMAIN disk' /\ disk'[proc[t].file] = proc[t].of)
      <4>1. (proc[t].whole <=> InWhole(t))'
        BY <2>2, <2>6, <3>2, <3>5 DEF InWhole
      <4>2. (proc[t].inp # NONE => ~Alive(proc[t].inp))'
        <5>1. HAVE proc'[t].inp # NONE
        <5>2. proc[t].inp # NONE /\ proc'[t].inp = proc[t].inp
          BY <2>2, <2>6, <5>1
        <5>3. proc[t].inp \in Tools /\ wr[proc[t].inp] = {}
          BY <3>2, <3>5, <5>2 DEF AtEOF
        <5>4. ~Alive(proc[t].inp)
          <6>1. SUFFICES ASSUME Alive(proc[t].inp) PROVE FALSE
            OBVIOUS
          <6>2. Busy(proc[t].inp)
            BY <6>1 DEF Busy, Alive
          <6>3. Process(proc[t].inp) /\ proc[proc[t].inp].out
            BY <1>2, <5>2, <5>3, <6>2 DEF Pipeline, Process
          <6>4. proc[t].inp \in wr[proc[t].inp]
            BY <6>1, <6>3 DEF Process
          <6> QED BY <5>3, <6>4
        <5> QED BY <3>2, <5>2, <5>4 DEF Alive
      <4>3. (proc[t].whole /\ proc[t].file # NONE =>
               proc[t].file \in DOMAIN disk /\ disk[proc[t].file] = proc[t].of)'
        BY <2>2, <2>6, <3>5
      <4> QED BY <2>3, <2>4, <2>6, <3>5, <4>1, <4>2, <4>3 DEF Process, Alive
    <3> QED BY <3>3, <3>4, <3>5 DEF ToolOutcome
  <2> QED BY <2>5, <2>6
<1>8. \A u \in Current' : Pending(u)' => Busy(u)'
  BY <1>1, <1>4, CurrentTools DEF Pipeline
<1>9. pc' = "wait" => Waiting'
  <2>1. HAVE pc' = "wait"
  <2>2. pc = "wait" /\ tool' = tool /\ failed' = failed /\ failure' = failure /\ Waiting
    BY <2>1 DEF ToolStep, Pipeline
  <2>3. t >= tool
    BY <1>3, <2>2 DEF Pending
  <2>4. ASSUME failed = LAST, NEW u \in Current, u < tool
        PROVE  /\ proc'[u].whole
               /\ Making(u) # NONE => Making(u) \in DOMAIN disk' /\ Right(disk'[Making(u)])
    <3>1. u \in Tools /\ u # t
      <4>1. u \in Nat /\ t \in Nat /\ tool \in Nat /\ u \in Tools
        BY CurrentTools, Toolnames DEF Typed, TypeOK
      <4> QED BY <2>3, <2>4, <4>1
    <3>2. proc'[u].whole
      BY <1>5, <2>2, <2>4, <3>1 DEF Waiting
    <3>3. Making(u) # NONE => Making(u) \in DOMAIN disk' /\ Right(disk'[Making(u)])
      BY <1>6, <2>2, <2>4, <3>1 DEF Waiting
    <3> QED BY <3>2, <3>3
  <2>5. (failed # LAST => failed < tool /\ failure = 1)'
    BY <2>2 DEF Waiting
  <2>6. (failed = LAST => \A u \in Current : u < tool =>
           /\ proc[u].whole
           /\ Making(u) # NONE => Making(u) \in DOMAIN disk /\ Right(disk[Making(u)]))'
    BY <1>1, <2>2, <2>4
  <2> QED BY <2>5, <2>6 DEF Waiting
<1>10. \A u \in Tools : Busy(u)' => Process(u)'
  BY <1>4, <1>7
<1> QED BY <1>8, <1>9, <1>10 DEF Pipeline

LEMMA ToolTidy ==
  ASSUME Typed, Place, Pipeline, Tidy, NEW t \in Tools, ToolStep(t)
  PROVE  Tidy'
<1>1. /\ Current' = Current /\ Assembled' = Assembled /\ \A u : Making(u)' = Making(u)
      /\ Linking' = Linking /\ Flag("k")' = Flag("k")
  BY SamePlace, SameCommand DEF ToolStep
<1>2. UNCHANGED <<pc, todo, ntmp, objfile, objtmp>>
  BY DEF ToolStep
<1>3. \A u \in Tools : (Busy(u)' <=> Busy(u)) /\ proc'[u].file = proc[u].file
  BY DEF ToolStep, Busy, Alive
<1>4. \A f : InProgress(f)' <=> InProgress(f)
  BY <1>3 DEF InProgress, Busy
<1>5. InProgress(proc[t].file)
  BY <1>3 DEF InProgress, ToolStep
<1>6. ASSUME NEW f \in DOMAIN disk', ~InProgress(f)'
      PROVE  f \in DOMAIN disk /\ disk'[f] = disk[f]
  BY <1>4, <1>5, <1>6 DEF ToolStep
<1>7. (\A f \in DOMAIN disk : disk[f] # {} \/ InProgress(f))'
  BY <1>4, <1>6 DEF Tidy
<1>8. (Assembled => objfile = Making(AS) /\ objfile # NONE)'
  BY <1>1, <1>2 DEF Tidy
<1>9. (objtmp # {} => Linking /\ ~Flag("k"))' /\ (objtmp \subseteq {Tmp(m) : m \in 1 .. ntmp})'
  BY <1>1, <1>2 DEF Tidy
<1>10. (Linking /\ ~Flag("k") => \A f \in DOMAIN disk : IsTmp(f) =>
          f \in objtmp \/ InProgress(f) \/ (pc = "wait" /\ todo # <<>> /\ f = objfile))'
  BY <1>1, <1>2, <1>4, <1>6 DEF Tidy
<1> QED BY <1>7, <1>8, <1>9, <1>10 DEF Tidy

\* The files dealt with are files of the command line.
LEMMA FileAt ==
  ASSUME Typed, Place
  PROVE  /\ Dealt \in Nat /\ Dealt <= Len(cmd.files) /\ Len(cmd.files) \in Nat
         /\ DOMAIN cmd.files = 1 .. Len(cmd.files)
         /\ \A i \in 1 .. Len(cmd.files) : cmd.files[i] \in Sources
<1>1. cmd.files \in Seq(Sources) /\ todo \in Seq(Sources)
  BY ScenarioTyped DEF Typed, TypeOK
<1>2. Len(cmd.files) \in Nat /\ Len(todo) \in Nat /\ Len(todo) <= Len(cmd.files)
  BY <1>1 DEF Place
<1> QED BY <1>1, <1>2 DEF Dealt

LEMMA ToolOutputs ==
  ASSUME Typed, Place, Pipeline, Outputs, NEW t \in Tools, ToolStep(t)
  PROVE  Outputs'
<1>1. /\ Dealt' = Dealt /\ cmd' = cmd /\ \A f : Kept(f)' = Kept(f)
  BY SamePlace, SameCommand DEF ToolStep
<1>2. UNCHANGED <<pc, todo, failure>>
  BY DEF ToolStep
<1>3. Process(t)
  BY DEF Pipeline, ToolStep, Busy, Alive
<1>4. t \in Current /\ proc[t].file = Making(t) /\ pc \in {"spawn", "wait"}
  BY <1>3 DEF Process, Pending
<1>5. SUFFICES ASSUME failure = 0, NEW i \in 1 .. Dealt, NEW x \in Kept(cmd.files[i])
               PROVE  \/ /\ x \in DOMAIN disk'
                         /\ \E j \in i .. Dealt : x \in Kept(cmd.files[j]) /\ disk'[x] = {cmd.files[j]}
                      \/ pc \in {"spawn", "wait"} /\ todo # <<>> /\ x \in Kept(Head(todo))
  BY <1>1, <1>2 DEF Outputs
<1>6. \/ /\ x \in DOMAIN disk
         /\ \E j \in i .. Dealt : x \in Kept(cmd.files[j]) /\ disk[x] = {cmd.files[j]}
      \/ pc \in {"spawn", "wait"} /\ todo # <<>> /\ x \in Kept(Head(todo))
  BY <1>5 DEF Outputs
<1>7. CASE x # proc[t].file
  BY <1>6, <1>7 DEF ToolStep
<1>8. CASE x = proc[t].file /\ todo # <<>>
  <2>1. Head(todo) \in Sources /\ toolfor(Head(todo)) \notin {NONE, LD}
    BY <1>4, <1>8, HeadTyped DEF Place
  <2>2. t \in Chain(Head(todo)) /\ x = Target(t, Head(todo), ntmp)
    BY <1>4, <1>8 DEF Current, Making
  <2>3. cmd \in Scenarios /\ OptionsFit
    BY <1>4 DEF Typed, TypeOK, Place
  <2>4. cmd.files[i] \in Sources
    <3>1. i \in 1 .. Len(cmd.files)
      BY <1>5, FileAt
    <3> QED BY <3>1, FileAt
  <2>5. x \in Kept(Head(todo))
    BY <2>1, <2>2, <2>3, <2>4, KeptOwn
  <2> QED BY <1>4, <1>8, <2>5
<1>9. CASE x = proc[t].file /\ todo = <<>>
  <2>1. x = OUT /\ Linking
    BY <1>3, <1>4, <1>9 DEF Making, Place, Process, Pending
  <2>2. x = Made(cmd.files[i], "o")
    BY <1>5, <2>1, KeptLinked
  <2> QED BY <2>1, <2>2, NamesDiffer
<1> QED BY <1>7, <1>8, <1>9

LEMMA ToolArguments ==
  ASSUME Typed, Place, Pipeline, Arguments, NEW t \in Tools, ToolStep(t)
  PROVE  Arguments'
<1>1. /\ Dealt' = Dealt /\ cmd' = cmd /\ Assembled' = Assembled /\ Linking' = Linking
      /\ Flag("k")' = Flag("k")
  BY SamePlace, SameCommand DEF ToolStep
<1>2. UNCHANGED <<failure, linkargs, ntmp>>
  BY DEF ToolStep
<1>3. Process(t)
  BY DEF Pipeline, ToolStep, Busy, Alive
<1>4. t \in Current /\ proc[t].file = Making(t) /\ Pending(t) /\ pc \in {"spawn", "wait"}
  BY <1>3 DEF Process, Pending
<1>5. ASSUME failure = 0, Linking, NEW i \in 1 .. Dealt
      PROVE  Argument(i, linkargs[i])'
  <2>1. Argument(i, linkargs[i])
    BY <1>5 DEF Arguments
  <2>2. ASSUME ~Flag("k"), linkargs[i] \in DOMAIN disk, NEW m \in 1 .. ntmp, linkargs[i] = Tmp(m),
               Assembled => m < ntmp
        PROVE  linkargs[i] # proc[t].file
    <3>1. Tmp(m) # NONE
      BY <2>2, ScenarioTyped DEF Typed, TypeOK
    <3>2. CASE todo = <<>>
      BY <1>4, <2>2, <3>2, NamesDiffer DEF Making
    <3>3. CASE todo # <<>>
      <4>1. Head(todo) \in Sources /\ toolfor(Head(todo)) \notin {NONE, LD} /\ cmd \in Scenarios
        BY <1>4, <3>3, HeadTyped DEF Place, Typed, TypeOK
      <4>2. proc[t].file = IF t = AS THEN Tmp(ntmp) ELSE NONE
        BY <1>4, <1>5, <2>2, <3>3, <4>1, TargetLinked DEF Current, Making
      <4>3. t = AS => m < ntmp /\ ntmp \in Nat
        BY <1>4, <2>2, <3>3 DEF Assembled, Pending, Typed
      <4>4. t = AS => Tmp(m) # Tmp(ntmp)
        BY <4>3, NamesDiffer
      <4> QED BY <2>2, <3>1, <4>2, <4>4
    <3> QED BY <3>2, <3>3
  <2>3. CASE Kind[cmd.files[i]] # LD /\ ~Flag("k")
    <3>1. PICK m \in 1 .. ntmp : linkargs[i] = Tmp(m) /\ (Assembled => m < ntmp)
      BY <2>1, <2>3 DEF Argument
    <3>2. linkargs[i] \in DOMAIN disk /\ disk[linkargs[i]] = {cmd.files[i]}
      BY <2>1, <2>3 DEF Argument
    <3>3. linkargs[i] \in DOMAIN disk' /\ disk'[linkargs[i]] = disk[linkargs[i]]
      BY <2>2, <2>3, <3>1, <3>2 DEF ToolStep
    <3> QED BY <1>1, <1>2, <2>3, <3>1, <3>2, <3>3 DEF Argument
  <2>4. CASE Kind[cmd.files[i]] = LD \/ Flag("k")
    BY <1>1, <1>2, <2>1, <2>4 DEF Argument, Made, Input
  <2> QED BY <2>3, <2>4
<1> QED BY <1>1, <1>2, <1>5 DEF Arguments

\* The invariant of a running driver survives any step of a tool.
LEMMA ToolLive ==
  ASSUME Typed, Live, NEW t \in Tools, Works(t) \/ toolFails(t)
  PROVE  Live'
<1>1. ToolStep(t) /\ ToolOutcome(t)
  BY ToolSteps
<1>2. Place /\ Pipeline /\ Tidy /\ Outputs /\ Arguments
  BY DEF Live
<1>3. Pipeline' /\ Tidy' /\ Outputs' /\ Arguments'
  BY <1>1, <1>2, ToolPipeline, ToolTidy, ToolOutputs, ToolArguments
<1>4. Place'
  <2>1. /\ Current' = Current /\ Dealt' = Dealt /\ Assembled' = Assembled /\ cmd' = cmd
        /\ Linking' = Linking /\ OptionsFit' = OptionsFit /\ \A f : toolfor(f)' = toolfor(f)
    BY <1>1, SamePlace, SameCommand DEF ToolStep
  <2>2. UNCHANGED <<pc, todo, tool, ntmp, fdin, failure>>
    BY <1>1 DEF ToolStep
  <2>3. fdin # NONE => proc'[fdin].out = proc[fdin].out
    BY <1>1, <1>2, CurrentTools DEF ToolStep, Place
  <2> QED BY <1>2, <2>1, <2>2, <2>3 DEF Place
<1>5. Executable'
  <2>1. pc # "exit"
    <3>1. Process(t)
      BY <1>1, <1>2 DEF Pipeline, ToolStep, Busy, Alive
    <3> QED BY <3>1 DEF Process, Pending
  <2> QED BY <1>1, <2>1 DEF Executable, ToolStep
<1> QED BY <1>2, <1>3, <1>4, <1>5 DEF Live

(***************************************************************************)
(* A step of the driver that keeps it running.                             *)
(***************************************************************************)

\* Between two pipelines there is no process.
LEMMA Idle ==
  ASSUME Typed, Place, Pipeline, pc \notin {"spawn", "wait"}
  PROVE  /\ \A t \in Tools : ~Busy(t)
         /\ \A f : ~InProgress(f)
         /\ fdin = NONE /\ ~Assembled
<1>1. \A t \in Tools : ~Busy(t)
  BY DEF Pipeline, Process, Pending
<1> QED BY <1>1 DEF InProgress, Place, Assembled

LEMMA IdleAfter ==
  ASSUME pc' \notin {"spawn", "wait"}, \A t \in Tools : proc'[t].st = "none"
  PROVE  Pipeline' /\ ~Assembled' /\ \A f : ~InProgress(f)'
<1>1. \A t \in Tools : ~Busy(t)'
  BY DEF Busy
<1> QED BY <1>1 DEF Pipeline, Pending, Assembled, InProgress

\* What the properties of files depend on.
LEMMA SameFiles ==
  ASSUME UNCHANGED <<cmd, todo, disk, failure, linkargs, ntmp>>
  PROVE  /\ Dealt' = Dealt
         /\ \A f : Kept(f)' = Kept(f)
         /\ Linking' = Linking /\ \A c : Flag(c)' = Flag(c)
         /\ \A i, x : (Assembled' => Assembled) /\ Argument(i, x) => Argument(i, x)'
<1>1. Linking' = Linking /\ (\A c : Flag(c)' = Flag(c)) /\ (\A f : Kept(f)' = Kept(f))
  BY SameCommand
<1> QED BY <1>1 DEF Dealt, Argument

LEMMA MainLive ==
  ASSUME Typed, Live, main, Accepted
  PROVE  Live'
<1>1. /\ pc = "main" /\ pc' = "build"
      /\ UNCHANGED <<cmd, todo, tool, fdin, proc, disk, objfile, failed, failure, linkargs, objtmp, ntmp>>
  BY DEF main, memory
<1>2. \A t \in Tools : ~Busy(t)
  BY <1>1, Idle DEF Live
<1>3. (\A f : ~InProgress(f)) /\ ~Assembled /\ fdin = NONE
  BY <1>1, Idle DEF Live
<1>4. Pipeline' /\ ~Assembled' /\ \A f : ~InProgress(f)'
  BY <1>1, <1>2, IdleAfter DEF Busy
<1>5. OptionsFit'
  <2>1. todo = cmd.files
    BY <1>1 DEF Live, Place
  <2>2. OptionsFit
    BY <2>1 DEF Accepted, OptionsFit
  <2> QED BY <1>1, <2>2, SameCommand
<1>6. /\ Dealt' = Dealt /\ (\A f : Kept(f)' = Kept(f)) /\ Linking' = Linking
      /\ (\A c : Flag(c)' = Flag(c)) /\ \A i, x : Argument(i, x) => Argument(i, x)'
  BY <1>1, <1>4, SameFiles
<1>7. Place'
  BY <1>1, <1>3, <1>4, <1>5, <1>6 DEF Live, Place
<1>8. Tidy'
  BY <1>1, <1>3, <1>4, <1>6 DEF Live, Tidy
<1>9. Outputs' /\ Arguments' /\ Executable'
  BY <1>1, <1>6 DEF Live, Outputs, Arguments, Executable
<1> QED BY <1>4, <1>7, <1>8, <1>9 DEF Live

LEMMA BuiltLive ==
  ASSUME Typed, Live, built
  PROVE  Live'
<1>1. /\ pc = "build" /\ todo = <<>> /\ pc' = IF Linking /\ failure = 0 THEN "link" ELSE "exit"
      /\ UNCHANGED <<cmd, todo, tool, fdin, proc, disk, objfile, failed, failure, linkargs, objtmp, ntmp>>
  BY DEF built, memory
<1>2. \A t \in Tools : ~Busy(t)
  BY <1>1, Idle DEF Live
<1>3. (\A f : ~InProgress(f)) /\ ~Assembled /\ fdin = NONE
  BY <1>1, Idle DEF Live
<1>4. Pipeline' /\ ~Assembled' /\ \A f : ~InProgress(f)'
  BY <1>1, <1>2, IdleAfter DEF Busy
<1>5. OptionsFit'
  BY <1>1, SameCommand DEF Live, Place
<1>6. /\ Dealt' = Dealt /\ (\A f : Kept(f)' = Kept(f)) /\ Linking' = Linking
      /\ (\A c : Flag(c)' = Flag(c)) /\ \A i, x : Argument(i, x) => Argument(i, x)'
  BY <1>1, <1>4, SameFiles
<1>7. Place'
  BY <1>1, <1>3, <1>4, <1>5, <1>6 DEF Live, Place
<1>8. Tidy'
  BY <1>1, <1>3, <1>4, <1>6 DEF Live, Tidy
<1>9. Outputs' /\ Arguments' /\ Executable'
  BY <1>1, <1>6 DEF Live, Outputs, Arguments, Executable
<1> QED BY <1>4, <1>7, <1>8, <1>9 DEF Live

\* One more file is dealt with.
LEMMA Advance ==
  ASSUME Typed, Place, todo # <<>>, todo' = Tail(todo), cmd' = cmd
  PROVE  /\ Dealt \in Nat /\ Dealt' = Dealt + 1 /\ cmd.files[Dealt + 1] = Head(todo)
         /\ Dealt + 1 \in DOMAIN cmd.files
         /\ Len(todo') <= Len(cmd.files)
         /\ \A i \in 1 .. Len(todo') : todo'[i] = cmd.files[Dealt' + i]
<1>1. /\ Len(todo) \in Nat \ {0} /\ Len(Tail(todo)) = Len(todo) - 1 /\ Head(todo) = todo[1]
      /\ \A i \in 1 .. Len(todo) - 1 : Tail(todo)[i] = todo[i + 1]
  BY HeadTyped
<1>2. Dealt \in Nat /\ Len(cmd.files) \in Nat /\ DOMAIN cmd.files = 1 .. Len(cmd.files)
  BY FileAt
<1>3. Dealt' = Dealt + 1 /\ Dealt + 1 <= Len(cmd.files)
  BY <1>1, <1>2 DEF Dealt
<1>4. Len(todo) <= Len(cmd.files) /\ \A i \in 1 .. Len(todo) : todo[i] = cmd.files[Dealt + i]
  BY DEF Place
<1>5. ASSUME NEW i \in 1 .. Len(todo') PROVE todo'[i] = cmd.files[Dealt' + i]
  <2>1. i + 1 \in 1 .. Len(todo) /\ i \in 1 .. Len(todo) - 1
    BY <1>1, <1>5
  <2>2. todo'[i] = todo[i + 1]
    BY <1>1, <2>1
  <2>3. todo[i + 1] = cmd.files[Dealt + (i + 1)] /\ Dealt + (i + 1) = Dealt' + i
    BY <1>2, <1>3, <1>4, <2>1
  <2> QED BY <2>2, <2>3
<1> QED BY <1>1, <1>2, <1>3, <1>4, <1>5

\* The arguments of the linker after a step.
LEMMA NextArguments ==
  ASSUME failure' = 0 /\ Linking' =>
           /\ Len(linkargs') = Dealt'
           /\ \A i \in 1 .. Dealt' : \A x : x = linkargs'[i] => Argument(i, x)'
  PROVE  Arguments'
<1>1. SUFFICES ASSUME failure' = 0 /\ Linking', NEW i \in 1 .. Dealt'
               PROVE  (Argument(i, linkargs[i]))'
  BY DEF Arguments
<1>2. \A x : x = linkargs'[i] => Argument(i, x)'
  BY <1>1
<1> QED BY <1>2 DEF Argument

\* An object of the command line goes to the linker as it is.
LEMMA ObjectLive ==
  ASSUME Typed, Live, nextFile, toolfor(Head(todo)) = LD
  PROVE  Live'
<1>1. Running /\ pc = "build" /\ todo # <<>>
  BY DEF nextFile
<1>2. Head(todo) \in Sources /\ cmd \in Scenarios
  BY <1>1, HeadTyped DEF Typed, TypeOK
<1>3. LD # NONE /\ LD # CC1
  BY ScenarioTyped, Toolnames DEF Typed, TypeOK, LD, CC1
<1>4. /\ linkargs' = Append(linkargs, Input(Head(todo))) /\ todo' = Tail(todo)
      /\ UNCHANGED <<cmd, pc, tool, fdin, proc, disk, objfile, failed, failure, objtmp, ntmp>>
  BY <1>3 DEF nextFile
<1>5. \A t \in Tools : ~Busy(t)
  BY <1>1, Idle DEF Live
<1>6. (\A f : ~InProgress(f)) /\ ~Assembled /\ fdin = NONE
  BY <1>1, Idle DEF Live
<1>7. Pipeline' /\ ~Assembled' /\ \A f : ~InProgress(f)'
  BY <1>1, <1>4, <1>5, IdleAfter DEF Busy
<1>8. /\ Dealt \in Nat /\ Dealt' = Dealt + 1 /\ cmd.files[Dealt + 1] = Head(todo)
      /\ Len(todo') <= Len(cmd.files)
      /\ \A i \in 1 .. Len(todo') : todo'[i] = cmd.files[Dealt' + i]
  BY <1>1, <1>4, Advance DEF Live
<1>9. /\ Linking' = Linking /\ (\A c : Flag(c)' = Flag(c)) /\ (\A f : Kept(f)' = Kept(f))
      /\ OptionsFit' = OptionsFit
  BY <1>4, SameCommand
<1>10. ~Flag("E") /\ Kind[Head(todo)] = LD
  BY <1>3 DEF toolfor
<1>11. Place'
  <2>1. ntmp' <= Dealt' + IF Assembled' THEN 1 ELSE 0
    BY <1>4, <1>6, <1>7, <1>8 DEF Live, Place, Typed
  <2> QED BY <1>1, <1>4, <1>6, <1>7, <1>8, <1>9, <2>1 DEF Live, Place
<1>12. Tidy'
  BY <1>1, <1>4, <1>6, <1>7, <1>9 DEF Live, Tidy
<1>13. Outputs'
  <2>1. SUFFICES ASSUME failure = 0, NEW i \in 1 .. Dealt + 1, NEW x \in Kept(cmd.files[i])
                 PROVE  /\ x \in DOMAIN disk
                        /\ \E j \in i .. Dealt + 1 : x \in Kept(cmd.files[j]) /\ disk[x] = {cmd.files[j]}
    BY <1>4, <1>8, <1>9 DEF Outputs
  <2>2. Kept(Head(todo)) = {}
    BY <1>10 DEF Kept, Wanted, ObjectWanted
  <2>3. i \in 1 .. Dealt
    BY <1>8, <2>1, <2>2
  <2>4. /\ x \in DOMAIN disk
        /\ \E j \in i .. Dealt : x \in Kept(cmd.files[j]) /\ disk[x] = {cmd.files[j]}
    BY <1>1, <2>1, <2>3 DEF Live, Outputs
  <2>5. i .. Dealt \subseteq i .. Dealt + 1
    BY <1>8
  <2> QED BY <2>4, <2>5
<1>14. Arguments'
  <2>1. SUFFICES ASSUME failure = 0, Linking
                 PROVE  /\ Len(linkargs') = Dealt + 1
                        /\ \A i \in 1 .. Dealt + 1 : \A x : x = linkargs'[i] => Argument(i, x)'
    BY <1>4, <1>8, <1>9, NextArguments
  <2>2. Len(linkargs) = Dealt /\ \A i \in 1 .. Dealt : Argument(i, linkargs[i])
    BY <2>1 DEF Live, Arguments
  <2>3. /\ Len(linkargs') = Dealt + 1 /\ linkargs'[Dealt + 1] = Input(Head(todo))
        /\ \A i \in 1 .. Dealt : linkargs'[i] = linkargs[i]
    BY <1>4, <2>2 DEF Typed
  <2>4. ASSUME NEW i, NEW x, Argument(i, x) PROVE Argument(i, x)'
    BY <1>4, <1>7, <1>9, <2>4 DEF Argument
  <2>5. ASSUME NEW i, i = Dealt + 1, NEW x, x = Input(Head(todo)) PROVE Argument(i, x)'
    BY <1>4, <1>8, <1>10, <2>5 DEF Argument, Input
  <2>6. ASSUME NEW i \in 1 .. Dealt + 1, NEW x, x = linkargs'[i] PROVE Argument(i, x)'
    <3>1. CASE i = Dealt + 1
      BY <2>3, <2>5, <2>6, <3>1
    <3>2. CASE i # Dealt + 1
      <4>1. i \in 1 .. Dealt
        BY <1>8, <2>6, <3>2
      <4>2. Argument(i, x)
        BY <2>2, <2>3, <2>6, <4>1
      <4> QED BY <2>4, <4>2
    <3> QED BY <3>1, <3>2
  <2> QED BY <2>3, <2>6
<1>15. Executable'
  BY <1>1, <1>4 DEF Executable
<1> QED BY <1>7, <1>11, <1>12, <1>13, <1>14, <1>15 DEF Live

\* The pipeline of the next file begins.
LEMMA StartLive ==
  ASSUME Typed, Live, nextFile, toolfor(Head(todo)) \notin {NONE, LD}
  PROVE  Live'
<1>1. Running /\ pc = "build" /\ todo # <<>>
  BY DEF nextFile
<1>2. Head(todo) \in Sources /\ cmd \in Scenarios
  BY <1>1, HeadTyped DEF Typed, TypeOK
<1>3. /\ pc' = "spawn" /\ tool' = toolfor(Head(todo))
      /\ UNCHANGED <<cmd, todo, fdin, proc, disk, objfile, failed, failure, linkargs, objtmp, ntmp>>
  BY DEF nextFile, memory
<1>4. /\ toolfor(Head(todo)) \in Chain(Head(todo)) /\ Chain(Head(todo)) \subseteq Tools \ {LD}
      /\ \A t \in Chain(Head(todo)) : toolfor(Head(todo)) <= t
  BY <1>2, ChainStart
<1>5. \A t \in Tools : ~Busy(t)
  BY <1>1, Idle DEF Live
<1>6. (\A f : ~InProgress(f)) /\ ~Assembled /\ fdin = NONE
  BY <1>1, Idle DEF Live
<1>7. /\ Linking' = Linking /\ (\A c : Flag(c)' = Flag(c)) /\ (\A f : Kept(f)' = Kept(f))
      /\ OptionsFit' = OptionsFit /\ (\A f : Chain(f)' = Chain(f)) /\ \A f : toolfor(f)' = toolfor(f)
  BY <1>3, SameCommand
<1>8. Current = Chain(Head(todo)) /\ Current' = Chain(Head(todo)) /\ Current' \subseteq Tools
  BY <1>1, <1>3, <1>4, <1>7 DEF Current
<1>9. \A t \in Current' : ~(t < tool')
  <2>1. SUFFICES ASSUME NEW t \in Current' PROVE ~(t < tool')
    OBVIOUS
  <2>2. t \in Nat /\ tool' \in Nat /\ tool' <= t
    BY <1>3, <1>4, <1>8, <2>1, Toolnames
  <2> QED BY <2>2
<1>10. ~Assembled'
  BY <1>3, <1>9 DEF Assembled
<1>11. Pipeline' /\ \A f : ~InProgress(f)'
  <2>1. \A t \in Tools : ~Busy(t)'
    BY <1>3, <1>5 DEF Busy
  <2>2. \A t \in Current' : ~Pending(t)'
    BY <1>3, <1>9 DEF Pending
  <2> QED BY <1>3, <2>1, <2>2 DEF Pipeline, InProgress
<1>12. Dealt' = Dealt
  BY <1>3 DEF Dealt
<1>13. Place'
  BY <1>1, <1>3, <1>4, <1>6, <1>7, <1>8, <1>10, <1>12 DEF Live, Place
<1>14. Tidy'
  BY <1>1, <1>3, <1>6, <1>7, <1>10, <1>11 DEF Live, Tidy
<1>15. Outputs'
  BY <1>1, <1>3, <1>7, <1>12 DEF Live, Outputs
<1>16. Arguments'
  <2>1. \A i, x : Argument(i, x) => Argument(i, x)'
    BY <1>3, <1>10, SameFiles
  <2> QED BY <1>3, <1>7, <1>12, <2>1 DEF Live, Arguments
<1>17. Executable'
  BY <1>3 DEF Executable
<1> QED BY <1>11, <1>13, <1>14, <1>15, <1>16, <1>17 DEF Live

\* All tools were spawned, and will be waited for.
LEMMA SpawnedLive ==
  ASSUME Typed, Live, spawned
  PROVE  Live'
<1>1. /\ Running /\ pc = "spawn" /\ tool = LAST /\ pc' = "wait" /\ tool' = CC1 /\ failed' = LAST
      /\ UNCHANGED <<cmd, todo, fdin, proc, wr, disk, objfile, failure, linkargs, objtmp, ntmp>>
  BY DEF spawned, pipes
<1>2. todo # <<>>
  BY <1>1 DEF Live, Place
<1>3. /\ Linking' = Linking /\ (\A c : Flag(c)' = Flag(c)) /\ (\A f : Kept(f)' = Kept(f))
      /\ OptionsFit' = OptionsFit /\ (\A f : Chain(f)' = Chain(f)) /\ (\A f : toolfor(f)' = toolfor(f))
      /\ \A t, f, n : Target(t, f, n)' = Target(t, f, n)
  BY <1>1, SameCommand
<1>4. Current' = Current /\ Current \subseteq Tools
  BY <1>1, <1>3, CurrentTools DEF Current
<1>5. \A t \in Tools : Pending(t) /\ Pending(t)'
  BY <1>1, Toolnames DEF Pending
<1>6. Assembled' = Assembled
  BY <1>1, <1>4, Toolnames DEF Assembled, AS, LAST
<1>7. \A t : Making(t)' = Making(t)
  BY <1>1, <1>3 DEF Making
<1>8. (\A f : InProgress(f)' = InProgress(f)) /\ \A t : Busy(t)' = Busy(t)
  BY <1>1 DEF InProgress, Busy
<1>9. Dealt' = Dealt
  BY <1>1 DEF Dealt
<1>10. fdin = NONE
  BY <1>1 DEF Live, Place
<1>11. Place'
  BY <1>1, <1>2, <1>3, <1>4, <1>6, <1>9, <1>10 DEF Live, Place
<1>12. Pipeline'
  <2>1. ASSUME NEW t \in Tools, Busy(t)' PROVE Process(t)'
    <3>1. Process(t) /\ Busy(t)
      BY <1>8, <2>1 DEF Live, Pipeline
    <3>2. \A S : Right(S)' = Right(S)
      BY <1>1, <1>2 DEF Right
    <3> QED BY <1>1, <1>4, <1>5, <1>7, <1>8, <3>1, <3>2 DEF Process, Alive, InWhole
  <2>2. \A t \in Current : Busy(t)
    BY <1>4, <1>5 DEF Live, Pipeline
  <2>3. Waiting'
    <3>1. \A t \in Current : ~(t < CC1)
      <4>1. SUFFICES ASSUME NEW t \in Current PROVE ~(t < CC1)
        OBVIOUS
      <4>2. t \in Nat /\ CC1 \in Nat /\ CC1 <= t
        BY <1>4, <4>1, Toolnames DEF CC1
      <4> QED BY <4>2
    <3> QED BY <1>1, <1>4, <3>1 DEF Waiting
  <2> QED BY <1>4, <1>8, <2>1, <2>2, <2>3 DEF Pipeline
<1>13. Tidy'
  BY <1>1, <1>3, <1>6, <1>7, <1>8 DEF Live, Tidy
<1>14. Outputs'
  BY <1>1, <1>2, <1>3, <1>9 DEF Live, Outputs
<1>15. Arguments'
  <2>1. \A i, x : Argument(i, x) => Argument(i, x)'
    BY <1>1, <1>6, SameFiles
  <2> QED BY <1>1, <1>3, <1>9, <2>1 DEF Live, Arguments
<1>16. Executable'
  BY <1>1 DEF Executable
<1> QED BY <1>11, <1>12, <1>13, <1>14, <1>15, <1>16 DEF Live

LEMMA SpawnSteps ==
  ASSUME Typed, NEW t \in Tools, NEW next, NEW file, NEW of, Spawn(t, next, file, of)
  PROVE  /\ proc'[t].st = "new" /\ proc'[t].inp = fdin /\ (proc'[t].out <=> next # LAST)
         /\ proc'[t].file = file /\ proc'[t].of = of /\ proc'[t].whole = FALSE
         /\ \A u \in Tools \ {t} : proc'[u] = proc[u] /\ (u \in wr[u] => u \in wr'[u])
         /\ next # LAST => t \in wr'[t]
         /\ fdin' = IF next # LAST THEN t ELSE NONE
         /\ IsTmp(file) => disk' = Written(file, {}) /\ ntmp' = ntmp + 1
         /\ ~IsTmp(file) => disk' = disk /\ ntmp' = ntmp
<1>1. proc \in [Tools -> Proc] /\ wr \in Ends2
  BY DEF Typed
<1>2. proc'[t] = NewProc(next # LAST, file, of) /\ \A u \in Tools \ {t} : proc'[u] = proc[u]
  BY <1>1, Spawned
<1>3. /\ proc'[t].st = "new" /\ proc'[t].inp = fdin /\ proc'[t].file = file
      /\ proc'[t].of = of /\ proc'[t].whole = FALSE
  BY <1>2 DEF NewProc
<1>4. proc'[t].out <=> next # LAST
  <2>1. \A out, of2 : NewProc(out, file, of2).out = out
    BY DEF NewProc
  <2>2. proc'[t].out = (next # LAST)
    BY <1>2, <2>1, Zenon
  <2> QED BY <2>2
<1>5. \A u \in Tools \ {t} : u \in wr[u] => u \in wr'[u]
  <2>1. \A u \in Tools \ {t} : wr[u] \ {DRIVER} \subseteq wr'[u]
    BY DEF Spawn
  <2> QED BY <2>1, Toolnames
<1>6. next # LAST => t \in wr'[t]
  <2>1. next # LAST => wr'[t] = {t, DRIVER} \ {DRIVER}
    BY DEF Spawn
  <2> QED BY <2>1, Toolnames
<1>7. fdin' = IF next # LAST THEN t ELSE NONE
  BY DEF Spawn
<1>8. IsTmp(file) => disk' = Written(file, {}) /\ ntmp' = ntmp + 1
  BY DEF Spawn
<1>9. ~IsTmp(file) => disk' = disk /\ ntmp' = ntmp
  BY DEF Spawn
<1> QED BY <1>2, <1>3, <1>4, <1>5, <1>6, <1>7, <1>8, <1>9

\* The next tool of the pipeline is spawned: what it is given, and what is left.
LEMMA SpawnPlace ==
  ASSUME Typed, Live, spawn, NEW t, t = tool
  PROVE  /\ UNCHANGED <<cmd, pc, todo, failed, failure, linkargs, objtmp>>
         /\ todo # <<>> /\ tool \in Current /\ tool \in Tools \ {LD} /\ Current' = Current
         /\ tool' \in Current \cup {LAST} /\ tool < tool'
         /\ \A u \in Current : u < tool' <=> u <= tool
         /\ Busy(t)' /\ ~Busy(t)
         /\ \A u \in Tools \ {tool} : proc'[u] = proc[u] /\ (u \in wr[u] => u \in wr'[u])
         /\ Assembled' <=> Assembled \/ tool = AS
         /\ \A u \in Current : u <= tool => Making(u)' = Target(u, Head(todo), ntmp')
         /\ \A u \in Current : u < tool => Making(u)' = Making(u)
         /\ proc'[t].file = Making(t)'
<1>1. Running /\ pc = "spawn" /\ tool # LAST
  BY DEF spawn
<1>2. /\ Spawn(tool, nexttool(tool), outfile(tool, Head(todo)), {Head(todo)})
      /\ tool' = nexttool(tool)
      /\ UNCHANGED <<cmd, pc, todo, failed, failure, linkargs, objtmp>>
  BY DEF spawn
<1>3. /\ todo # <<>> /\ Head(todo) \in Sources /\ toolfor(Head(todo)) \notin {NONE, LD}
      /\ tool \in Chain(Head(todo)) /\ tool \in Tools \ {LD}
      /\ outfile(tool, Head(todo)) = Target(tool, Head(todo), ntmp + 1)
  BY <1>1, SpawnFits DEF Live
<1>4. cmd \in Scenarios /\ ntmp \in Nat
  BY DEF Typed, TypeOK
<1>5. Current = Chain(Head(todo)) /\ Current' = Current /\ Current \subseteq Tools
  BY <1>2, <1>3, CurrentTools, SameCommand DEF Current
<1>6. /\ nexttool(tool) \in Current \cup {LAST} /\ tool < nexttool(tool)
      /\ \A u \in Current : u <= tool \/ nexttool(tool) <= u
  BY <1>3, <1>4, <1>5, ChainNext
<1>7. \A u \in Current : u < tool' <=> u <= tool
  <2>1. SUFFICES ASSUME NEW u \in Current PROVE u < tool' <=> u <= tool
    OBVIOUS
  <2>2. u \in Nat /\ tool \in Nat /\ tool' \in Nat
    BY <1>2, <1>3, <1>5, <1>6, Toolnames
  <2> QED BY <1>2, <1>6, <2>1, <2>2
<1>8. /\ proc'[tool].st = "new" /\ proc'[tool].file = outfile(tool, Head(todo))
      /\ \A u \in Tools \ {tool} : proc'[u] = proc[u] /\ (u \in wr[u] => u \in wr'[u])
      /\ IsTmp(outfile(tool, Head(todo))) => ntmp' = ntmp + 1
      /\ ~IsTmp(outfile(tool, Head(todo))) => ntmp' = ntmp
  BY <1>2, <1>3, SpawnSteps
<1>9. Busy(t)'
  BY <1>8 DEF Busy
<1>10. ~Busy(t)
  BY <1>1, <1>3, Toolnames DEF Live, Pipeline, Process, Pending
<1>11. Assembled' <=> Assembled \/ tool = AS
  <2>1. AS \in Current => (AS < tool' <=> AS < tool \/ AS = tool)
    BY <1>3, <1>7, Toolnames DEF AS
  <2> QED BY <1>1, <1>2, <1>3, <1>5, <2>1 DEF Assembled
<1>12. \A u : Making(u)' = Target(u, Head(todo), ntmp')
  BY <1>2, <1>3, SameCommand DEF Making
<1>13. \A u \in Current : u < tool => Making(u)' = Making(u)
  <2>1. SUFFICES ASSUME NEW u \in Current, u < tool PROVE Making(u)' = Making(u)
    OBVIOUS
  <2>2. CASE u = AS
    <3>1. tool # AS
      BY <2>1, <2>2 DEF AS
    <3>2. ntmp' = ntmp
      BY <1>3, <1>4, <1>8, <3>1, TargetTyped
    <3> QED BY <1>3, <1>12, <3>2 DEF Making
  <2>3. CASE u # AS
    BY <1>3, <1>4, <1>5, <1>12, <2>3, TargetTyped DEF Making
  <2> QED BY <2>2, <2>3
<1>14. proc'[t].file = Making(t)'
  <2>1. CASE IsTmp(outfile(tool, Head(todo)))
    BY <1>3, <1>8, <1>12, <2>1
  <2>2. CASE ~IsTmp(outfile(tool, Head(todo)))
    <3>1. Target(tool, Head(todo), ntmp + 1) = Target(tool, Head(todo), ntmp)
      <4>1. CASE tool # AS
        BY <1>3, <1>4, <4>1, TargetTyped
      <4>2. CASE tool = AS
        <5>1. Tmp(ntmp + 1) # NONE
          BY <1>1, <1>4, <4>2, SpawnFits, FileNames, ScenarioTyped DEF Live
        <5> QED BY <1>3, <2>2, <4>2, <5>1, TargetValues, NamesDiffer
      <4> QED BY <4>1, <4>2
    <3> QED BY <1>3, <1>8, <1>12, <2>2, <3>1
  <2> QED BY <2>1, <2>2
<1> QED BY <1>2, <1>3, <1>5, <1>6, <1>7, <1>8, <1>9, <1>10, <1>11, <1>12, <1>13, <1>14

\* The temporaries made up to now have names.
LEMMA TmpTyped ==
  ASSUME Typed, Place
  PROVE  \A m \in 1 .. ntmp : Tmp(m) \in Files /\ Tmp(m) # NONE
<1>1. ntmp \in Nat /\ Len(todo) \in Nat /\ Len(cmd.files) \in Nat /\ (todo # <<>> => Len(todo) > 0)
  BY FileAt, HeadTyped DEF Typed, TypeOK
<1>2. ntmp <= Len(cmd.files)
  <2>1. CASE Assembled
    <3>1. todo # <<>>
      BY <2>1 DEF Assembled
    <3> QED BY <1>1, <2>1, <3>1 DEF Place, Dealt
  <2>2. CASE ~Assembled
    BY <1>1, <2>2 DEF Place, Dealt
  <2> QED BY <2>1, <2>2
<1>3. \A m \in 1 .. ntmp : Tmp(m) \in Files
  BY <1>1, <1>2, FileNames
<1> QED BY <1>3, ScenarioTyped DEF Typed, TypeOK

\* What is written when a tool is spawned: at most a new temporary object.
LEMMA SpawnDisk ==
  ASSUME Typed, Live, spawn, NEW t, t = tool
  PROVE  /\ \A x : ~IsTmp(x) => (x \in DOMAIN disk' <=> x \in DOMAIN disk)
         /\ \A m \in 1 .. ntmp : Tmp(m) \in DOMAIN disk' => Tmp(m) \in DOMAIN disk
         /\ \A x \in DOMAIN disk : x \in DOMAIN disk' /\ (x # Making(t)' => disk'[x] = disk[x])
         /\ \A x \in DOMAIN disk' : x \in DOMAIN disk \/ (x = Making(t)' /\ disk'[x] = {})
         /\ ntmp' \in {ntmp, ntmp + 1}
         /\ t # AS => ntmp' = ntmp
         /\ t = AS /\ Linking /\ ~Flag("k") => ntmp' = ntmp + 1
         /\ \A x \in DOMAIN disk : ~IsTmp(x) => disk'[x] = disk[x]
         /\ \A m \in 1 .. ntmp : Tmp(m) \in DOMAIN disk => disk'[Tmp(m)] = disk[Tmp(m)]
         /\ t = AS => /\ objfile' = Making(t)' /\ objfile' # NONE
         /\ t # AS => objfile' = objfile
<1> DEFINE file == outfile(tool, Head(todo))
<1>1. Running /\ pc = "spawn" /\ tool # LAST
  BY DEF spawn
<1>2. /\ Spawn(tool, nexttool(tool), file, {Head(todo)})
      /\ objfile' = IF tool = AS THEN file ELSE objfile
  BY DEF spawn
<1>3. /\ todo # <<>> /\ Head(todo) \in Sources /\ toolfor(Head(todo)) \notin {NONE, LD}
      /\ tool \in Chain(Head(todo)) /\ tool \in Tools \ {LD}
      /\ file = Target(tool, Head(todo), ntmp + 1)
      /\ tool = AS => ntmp + 1 \in 1 .. Len(cmd.files) /\ file # NONE
  BY <1>1, SpawnFits DEF Live
<1>4. cmd \in Scenarios /\ ntmp \in Nat
  BY DEF Typed, TypeOK
<1>5. /\ proc'[t].file = file
      /\ IsTmp(file) => disk' = Written(file, {}) /\ ntmp' = ntmp + 1
      /\ ~IsTmp(file) => disk' = disk /\ ntmp' = ntmp
  BY <1>2, <1>3, SpawnSteps
<1>6. file = Making(t)'
  BY <1>5, SpawnPlace
<1>7. IsTmp(file) => t = AS /\ file = Tmp(ntmp + 1)
  BY <1>3, <1>4, TargetTyped
<1>8. t = AS /\ Linking /\ ~Flag("k") => IsTmp(file)
  BY <1>3, <1>4, TargetLinked, NamesDiffer
<1> HIDE DEF file
<1>9. \A m \in 1 .. ntmp : Tmp(m) # file
  <2>1. \A m \in 1 .. ntmp : Tmp(m) # Tmp(ntmp + 1)
    BY <1>4, NamesDiffer
  <2>2. ASSUME NEW m \in 1 .. ntmp, Tmp(m) = file PROVE IsTmp(file)
    BY <2>2, TmpTyped, NamesDiffer DEF Live
  <2> QED BY <1>7, <2>1, <2>2
<1>10. /\ \A x : ~IsTmp(x) => (x \in DOMAIN disk' <=> x \in DOMAIN disk)
       /\ \A m \in 1 .. ntmp : Tmp(m) \in DOMAIN disk' => Tmp(m) \in DOMAIN disk
       /\ \A x \in DOMAIN disk : x \in DOMAIN disk' /\ (x # file => disk'[x] = disk[x])
       /\ \A x \in DOMAIN disk' : x \in DOMAIN disk \/ (x = file /\ disk'[x] = {})
       /\ \A x \in DOMAIN disk : ~IsTmp(x) => disk'[x] = disk[x]
       /\ \A m \in 1 .. ntmp : Tmp(m) \in DOMAIN disk => disk'[Tmp(m)] = disk[Tmp(m)]
  <2>1. CASE IsTmp(file)
    BY <1>5, <1>9, <2>1 DEF Written
  <2>2. CASE ~IsTmp(file)
    BY <1>5, <2>2
  <2> QED BY <2>1, <2>2
<1>11. /\ ntmp' \in {ntmp, ntmp + 1} /\ (t # AS => ntmp' = ntmp)
       /\ t = AS /\ Linking /\ ~Flag("k") => ntmp' = ntmp + 1
  BY <1>5, <1>7, <1>8
<1>12. /\ t = AS => objfile' = file /\ objfile' # NONE
       /\ t # AS => objfile' = objfile
  BY <1>2, <1>3
<1> QED BY <1>6, <1>10, <1>11, <1>12

LEMMA SpawnPipeline ==
  ASSUME Typed, Live, spawn
  PROVE  Pipeline'
<1>1. PICK t : t = tool
  OBVIOUS
<1>2. Running /\ pc = "spawn" /\ tool # LAST
  BY DEF spawn
<1>3. /\ UNCHANGED <<cmd, pc, todo, failed, failure, linkargs, objtmp>>
      /\ todo # <<>> /\ t \in Current /\ t \in Tools \ {LD} /\ Current' = Current
      /\ tool' \in Current \cup {LAST} /\ t < tool'
      /\ \A u \in Current : u < tool' <=> u <= t
      /\ Busy(t)' /\ ~Busy(t)
      /\ \A u \in Tools \ {t} : proc'[u] = proc[u] /\ (u \in wr[u] => u \in wr'[u])
      /\ \A u \in Current : u <= t => Making(u)' = Target(u, Head(todo), ntmp')
      /\ \A u \in Current : u < t => Making(u)' = Making(u)
      /\ proc'[t].file = Making(t)'
  BY <1>1, SpawnPlace
<1>4. /\ proc'[t].st = "new" /\ proc'[t].inp = fdin /\ proc'[t].of = {Head(todo)} /\ proc'[t].whole = FALSE
      /\ (proc'[t].out <=> nexttool(t) # LAST) /\ (nexttool(t) # LAST => t \in wr'[t])
  <2>1. Spawn(t, nexttool(t), outfile(t, Head(todo)), {Head(todo)})
    BY <1>1 DEF spawn
  <2> QED BY <1>3, <2>1, SpawnSteps
<1>5. Current \subseteq Tools /\ Current \subseteq Nat /\ t \in Nat /\ tool' \in Nat
  BY <1>1, <1>2, <1>3, CurrentTools, Toolnames
<1>6. Head(todo) \in Sources /\ toolfor(Head(todo)) \notin {NONE, LD} /\ cmd \in Scenarios
      /\ Current = Chain(Head(todo))
  BY <1>2, <1>3, HeadTyped DEF Live, Place, Typed, TypeOK, Current
<1>7. \A S : Right(S)' <=> S = {Head(todo)}
  BY <1>3 DEF Right
<1>8. ASSUME NEW u \in Tools, u # t, Busy(u)'
      PROVE  Process(u)'
  <2>1. proc'[u] = proc[u] /\ Process(u) /\ Busy(u)
    BY <1>3, <1>8 DEF Live, Pipeline, Busy
  <2>2. u \in Current /\ u < t
    BY <1>1, <1>2, <2>1 DEF Process, Pending
  <2>3. Pending(u)'
    BY <1>2, <1>3, <1>5, <2>2 DEF Pending
  <2>4. Making(u)' = Making(u)
    BY <1>3, <2>2
  <2>5. (proc[u].inp # NONE => proc[u].inp \in Current /\ proc[u].inp < u
                               /\ (Busy(proc[u].inp) => proc[proc[u].inp].out))'
    <3>1. HAVE proc'[u].inp # NONE
    <3>2. proc[u].inp \in Current /\ proc[u].inp < u /\ (Busy(proc[u].inp) => proc[proc[u].inp].out)
      BY <2>1, <3>1 DEF Process
    <3>3. proc[u].inp \in Tools \ {t}
      <4>1. proc[u].inp \in Tools /\ proc[u].inp \in Nat /\ u \in Nat
        BY <1>5, <2>2, <3>2
      <4> QED BY <1>5, <2>2, <3>2, <4>1
    <3>4. proc'[proc[u].inp] = proc[proc[u].inp]
      BY <1>3, <3>3
    <3> QED BY <1>3, <2>1, <3>2, <3>4 DEF Busy
  <2>6. (Alive(u) /\ proc[u].out => u \in wr[u])'
    BY <1>3, <1>8, <2>1 DEF Process, Alive
  <2>7. (proc[u].st = "ok" => (proc[u].whole <=> InWhole(u))
                              /\ (proc[u].inp # NONE => ~Alive(proc[u].inp)))'
    <3>1. CASE proc[u].inp = NONE
      BY <2>1, <3>1 DEF Process, InWhole
    <3>2. CASE proc[u].inp # NONE
      <4>1. proc[u].inp \in Tools \ {t}
        <5>1. proc[u].inp \in Current /\ proc[u].inp < u
          BY <2>1, <3>2 DEF Process
        <5>2. proc[u].inp \in Tools /\ proc[u].inp \in Nat /\ u \in Nat
          BY <1>5, <2>2, <5>1
        <5> QED BY <1>5, <2>2, <5>1, <5>2
      <4>2. proc'[proc[u].inp] = proc[proc[u].inp]
        BY <1>3, <4>1
      <4> QED BY <2>1, <3>2, <4>2 DEF Process, InWhole, Alive
    <3> QED BY <3>1, <3>2
  <2>8. (proc[u].whole /\ proc[u].file # NONE =>
           proc[u].file \in DOMAIN disk /\ disk[proc[u].file] = proc[u].of)'
    <3>1. HAVE proc'[u].whole /\ proc'[u].file # NONE
    <3>2. proc[u].file = Making(u) /\ proc[u].file \in DOMAIN disk /\ disk[proc[u].file] = proc[u].of
      BY <2>1, <3>1 DEF Process
    <3>3. Making(u)' # Making(t)'
      <4>1. Target(u, Head(todo), ntmp') # Target(t, Head(todo), ntmp') \/ Target(u, Head(todo), ntmp') = NONE
        BY <1>3, <1>6, <1>8, <2>2, TargetsDiffer
      <4>2. Making(u)' = Target(u, Head(todo), ntmp') /\ Making(t)' = Target(t, Head(todo), ntmp')
        BY <1>3, <1>5, <2>2
      <4> QED BY <2>1, <2>4, <3>1, <3>2, <4>1, <4>2
    <3>4. proc[u].file \in DOMAIN disk' /\ disk'[proc[u].file] = disk[proc[u].file]
      BY <1>1, <2>4, <3>2, <3>3, SpawnDisk
    <3> QED BY <2>1, <3>2, <3>4
  <2>9. (u \in Current /\ proc[u].file = Making(u) /\ Right(proc[u].of))'
    BY <1>3, <1>7, <2>1, <2>2, <2>4 DEF Process, Right
  <2>10. (proc[u].st # "ok" => ~proc[u].whole)'
    BY <2>1 DEF Process
  <2> QED BY <2>3, <2>5, <2>6, <2>7, <2>8, <2>9, <2>10 DEF Process
<1>9. Process(t)'
  <2>1. Pending(t)'
    BY <1>2, <1>3 DEF Pending
  <2>2. (proc[t].inp # NONE => proc[t].inp \in Current /\ proc[t].inp < t
                               /\ (Busy(proc[t].inp) => proc[proc[t].inp].out))'
    <3>1. HAVE proc'[t].inp # NONE
    <3>2. fdin \in Current /\ fdin < t /\ proc[fdin].out
      BY <1>1, <1>4, <3>1 DEF Live, Place
    <3>3. fdin \in Tools \ {t}
      BY <1>5, <3>2
    <3>4. proc'[fdin] = proc[fdin]
      BY <1>3, <3>3
    <3> QED BY <1>3, <1>4, <3>2, <3>4
  <2>3. (Alive(t) /\ proc[t].out => t \in wr[t])'
    BY <1>4
  <2> QED BY <1>3, <1>4, <1>7, <2>1, <2>2, <2>3 DEF Process
<1>10. ASSUME NEW u \in Current', Pending(u)' PROVE Busy(u)'
  <2>1. u \in Current /\ u <= t
    BY <1>2, <1>3, <1>10 DEF Pending
  <2>2. CASE u = t
    BY <1>3, <2>2
  <2>3. CASE u # t
    <3>1. Pending(u)
      BY <1>1, <1>2, <1>5, <2>1, <2>3 DEF Pending
    <3>2. Busy(u)
      BY <2>1, <3>1 DEF Live, Pipeline
    <3> QED BY <1>3, <1>5, <2>1, <2>3, <3>2 DEF Busy
  <2> QED BY <2>2, <2>3
<1>11. \A u \in Tools : Busy(u)' => Process(u)'
  BY <1>8, <1>9
<1> QED BY <1>2, <1>3, <1>10, <1>11 DEF Pipeline

LEMMA SpawnLive ==
  ASSUME Typed, Live, spawn
  PROVE  Live'
<1>1. PICK t : t = tool
  OBVIOUS
<1>2. Running /\ pc = "spawn" /\ tool # LAST
  BY DEF spawn
<1>3. /\ UNCHANGED <<cmd, pc, todo, failed, failure, linkargs, objtmp>>
      /\ todo # <<>> /\ t \in Current /\ t \in Tools \ {LD} /\ Current' = Current
      /\ tool' \in Current \cup {LAST} /\ t < tool'
      /\ Busy(t)' /\ ~Busy(t)
      /\ \A u \in Tools \ {t} : proc'[u] = proc[u]
      /\ Assembled' <=> Assembled \/ t = AS
      /\ proc'[t].file = Making(t)'
  BY <1>1, SpawnPlace
<1>4. /\ \A x : ~IsTmp(x) => (x \in DOMAIN disk' <=> x \in DOMAIN disk)
      /\ \A m \in 1 .. ntmp : Tmp(m) \in DOMAIN disk' => Tmp(m) \in DOMAIN disk
      /\ \A x \in DOMAIN disk : x \in DOMAIN disk' /\ (x # Making(t)' => disk'[x] = disk[x])
      /\ \A x \in DOMAIN disk' : x \in DOMAIN disk \/ (x = Making(t)' /\ disk'[x] = {})
      /\ ntmp' \in {ntmp, ntmp + 1} /\ (t # AS => ntmp' = ntmp)
      /\ t = AS /\ Linking /\ ~Flag("k") => ntmp' = ntmp + 1
      /\ \A x \in DOMAIN disk : ~IsTmp(x) => disk'[x] = disk[x]
      /\ \A m \in 1 .. ntmp : Tmp(m) \in DOMAIN disk => disk'[Tmp(m)] = disk[Tmp(m)]
      /\ t = AS => objfile' = Making(t)' /\ objfile' # NONE
      /\ t # AS => objfile' = objfile
  BY <1>1, SpawnDisk
<1>5. /\ Linking' = Linking /\ (\A c : Flag(c)' = Flag(c)) /\ (\A f : Kept(f)' = Kept(f))
      /\ OptionsFit' = OptionsFit /\ (\A f : toolfor(f)' = toolfor(f)) /\ Dealt' = Dealt
      /\ \A u, f, n : Target(u, f, n)' = Target(u, f, n)
  BY <1>3, SameCommand DEF Dealt
<1>6. ntmp \in Nat /\ Dealt \in Nat /\ Len(cmd.files) \in Nat /\ Dealt <= Len(cmd.files)
  BY FileAt DEF Typed, Live
<1>7. t = AS => ~Assembled
  BY <1>1, <1>2 DEF Assembled, AS
<1>8. Pipeline'
  BY SpawnPipeline
<1>9. Place'
  <2>1. fdin' = IF tool' # LAST THEN t ELSE NONE
    <3>1. Spawn(t, nexttool(t), outfile(t, Head(todo)), {Head(todo)}) /\ tool' = nexttool(t)
      BY <1>1 DEF spawn
    <3> QED BY <1>3, <3>1, SpawnSteps
  <2>2. tool' # LAST => proc'[t].out
    <3>1. Spawn(t, nexttool(t), outfile(t, Head(todo)), {Head(todo)}) /\ tool' = nexttool(t)
      BY <1>1 DEF spawn
    <3> QED BY <1>3, <3>1, SpawnSteps
  <2>3. ntmp' <= Dealt' + IF Assembled' THEN 1 ELSE 0
    <3>1. CASE t = AS
      BY <1>3, <1>4, <1>5, <1>6, <1>7, <3>1 DEF Live, Place
    <3>2. CASE t # AS
      BY <1>3, <1>4, <1>5, <1>6, <3>2 DEF Live, Place
    <3> QED BY <3>1, <3>2
  <2>4. (fdin # NONE => pc = "spawn" /\ tool # LAST /\ fdin \in Current /\ fdin < tool /\ proc[fdin].out)'
    BY <1>2, <1>3, <2>1, <2>2
  <2> QED BY <1>2, <1>3, <1>5, <2>3, <2>4 DEF Live, Place
<1>11. \A x : InProgress(x) => InProgress(x)'
  BY <1>3 DEF InProgress, Busy
<1>12. Tidy'
  <2>1. (\A f \in DOMAIN disk : disk[f] # {} \/ InProgress(f))'
    <3>1. SUFFICES ASSUME NEW f \in DOMAIN disk' PROVE disk'[f] # {} \/ InProgress(f)'
      OBVIOUS
    <3>2. CASE f = Making(t)'
      BY <1>3, <3>2 DEF InProgress
    <3>3. CASE f # Making(t)'
      BY <1>4, <1>11, <3>1, <3>3 DEF Live, Tidy
    <3> QED BY <3>2, <3>3
  <2>2. (Assembled => objfile = Making(AS) /\ objfile # NONE)'
    <3>1. CASE t = AS
      BY <1>4, <3>1
    <3>2. CASE t # AS
      <4>1. Making(AS)' = Making(AS)
        BY <1>3, <1>4, <1>5, <3>2 DEF Making
      <4> QED BY <1>3, <1>4, <3>2, <4>1 DEF Live, Tidy
    <3> QED BY <3>1, <3>2
  <2>3. (objtmp # {} => Linking /\ ~Flag("k"))'
    BY <1>3, <1>5 DEF Live, Tidy
  <2>4. (objtmp \subseteq {Tmp(m) : m \in 1 .. ntmp})'
    <3>1. 1 .. ntmp \subseteq 1 .. ntmp'
      BY <1>4, <1>6
    <3> QED BY <1>3, <3>1 DEF Live, Tidy
  <2>5. (Linking /\ ~Flag("k") => \A f \in DOMAIN disk : IsTmp(f) =>
           f \in objtmp \/ InProgress(f) \/ (pc = "wait" /\ todo # <<>> /\ f = objfile))'
    <3>1. SUFFICES ASSUME Linking, ~Flag("k"), NEW f \in DOMAIN disk', IsTmp(f)
                   PROVE  f \in objtmp' \/ InProgress(f)'
      BY <1>5
    <3>2. CASE f = Making(t)'
      BY <1>3, <3>2 DEF InProgress
    <3>3. CASE f # Making(t)'
      BY <1>2, <1>3, <1>4, <1>11, <3>1, <3>3 DEF Live, Tidy
    <3> QED BY <3>2, <3>3
  <2> QED BY <2>1, <2>2, <2>3, <2>4, <2>5 DEF Tidy
<1>13. Outputs'
  <2>1. SUFFICES ASSUME failure = 0, NEW i \in 1 .. Dealt, NEW x \in Kept(cmd.files[i])
                 PROVE  \/ /\ x \in DOMAIN disk'
                           /\ \E j \in i .. Dealt : x \in Kept(cmd.files[j]) /\ disk'[x] = {cmd.files[j]}
                        \/ pc \in {"spawn", "wait"} /\ todo # <<>> /\ x \in Kept(Head(todo))
    BY <1>3, <1>5 DEF Outputs
  <2>2. ~IsTmp(x)
    BY NamesDiffer DEF Kept, Wanted
  <2> QED BY <1>4, <2>1, <2>2 DEF Live, Outputs
<1>14. Arguments'
  <2>1. ASSUME Linking, NEW i, NEW x, Argument(i, x) PROVE Argument(i, x)'
    <3>1. ASSUME NEW m \in 1 .. ntmp, x = Tmp(m), x \in DOMAIN disk, Assembled => m < ntmp,
                 Linking, ~Flag("k")
          PROVE  /\ x \in DOMAIN disk' /\ disk'[x] = disk[x]
                 /\ m \in 1 .. ntmp' /\ (Assembled' => m < ntmp')
      BY <1>3, <1>4, <1>6, <3>1
    <3> QED BY <1>3, <1>5, <2>1, <3>1 DEF Argument
  <2> QED BY <1>3, <1>5, <2>1 DEF Live, Arguments
<1>15. Executable'
  BY <1>2, <1>3 DEF Executable
<1> QED BY <1>8, <1>9, <1>12, <1>13, <1>14, <1>15 DEF Live

\* A tool is waited for: what is known of it, and what is left of its output.
LEMMA WaitSteps ==
  ASSUME Typed, Live, waitTool, NEW t, t = tool
  PROVE  /\ pc = "wait" /\ t \in Tools /\ tool' = t + 1 /\ t # LAST /\ fdin = NONE
         /\ UNCHANGED <<cmd, pc, todo, fdin, wr, objfile, linkargs, objtmp, ntmp>>
         /\ ~Busy(t)' /\ proc'[t].whole = proc[t].whole /\ ~Alive(t)'
         /\ \A u \in Tools \ {t} : proc'[u] = proc[u]
         /\ t \in Current => Busy(t)
         /\ \A x \in DOMAIN disk' : x \in DOMAIN disk /\ disk'[x] = disk[x]
         /\ \A x \in DOMAIN disk : x = proc[t].file \/ x \in DOMAIN disk'
         /\ failed' # LAST => failed' < t + 1 /\ failure' = 1
         /\ failed' = LAST => /\ failed = LAST /\ disk' = disk /\ failure' = failure
                              /\ Busy(t) => proc[t].whole
         /\ failed' # LAST /\ Busy(t) => proc[t].file \notin DOMAIN disk'
<1>1. /\ Running /\ pc = "wait" /\ tool # LAST /\ proc[tool].st \in {"none", "ok", "bad"}
      /\ failure' = IF proc[tool].st # "none" /\ ~valid(tool) THEN Failed ELSE failure
      /\ failed' = IF proc[tool].st # "none" /\ ~valid(tool) THEN tool ELSE failed
      /\ disk' = IF proc[tool].st # "none" /\ Undone(tool, failed') THEN Removed({proc[tool].file}) ELSE disk
      /\ proc' = [proc EXCEPT ![tool] = [NoProc EXCEPT !.whole = proc[tool].whole]]
      /\ tool' = tool + 1
      /\ UNCHANGED <<cmd, pc, todo, fdin, wr, objfile, linkargs, objtmp, ntmp>>
  BY DEF waitTool, pipes
<1>2. t \in Tools /\ t \in Nat /\ t # LAST /\ t < LAST /\ proc \in [Tools -> Proc]
      /\ failed \in Tools \cup {LAST} /\ failed \in Nat /\ LAST \in Nat
  BY <1>1, Toolnames DEF Typed, TypeOK
<1>3. fdin = NONE
  BY <1>1 DEF Live, Place
<1>4. /\ proc'[t] = [NoProc EXCEPT !.whole = proc[t].whole]
      /\ \A u \in Tools \ {t} : proc'[u] = proc[u]
  BY <1>1, <1>2
<1>5. proc'[t].st = "none" /\ proc'[t].whole = proc[t].whole
  BY <1>4 DEF NoProc
<1>6. ~Busy(t)' /\ ~Alive(t)'
  BY <1>5 DEF Busy, Alive
<1>7. t \in Current => Busy(t)
  <2>1. Pending(t)
    BY <1>1, <1>2 DEF Pending
  <2> QED BY <2>1 DEF Live, Pipeline
<1>8. /\ \A x \in DOMAIN disk' : x \in DOMAIN disk /\ disk'[x] = disk[x]
      /\ \A x \in DOMAIN disk : x = proc[t].file \/ x \in DOMAIN disk'
  BY <1>1 DEF Removed
<1>9. failed' # LAST => failed' < t + 1 /\ failure' = 1
  BY <1>1, <1>2 DEF Live, Pipeline, Waiting, Failed
<1>10. failed' = LAST => /\ failed = LAST /\ disk' = disk /\ failure' = failure
                         /\ Busy(t) => proc[t].whole
  <2>1. HAVE failed' = LAST
  <2>2. failed = LAST /\ failure' = failure /\ (Busy(t) => proc[t].st = "ok")
    BY <1>1, <1>2, <2>1 DEF Busy, valid
  <2>3. disk' = disk
    BY <1>1, <1>2, <2>1 DEF Undone
  <2>4. ASSUME Busy(t) PROVE proc[t].whole
    <3>1. /\ t \in Current /\ (proc[t].whole <=> InWhole(t))
          /\ (proc[t].inp # NONE => proc[t].inp \in Current /\ proc[t].inp < t)
      BY <1>2, <2>2, <2>4 DEF Live, Pipeline, Process
    <3>2. InWhole(t)
      BY <1>1, <2>2, <3>1 DEF InWhole, Live, Pipeline, Waiting
    <3> QED BY <3>1, <3>2
  <2> QED BY <2>2, <2>3, <2>4
<1>11. failed' # LAST /\ Busy(t) => proc[t].file \notin DOMAIN disk'
  <2>1. HAVE failed' # LAST /\ Busy(t)
  <2>2. t >= failed'
    BY <1>1, <1>2, <2>1 DEF Live, Pipeline, Waiting
  <2> QED BY <1>1, <2>1, <2>2 DEF Busy, Undone, Removed
<1> QED BY <1>1, <1>2, <1>3, <1>4, <1>5, <1>6, <1>7, <1>8, <1>9, <1>10, <1>11

LEMMA WaitPipeline ==
  ASSUME Typed, Live, waitTool
  PROVE  Pipeline'
<1>1. PICK t : t = tool
  OBVIOUS
<1>2. /\ pc = "wait" /\ t \in Tools /\ tool' = t + 1 /\ t # LAST
      /\ UNCHANGED <<cmd, pc, todo, wr, ntmp>>
      /\ ~Busy(t)' /\ proc'[t].whole = proc[t].whole /\ ~Alive(t)'
      /\ \A u \in Tools \ {t} : proc'[u] = proc[u]
      /\ t \in Current => Busy(t)
      /\ \A x \in DOMAIN disk' : x \in DOMAIN disk /\ disk'[x] = disk[x]
      /\ \A x \in DOMAIN disk : x = proc[t].file \/ x \in DOMAIN disk'
      /\ failed' # LAST => failed' < t + 1 /\ failure' = 1
      /\ failed' = LAST => failed = LAST /\ disk' = disk /\ (Busy(t) => proc[t].whole)
  BY <1>1, WaitSteps
<1>3. /\ Linking' = Linking /\ (\A f : Chain(f)' = Chain(f)) /\ (\A S : AllLinked(S)' = AllLinked(S))
      /\ \A u, f, n : Target(u, f, n)' = Target(u, f, n)
  BY <1>2, SameCommand
<1>4. /\ Current' = Current /\ (\A u : Making(u)' = Making(u)) /\ \A S : Right(S)' = Right(S)
  BY <1>2, <1>3 DEF Current, Making, Right
<1>5. Current \subseteq Tools /\ Current \subseteq Nat /\ t \in Nat /\ Tools \subseteq Nat
  BY <1>2, CurrentTools, Toolnames
<1>6. \A u \in Tools \ {t} : Pending(u)' <=> Pending(u)
  <2>1. SUFFICES ASSUME NEW u \in Tools \ {t} PROVE Pending(u)' <=> Pending(u)
    OBVIOUS
  <2>2. u \in Nat
    BY <1>5
  <2> QED BY <1>1, <1>2, <1>5, <2>1, <2>2 DEF Pending
<1>7. ASSUME NEW u \in Tools, Busy(u)' PROVE Process(u)'
  <2>1. u \in Tools \ {t} /\ proc'[u] = proc[u]
    BY <1>2, <1>7
  <2>2. Process(u) /\ Busy(u)
    BY <1>7, <2>1 DEF Live, Pipeline, Busy
  <2>3. (u \in Current /\ Pending(u) /\ proc[u].file = Making(u) /\ Right(proc[u].of))'
    BY <1>4, <1>6, <2>1, <2>2 DEF Process
  <2>4. ASSUME proc[u].inp # NONE
        PROVE  /\ proc[u].inp \in Current /\ proc[u].inp < u
               /\ proc'[proc[u].inp].st # "none" => proc'[proc[u].inp].out
               /\ proc'[proc[u].inp].whole = proc[proc[u].inp].whole
    <3>1. proc[u].inp \in Current /\ proc[u].inp < u /\ (Busy(proc[u].inp) => proc[proc[u].inp].out)
      BY <2>2, <2>4 DEF Process
    <3>2. CASE proc[u].inp = t
      BY <1>2, <3>1, <3>2 DEF Busy
    <3>3. CASE proc[u].inp # t
      <4>1. proc'[proc[u].inp] = proc[proc[u].inp]
        BY <1>2, <1>5, <3>1, <3>3
      <4> QED BY <3>1, <4>1 DEF Busy
    <3> QED BY <3>2, <3>3
  <2>5. (proc[u].inp # NONE => proc[u].inp \in Current /\ proc[u].inp < u
                               /\ (Busy(proc[u].inp) => proc[proc[u].inp].out))'
    BY <1>4, <2>1, <2>4 DEF Busy
  <2>6. (Alive(u) /\ proc[u].out => u \in wr[u])'
    BY <1>2, <2>1, <2>2 DEF Process, Alive
  <2>7. (proc[u].st = "ok" => (proc[u].whole <=> InWhole(u))
                              /\ (proc[u].inp # NONE => ~Alive(proc[u].inp)))'
    <3>1. HAVE proc'[u].st = "ok"
    <3>2. (proc[u].whole <=> InWhole(u)) /\ (proc[u].inp # NONE => ~Alive(proc[u].inp))
      BY <2>1, <2>2, <3>1 DEF Process
    <3>3. CASE proc[u].inp = NONE
      BY <2>1, <3>2, <3>3 DEF InWhole
    <3>4. CASE proc[u].inp # NONE
      <4>1. ~(proc'[proc[u].inp].st \in {"new", "run"})
        BY <1>2, <1>5, <2>4, <3>2, <3>4 DEF Alive
      <4> QED BY <2>1, <2>4, <3>2, <3>4, <4>1 DEF InWhole, Alive
    <3> QED BY <3>3, <3>4
  <2>8. (proc[u].st # "ok" => ~proc[u].whole)'
    BY <2>1, <2>2 DEF Process
  <2>9. (proc[u].whole /\ proc[u].file # NONE =>
           proc[u].file \in DOMAIN disk /\ disk[proc[u].file] = proc[u].of)'
    <3>1. HAVE proc'[u].whole /\ proc'[u].file # NONE
    <3>2. /\ u \in Current /\ proc[u].file = Making(u)
          /\ proc[u].file \in DOMAIN disk /\ disk[proc[u].file] = proc[u].of
      BY <2>1, <2>2, <3>1 DEF Process
    <3>3. CASE ~Busy(t)
      <4>1. disk' = disk
        BY <1>1, <3>3 DEF waitTool, Busy
      <4> QED BY <2>1, <3>2, <4>1
    <3>4. CASE Busy(t)
      <4>1. t \in Current /\ proc[t].file = Making(t)
        BY <1>2, <3>4 DEF Live, Pipeline, Process
      <4>2. Making(u) # Making(t)
        BY <1>2, <2>1, <3>1, <3>2, <4>1, MakingDiffers DEF Live
      <4> QED BY <1>2, <2>1, <3>2, <4>1, <4>2
    <3> QED BY <3>3, <3>4
  <2> QED BY <2>3, <2>5, <2>6, <2>7, <2>8, <2>9 DEF Process
<1>8. ASSUME NEW u \in Current', Pending(u)' PROVE Busy(u)'
  <2>1. u \in Tools \ {t}
    BY <1>2, <1>4, <1>5, <1>8 DEF Pending
  <2>2. Busy(u)
    BY <1>4, <1>6, <1>8, <2>1 DEF Live, Pipeline
  <2> QED BY <1>2, <2>1, <2>2 DEF Busy
<1>9. Waiting'
  <2>1. (failed # LAST => failed < tool /\ failure = 1)'
    BY <1>2
  <2>2. ASSUME failed' = LAST, NEW u \in Current, u < t + 1
        PROVE  /\ proc'[u].whole
               /\ Making(u) # NONE => Making(u) \in DOMAIN disk' /\ Right(disk'[Making(u)])
    <3>1. CASE u = t
      <4>1. Process(t) /\ proc[t].whole
        BY <1>2, <2>2, <3>1 DEF Live, Pipeline
      <4> QED BY <1>2, <2>2, <3>1, <4>1 DEF Process
    <3>2. CASE u # t
      <4>1. u < tool /\ u \in Tools
        BY <1>1, <1>5, <2>2, <3>2
      <4>2. /\ proc[u].whole
            /\ Making(u) # NONE => Making(u) \in DOMAIN disk /\ Right(disk[Making(u)])
        BY <1>2, <2>2, <4>1 DEF Live, Pipeline, Waiting
      <4> QED BY <1>2, <2>2, <3>2, <4>1, <4>2
    <3> QED BY <3>1, <3>2
  <2>3. (failed = LAST => \A u \in Current : u < tool =>
           /\ proc[u].whole
           /\ Making(u) # NONE => Making(u) \in DOMAIN disk /\ Right(disk[Making(u)]))'
    BY <1>2, <1>4, <2>2
  <2> QED BY <2>1, <2>3 DEF Waiting
<1> QED BY <1>7, <1>8, <1>9 DEF Pipeline

LEMMA WaitLive ==
  ASSUME Typed, Live, waitTool
  PROVE  Live'
<1>1. PICK t : t = tool
  OBVIOUS
<1>2. /\ pc = "wait" /\ t \in Tools /\ tool' = t + 1 /\ fdin = NONE
      /\ UNCHANGED <<cmd, pc, todo, fdin, objfile, linkargs, objtmp, ntmp>>
      /\ ~Busy(t)'
      /\ \A u \in Tools \ {t} : proc'[u] = proc[u]
      /\ \A x \in DOMAIN disk' : x \in DOMAIN disk /\ disk'[x] = disk[x]
      /\ failed' # LAST => failed' < t + 1 /\ failure' = 1
      /\ failed' = LAST => /\ failed = LAST /\ disk' = disk /\ failure' = failure
                           /\ Busy(t) => proc[t].whole
      /\ failed' # LAST /\ Busy(t) => proc[t].file \notin DOMAIN disk'
  BY <1>1, WaitSteps
<1>3. /\ Linking' = Linking /\ (\A c : Flag(c)' = Flag(c)) /\ (\A f : Kept(f)' = Kept(f))
      /\ OptionsFit' = OptionsFit /\ (\A f : Chain(f)' = Chain(f)) /\ (\A f : toolfor(f)' = toolfor(f))
      /\ \A u, f, n : Target(u, f, n)' = Target(u, f, n)
  BY <1>2, SameCommand
<1>4. Current' = Current /\ (\A u : Making(u)' = Making(u)) /\ Dealt' = Dealt /\ Assembled' = Assembled
  BY <1>2, <1>3 DEF Current, Making, Dealt, Assembled
<1>5. Pipeline'
  BY WaitPipeline
<1>6. Place'
  BY <1>2, <1>3, <1>4 DEF Live, Place
<1>7. ASSUME Busy(t) PROVE Process(t) /\ proc[t].file = Making(t) /\ t \in Current
  BY <1>2, <1>7 DEF Live, Pipeline, Process
<1>8. ASSUME NEW f, InProgress(f), f # proc[t].file \/ ~Busy(t) PROVE InProgress(f)'
  BY <1>2, <1>8 DEF InProgress, Busy
<1>9. failure' = 0 => failure = 0 /\ disk' = disk
  BY <1>2
<1>10. Tidy'
  <2>1. ASSUME NEW f \in DOMAIN disk' PROVE disk'[f] # {} \/ InProgress(f)'
    <3>1. f \in DOMAIN disk /\ disk'[f] = disk[f]
      BY <1>2, <2>1
    <3>2. CASE f # proc[t].file \/ ~Busy(t)
      BY <1>8, <3>1, <3>2 DEF Live, Tidy
    <3>3. CASE f = proc[t].file /\ Busy(t)
      <4>1. failed' = LAST /\ proc[t].whole
        BY <1>2, <2>1, <3>3
      <4>2. f # NONE
        BY <3>1, ScenarioTyped DEF Typed, TypeOK
      <4>3. disk[f] = proc[t].of /\ Right(proc[t].of)
        BY <1>7, <3>3, <4>1, <4>2 DEF Process
      <4>4. proc[t].of # {}
        BY <4>3 DEF Right, AllLinked
      <4> QED BY <3>1, <4>3, <4>4
    <3> QED BY <3>2, <3>3
  <2>2. (Assembled => objfile = Making(AS) /\ objfile # NONE)'
    BY <1>2, <1>4 DEF Live, Tidy
  <2>3. (objtmp # {} => Linking /\ ~Flag("k"))' /\ (objtmp \subseteq {Tmp(m) : m \in 1 .. ntmp})'
    BY <1>2, <1>3 DEF Live, Tidy
  <2>4. ASSUME Linking, ~Flag("k"), NEW f \in DOMAIN disk', IsTmp(f)
        PROVE  f \in objtmp \/ InProgress(f)' \/ (todo # <<>> /\ f = objfile)
    <3>1. f \in DOMAIN disk
      BY <1>2, <2>4
    <3>2. f \in objtmp \/ InProgress(f) \/ (todo # <<>> /\ f = objfile)
      BY <2>4, <3>1 DEF Live, Tidy
    <3>3. CASE f = proc[t].file /\ Busy(t)
      <4>1. f = Making(t) /\ t \in Current
        BY <1>7, <3>3
      <4>2. todo # <<>>
        BY <2>4, <4>1, NamesDiffer DEF Making
      <4>3. t = AS
        BY <1>2, <2>4, <4>1, <4>2, HeadTyped, TargetTyped DEF Making, Typed, TypeOK
      <4>4. Assembled
        BY <1>2, <4>1, <4>2, <4>3 DEF Assembled
      <4> QED BY <4>1, <4>2, <4>3, <4>4 DEF Live, Tidy
    <3> QED BY <1>8, <3>2, <3>3
  <2>5. (Linking /\ ~Flag("k") => \A f \in DOMAIN disk : IsTmp(f) =>
           f \in objtmp \/ InProgress(f) \/ (pc = "wait" /\ todo # <<>> /\ f = objfile))'
    BY <1>2, <1>3, <2>4
  <2> QED BY <2>1, <2>2, <2>3, <2>5 DEF Tidy
<1>11. Outputs'
  BY <1>2, <1>3, <1>4, <1>9 DEF Live, Outputs
<1>12. Arguments'
  <2>1. ASSUME failure' = 0, NEW i, NEW x, Argument(i, x) PROVE Argument(i, x)'
    BY <1>2, <1>4, <1>9, <2>1, SameFiles DEF Argument
  <2> QED BY <1>2, <1>3, <1>4, <1>9, <2>1 DEF Live, Arguments
<1>13. Executable'
  BY <1>2 DEF Executable
<1> QED BY <1>5, <1>6, <1>10, <1>11, <1>12, <1>13 DEF Live

\* The linker is spawned.
LEMMA LinkLive ==
  ASSUME Typed, Live, link
  PROVE  Live'
<1> DEFINE S == UNION {Contents(x) : x \in ToSet(linkargs)}
<1>1. /\ Running /\ pc = "link" /\ Spawn(LD, LAST, outfile(LD, NONE), S)
      /\ pc' = "wait" /\ tool' = CC1 /\ failed' = LAST
      /\ UNCHANGED <<cmd, todo, objfile, failure, linkargs, objtmp>>
  BY DEF link
<1>2. AllLinked(S)
  BY <1>1, LinkFits
<1> HIDE DEF S
<1>3. todo = <<>> /\ Linking /\ failure = 0 /\ OptionsFit /\ fdin = NONE
  BY <1>1 DEF Live, Place
<1>4. outfile(LD, NONE) = OUT /\ LD \in Tools /\ ~IsTmp(OUT) /\ OUT # NONE
  BY ScenarioTyped, FileNames, NamesDiffer
  DEF outfile, Tools, CC1, TEEIR, CC2, TEEQBE, QBE, TEEAS, AS, LD, Typed, TypeOK
<1>5. /\ proc'[LD].st = "new" /\ proc'[LD].inp = NONE /\ ~proc'[LD].out
      /\ proc'[LD].file = OUT /\ proc'[LD].of = S /\ proc'[LD].whole = FALSE
      /\ \A u \in Tools \ {LD} : proc'[u] = proc[u]
      /\ fdin' = NONE /\ disk' = disk /\ ntmp' = ntmp
  BY <1>1, <1>3, <1>4, SpawnSteps
<1>6. \A t \in Tools : ~Busy(t)
  BY <1>1, Idle DEF Live
<1>7. (\A f : ~InProgress(f)) /\ ~Assembled
  BY <1>1, Idle DEF Live
<1>8. /\ Linking' = Linking /\ (\A c : Flag(c)' = Flag(c)) /\ (\A f : Kept(f)' = Kept(f))
      /\ OptionsFit' = OptionsFit /\ (\A X : AllLinked(X)' = AllLinked(X))
  BY <1>1, SameCommand
<1>9. Current' = {LD} /\ ~Assembled' /\ Dealt' = Dealt /\ (\A t : Making(t)' = OUT)
      /\ \A X : Right(X)' <=> AllLinked(X)
  BY <1>1, <1>3, <1>8 DEF Current, Assembled, Dealt, Making, Right
<1>10. Place'
  BY <1>1, <1>3, <1>5, <1>7, <1>8, <1>9 DEF Live, Place
<1>11. Pipeline'
  <2>1. Process(LD)'
    <3>1. Pending(LD)'
      BY <1>1 DEF Pending, LD, CC1
    <3> QED BY <1>2, <1>5, <1>9, <3>1 DEF Process
  <2>2. ASSUME NEW t \in Tools, Busy(t)' PROVE Process(t)'
    <3>1. t = LD
      BY <1>5, <1>6, <2>2 DEF Busy
    <3> QED BY <2>1, <3>1
  <2>3. Busy(LD)'
    BY <1>5 DEF Busy
  <2>4. Waiting'
    BY <1>1, <1>9 DEF Waiting, LD, CC1
  <2> QED BY <1>9, <2>2, <2>3, <2>4 DEF Pipeline
<1>12. Tidy'
  BY <1>1, <1>3, <1>5, <1>7, <1>8, <1>9 DEF Live, Tidy
<1>13. Outputs'
  BY <1>1, <1>3, <1>5, <1>8, <1>9 DEF Live, Outputs
<1>14. Arguments'
  <2>1. \A i, x : Argument(i, x) => Argument(i, x)'
    BY <1>1, <1>5, <1>9, SameFiles
  <2> QED BY <1>1, <1>5, <1>8, <1>9, <2>1 DEF Live, Arguments
<1>15. Executable'
  BY <1>1 DEF Executable
<1> QED BY <1>10, <1>11, <1>12, <1>13, <1>14, <1>15 DEF Live

\* The tools of a pipeline were all waited for.
LEMMA ValidatedSteps ==
  ASSUME Typed, Live, validated
  PROVE  /\ pc = "wait" /\ fdin = NONE /\ \A f : ~InProgress(f)
         /\ Pipeline' /\ ~Assembled' /\ \A f : ~InProgress(f)'
         /\ \A f \in DOMAIN disk' : f \in DOMAIN disk /\ disk'[f] = disk[f]
         /\ failure = 0 => failed = LAST
         /\ failed = LAST => /\ disk' = disk
                             /\ \A t \in Current : Making(t) # NONE =>
                                  Making(t) \in DOMAIN disk /\ Right(disk[Making(t)])
<1>1. /\ Running /\ pc = "wait" /\ tool = LAST /\ pc' \in {"exit", "build"}
      /\ proc' = [t \in Tools |-> NoProc]
      /\ disk' = IF failed # LAST THEN Removed({objfile}) ELSE disk
  BY DEF validated
<1>2. Tools \subseteq Nat /\ LAST \in Nat /\ \A t \in Tools : t < LAST
  BY Toolnames
<1>3. \A t \in Tools : ~Busy(t)
  BY <1>1, <1>2 DEF Live, Pipeline, Process, Pending
<1>4. \A f : ~InProgress(f)
  BY <1>3 DEF InProgress
<1>5. Pipeline' /\ ~Assembled' /\ \A f : ~InProgress(f)'
  BY <1>1, IdleAfter DEF NoProc
<1>6. \A f \in DOMAIN disk' : f \in DOMAIN disk /\ disk'[f] = disk[f]
  BY <1>1 DEF Removed
<1>7. (failure = 0 => failed = LAST) /\ fdin = NONE
  BY <1>1 DEF Live, Pipeline, Waiting, Place
<1>8. ASSUME failed = LAST, NEW t \in Current, Making(t) # NONE
      PROVE  Making(t) \in DOMAIN disk /\ Right(disk[Making(t)])
  BY <1>1, <1>2, <1>8, CurrentTools DEF Live, Pipeline, Waiting
<1> QED BY <1>1, <1>4, <1>5, <1>6, <1>7, <1>8

\* The linker is done.
LEMMA LinkedLive ==
  ASSUME Typed, Live, validated, todo = <<>>
  PROVE  Live'
<1>1. /\ pc = "wait" /\ pc' = "exit"
      /\ UNCHANGED <<cmd, tool, todo, fdin, objfile, failure, linkargs, objtmp, ntmp>>
  BY DEF validated
<1>2. /\ fdin = NONE /\ \A f : ~InProgress(f)
      /\ Pipeline' /\ ~Assembled' /\ \A f : ~InProgress(f)'
      /\ \A f \in DOMAIN disk' : f \in DOMAIN disk /\ disk'[f] = disk[f]
      /\ failure = 0 => failed = LAST
      /\ failed = LAST => /\ disk' = disk
                          /\ \A t \in Current : Making(t) # NONE =>
                               Making(t) \in DOMAIN disk /\ Right(disk[Making(t)])
  BY ValidatedSteps
<1>3. /\ Linking' = Linking /\ (\A c : Flag(c)' = Flag(c)) /\ (\A f : Kept(f)' = Kept(f))
      /\ OptionsFit' = OptionsFit /\ (\A S : AllLinked(S)' = AllLinked(S)) /\ Dealt' = Dealt
  BY <1>1, SameCommand DEF Dealt
<1>4. ~Assembled
  BY DEF Assembled
<1>5. Place'
  BY <1>1, <1>2, <1>3, <1>4 DEF Live, Place
<1>6. Tidy'
  BY <1>1, <1>2, <1>3 DEF Live, Tidy
<1>7. Outputs'
  BY <1>1, <1>2, <1>3 DEF Live, Outputs
<1>8. Arguments'
  <2>1. ASSUME failure = 0, NEW i, NEW x, Argument(i, x) PROVE Argument(i, x)'
    BY <1>1, <1>2, <2>1, SameFiles
  <2> QED BY <1>1, <1>3, <2>1 DEF Live, Arguments
<1>9. Executable'
  <2>1. SUFFICES ASSUME failure = 0 PROVE OUT \in DOMAIN disk' /\ AllLinked(disk'[OUT])
    BY <1>1, <1>3 DEF Executable
  <2>2. LD \in Current /\ Making(LD) = OUT /\ OUT # NONE
    BY ScenarioTyped, FileNames DEF Current, Making, Typed, TypeOK
  <2>3. OUT \in DOMAIN disk /\ Right(disk[OUT]) /\ disk' = disk
    BY <1>2, <2>1, <2>2
  <2> QED BY <2>3 DEF Right
<1> QED BY <1>2, <1>5, <1>6, <1>7, <1>8, <1>9 DEF Live

\* A file was compiled, or failed to be.
LEMMA CompiledLive ==
  ASSUME Typed, Live, validated, todo # <<>>
  PROVE  Live'
<1>1. /\ pc = "wait" /\ tool = LAST /\ pc' = "build" /\ todo' = Tail(todo)
      /\ disk' = IF failed # LAST THEN Removed({objfile}) ELSE disk
      /\ linkargs' = IF failed = LAST THEN Append(linkargs, objfile) ELSE linkargs
      /\ objtmp' = IF failed = LAST /\ Linking /\ ~Flag("k") THEN objtmp \cup {objfile} ELSE objtmp
      /\ UNCHANGED <<cmd, tool, fdin, objfile, failure, ntmp>>
  BY DEF validated
<1>2. /\ fdin = NONE /\ \A f : ~InProgress(f)
      /\ Pipeline' /\ ~Assembled' /\ \A f : ~InProgress(f)'
      /\ \A f \in DOMAIN disk' : f \in DOMAIN disk /\ disk'[f] = disk[f]
      /\ failure = 0 => failed = LAST
      /\ failed = LAST => /\ disk' = disk
                          /\ \A t \in Current : Making(t) # NONE =>
                               Making(t) \in DOMAIN disk /\ Right(disk[Making(t)])
  BY ValidatedSteps
<1>3. /\ Dealt \in Nat /\ Dealt' = Dealt + 1 /\ cmd.files[Dealt + 1] = Head(todo)
      /\ Len(todo') <= Len(cmd.files)
      /\ \A i \in 1 .. Len(todo') : todo'[i] = cmd.files[Dealt' + i]
  BY <1>1, Advance DEF Live
<1>4. /\ Linking' = Linking /\ (\A c : Flag(c)' = Flag(c)) /\ (\A f : Kept(f)' = Kept(f))
      /\ OptionsFit' = OptionsFit
  BY <1>1, SameCommand
<1>5. Head(todo) \in Sources /\ toolfor(Head(todo)) \notin {NONE, LD} /\ cmd \in Scenarios
      /\ Current = Chain(Head(todo)) /\ OptionsFit /\ ntmp \in Nat
  BY <1>1, HeadTyped DEF Live, Place, Typed, TypeOK, Current
<1>6. failed = LAST /\ Linking =>
        objfile = Making(AS) /\ objfile \in DOMAIN disk /\ disk[objfile] = {Head(todo)} /\ objfile \in Files
  BY <1>1, ObjectMade
<1>7. Linking /\ ~Flag("k") => Making(AS) = Tmp(ntmp)
  BY <1>5, TargetLinked DEF Making
<1>8. Place'
  <2>1. ntmp <= Dealt + 1
    BY <1>3, <1>5 DEF Live, Place
  <2>2. ntmp' <= Dealt' + IF Assembled' THEN 1 ELSE 0
    BY <1>1, <1>2, <1>3, <2>1
  <2>3. pc' = "build" /\ cmd' = cmd /\ fdin' = NONE
    BY <1>1, <1>2
  <2> QED BY <1>3, <1>4, <1>5, <2>2, <2>3 DEF Place
<1>9. Tidy'
  <2>1. (\A f \in DOMAIN disk : disk[f] # {} \/ InProgress(f))'
    BY <1>2 DEF Live, Tidy
  <2>2. (objtmp # {} => Linking /\ ~Flag("k"))'
    BY <1>1, <1>4 DEF Live, Tidy
  <2>3. objtmp' \subseteq {Tmp(m) : m \in 1 .. ntmp}
    <3>1. CASE failed = LAST /\ Linking /\ ~Flag("k")
      <4>1. Tmp(ntmp) \in Files
        BY <1>6, <1>7, <3>1
      <4>2. ntmp \in 1 .. ntmp
        BY <1>5, <4>1, FileNames
      <4> QED BY <1>1, <1>6, <1>7, <3>1, <4>2 DEF Live, Tidy
    <3>2. CASE ~(failed = LAST /\ Linking /\ ~Flag("k"))
      BY <1>1, <3>2 DEF Live, Tidy
    <3> QED BY <3>1, <3>2
  <2>4. ASSUME Linking, ~Flag("k"), NEW f \in DOMAIN disk', IsTmp(f)
        PROVE  f \in objtmp'
    <3>1. f \in DOMAIN disk
      BY <1>2, <2>4
    <3>2. f \in objtmp \/ f = objfile
      BY <1>2, <2>4, <3>1 DEF Live, Tidy
    <3>3. f = objfile => failed = LAST
      BY <1>1, <2>4 DEF Removed
    <3> QED BY <1>1, <2>4, <3>2, <3>3
  <2>5. (Linking /\ ~Flag("k") => \A f \in DOMAIN disk : IsTmp(f) =>
           f \in objtmp \/ InProgress(f) \/ (pc = "wait" /\ todo # <<>> /\ f = objfile))'
    BY <1>4, <2>4
  <2> QED BY <1>1, <1>2, <2>1, <2>2, <2>3, <2>5 DEF Tidy
<1>10. Outputs'
  <2>1. SUFFICES ASSUME failure = 0, NEW i \in 1 .. Dealt + 1, NEW x \in Kept(cmd.files[i])
                 PROVE  /\ x \in DOMAIN disk'
                        /\ \E j \in i .. Dealt + 1 : x \in Kept(cmd.files[j]) /\ disk'[x] = {cmd.files[j]}
    <3>1. cmd' = cmd /\ failure' = failure
      BY <1>1
    <3> QED BY <1>3, <1>4, <3>1 DEF Outputs
  <2>2. disk' = disk /\ failed = LAST
    BY <1>2, <2>1
  <2>3. ASSUME x \in Kept(Head(todo))
        PROVE  x \in DOMAIN disk /\ disk[x] = {cmd.files[Dealt + 1]}
    <3>1. PICK t \in Chain(Head(todo)) : Target(t, Head(todo), ntmp) = x
      BY <1>5, <2>3, KeptMade
    <3>2. t \in Current /\ Making(t) = x
      BY <1>5, <3>1 DEF Making
    <3>3. x # NONE
      BY <1>5, <2>3, ScenarioTyped, FileNames DEF Kept, Wanted
    <3>4. x \in DOMAIN disk /\ Right(disk[x])
      BY <1>2, <2>2, <3>2, <3>3
    <3> QED BY <1>3, <3>4 DEF Right
  <2>4. CASE i = Dealt + 1
    <3>1. x \in Kept(Head(todo)) /\ Dealt + 1 \in i .. Dealt + 1
      BY <1>3, <2>1, <2>4
    <3> QED BY <1>3, <2>2, <2>3, <3>1
  <2>5. CASE i # Dealt + 1
    <3>1. i \in 1 .. Dealt /\ i .. Dealt \subseteq i .. Dealt + 1 /\ Dealt + 1 \in i .. Dealt + 1
      BY <1>3, <2>1, <2>5
    <3>2. \/ /\ x \in DOMAIN disk
             /\ \E j \in i .. Dealt : x \in Kept(cmd.files[j]) /\ disk[x] = {cmd.files[j]}
          \/ x \in Kept(Head(todo))
      BY <2>1, <3>1 DEF Live, Outputs
    <3> QED BY <1>3, <2>2, <2>3, <3>1, <3>2
  <2> QED BY <2>4, <2>5
<1>11. Arguments'
  <2>1. SUFFICES ASSUME failure = 0, Linking
                 PROVE  /\ Len(linkargs') = Dealt + 1
                        /\ \A i \in 1 .. Dealt + 1 : \A x : x = linkargs'[i] => Argument(i, x)'
    BY <1>1, <1>3, <1>4, NextArguments
  <2>2. Len(linkargs) = Dealt /\ \A i \in 1 .. Dealt : Argument(i, linkargs[i])
    BY <2>1 DEF Live, Arguments
  <2>3. failed = LAST /\ disk' = disk
    BY <1>2, <2>1
  <2>4. /\ Len(linkargs') = Dealt + 1 /\ linkargs'[Dealt + 1] = objfile
        /\ \A i \in 1 .. Dealt : linkargs'[i] = linkargs[i]
    BY <1>1, <2>2, <2>3 DEF Typed
  <2>5. ASSUME NEW i, NEW x, Argument(i, x) PROVE Argument(i, x)'
    BY <1>1, <1>2, <1>4, <2>3, <2>5 DEF Argument
  <2>6. ASSUME NEW i, i = Dealt + 1, NEW x, x = objfile PROVE Argument(i, x)'
    <3>1. cmd.files[i] = Head(todo) /\ Kind[Head(todo)] # LD
      BY <1>3, <1>5, <2>1, <2>6 DEF toolfor, Linking, Flag
    <3>2. x = Making(AS) /\ x \in DOMAIN disk /\ disk[x] = {Head(todo)} /\ x \in Files
      BY <1>6, <2>1, <2>3, <2>6
    <3>3. CASE Flag("k")
      <4>1. x = Made(cmd.files[i], "o")
        BY <1>5, <2>1, <3>1, <3>2, <3>3, TargetLinked DEF Making
      <4> QED BY <1>1, <1>4, <3>1, <3>3, <4>1 DEF Argument, Made
    <3>4. CASE ~Flag("k")
      <4>1. x = Tmp(ntmp)
        BY <1>7, <2>1, <3>2, <3>4
      <4>2. ntmp \in 1 .. ntmp
        BY <1>5, <3>2, <4>1, FileNames
      <4> QED BY <1>1, <1>2, <1>4, <2>3, <3>1, <3>2, <3>4, <4>1, <4>2 DEF Argument
    <3> QED BY <3>3, <3>4
  <2>7. ASSUME NEW i \in 1 .. Dealt + 1, NEW x, x = linkargs'[i] PROVE Argument(i, x)'
    <3>1. CASE i = Dealt + 1
      BY <2>4, <2>6, <2>7, <3>1
    <3>2. CASE i # Dealt + 1
      <4>1. i \in 1 .. Dealt
        BY <1>3, <2>7, <3>2
      <4>2. Argument(i, x)
        BY <2>2, <2>4, <2>7, <4>1
      <4> QED BY <2>5, <4>2
    <3> QED BY <3>1, <3>2
  <2> QED BY <2>4, <2>7
<1>12. Executable'
  BY <1>1 DEF Executable
<1> QED BY <1>2, <1>8, <1>9, <1>10, <1>11, <1>12 DEF Live

LEMMA DriverLive ==
  ASSUME Typed, Live, Driver, Running'
  PROVE  Live'
<1>1. ASSUME NEW how, NEW left, Exit(how, left), how # "running" PROVE FALSE
  BY <1>1 DEF Exit, Running
<1>2. CASE main
  BY <1>1, <1>2, MainLive DEF main
<1>3. CASE nextFile
  <2>1. toolfor(Head(todo)) # NONE
    <3>1. toolfor(Head(todo)) = NONE => Exit("died", {})
      <4>1. LD # NONE
        BY ScenarioTyped, Toolnames DEF Typed, TypeOK, LD
      <4> QED BY <1>3, <4>1 DEF nextFile
    <3> QED BY <1>1, <3>1
  <2> QED BY <1>3, <2>1, ObjectLive, StartLive
<1>4. CASE spawnFails
  BY <1>1, <1>4 DEF spawnFails
<1>5. CASE validated
  BY <1>5, LinkedLive, CompiledLive
<1>6. CASE exit
  <2>1. (IF failure = 0 THEN "ok" ELSE "fail") # "running"
    OBVIOUS
  <2> QED BY <1>1, <1>6, <2>1 DEF exit
<1> QED BY <1>2, <1>3, <1>4, <1>5, <1>6, SpawnLive, SpawnedLive, WaitLive, BuiltLive, LinkLive DEF Driver

(***************************************************************************)
(* The end.                                                                *)
(***************************************************************************)

\* What terminate() leaves, when no pipeline is at work.
LEMMA EndSteps ==
  ASSUME Typed, Live, pc \notin {"spawn", "wait"}, NEW how, Exit(how, {})
  PROVE  /\ cmd' = cmd /\ proc' = proc /\ ended' = how
         /\ \A f : f \in DOMAIN disk' <=> f \in DOMAIN disk /\ (Flag("k") \/ f \notin objtmp)
         /\ \A f \in DOMAIN disk' : disk'[f] = disk[f]
         /\ \A t \in Tools : ~Busy(t)
         /\ \A f \in DOMAIN disk : disk[f] # {}
         /\ objtmp # {} => Linking /\ ~Flag("k")
         /\ \A f \in objtmp : f # OUT
         /\ Linking /\ ~Flag("k") => \A f \in DOMAIN disk : IsTmp(f) => f \in objtmp
<1>1. (\A t \in Tools : ~Busy(t)) /\ \A f : ~InProgress(f)
  BY Idle DEF Live
<1>2. cmd' = cmd /\ proc' = proc /\ ended' = how
  BY DEF Exit
<1>3. \A f : f \in DOMAIN disk' <=> f \in DOMAIN disk /\ (Flag("k") \/ f \notin objtmp)
  BY DEF Exit, Removed
<1>4. \A f \in DOMAIN disk' : disk'[f] = disk[f]
  BY DEF Exit, Removed
<1>5. \A f \in objtmp : f # OUT
  BY NamesDiffer DEF Live, Tidy
<1> QED BY <1>1, <1>2, <1>3, <1>4, <1>5 DEF Live, Tidy

LEMMA EndClean ==
  ASSUME Typed, Live, pc \notin {"spawn", "wait"}, NEW how, Exit(how, {})
  PROVE  Final' /\ NothingTruncated' /\ TemporariesRemoved'
<1>1. Final'
  BY EndSteps DEF Final, Busy
<1>2. NothingTruncated'
  BY EndSteps DEF NothingTruncated
<1>3. TemporariesRemoved'
  <2>1. Linking' = Linking /\ Flag("k")' = Flag("k")
    BY EndSteps, SameCommand
  <2> QED BY <2>1, EndSteps DEF TemporariesRemoved
<1> QED BY <1>1, <1>2, <1>3

LEMMA EndWhole ==
  ASSUME Typed, Live, exit, failure = 0
  PROVE  SuccessMeansWhole'
<1>1. pc = "exit" /\ Exit("ok", {})
  BY DEF exit
<1>2. /\ cmd' = cmd
      /\ \A f : f \in DOMAIN disk' <=> f \in DOMAIN disk /\ (Flag("k") \/ f \notin objtmp)
      /\ \A f \in DOMAIN disk' : disk'[f] = disk[f]
      /\ objtmp # {} => Linking /\ ~Flag("k")
      /\ \A f \in objtmp : f # OUT
  BY <1>1, EndSteps
<1>3. todo = <<>> /\ Dealt = Len(cmd.files) /\ DOMAIN cmd.files = 1 .. Len(cmd.files)
  <2>1. todo = <<>>
    BY <1>1 DEF Live, Place
  <2> QED BY <2>1, FileAt DEF Live, Dealt
<1>4. /\ Linking' = Linking /\ (\A c : Flag(c)' = Flag(c)) /\ (\A i : Overwritten(i)' = Overwritten(i))
      /\ \A f : Wanted(f)' = Wanted(f)
  BY <1>2 DEF Linking, Flag, Overwritten, Wanted, ObjectWanted
<1>5. ASSUME NEW i \in DOMAIN cmd.files, NEW x \in Wanted(cmd.files[i])
      PROVE  /\ x \in DOMAIN disk'
             /\ \E j \in i .. Len(cmd.files) : x \in Wanted(cmd.files[j]) /\ disk'[x] = {cmd.files[j]}
  <2>1. ~Linking
    BY <1>5 DEF Wanted, ObjectWanted, Linking, Flag
  <2>2. \A f : Kept(f) = Wanted(f)
    BY <2>1 DEF Kept
  <2>3. /\ x \in DOMAIN disk
        /\ \E j \in i .. Len(cmd.files) : x \in Wanted(cmd.files[j]) /\ disk[x] = {cmd.files[j]}
    BY <1>1, <1>3, <1>5, <2>2 DEF Live, Outputs
  <2> QED BY <1>2, <2>1, <2>3
<1>6. ASSUME Linking
      PROVE  /\ OUT \in DOMAIN disk' /\ disk'[OUT] \subseteq ToSet(cmd.files)
             /\ \A i \in DOMAIN cmd.files :
                  cmd.files[i] \in disk'[OUT] \/ (Flag("k") /\ Overwritten(i))
  BY <1>1, <1>2, <1>6 DEF Live, Executable, AllLinked
<1> QED BY <1>2, <1>4, <1>5, <1>6 DEF SuccessMeansWhole

(***************************************************************************)
(* The theorems.                                                           *)
(***************************************************************************)
LEMMA DriverInit == Init => DriverInv
<1> SUFFICES ASSUME Init PROVE DriverInv
  OBVIOUS
<1>1. Typed
  BY InitTyped
<1>2. /\ pc = "main" /\ todo = cmd.files /\ fdin = NONE /\ proc = [t \in Tools |-> NoProc]
      /\ disk = [f \in {} |-> {}] /\ failure = 0 /\ linkargs = <<>> /\ objtmp = {} /\ ended = "running" /\ ntmp = 0
  BY DEF Init
<1>3. todo \in Seq(Sources) /\ Len(todo) \in Nat /\ Dealt = 0
  BY <1>1, <1>2 DEF Typed, TypeOK, Dealt
<1>4. \A t \in Tools : ~Busy(t)
  BY <1>2 DEF Busy, NoProc
<1>5. ~Assembled
  BY <1>2 DEF Assembled
<1>6. Place
  BY <1>2, <1>3, <1>5 DEF Place
<1>7. Pipeline
  BY <1>2, <1>4 DEF Pipeline, Pending
<1>8. Tidy
  BY <1>2, <1>5 DEF Tidy
<1>9. Outputs /\ Arguments /\ Executable
  BY <1>2, <1>3 DEF Outputs, Arguments, Executable
<1>10. Final /\ SuccessMeansWhole /\ NothingTruncated /\ TemporariesRemoved
  BY <1>2 DEF Final, SuccessMeansWhole, NothingTruncated, TemporariesRemoved, Normal
<1> QED BY <1>1, <1>6, <1>7, <1>8, <1>9, <1>10 DEF DriverInv, Live

\* What is promised of an exit, when the driver runs on, dies or is killed.
LEMMA NoPromise ==
  ASSUME ~Normal'
  PROVE  (Final /\ SuccessMeansWhole /\ NothingTruncated /\ TemporariesRemoved)'
BY DEF Normal, Final, SuccessMeansWhole, NothingTruncated, TemporariesRemoved

LEMMA Unchanged ==
  ASSUME UNCHANGED <<cmd, pc, todo, tool, fdin, proc, wr, disk, objfile, failed, failure,
                     linkargs, objtmp, ended, ntmp>>, DriverInv
  PROVE  /\ Running => Live
         /\ Running' => Live'
         /\ (Final /\ SuccessMeansWhole /\ NothingTruncated /\ TemporariesRemoved)'
<1>1. /\ Linking' = Linking /\ (\A c : Flag(c)' = Flag(c)) /\ (\A f : Kept(f)' = Kept(f))
      /\ OptionsFit' = OptionsFit /\ (\A f : toolfor(f)' = toolfor(f))
      /\ \A S : AllLinked(S)' = AllLinked(S)
  BY SameCommand
<1>2. /\ Current' = Current /\ Dealt' = Dealt /\ Assembled' = Assembled
      /\ (\A t : Making(t)' = Making(t)) /\ (\A t : Pending(t)' = Pending(t))
      /\ \A S : Right(S)' = Right(S)
  BY SamePlace
<1>3. Running' = Running /\ Normal' = Normal
  BY DEF Running, Normal
<1>4. Place => Place'
  BY <1>1, <1>2 DEF Place
<1>5. (\A t : Busy(t)' = Busy(t)) /\ (\A f : InProgress(f)' = InProgress(f))
  BY DEF Busy, InProgress
<1>6. Pipeline => Pipeline'
  <2>1. \A t : Process(t) => Process(t)'
    BY <1>2, <1>5 DEF Process, Alive, InWhole
  <2>2. Waiting => Waiting'
    BY <1>2 DEF Waiting
  <2> QED BY <1>2, <1>5, <2>1, <2>2 DEF Pipeline
<1>7. Tidy => Tidy'
  BY <1>1, <1>2, <1>5 DEF Tidy
<1>8. Outputs => Outputs'
  BY <1>1, <1>2 DEF Outputs
<1>9. Arguments => Arguments'
  <2>1. \A i, x : Argument(i, x) => Argument(i, x)'
    BY <1>2, SameFiles
  <2> QED BY <1>1, <1>2, <2>1 DEF Arguments
<1>10. Executable => Executable'
  BY <1>1 DEF Executable
<1>11. Live => Live'
  BY <1>4, <1>6, <1>7, <1>8, <1>9, <1>10 DEF Live
<1>12. Final' /\ NothingTruncated' /\ TemporariesRemoved'
  BY <1>1, <1>3, <1>5 DEF DriverInv, Final, NothingTruncated, TemporariesRemoved
<1>13. SuccessMeansWhole'
  <2>1. (\A i : Overwritten(i)' = Overwritten(i)) /\ \A f : Wanted(f)' = Wanted(f)
    BY DEF Overwritten, Wanted, ObjectWanted, Flag
  <2> QED BY <1>1, <2>1 DEF DriverInv, SuccessMeansWhole
<1> QED BY <1>3, <1>11, <1>12, <1>13 DEF DriverInv

LEMMA DriverStep == DriverInv /\ [Next]_vars => DriverInv'
<1> SUFFICES ASSUME DriverInv, [Next]_vars PROVE DriverInv'
  OBVIOUS
<1> DEFINE Promise == Final /\ SuccessMeansWhole /\ NothingTruncated /\ TemporariesRemoved
<1>1. Typed /\ (Running => Live) /\ Promise
  BY DEF DriverInv
<1>2. Typed'
  BY <1>1, TypedStep
<1>3. ~Normal' => Promise'
  BY NoPromise
<1>4. CASE Driver
  <2>1. Running /\ Live
    BY <1>1, <1>4 DEF Driver, main, nextFile, spawn, spawnFails, spawned, waitTool, validated, built, link, exit
  <2>2. Running' => Live'
    BY <1>1, <1>4, <2>1, DriverLive
  <2>3. Running' => ~Normal'
    BY DEF Running, Normal
  <2>4. CASE main \/ exit
    <3>1. CASE exit
      <4>1. PICK how : Exit(how, {}) /\ how = IF failure = 0 THEN "ok" ELSE "fail"
        BY <3>1 DEF exit
      <4>2. (Final /\ NothingTruncated /\ TemporariesRemoved)'
        BY <1>1, <2>1, <3>1, <4>1, EndClean DEF exit
      <4>3. SuccessMeansWhole'
        <5>1. CASE failure = 0
          BY <1>1, <2>1, <3>1, <5>1, EndWhole
        <5>2. CASE failure # 0
          BY <4>1, <5>2 DEF Exit, SuccessMeansWhole
        <5> QED BY <5>1, <5>2
      <4> QED BY <1>2, <2>2, <4>2, <4>3 DEF DriverInv
    <3>2. CASE main
      <4>1. CASE Accepted
        <5>1. Running'
          BY <2>1, <3>2, <4>1 DEF main, Running
        <5> QED BY <1>2, <1>3, <2>2, <2>3, <5>1 DEF DriverInv
      <4>2. CASE ~Accepted
        <5>1. Exit("fail", {}) /\ pc = "main"
          BY <3>2, <4>2 DEF main
        <5>2. (Final /\ NothingTruncated /\ TemporariesRemoved)'
          BY <1>1, <2>1, <5>1, EndClean
        <5>3. SuccessMeansWhole'
          BY <5>1 DEF Exit, SuccessMeansWhole
        <5> QED BY <1>2, <2>2, <5>2, <5>3 DEF DriverInv
      <4> QED BY <4>1, <4>2
    <3> QED BY <2>4, <3>1, <3>2
  <2>5. CASE ~main /\ ~exit
    <3>1. ~Normal'
      <4>1. CASE nextFile
        <5>1. Running' \/ ended' = "died"
          BY <2>1, <4>1 DEF nextFile, Exit, Running
        <5> QED BY <5>1 DEF Running, Normal
      <4>2. CASE spawnFails
        BY <4>2 DEF spawnFails, Exit, Normal
      <4>3. CASE spawn \/ spawned \/ waitTool \/ validated \/ built \/ link
        <5>1. ended' = ended
          BY <4>3 DEF spawn, spawned, waitTool, validated, built, link
        <5> QED BY <2>1, <5>1 DEF Running, Normal
      <4> QED BY <1>4, <2>5, <4>1, <4>2, <4>3 DEF Driver
    <3> QED BY <1>2, <1>3, <2>2, <3>1 DEF DriverInv
  <2> QED BY <2>4, <2>5
<1>5. ASSUME NEW t \in Tools, Works(t) \/ toolFails(t) PROVE DriverInv'
  <2>1. ToolStep(t) /\ Alive(t) /\ ended' = ended
    BY <1>1, <1>5, ToolSteps
    DEF ToolStep, Works, toolStarts, toolReads, toolWrites, toolSucceeds, toolFails, Others
  <2>2. ~Normal'
    <3>1. ~Normal
      BY <1>1, <2>1 DEF Final, Busy, Alive
    <3> QED BY <2>1, <3>1 DEF Normal
  <2>3. Running' => Live'
    BY <1>1, <1>5, <2>1, ToolLive DEF Running
  <2> QED BY <1>2, <1>3, <2>2, <2>3 DEF DriverInv
<1>6. CASE User
  <2>1. ended' = "killed"
    BY <1>6 DEF User, interrupt
  <2>2. ~Normal' /\ ~Running'
    BY <2>1 DEF Normal, Running
  <2> QED BY <1>2, <1>3, <2>2 DEF DriverInv
<1>7. CASE UNCHANGED vars
  <2>1. UNCHANGED <<cmd, pc, todo, tool, fdin, proc, rd, wr, buf, disk, objfile, failed, failure,
                    linkargs, objtmp, ended, ntmp, nsig>>
    BY <1>7 DEF vars, memory, pipes
  <2> QED BY <1>1, <1>2, <2>1, Unchanged DEF DriverInv
<1> QED BY <1>4, <1>5, <1>6, <1>7 DEF Next, Stopped

LEMMA DriverInvariant == Spec => []DriverInv
BY DriverInit, DriverStep, PTL DEF Spec

\* When the driver exits 0, every file that main() was asked for was made by
\* buildfile() and its tools from the whole of its source: the statuses that
\* validatetools() waits for are enough to know, although no tool can tell a
\* truncated input from a whole one.
THEOREM SuccessIsWhole == Spec => []SuccessMeansWhole
<1>1. DriverInv => SuccessMeansWhole
  BY DEF DriverInv
<1> QED BY <1>1, DriverInvariant, PTL

\* After an exit, terminate() and validatetools() have left no truncated file and
\* no temporary object, and the state had its types all along.
THEOREM ExitIsClean == Spec => []CleanAfterExit
<1>1. DriverInv => CleanAfterExit
  BY DEF DriverInv, Typed, CleanAfterExit
<1> QED BY <1>1, DriverInvariant, PTL
=============================================================================
