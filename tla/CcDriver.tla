------------------------------ MODULE CcDriver ------------------------------
(***************************************************************************)
(* The compiler driver scc-cc (scc-cc/posix/cc.c): it runs cc1, cc2, qbe   *)
(* and the assembler on every source file as one pipeline of processes,    *)
(* with a tee between two of them where a file is to be kept, and then the *)
(* linker on the objects.                                                  *)
(*                                                                         *)
(* The actors are the driver, the processes it forks, and the user, who    *)
(* may interrupt them.  A pipe is known by the tool that writes to it; the *)
(* ends that every process holds open are part of the state, because end   *)
(* of file and SIGPIPE depend on them.  What flows through a pipe is       *)
(* counted, not modelled; a file knows the sources that the whole of it    *)
(* was made from, and a partial one has none.                              *)
(***************************************************************************)
EXTENDS Naturals, Sequences, SequencesExt

CONSTANTS
  Sources,     \* names of input files
  Kind,        \* Kind[f]: the tool that starts on f (its suffix), or NONE
  Base,        \* Base[f]: the name of f without directory and suffix
  NONE,        \* no tool, no file
  Cap,         \* capacity of a pipe
  Scenarios    \* command lines and what goes wrong: see Accepted and the actions

DRIVER == 0
CC1    == 1
TEEIR  == 2
CC2    == 3
TEEQBE == 4
QBE    == 5
TEEAS  == 6
AS     == 7
LD     == 8
LAST   == 9
Tools == CC1 .. LD

ASSUME KindAssumption == Kind \in [Sources -> {CC1, CC2, QBE, AS, LD, NONE}]
ASSUME CapAssumption  == Cap \in Nat \ {0}
ASSUME ScenarioAssumption == \A s \in Scenarios :
  /\ s.files \in Seq(Sources) /\ s.flags \subseteq {"E", "M", "S", "c", "k", "o", "Q"}
  /\ s.size \in Nat /\ s.early \in BOOLEAN /\ s.faults \in BOOLEAN /\ s.signals \in Nat

VARIABLES
  cmd,         \* the scenario: files, flags; size of what a tool writes; whether
               \* tools may die before they have read all; whether fork(),
               \* pipe() and mkstemp() may fail; signals
  pc,          \* where the driver is
  todo,        \* files of the command line still to be dealt with
  tool,        \* the tool being spawned or waited for
  fdin,        \* fdin of settool(): the pipe whose read end the next tool gets
  proc,        \* proc[t]: the process of tool t
  rd, wr,      \* rd[t], wr[t]: who holds an end of the pipe that t writes
  buf,         \* buf[t]: what is in that pipe
  disk,        \* disk[f]: the sources of the file f, {} while it is partial
  objfile, failed, failure,
  linkargs,    \* files for the linker
  objtmp,      \* objects to remove at the end
  ended,       \* running, ok, fail (exit 1), died (die()), killed
  ntmp, nsig   \* temporaries made and signals so far

memory == <<todo, fdin, objfile, failed, failure, linkargs, objtmp, ntmp>>
pipes  == <<rd, wr, buf>>
vars   == <<cmd, pc, tool, memory, proc, pipes, disk, ended, nsig>>

Flag(c) == c \in cmd.flags
Linking == cmd.flags \cap {"M", "E", "S", "c"} = {}
Running == ended = "running"

\* Files: inputs, what is made of them, temporary objects and the executable.
Input(f)  == <<"input", f>>
Made(f, type) == <<type, Base[f]>>
Tmp(k)    == <<"tmp", k>>
OUT       == <<"out", NONE>>
FilesOf(n) == {OUT} \cup {Made(f, type) : f \in Sources, type \in {"ir", "qbe", "s", "o"}}
              \cup {Tmp(k) : k \in 1 .. n}
Files     == FilesOf(Len(cmd.files))

ASSUME NoneAssumption == NONE \notin Nat /\ \A s \in Scenarios : NONE \notin FilesOf(Len(s.files))

\* st: none, new (before execvp()), run, or how it ended: ok, or bad (killed, or
\* an exit status other than 0); n: what it has written; inp: the pipe it reads; out: it
\* writes to a pipe; file: the file it writes; of: the sources it works on;
\* whole: it succeeded on the whole of its input.
NoProc == [st |-> "none", n |-> 0, inp |-> NONE, out |-> FALSE, file |-> NONE, of |-> {},
           whole |-> FALSE]

Init ==
  /\ cmd \in Scenarios
  /\ pc = "main" /\ todo = cmd.files /\ tool = LAST /\ fdin = NONE
  /\ proc = [t \in Tools |-> NoProc]
  /\ rd = [t \in Tools |-> {}] /\ wr = [t \in Tools |-> {}] /\ buf = [t \in Tools |-> 0]
  /\ disk = [f \in {} |-> {}]
  /\ objfile = NONE /\ failed = LAST /\ failure = 0
  /\ linkargs = <<>> /\ objtmp = {}
  /\ ended = "running" /\ ntmp = 0 /\ nsig = 0

(***************************************************************************)
(* The end of the driver.                                                  *)
(***************************************************************************)

Removed(fs) == [f \in DOMAIN disk \ fs |-> disk[f]]
Written(file, of) == [f \in DOMAIN disk \cup {file} |-> IF f = file THEN of ELSE disk[f]]

\* The end of the processes ps closes every descriptor they hold; what is in a
\* pipe that nobody can read is lost.
Close(ps) ==
  /\ rd' = [t \in Tools |-> rd[t] \ ps]
  /\ wr' = [t \in Tools |-> wr[t] \ ps]
  /\ buf' = [t \in Tools |-> IF rd[t] \subseteq ps THEN 0 ELSE buf[t]]

\* terminate(), at every kind of exit; the pipes the driver holds are closed.
\* left: the files just created that nothing removes.
Exit(how, left) ==
  /\ ended' = how
  /\ LET kept == IF Flag("k") THEN disk ELSE Removed(objtmp)
     IN disk' = [f \in DOMAIN kept \cup left |-> IF f \in left THEN {} ELSE kept[f]]
  /\ Close({DRIVER})
  /\ UNCHANGED <<cmd, pc, tool, memory, proc, nsig>>

\* The combinations of options that main() accepts.
Accepted ==
  /\ ~(Flag("E") /\ Flag("M"))
  /\ ~((Flag("E") \/ Flag("M")) /\ (Flag("S") \/ Flag("k")))
  /\ todo # <<>>
  /\ ~(Len(todo) > 1 /\ Flag("c") /\ Flag("o"))

main ==
  /\ Running /\ pc = "main"
  /\ IF Accepted
     THEN /\ pc' = "build"
          /\ UNCHANGED <<cmd, tool, memory, proc, pipes, disk, ended, nsig>>
     ELSE Exit("fail", {})

(***************************************************************************)
(* build() and buildfile().                                                *)
(***************************************************************************)
toolfor(f) == IF Flag("E") THEN CC1 ELSE Kind[f]

\* build(): the next file of the command line.
nextFile ==
  LET f == Head(todo) IN
  /\ Running /\ pc = "build" /\ todo # <<>>
  /\ CASE toolfor(f) = NONE -> Exit("died", {})
       [] toolfor(f) = LD ->
            /\ linkargs' = Append(linkargs, Input(f))
            /\ todo' = Tail(todo)
            /\ UNCHANGED <<cmd, pc, tool, fdin, proc, pipes, disk, objfile, failed, failure,
                           objtmp, ended, ntmp, nsig>>
       [] OTHER ->
            /\ pc' = "spawn" /\ tool' = toolfor(f)
            /\ UNCHANGED <<cmd, memory, proc, pipes, disk, ended, nsig>>

\* buildfile(): the tool that reads what t writes.
nexttool(t) ==
  CASE t = CC1    -> IF Flag("E") /\ Flag("o") THEN TEEIR
                     ELSE IF Flag("E") \/ Flag("M") THEN LAST
                     ELSE IF Flag("k") THEN TEEIR ELSE CC2
    [] t = TEEIR  -> IF Flag("E") THEN LAST ELSE CC2
    [] t = CC2    -> IF Flag("Q") THEN (IF Flag("k") THEN TEEQBE ELSE QBE)
                     ELSE IF Flag("S") \/ Flag("k") THEN TEEAS ELSE AS
    [] t = TEEQBE -> QBE
    [] t = QBE    -> IF Flag("S") \/ Flag("k") THEN TEEAS ELSE AS
    [] t = TEEAS  -> IF Flag("S") THEN LAST ELSE AS
    [] OTHER      -> LAST

\* settool(): the file that t is to write for the source f, or NONE.
outfile(t, f) ==
  CASE t = TEEIR  -> IF Flag("E") /\ Flag("o") THEN OUT ELSE Made(f, "ir")
    [] t = TEEQBE -> Made(f, "qbe")
    [] t = TEEAS  -> Made(f, "s")
    [] t = AS     -> IF Flag("c") /\ Flag("o") THEN OUT
                     ELSE IF Flag("c") \/ Flag("k") THEN Made(f, "o") ELSE Tmp(ntmp + 1)
    [] t = LD     -> OUT
    [] OTHER      -> NONE

IsTmp(file) == file # NONE /\ file[1] = "tmp"

NewProc(out, file, of) == [st |-> "new", n |-> 0, inp |-> fdin, out |-> out, file |-> file,
                           of |-> of, whole |-> FALSE]

\* Mutant of Spawn: the driver does not close the write end of the pipe.
SpawnUnclosed(t, next, file, of) ==
  LET piped == next # LAST
      held(ends, mine) == [u \in Tools |->
        IF u = t THEN (IF mine THEN {t, DRIVER} ELSE {})
        ELSE IF DRIVER \in ends[u] THEN ends[u] \cup {t} ELSE ends[u]]
  IN /\ proc' = [proc EXCEPT ![t] = NewProc(piped, file, of)]
     /\ rd' = [u \in Tools |-> held(rd, piped)[u] \ (IF u = fdin THEN {DRIVER} ELSE {})]
     /\ wr' = [u \in Tools |-> held(wr, piped)[u]]
     /\ buf' = [buf EXCEPT ![t] = 0]
     /\ fdin' = IF piped THEN t ELSE NONE
     /\ disk' = IF IsTmp(file) THEN Written(file, {}) ELSE disk
     /\ ntmp' = IF IsTmp(file) THEN ntmp + 1 ELSE ntmp

\* settool() and spawn(): the pipe to the next tool is made before fork(), and
\* the child inherits every descriptor the driver has open, the read end of
\* its own output pipe among them; the driver then closes the ends it gave.
Spawn(t, next, file, of) ==
  LET piped == next # LAST
      held(ends, mine) == [u \in Tools |->
        IF u = t THEN (IF mine THEN {t, DRIVER} ELSE {})
        ELSE IF DRIVER \in ends[u] THEN ends[u] \cup {t} ELSE ends[u]]
  IN /\ proc' = [proc EXCEPT ![t] = NewProc(piped, file, of)]
     /\ rd' = [u \in Tools |-> held(rd, piped)[u] \ (IF u = fdin THEN {DRIVER} ELSE {})]
     /\ wr' = [u \in Tools |-> held(wr, piped)[u] \ {DRIVER}]
     /\ buf' = [buf EXCEPT ![t] = 0]
     /\ fdin' = IF piped THEN t ELSE NONE
     /\ disk' = IF IsTmp(file) THEN Written(file, {}) ELSE disk
     /\ ntmp' = IF IsTmp(file) THEN ntmp + 1 ELSE ntmp

spawn ==
  /\ Running /\ pc = "spawn" /\ tool # LAST
  /\ LET f == Head(todo)
         file == outfile(tool, f)
     IN /\ Spawn(tool, nexttool(tool), file, {f})
        /\ objfile' = IF tool = AS THEN file ELSE objfile
        /\ tool' = nexttool(tool)
  /\ UNCHANGED <<cmd, pc, todo, failed, failure, linkargs, objtmp, ended, nsig>>

\* mkstemp(), pipe() or fork() fails, the last two after mkstemp() succeeded.
spawnFails ==
  /\ Running /\ pc \in {"spawn", "link"} /\ (pc = "spawn" => tool # LAST)
  /\ cmd.faults
  /\ \E made \in BOOLEAN :
       LET file == IF pc = "spawn" THEN outfile(tool, Head(todo)) ELSE OUT
       IN Exit("died", IF made /\ IsTmp(file) THEN {file} ELSE {})

spawned ==
  /\ Running /\ pc = "spawn" /\ tool = LAST
  /\ pc' = "wait" /\ tool' = CC1 /\ failed' = LAST
  /\ UNCHANGED <<cmd, todo, fdin, objfile, failure, linkargs, objtmp, ntmp, proc, pipes, disk,
                 ended, nsig>>

(***************************************************************************)
(* validatetools(): the tools are waited for in their order.               *)
(***************************************************************************)

\* Mutant of valid: only the end of the pipeline counts.
validLast(t) == t \in {AS, LD} => proc[t].st = "ok"

valid(t) == proc[t].st = "ok"

\* Mutant of Undone: the output of the tool that failed is kept.
UndoneAfter(t, first) == t > first

\* Is the output of t removed, when the tool first failed?
Undone(t, first) == t >= first

Failed == 1

waitTool ==
  LET p   == proc[tool]
      bad == p.st # "none" /\ ~valid(tool)
  IN
  /\ Running /\ pc = "wait" /\ tool # LAST
  /\ p.st \in {"none", "ok", "bad"}
  /\ failure' = IF bad THEN Failed ELSE failure
  /\ failed' = IF bad THEN tool ELSE failed
  /\ disk' = IF p.st # "none" /\ Undone(tool, failed') THEN Removed({p.file}) ELSE disk
  /\ proc' = [proc EXCEPT ![tool] = [NoProc EXCEPT !.whole = p.whole]]
  /\ tool' = tool + 1
  /\ UNCHANGED <<cmd, pc, todo, fdin, objfile, linkargs, objtmp, ntmp, pipes, ended,
                 nsig>>

\* The end of validatetools() and its return to build() or to main().
validated ==
  /\ Running /\ pc = "wait" /\ tool = LAST
  /\ disk' = IF failed # LAST THEN Removed({objfile}) ELSE disk
  /\ IF todo = <<>>
     THEN /\ pc' = "exit"
          /\ UNCHANGED <<todo, linkargs, objtmp>>
     ELSE /\ pc' = "build" /\ todo' = Tail(todo)
          /\ linkargs' = IF failed = LAST THEN Append(linkargs, objfile) ELSE linkargs
          /\ objtmp' = IF failed = LAST /\ Linking /\ ~Flag("k") THEN objtmp \cup {objfile}
                       ELSE objtmp
  /\ proc' = [t \in Tools |-> NoProc]
  /\ UNCHANGED <<cmd, tool, fdin, objfile, failed, failure, ntmp, pipes, ended, nsig>>

\* main(): after the last file, link or exit.
built ==
  /\ Running /\ pc = "build" /\ todo = <<>>
  /\ pc' = IF Linking /\ failure = 0 THEN "link" ELSE "exit"
  /\ UNCHANGED <<cmd, tool, memory, proc, pipes, disk, ended, nsig>>

Contents(x) == IF x[1] = "input" THEN {x[2]} ELSE disk[x]

link ==
  /\ Running /\ pc = "link"
  /\ Spawn(LD, LAST, outfile(LD, NONE), UNION {Contents(x) : x \in ToSet(linkargs)})
  /\ pc' = "wait" /\ tool' = CC1 /\ failed' = LAST
  /\ UNCHANGED <<cmd, todo, objfile, failure, linkargs, objtmp, ended, nsig>>

exit ==
  /\ Running /\ pc = "exit"
  /\ Exit(IF failure = 0 THEN "ok" ELSE "fail", {})

(***************************************************************************)
(* The tools.  A tool reads its input to the end, writes cmd.size units,   *)
(* and succeeds or fails; it cannot tell a truncated input from a whole    *)
(* one.  A tool may fail before it has read all only when cmd.early says   *)
(* so; cc1 and the linker read files and may always fail.                  *)
(***************************************************************************)
Others == UNCHANGED <<cmd, pc, tool, memory, ended, nsig>>

Ends(t, how, whole) ==
  /\ proc' = [proc EXCEPT ![t].st = how, ![t].whole = whole]
  /\ Close({t})

AtEOF(t)   == proc[t].inp # NONE => buf[proc[t].inp] = 0 /\ wr[proc[t].inp] = {}
InWhole(t) == proc[t].inp # NONE => proc[proc[t].inp].whole

\* tee() opens its file, execvp() starts a tool which opens its own; both may
\* fail.
toolStarts(t) ==
  /\ proc[t].st = "new"
  /\ \/ /\ proc' = [proc EXCEPT ![t].st = "run"]
        /\ disk' = IF proc[t].file = NONE THEN disk ELSE Written(proc[t].file, {})
        /\ UNCHANGED <<pipes>>
     \/ /\ cmd.early \/ t \in {CC1, LD}
        /\ Ends(t, "bad", FALSE)
        /\ UNCHANGED disk
  /\ Others

toolReads(t) ==
  /\ proc[t].st = "run" /\ proc[t].inp # NONE
  /\ buf[proc[t].inp] > 0
  /\ buf' = [buf EXCEPT ![proc[t].inp] = @ - 1]
  /\ UNCHANGED <<proc, rd, wr, disk>> /\ Others

\* A write to a pipe waits while it is full, and kills the writer when nobody
\* holds the read end.
toolWrites(t) ==
  /\ proc[t].st = "run" /\ proc[t].out /\ proc[t].n < cmd.size
  /\ IF rd[t] = {} THEN Ends(t, "bad", FALSE)
     ELSE /\ buf[t] < Cap
          /\ buf' = [buf EXCEPT ![t] = @ + 1]
          /\ proc' = [proc EXCEPT ![t].n = @ + 1]
          /\ UNCHANGED <<rd, wr>>
  /\ UNCHANGED disk /\ Others

toolSucceeds(t) ==
  /\ proc[t].st = "run" /\ AtEOF(t) /\ (proc[t].out => proc[t].n = cmd.size)
  /\ Ends(t, "ok", InWhole(t))
  /\ disk' = IF proc[t].file # NONE /\ InWhole(t)
             THEN Written(proc[t].file, proc[t].of) ELSE disk
  /\ Others

toolFails(t) ==
  /\ proc[t].st = "run"
  /\ cmd.early \/ t \in {CC1, LD} \/ AtEOF(t)
  /\ Ends(t, "bad", FALSE)
  /\ UNCHANGED disk /\ Others

(***************************************************************************)
(* The user interrupts the driver, or the driver and its tools.            *)
(***************************************************************************)
Alive(t) == proc[t].st \in {"new", "run"}

interrupt(group) ==
  /\ Running /\ nsig < cmd.signals
  /\ nsig' = nsig + 1
  /\ ended' = "killed"
  /\ disk' = IF Flag("k") THEN disk ELSE Removed(objtmp)
  /\ LET dead == {DRIVER} \cup IF group THEN {t \in Tools : Alive(t)} ELSE {}
     IN /\ proc' = [t \in Tools |-> IF t \in dead THEN [proc[t] EXCEPT !.st = "bad"] ELSE proc[t]]
        /\ Close(dead)
  /\ UNCHANGED <<cmd, pc, tool, memory>>

Driver == main \/ nextFile \/ spawn \/ spawnFails \/ spawned \/ waitTool \/ validated \/ built
          \/ link \/ exit
Works(t) == toolStarts(t) \/ toolReads(t) \/ toolWrites(t) \/ toolSucceeds(t)
User    == \E group \in BOOLEAN : interrupt(group)
Quiet   == ~Running /\ \A t \in Tools : ~Alive(t)
Stopped == Quiet /\ UNCHANGED vars

Next == Driver \/ (\E t \in Tools : Works(t) \/ toolFails(t)) \/ User \/ Stopped

Spec == Init /\ [][Next]_vars

\* The driver and every tool keep running; no tool is bound to fail.
FairSpec == Spec /\ WF_vars(Driver) /\ \A t \in Tools : WF_vars(Works(t))

(***************************************************************************)
(* Properties.                                                             *)
(***************************************************************************)
Normal == ended \in {"ok", "fail"}

\* Types of the variables.
TypeOK ==
  /\ cmd \in Scenarios
  /\ pc \in {"main", "build", "spawn", "wait", "link", "exit"}
  /\ todo \in Seq(Sources) /\ tool \in Tools \cup {LAST}
  /\ fdin \in Tools \cup {NONE} /\ failed \in Tools \cup {LAST} /\ failure \in {0, 1}
  /\ \A t \in Tools : /\ proc[t].st \in {"none", "new", "run", "ok", "bad"}
                      /\ proc[t].file \in Files \cup {NONE}
                      /\ buf[t] \in 0 .. Cap
                      /\ rd[t] \cup wr[t] \subseteq Tools \cup {DRIVER}
  /\ DOMAIN disk \subseteq Files /\ \A f \in DOMAIN disk : disk[f] \subseteq Sources
  /\ objtmp \subseteq Files

\* The files that the command line asks for, and the sources of each.
ObjectWanted(f) == /\ Flag("c") /\ ~Flag("E") /\ ~Flag("M")
                   /\ Kind[f] # LD /\ (Flag("S") => Kind[f] = AS)
Wanted(f) == {x \in {OUT, Made(f, "s"), Made(f, "o")} :
  \/ x = OUT /\ Flag("o") /\ (Flag("E") \/ ObjectWanted(f))
  \/ x = Made(f, "s") /\ Flag("S") /\ ~Flag("E") /\ Kind[f] \notin {AS, LD}
  \/ x = Made(f, "o") /\ ~Flag("o") /\ ObjectWanted(f)}

\* Does a later file of the command line have the name of file i, but for its
\* directory and suffix?  What is made of it then overwrites what was made of i.
Overwritten(i) == \E j \in i + 1 .. Len(cmd.files) : Base[cmd.files[j]] = Base[cmd.files[i]]

\* When the driver exits 0, every file it was asked for is there and was made
\* from the whole of its source, although no tool can tell a truncated input
\* from a whole one; where two files ask for the same one, a later one may have
\* it.  The executable was made from all the files, but for objects that -k made
\* under one name.
SuccessMeansWhole ==
  ended = "ok" =>
    /\ \A i \in DOMAIN cmd.files : \A x \in Wanted(cmd.files[i]) :
         /\ x \in DOMAIN disk
         /\ \E j \in i .. Len(cmd.files) : x \in Wanted(cmd.files[j]) /\ disk[x] = {cmd.files[j]}
    /\ Linking =>
         /\ OUT \in DOMAIN disk /\ disk[OUT] \subseteq ToSet(cmd.files)
         /\ \A i \in DOMAIN cmd.files :
              cmd.files[i] \in disk[OUT] \/ (Flag("k") /\ Overwritten(i))

\* After an exit, whatever failed, no file is left that was made from a part
\* of its input.
NothingTruncated ==
  Normal => \A f \in DOMAIN disk : disk[f] # {}

\* After an exit no temporary object is left.
TemporariesRemoved ==
  Normal /\ Linking /\ ~Flag("k") => \A f \in DOMAIN disk : ~IsTmp(f)

\* After an exit nothing is left that was not asked for.
CleanAfterExit == TypeOK /\ NothingTruncated /\ TemporariesRemoved

\* Every tool keeps the read end of the pipe it writes to, so when the tool after
\* it dies early its writes block instead of failing.
BlocksItself(t) == proc[t].st = "run" /\ proc[t].n < cmd.size /\ buf[t] = Cap /\ rd[t] = {t}

\* The driver ends: no tool is left waiting on a pipe, but for one that waits for
\* itself to read.
DriverEnds == <>(~Running \/ \E t \in Tools : BlocksItself(t))
=============================================================================
