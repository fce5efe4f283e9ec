----------------------------- MODULE MakeBuild ------------------------------
(***************************************************************************)
(* scc-make bringing its targets up to date: build(), rebuild(), update(), *)
(* inference(), run(), execline(), touch() and cleanup() of rules.c,       *)
(* launch() of posix.c, the signal handler and the target loop of main.c.  *)
(*                                                                         *)
(* Three actors share the state: make itself, the shell it forked, and the *)
(* user, who sends signals at any moment and may run make again.  The      *)
(* makefile is a constant: what addtarget(), adddep() and addrule() left   *)
(* (module MakeRules).  A command is what it does to the world: it may     *)
(* write the file called $@, and it ends well or badly.                    *)
(*                                                                         *)
(* rebuild() is recursive; its activation records are the variable stack.  *)
(***************************************************************************)
EXTENDS Integers, Sequences, SequencesExt

CONSTANTS
  Names,       \* names of files and targets
  Rules,       \* names of inference rules, such as ".c.o"
  NONE,        \* no name
  Makefiles,   \* Makefiles[m]: what the makefile m says, as module MakeRules reads it:
               \*   deps[t]: the prerequisites of t, in order
               \*   recipe[r]: the commands of the target, rule or .DEFAULT r
               \*   candidates[t]: <<rule, prerequisite>> by order of .SUFFIXES
               \*   defined: names that are target of some rule, and ".DEFAULT"
               \*   precious, ignored, silenced: prerequisites of .PRECIOUS, .IGNORE, .SILENT
               \*   dirs: names that are directories
  Scenarios,   \* what the user does: the makefile, targets and options of the command line,
               \* signals sent per run of make, files (modification times) at the
               \* start, and files edited between two runs
  MaxRounds    \* runs of make

DEFAULT == ".DEFAULT"

ASSUME MakefileAssumption == \A m \in DOMAIN Makefiles :
  /\ Makefiles[m].deps \in [Names -> Seq(Names)]
  /\ Makefiles[m].recipe \in [Names \cup Rules \cup {DEFAULT} -> Seq([plus : BOOLEAN, minus : BOOLEAN, writes : BOOLEAN])]
  /\ Makefiles[m].candidates \in [Names -> Seq(Rules \X Names)]
ASSUME ScenarioAssumption == \A s \in Scenarios :
  /\ s.mk \in DOMAIN Makefiles /\ s.goals \in Seq(Names) /\ s.flags \subseteq {"k", "i", "n", "q", "t"}
  /\ s.signals \in Nat /\ s.edits \subseteq Names /\ s.file \in [Names -> Int]
ASSUME NamesAssumption   == NONE \notin Names \cup Rules /\ DEFAULT \notin Names \cup Rules

VARIABLES
  file,        \* file[n]: modification time of n, -1 when there is no such file
  clock,       \* the last modification time given
  user,        \* the scenario
  stamp,       \* stamp[t]: the member stamp of t in make's memory
  goals,       \* targets still to build
  stack,       \* activations of rebuild(): target, next prerequisite, need, err
  job,         \* activation of run(): rule, $@, $<, next file to touch, next command,
               \* $@ was written, a signal cut a command short
  pc,          \* where make is
  child,       \* the forked process: none, new (before execve), run (the shell),
               \* term (the shell was sent SIGTERM), ok, fail
  stop,        \* a signal has been caught
  exitstatus,
  outcome,     \* running, ok, fail (exit 1), error (error()), killed
  round, nsig, \* runs of make so far, signals in this one
  \* History, for the properties only:
  cut,         \* files left half written by a recipe that a signal cut short
  done,        \* targets rebuild() returned 0 for, in this run of make
  failed,      \* rules or targets whose recipe failed, in this run of make
  ran,         \* targets with a command started in this run of make
  late,        \* commands started after the signal was caught
  quiet        \* the run before this one ended well with all its targets on
               \* disk, and nothing changed since

disk    == <<file, clock>>
memory  == <<user, stamp, goals, stack, job, pc, exitstatus>>
history == <<cut, done, failed, ran, late, quiet>>
vars    == <<disk, memory, child, stop, outcome, round, nsig, history>>

NoJob  == [rule |-> NONE, tgt |-> NONE, req |-> NONE, d |-> 1, a |-> 1, wrote |-> FALSE, cut |-> FALSE]
top    == stack[Len(stack)]
Running == outcome = "running"
Flag(c) == c \in user.flags
Goals   == user.goals

\* The makefile.
Deps       == Makefiles[user.mk].deps
Recipe     == Makefiles[user.mk].recipe
Candidates == Makefiles[user.mk].candidates
Defined    == Makefiles[user.mk].defined
Precious   == Makefiles[user.mk].precious
Ignored    == Makefiles[user.mk].ignored
Silenced   == Makefiles[user.mk].silenced
Dirs       == Makefiles[user.mk].dirs

Init ==
  /\ user \in Scenarios
  /\ file = user.file /\ clock = 2
  /\ stamp = [n \in Names |-> -1]
  /\ goals = Goals /\ stack = <<>> /\ job = NoJob /\ pc = "goal"
  /\ child = "none" /\ stop = FALSE /\ exitstatus = 0 /\ outcome = "running"
  /\ round = 1 /\ nsig = 0
  /\ cut = {} /\ done = {} /\ failed = {} /\ ran = {} /\ late = 0 /\ quiet = FALSE

(***************************************************************************)
(* Ways to end.                                                            *)
(***************************************************************************)
Exit(how) ==
  /\ outcome' = how
  /\ UNCHANGED <<disk, memory, child, stop, round, nsig, history>>

\* cleanup(): remove the file called name unless something protects it, then
\* die of the signal.  An inference rule's name is not a file.
Spared(name) == name \in Precious \cup Dirs \/ Flag("n") \/ Flag("q")

\* The file that the recipe in progress has written to.
Half == IF job.wrote THEN {job.tgt} ELSE {}

\* What is left half written when the recipe has ended.
HalfLeft == IF job.cut THEN cut \cup Half ELSE cut \ Half

cleanup(name) ==
  LET gone == IF name \in Names /\ ~Spared(name) THEN {name} ELSE {}
  IN /\ file' = [n \in Names |-> IF n \in gone THEN -1 ELSE file[n]]
     /\ cut' = (cut \cup Half) \ gone
     /\ outcome' = "killed"
     /\ UNCHANGED <<clock, memory, child, stop, round, nsig, done, failed, ran, late, quiet>>

(***************************************************************************)
(* rebuild().                                                              *)
(***************************************************************************)
Call(t, below) ==
  /\ stamp' = [stamp EXCEPT ![t] = file[t]]
  /\ stack' = Append(below, [t |-> t, i |-> 1, need |-> FALSE, err |-> FALSE])
  /\ pc' = "dep"

\* rebuild() returns r to the activation below, or to main(); built is *buildp.
Return(r, built) ==
  LET below == Front(stack)
      me    == top.t
      up    == below[Len(below)]
      newer == stamp[me] > stamp[up.t]
  IN /\ done' = IF r = 0 THEN done \cup {me} ELSE done \ {me}
     /\ IF below = <<>>
        THEN stack' = <<>> /\ pc' = "goal"
        ELSE /\ stack' = [below EXCEPT ![Len(below)] =
                  [up EXCEPT !.i = @ + 1,
                             !.err = @ \/ r # 0,
                             !.need = @ \/ (r = 0 /\ (built \/ newer))]]
             /\ pc' = "dep"

\* main(): the next target of the command line, or exit(exitstatus).
nextGoal ==
  /\ Running /\ pc = "goal"
  /\ \/ /\ goals # <<>>
        /\ goals' = Tail(goals)
        /\ Call(Head(goals), <<>>)
        /\ UNCHANGED <<disk, user, job, exitstatus, child, stop, outcome, round, nsig, history>>
     \/ /\ goals = <<>>
        /\ Exit(IF exitstatus = 0 THEN "ok" ELSE "fail")

\* One turn of the loop over the prerequisites.
nextDep ==
  /\ Running /\ pc = "dep"
  /\ IF top.i > Len(Deps[top.t])
     THEN /\ pc' = "decide"
          /\ UNCHANGED <<disk, user, stamp, goals, stack, job, exitstatus, child, stop,
                         outcome, round, nsig, history>>
     ELSE IF stop THEN cleanup(top.t)
     ELSE /\ Call(Deps[top.t][top.i], stack)
          /\ UNCHANGED <<disk, user, goals, job, exitstatus, child, stop, outcome, round,
                         nsig, history>>

\* inference(): the candidates whose rule has commands and whose prerequisite
\* exists (and is newer, unless forced); the first one is taken.
Usable(t, force) ==
  {i \in DOMAIN Candidates[t] :
     LET rule == Candidates[t][i][1]
         req  == Candidates[t][i][2]
     IN /\ Recipe[rule] # <<>>
        /\ file[req] # -1
        /\ force \/ file[req] > stamp[t]}

inference(t) ==
  Candidates[t][CHOOSE i \in Usable(t, TRUE) : \A j \in Usable(t, TRUE) : i <= j]

StartRun(rule, tgt, req) ==
  /\ job' = [NoJob EXCEPT !.rule = rule, !.tgt = tgt, !.req = req]
  /\ pc' = IF Flag("t") THEN "touchdeps" ELSE "act"
  /\ UNCHANGED <<disk, user, stamp, goals, stack, exitstatus, child, stop, outcome, round,
                 nsig, history>>

Done(built) ==
  /\ Return(0, built)
  /\ job' = NoJob
  /\ UNCHANGED <<disk, user, stamp, goals, exitstatus, child, stop, outcome, round, nsig,
                 cut, failed, ran, late, quiet>>

update(t) ==
  IF Recipe[t] # <<>> THEN StartRun(t, t, NONE)
  ELSE IF Usable(t, TRUE) # {}
  THEN StartRun(inference(t)[1], t, inference(t)[2])
  ELSE IF DEFAULT \in Defined THEN StartRun(DEFAULT, NONE, NONE)
  ELSE IF t \notin Defined THEN Exit("error")
  ELSE Done(TRUE)

NotRemade ==
  /\ Return(1, FALSE)
  /\ UNCHANGED <<disk, user, stamp, goals, job, exitstatus, child, stop, outcome, round,
                 nsig, cut, failed, ran, late, quiet>>

\* Mutant of Needed: no look at the file an inference rule starts from.
NeededByDeps == top.need \/ stamp[top.t] = -1

Needed == top.need \/ stamp[top.t] = -1 \/ Usable(top.t, FALSE) # {}

\* Mutant of decide: a target is remade in spite of errors below it.
decideInSpite ==
  /\ Running /\ pc = "decide"
  /\ IF Needed THEN update(top.t) ELSE Done(FALSE)

decide ==
  /\ Running /\ pc = "decide"
  /\ IF top.err THEN NotRemade
     ELSE IF Needed THEN update(top.t)
     ELSE Done(FALSE)

(***************************************************************************)
(* run() and execline().                                                   *)
(***************************************************************************)

\* The target is given up: make goes on with -k, and ends otherwise.
GiveUpTarget ==
  /\ failed' = failed \cup {job.rule}
  /\ cut' = IF job.cut THEN cut \cup Half ELSE cut
  /\ IF Flag("k")
     THEN /\ Return(1, TRUE)
          /\ job' = NoJob
          /\ UNCHANGED <<disk, user, stamp, goals, child, stop, outcome, round, nsig, ran,
                         late, quiet>>
     ELSE /\ outcome' = "error"
          /\ UNCHANGED <<disk, user, stamp, goals, stack, job, pc, child, stop, round,
                         nsig, done, ran, late, quiet>>

\* Mutants of Fail: the exit status is not set; the signal that may have caused
\* the failure is not looked at.
FailSilently  == IF stop THEN cleanup(top.t) ELSE GiveUpTarget /\ UNCHANGED exitstatus
FailUnchecked == GiveUpTarget /\ exitstatus' = 1

\* run() returned an error to rebuild().
Fail == IF stop THEN cleanup(top.t) ELSE GiveUpTarget /\ exitstatus' = 1

\* Writing n: modification times have a coarse grain, two may be equal.
Write(ns) ==
  \E tick \in {0, 1} :
    /\ clock' = clock + tick
    /\ file' = [n \in Names |-> IF n \in ns THEN clock' ELSE file[n]]

\* The files touchdeps() touches.
Touched == (IF job.req = NONE THEN <<>> ELSE <<job.req>>)
           \o (IF job.rule = DEFAULT THEN <<>> ELSE Deps[top.t])

\* Is a failure of touch() in touchdeps() ignored?  It gets silent and ignore
\* in each other's place.
TouchIgnored == job.rule \in Silenced \/ Flag("i")

\* touchdeps(): the next prerequisite; system() may fail.
touchdeps ==
  /\ Running /\ pc = "touchdeps"
  /\ \/ /\ job.d > Len(Touched)
        /\ pc' = "act"
        /\ UNCHANGED <<disk, job>>
        /\ UNCHANGED <<user, stamp, goals, stack, exitstatus, child, stop, outcome, round,
                       nsig, history>>
     \/ /\ job.d <= Len(Touched)
        /\ \/ Write({Touched[job.d]})
           \/ TouchIgnored /\ UNCHANGED disk
        /\ job' = [job EXCEPT !.d = @ + 1]
        /\ UNCHANGED <<user, stamp, goals, stack, pc, exitstatus, child, stop, outcome, round,
                       nsig, history>>
     \/ job.d <= Len(Touched) /\ ~TouchIgnored /\ Fail

\* run() returned 0 to rebuild().
RanWhole ==
  /\ Return(0, TRUE)
  /\ job' = NoJob
  /\ cut' = HalfLeft
  /\ UNCHANGED <<user, stamp, goals, exitstatus, child, stop, outcome, round, nsig, failed,
                 ran, late, quiet>>

\* One turn of the loop over the commands, or the end of it.
nextAction ==
  /\ Running /\ pc = "act"
  /\ IF job.a > Len(Recipe[job.rule])
     THEN /\ pc' = "ran"
          /\ UNCHANGED <<disk, user, stamp, goals, stack, job, exitstatus, child, stop,
                         outcome, round, nsig, history>>
     ELSE IF stop THEN cleanup(job.rule)
     ELSE /\ pc' = "exec"
          /\ UNCHANGED <<disk, user, stamp, goals, stack, job, exitstatus, child, stop,
                         outcome, round, nsig, history>>

\* run() ends: with -t the target is touched.
ranAll ==
  /\ Running /\ pc = "ran"
  /\ \/ /\ IF Flag("t") THEN Write({job.tgt} \cap Names) ELSE UNCHANGED disk
        /\ RanWhole
     \/ /\ Flag("t") /\ (job.rule \in Ignored \/ Flag("i"))
        /\ UNCHANGED disk
        /\ RanWhole
     \/ /\ Flag("t") /\ job.rule \notin Ignored /\ ~Flag("i")
        /\ Fail

cmd     == Recipe[job.rule][job.a]

Ignore  == cmd.minus \/ Flag("i") \/ job.rule \in Ignored
Skipped == ~cmd.plus /\ (Flag("t") \/ Flag("n") \/ Flag("q"))

\* execline() without running the command.
skipCommand ==
  /\ Running /\ pc = "exec"
  /\ Skipped
  /\ exitstatus' = IF Flag("q") /\ ~Flag("t") THEN 1 ELSE exitstatus
  /\ job' = [job EXCEPT !.a = @ + 1]
  /\ pc' = "act"
  /\ UNCHANGED <<disk, user, stamp, goals, stack, child, stop, outcome, round, nsig, history>>

\* The result of launch() reaches execline() and run().
Result(r) ==
  IF r = 0 \/ Ignore
  THEN /\ job' = [job EXCEPT !.a = @ + 1]
       /\ pc' = "act"
       /\ UNCHANGED <<disk, user, stamp, goals, stack, exitstatus, stop, outcome, round,
                      nsig, history>>
       /\ child' = "none"
  ELSE Fail

\* launch(): fork, which may fail.
fork ==
  /\ Running /\ pc = "exec"
  /\ ~Skipped
  /\ \/ /\ child' = "new"
        /\ pc' = "forked"
        /\ ran' = ran \cup {top.t}
        /\ late' = IF stop THEN late + 1 ELSE late
        /\ UNCHANGED <<disk, user, stamp, goals, stack, job, exitstatus, stop, outcome,
                       round, nsig, cut, done, failed, quiet>>
     \/ Result(-1)

\* The parent enters wait(): from here on a signal interrupts it.
enterWait ==
  /\ Running /\ pc = "forked"
  /\ pc' = "wait"
  /\ UNCHANGED <<disk, user, stamp, goals, stack, job, exitstatus, child, stop, outcome,
                 round, nsig, history>>

reap ==
  /\ Running /\ pc \in {"wait", "wait2"}
  /\ child \in {"ok", "fail"}
  /\ Result(IF child = "ok" THEN 0 ELSE 1)

\* Mutant of terminate: wait() is called until it succeeds, on the same child.
terminateAgain ==
  /\ Running /\ pc = "eintr"
  /\ child' = IF child = "run" THEN "term" ELSE child
  /\ UNCHANGED <<disk, memory, stop, outcome, round, nsig, history>>

\* wait() failed: terminate the child and wait again.  Before execve() the
\* child still has make's handler, and the signal is lost on it.
terminate ==
  /\ Running /\ pc = "eintr"
  /\ child' = IF child = "run" THEN "term" ELSE child
  /\ pc' = "wait2"
  /\ UNCHANGED <<disk, user, stamp, goals, stack, job, exitstatus, stop, outcome, round,
                 nsig, history>>

\* The second wait() failed too: st has no value, and the child is not reaped.
giveUp ==
  /\ Running /\ pc = "lost"
  /\ \E st \in {0, 1} : Result(st)

(***************************************************************************)
(* The shell.                                                              *)
(***************************************************************************)
ChildUnchanged == UNCHANGED <<user, stamp, goals, stack, exitstatus, pc, stop, outcome,
                              round, nsig, done, failed, ran, late, quiet, cut>>

childExecs ==
  /\ child = "new"
  /\ child' = "run"
  /\ UNCHANGED <<disk, job>> /\ ChildUnchanged

childWrites ==
  /\ child = "run" /\ cmd.writes /\ ~job.wrote
  /\ IF job.tgt # NONE THEN Write({job.tgt}) ELSE UNCHANGED disk
  /\ job' = [job EXCEPT !.wrote = job.tgt # NONE]
  /\ UNCHANGED child /\ ChildUnchanged

childEnds ==
  /\ child = "run"
  /\ \/ child' = "ok" /\ (cmd.writes /\ job.tgt # NONE => job.wrote)
     \/ child' = "fail"
  /\ UNCHANGED <<disk, job>> /\ ChildUnchanged

childTerminated ==
  /\ child = "term"
  /\ child' = "fail"
  /\ job' = [job EXCEPT !.cut = TRUE]
  /\ UNCHANGED disk /\ ChildUnchanged

(***************************************************************************)
(* The user: signals, to make alone or to its process group, and a new run *)
(* of make, perhaps after editing a file.                                  *)
(***************************************************************************)
signal(group) ==
  /\ Running /\ nsig < user.signals
  /\ nsig' = nsig + 1
  /\ stop' = TRUE
  /\ child' = IF group /\ child = "run" THEN "fail" ELSE child
  /\ job' = IF group /\ child = "run" THEN [job EXCEPT !.cut = TRUE] ELSE job
  /\ pc' \in IF pc \notin {"wait", "wait2"} \/ child \in {"ok", "fail"} THEN {pc}
             ELSE {IF pc = "wait" THEN "eintr" ELSE "lost"}
                  \cup IF group /\ child = "run" THEN {pc} ELSE {}
  /\ UNCHANGED <<disk, user, stamp, goals, stack, exitstatus, outcome, round, history>>

again ==
  /\ ~Running /\ round < MaxRounds
  /\ round' = round + 1
  /\ \E edited \in {{}} \cup {{s} : s \in user.edits} :
       /\ IF edited = {} THEN UNCHANGED disk ELSE Write(edited)
       /\ quiet' = (edited = {} /\ outcome = "ok" /\ nsig = 0 /\ \A n \in done : file[n] # -1)
  /\ stamp' = [n \in Names |-> -1]
  /\ goals' = Goals /\ stack' = <<>> /\ job' = NoJob /\ pc' = "goal"
  /\ child' = "none" /\ stop' = FALSE /\ exitstatus' = 0 /\ outcome' = "running"
  /\ nsig' = 0 /\ done' = {} /\ failed' = {} /\ ran' = {} /\ late' = 0
  /\ UNCHANGED <<user, cut>>

Make ==
  \/ nextGoal
  \/ nextDep
  \/ decide
  \/ touchdeps
  \/ nextAction
  \/ ranAll
  \/ skipCommand
  \/ fork
  \/ enterWait
  \/ reap
  \/ terminate
  \/ giveUp

Child == childExecs \/ childWrites \/ childEnds \/ childTerminated
User  == (\E group \in BOOLEAN : signal(group)) \/ again
Stopped == ~Running /\ round = MaxRounds /\ UNCHANGED vars

Next == Make \/ Child \/ User \/ Stopped

Spec == Init /\ [][Next]_vars

\* make is never preempted for ever, and every command ends.
FairSpec == Spec /\ WF_vars(Make) /\ WF_vars(Child)

(***************************************************************************)
(* Properties.                                                             *)
(***************************************************************************)
Frame == [t : Names, i : Nat \ {0}, need : BOOLEAN, err : BOOLEAN]

\* Type invariant: in particular a failure of any kind is exit status 1.
TypeOK ==
  /\ file \in [Names -> Int] /\ clock \in Nat
  /\ user \in Scenarios /\ stamp \in [Names -> Int]
  /\ goals \in Seq(Names) /\ stack \in Seq(Frame)
  /\ job.rule \in Names \cup Rules \cup {DEFAULT, NONE}
  /\ job.tgt \in Names \cup {NONE} /\ job.req \in Names \cup {NONE}
  /\ pc \in {"goal", "dep", "decide", "touchdeps", "act", "ran", "exec", "forked", "wait",
             "eintr", "wait2", "lost"}
  /\ child \in {"none", "new", "run", "term", "ok", "fail"}
  /\ stop \in BOOLEAN /\ exitstatus \in {0, 1}
  /\ outcome \in {"running", "ok", "fail", "error", "killed"}
  /\ cut \subseteq Names /\ done \subseteq Names /\ ran \subseteq Names

\* A command of a target runs only when rebuild() of every prerequisite has
\* returned without error and is not in progress.
BuildsInOrder ==
  child \in {"new", "run"} /\ Running =>
    \A d \in ToSet(Deps[top.t]) : d \in done /\ \A k \in DOMAIN stack : stack[k].t # d

\* make exits 0 only when every goal was brought up to date and no command
\* whose errors count failed; it exits 1 with a reason.
ExitStatusHonest ==
  /\ outcome = "ok" => ToSet(Goals) \subseteq done /\ failed = {}
  /\ outcome = "fail" => failed # {} \/ Flag("q")

\* The rules that write the file t, by hand or by inference.
Makes(t) == IF Recipe[t] # <<>> THEN {<<t, t>>} ELSE {Candidates[t][i] : i \in Usable(t, TRUE)}
Written(t) == \E m \in Makes(t) : \E i \in DOMAIN Recipe[m[1]] : Recipe[m[1]][i].writes
Honest == /\ user.flags \cap {"n", "t", "i"} = {} /\ Ignored = {}
          /\ \A r \in DOMAIN Recipe : \A i \in DOMAIN Recipe[r] :
               Recipe[r][i].writes => ~Recipe[r][i].minus

\* When make ends, a target it brought up to date exists and is not older than
\* its prerequisites, nor than the files an inference rule would make it from;
\* with -k this holds of every target it did not give up.
UpToDate ==
  Honest /\ (outcome = "ok" \/ (outcome = "fail" /\ ~Flag("q"))) =>
    \A t \in done : Written(t) =>
      /\ file[t] # -1
      /\ \A d \in ToSet(Deps[t]) : Written(d) \/ Recipe[d] = <<>> => file[d] <= file[t]
      /\ \A i \in Usable(t, TRUE) : file[Candidates[t][i][2]] <= file[t]

\* Running make again when all its targets are files and nothing changed
\* starts no command.
Idempotent == Honest /\ quiet => ran = {}

\* The errors of the last command of t's recipe do not count: run() takes a
\* command that a signal cut short for one that ended well.
Forgiven(t) == Flag("i") \/ t \in Ignored \/ (Recipe[t] # <<>> /\ Last(Recipe[t]).minus)

\* When make has ended, no file is left that a signal found half written,
\* except those of .PRECIOUS, directories, and under -n and -q; those made by
\* an inference rule, whose name run() gives to cleanup() in place of the file's;
\* and those whose last command is forgiven.  A second signal may come while
\* launch() waits again: it then takes a status that was never given.
InterruptedRemoved ==
  ~Running => \A n \in cut : Spared(n) \/ Recipe[n] = <<>> \/ Forgiven(n) \/ user.signals > 1

\* After the signal is caught at most one more command is started.
OneStartAfterSignal == late <= 1

\* A target of .IGNORE never fails, except under -t: touchdeps() gives touch()
\* silent for ignore.
IgnoredNeverFails == Flag("t") \/ failed \cap Ignored = {}

\* At every moment of a build: the state has its type, commands run in the order
\* of the prerequisites, and the failures counted are those that count.
BuildInv == TypeOK /\ BuildsInOrder /\ IgnoredNeverFails

\* make does what is needed and no more: what it brought up to date is, and with
\* all its targets up to date it starts nothing.
UpToDateOnce == UpToDate /\ Idempotent

\* A signal, at any moment, stops make after at most one more command and leaves
\* no half-written target behind.
SignalsHandled == InterruptedRemoved /\ OneStartAfterSignal

\* make ends, whatever the signals and the failures.
MakeEnds == []<>~Running
=============================================================================
