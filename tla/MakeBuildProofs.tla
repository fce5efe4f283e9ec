--------------------------- MODULE MakeBuildProofs --------------------------
(***************************************************************************)
(* What make does with a target, proved for any makefiles, files, command  *)
(* lines, failures and signals: commands run in the order of the           *)
(* prerequisites, the exit status tells the truth, and a signal leaves no  *)
(* half-written target but those that SignalsHandled names.                *)
(***************************************************************************)
EXTENDS MakeBuild, TLAPS, WellFoundedInduction, SequenceTheorems

Job == [rule : Names \cup Rules \cup {DEFAULT, NONE}, tgt : Names \cup {NONE},
        req : Names \cup {NONE}, d : Nat, a : Nat, wrote : BOOLEAN, cut : BOOLEAN]

\* Where make is between two recipes, and while a command runs.
Idle     == {"goal", "dep", "decide"}
Awaiting == {"forked", "wait", "eintr", "wait2", "lost"}

\* The recipe in progress is the one that update() chose for the target on top.
JobFits ==
  /\ \/ job.rule \in Names /\ job.rule = top.t /\ job.tgt = top.t
     \/ job.rule \in Rules /\ job.tgt = top.t /\ Recipe[top.t] = <<>>
     \/ job.rule = DEFAULT /\ job.tgt = NONE
  /\ job.a \in 1 .. Len(Recipe[job.rule]) + 1
  /\ pc \in {"exec"} \cup Awaiting => job.a <= Len(Recipe[job.rule])
  /\ pc = "ran" => job.a = Len(Recipe[job.rule]) + 1
  /\ job.wrote => job.tgt \in Names

\* How the place in the code, the activations, the recipe and the child agree.
Shape ==
  /\ job \in Job
  /\ pc = "goal" <=> stack = <<>>
  /\ pc \in Idle => job = NoJob
  /\ pc \notin Idle => JobFits
  /\ pc \notin {"goal", "dep"} => top.i > Len(Deps[top.t])
  /\ child \in {"new", "run", "term"} => pc \in Awaiting
  /\ pc \in {"eintr", "wait2", "lost"} => stop

Typed == TypeOK /\ Shape

\* Do the errors of command i of the recipe r not count?
Forgiving(r, i) == Recipe[r][i].minus \/ Flag("i") \/ r \in Ignored

\* Files that a signal may leave half written.
Accounted(n) == Spared(n) \/ Recipe[n] = <<>> \/ Forgiven(n) \/ user.signals > 1

\* What a signal changes: where it may be seen, how many commands start after
\* it, that a command cut short is followed by cleanup() or was forgiven, and
\* what is left half written.
Signalled ==
  /\ nsig \in 0 .. user.signals
  /\ stop <=> nsig > 0
  /\ pc \in {"eintr", "wait2"} => nsig > 0
  /\ pc = "lost" => nsig > 1
  /\ child = "term" \/ job.cut => nsig > 0
  /\ late = 0 \/ (late = 1 /\ nsig > 0 /\ pc # "exec")
  /\ pc \in {"touchdeps", "exec"} => ~job.cut
  /\ pc \in Awaiting /\ child # "fail" => ~job.cut
  /\ pc \in {"act", "ran"} /\ job.cut =>
       job.a > 1 /\ (Forgiving(job.rule, job.a - 1) \/ user.signals > 1)
  /\ \A n \in cut : Accounted(n)

\* No member of C can be rebuilt before another member of C is.
Trap(C) == \A t \in C : \E i \in DOMAIN Deps[t] : Deps[t][i] \in C

\* The activations are a chain of prerequisites; while no error is seen, what
\* an activation has passed is done; and nothing on a cycle is ever done.
InOrder ==
  /\ \A k \in 1 .. Len(stack) - 1 :
       stack[k].i <= Len(Deps[stack[k].t]) /\ stack[k + 1].t = Deps[stack[k].t][stack[k].i]
  /\ \A k \in DOMAIN stack : stack[k].i \in 1 .. Len(Deps[stack[k].t]) + 1
  /\ pc \notin Idle => ~top.err
  /\ \A k \in DOMAIN stack : (\A j \in k .. Len(stack) : ~stack[j].err) =>
       \A i \in 1 .. stack[k].i - 1 : Deps[stack[k].t][i] \in done
  /\ \A C \in SUBSET Names : Trap(C) => done \cap C = {}

\* While the exit status is 0 nothing has failed, and the goals are done, in
\* progress or to come; it is 1 with a reason; make exits with it.
Status ==
  /\ exitstatus = 0 =>
       /\ failed = {}
       /\ \A k \in DOMAIN stack : ~stack[k].err
       /\ ToSet(Goals) \subseteq done \cup ToSet(goals) \cup {stack[k].t : k \in {1} \cap DOMAIN stack}
  /\ exitstatus = 1 => failed # {} \/ Flag("q")
  /\ outcome = "ok" => exitstatus = 0 /\ goals = <<>> /\ stack = <<>>
  /\ outcome = "fail" => exitstatus = 1

(***************************************************************************)
(* The makefile, the stack and the ways a step changes them.               *)
(***************************************************************************)

\* The scenario in use has a makefile of its type.
LEMMA MakefileTyped ==
  ASSUME user \in Scenarios
  PROVE  /\ Deps \in [Names -> Seq(Names)]
         /\ Recipe \in [Names \cup Rules \cup {DEFAULT} -> Seq([plus : BOOLEAN, minus : BOOLEAN, writes : BOOLEAN])]
         /\ Candidates \in [Names -> Seq(Rules \X Names)]
         /\ Goals \in Seq(Names) /\ user.signals \in Nat /\ user.file \in [Names -> Int]
BY MakefileAssumption, ScenarioAssumption DEF Deps, Recipe, Candidates, Goals

\* inference() returns a rule and a prerequisite when there is a candidate.
LEMMA InferenceTyped ==
  ASSUME user \in Scenarios, NEW t \in Names, Usable(t, TRUE) # {}
  PROVE  inference(t) \in Rules \X Names
<1> DEFINE U == Usable(t, TRUE)
<1>1. Candidates[t] \in Seq(Rules \X Names)
  BY MakefileTyped
<1>2. U \subseteq DOMAIN Candidates[t] /\ DOMAIN Candidates[t] = 1 .. Len(Candidates[t]) /\ Len(Candidates[t]) \in Nat
  BY <1>1 DEF Usable
<1> HIDE DEF U
<1>3. U \subseteq Nat
  BY <1>2
<1>4. PICK m \in U : \A j \in U : ~ (<<j, m>> \in OpToRel(<, Nat))
  <2>1. U # {}
    BY DEF U
  <2> QED BY <1>3, <2>1, WFMin, NatLessThanWellFounded
<1>5. \A j \in U : m <= j
  <2> SUFFICES ASSUME NEW j \in U PROVE m <= j
    OBVIOUS
  <2>1. j \in Nat /\ m \in Nat
    BY <1>3
  <2>2. ~ (j < m)
    BY <1>4, <2>1 DEF OpToRel
  <2> QED BY <2>1, <2>2
<1> DEFINE i == CHOOSE k \in U : \A j \in U : k <= j
<1>6. i \in U
  BY <1>5
<1>7. inference(t) = Candidates[t][i]
  BY DEF inference, U
<1> HIDE DEF i
<1> QED BY <1>1, <1>2, <1>6, <1>7

\* The activations below the one on top.
LEMMA FrontFacts ==
  ASSUME NEW S, NEW s \in Seq(S), s # <<>>
  PROVE  /\ Front(s) \in Seq(S) /\ Len(s) \in Nat \ {0} /\ Len(Front(s)) = Len(s) - 1
         /\ \A k \in 1 .. Len(s) - 1 : Front(s)[k] = s[k]
         /\ s[Len(s)] \in S
<1>1. Len(s) \in Nat \ {0} /\ s[Len(s)] \in S
  OBVIOUS
<1>2. /\ SubSeq(s, 1, Len(s) - 1) \in Seq(S) /\ Len(SubSeq(s, 1, Len(s) - 1)) = Len(s) - 1
      /\ \A k \in 1 .. Len(s) - 1 : SubSeq(s, 1, Len(s) - 1)[k] = s[k]
  <2>1. \A i \in 1 .. Len(s) - 1 : s[i] \in S
    BY <1>1
  <2>2. 1 \in Int /\ Len(s) - 1 \in Int /\ Len(s) - 1 - 1 + 1 = Len(s) - 1
        /\ \A k \in 1 .. Len(s) - 1 : 1 + k - 1 = k
    BY <1>1
  <2> DEFINE n == Len(s) - 1
  <2> HIDE DEF n
  <2>3. /\ SubSeq(s, 1, n) \in Seq(S) /\ Len(SubSeq(s, 1, n)) = IF 1 <= n THEN n - 1 + 1 ELSE 0
        /\ \A k \in 1 .. n - 1 + 1 : SubSeq(s, 1, n)[k] = s[1 + k - 1]
    BY <2>1, <2>2, SubSeqProperties DEF n
  <2> QED BY <1>1, <2>2, <2>3 DEF n
<1> QED BY <1>1, <1>2 DEF Front

\* rebuild() returns: one activation less, and the one below is told.
LEMMA ReturnFacts ==
  ASSUME TypeOK, stack # <<>>, NEW r \in {0, 1}, NEW built \in BOOLEAN, Return(r, built)
  PROVE  /\ done' = IF r = 0 THEN done \cup {top.t} ELSE done \ {top.t}
         /\ top \in Frame /\ Len(stack) \in Nat \ {0}
         /\ stack' \in Seq(Frame) /\ Len(stack') = Len(stack) - 1
         /\ pc' = IF stack' = <<>> THEN "goal" ELSE "dep"
         /\ \A k \in 1 .. Len(stack) - 2 : stack'[k] = stack[k]
         /\ Len(stack) > 1 =>
              LET n == Len(stack) - 1
              IN /\ stack'[n].t = stack[n].t /\ stack'[n].i = stack[n].i + 1
                 /\ stack'[n].err = (stack[n].err \/ r # 0)
<1> DEFINE below == Front(stack)
           up    == below[Len(below)]
           new   == [up EXCEPT !.i = @ + 1, !.err = @ \/ r # 0,
                               !.need = @ \/ (r = 0 /\ (built \/ stamp[top.t] > stamp[up.t]))]
<1>1. /\ below \in Seq(Frame) /\ Len(stack) \in Nat \ {0} /\ Len(below) = Len(stack) - 1
      /\ \A k \in 1 .. Len(stack) - 1 : below[k] = stack[k]
      /\ top \in Frame
  BY FrontFacts DEF TypeOK, top
<1>2. /\ done' = IF r = 0 THEN done \cup {top.t} ELSE done \ {top.t}
      /\ IF below = <<>> THEN stack' = <<>> /\ pc' = "goal"
         ELSE stack' = [below EXCEPT ![Len(below)] = new] /\ pc' = "dep"
  BY DEF Return
<1>3. CASE below = <<>>
  <2>1. Len(stack) = 1 /\ stack' = <<>>
    BY <1>1, <1>2, <1>3
  <2> QED BY <1>1, <1>2, <1>3, <2>1
<1>4. CASE below # <<>>
  <2>1. Len(below) > 0 /\ up \in Frame /\ up = stack[Len(stack) - 1]
    BY <1>1, <1>4
  <2>2. (stamp[top.t] > stamp[up.t]) \in BOOLEAN
    BY <1>1, <2>1 DEF TypeOK, Frame
  <2>3. new \in Frame /\ new.t = up.t /\ new.i = up.i + 1 /\ new.err = (up.err \/ r # 0)
    <3> DEFINE more == r = 0 /\ (built \/ stamp[top.t] > stamp[up.t])
    <3>1. more \in BOOLEAN /\ (r # 0) \in BOOLEAN
      BY <2>2
    <3>2. new = [up EXCEPT !.i = @ + 1, !.err = @ \/ r # 0, !.need = @ \/ more]
      OBVIOUS
    <3>3. /\ up \in [t : Names, i : Nat \ {0}, need : BOOLEAN, err : BOOLEAN]
          /\ (up.err \/ r # 0) \in BOOLEAN /\ (up.need \/ more) \in BOOLEAN /\ up.i + 1 \in Nat \ {0}
      BY <2>1, <3>1 DEF Frame
    <3> HIDE DEF more, up, new
    <3> QED BY <3>2, <3>3 DEF Frame
  <2> HIDE DEF new, below, up
  <2>4. stack' = [below EXCEPT ![Len(below)] = new] /\ pc' = "dep"
    BY <1>2, <1>4
  <2>5. /\ stack' \in Seq(Frame) /\ Len(stack') = Len(below) /\ stack'[Len(below)] = new
        /\ \A k \in 1 .. Len(below) - 1 : stack'[k] = below[k]
    BY <1>1, <2>1, <2>3, <2>4
  <2>6. stack' # <<>>
    BY <2>1, <2>5, <1>1
  <2> QED BY <1>1, <1>2, <2>1, <2>3, <2>4, <2>5, <2>6
<1> QED BY <1>3, <1>4

\* rebuild() is called: one activation more, at its first prerequisite.
LEMMA CallFacts ==
  ASSUME TypeOK, NEW t \in Names, NEW below \in Seq(Frame), Call(t, below)
  PROVE  /\ stack' \in Seq(Frame) /\ Len(stack') = Len(below) + 1 /\ stack' # <<>>
         /\ \A k \in 1 .. Len(below) : stack'[k] = below[k]
         /\ stack'[Len(below) + 1] = [t |-> t, i |-> 1, need |-> FALSE, err |-> FALSE]
         /\ pc' = "dep" /\ stamp' \in [Names -> Int]
<1>1. [t |-> t, i |-> 1, need |-> FALSE, err |-> FALSE] \in Frame
  BY DEF Frame
<1>2. stamp' \in [Names -> Int]
  BY DEF TypeOK, Call
<1> QED BY <1>1, <1>2 DEF Call

\* A file is given a time.
LEMMA WriteTyped ==
  ASSUME TypeOK, NEW ns, Write(ns)
  PROVE  file' \in [Names -> Int] /\ clock' \in Nat
<1>1. PICK tick \in {0, 1} : clock' = clock + tick /\ file' = [n \in Names |-> IF n \in ns THEN clock' ELSE file[n]]
  BY DEF Write
<1> QED BY <1>1 DEF TypeOK

\* The makefile and the options are read once.
LEMMA MakefileKept ==
  ASSUME UNCHANGED user
  PROVE  /\ Deps' = Deps /\ Recipe' = Recipe /\ Goals' = Goals /\ Ignored' = Ignored
         /\ \A c : Flag(c)' <=> Flag(c)
         /\ \A n : Spared(n)' <=> Spared(n)
BY DEF Deps, Recipe, Goals, Ignored, Flag, Spared, Precious, Dirs

(***************************************************************************)
(* The state has its type, and its parts fit.                              *)
(***************************************************************************)
LEMMA NoJobTyped == NoJob \in Job
BY DEF NoJob, Job

LEMMA HalfTyped ==
  ASSUME Typed
  PROVE  Half \subseteq Names /\ HalfLeft \subseteq Names
BY DEF Typed, TypeOK, Shape, JobFits, Half, HalfLeft, NoJob

\* Everything but the outcome, the files and the files left half written stays.
LEMMA EndTyped ==
  ASSUME Typed, NEW how \in {"ok", "fail", "error", "killed"}, outcome' = how,
         UNCHANGED <<clock, user, stamp, goals, stack, job, pc, exitstatus, child, stop, done, ran>>,
         file' \in [Names -> Int], cut' \subseteq Names
  PROVE  Typed'
<1>1. TypeOK'
  BY DEF Typed, TypeOK
<1>2. Shape'
  BY MakefileKept DEF Typed, Shape, JobFits, top
<1> QED BY <1>1, <1>2 DEF Typed

LEMMA ExitTyped ==
  ASSUME Typed, NEW how \in {"ok", "fail", "error"}, Exit(how)
  PROVE  Typed'
BY EndTyped DEF Exit, disk, memory, history, Typed, TypeOK

LEMMA CleanupTyped ==
  ASSUME Typed, NEW name, cleanup(name)
  PROVE  Typed'
<1>1. /\ \E gone : /\ file' = [n \in Names |-> IF n \in gone THEN -1 ELSE file[n]]
                   /\ cut' = (cut \cup Half) \ gone
      /\ outcome' = "killed"
      /\ UNCHANGED <<clock, user, stamp, goals, stack, job, pc, exitstatus, child, stop, done, ran>>
  BY DEF cleanup, memory
<1>2. file' \in [Names -> Int] /\ cut' \subseteq Names
  BY <1>1, HalfTyped DEF Typed, TypeOK
<1> QED BY <1>1, <1>2, EndTyped

\* A recipe or a decision is over: rebuild() has returned.
LEMMA ReturnTyped ==
  ASSUME Typed, pc \notin {"goal"}, child \notin {"new", "run", "term"},
         NEW r \in {0, 1}, NEW built \in BOOLEAN, Return(r, built), job' = NoJob,
         UNCHANGED <<user, stamp, goals, child, stop, outcome, ran>>,
         file' \in [Names -> Int], clock' \in Nat, exitstatus' \in {0, 1}, cut' \subseteq Names
  PROVE  Typed'
<1>1. stack # <<>> /\ TypeOK
  BY DEF Typed, Shape
<1>2. stack' \in Seq(Frame) /\ top.t \in Names /\ done' \subseteq Names
      /\ pc' = IF stack' = <<>> THEN "goal" ELSE "dep"
  BY <1>1, ReturnFacts DEF TypeOK, Frame
<1>3. TypeOK'
  BY <1>1, <1>2, NoJobTyped DEF TypeOK, NoJob
<1>4. Shape'
  BY <1>2, NoJobTyped DEF Typed, Shape, Idle, Awaiting
<1> QED BY <1>3, <1>4 DEF Typed

LEMMA DoneTyped ==
  ASSUME Typed, pc \notin {"goal"}, child \notin {"new", "run", "term"},
         NEW built \in BOOLEAN, Done(built)
  PROVE  Typed'
<1>1. UNCHANGED <<file, clock, user, stamp, goals, child, stop, outcome, ran, exitstatus, cut>> /\ job' = NoJob /\ Return(0, built)
  BY DEF Done, disk
<1>2. file' \in [Names -> Int] /\ clock' \in Nat /\ exitstatus' \in {0, 1} /\ cut' \subseteq Names
  BY <1>1 DEF Typed, TypeOK
<1> QED BY <1>1, <1>2, ReturnTyped

LEMMA FailTyped ==
  ASSUME Typed, pc \notin Idle, child \in {"new", "run", "term"} => stop, Fail
  PROVE  Typed'
<1>1. CASE stop
  BY <1>1, CleanupTyped DEF Fail
<1>2. CASE ~stop
  <2>1. GiveUpTarget /\ exitstatus' = 1
    BY <1>2 DEF Fail
  <2>2. cut' \subseteq Names
    BY <2>1, HalfTyped DEF GiveUpTarget, Typed, TypeOK
  <2>3. file' \in [Names -> Int] /\ clock' \in Nat
    BY <2>1 DEF GiveUpTarget, disk, Typed, TypeOK
  <2>4. CASE Flag("k")
    <3>1. Return(1, TRUE) /\ job' = NoJob /\ UNCHANGED <<user, stamp, goals, child, stop, outcome, ran>>
      BY <2>1, <2>4 DEF GiveUpTarget
    <3> QED BY <1>2, <2>1, <2>2, <2>3, <3>1, ReturnTyped DEF Idle
  <2>5. CASE ~Flag("k")
    <3>1. outcome' = "error" /\ UNCHANGED <<file, clock, user, stamp, goals, stack, job, pc, child, stop, done, ran>>
      BY <2>1, <2>5 DEF GiveUpTarget, disk
    <3>2. TypeOK'
      BY <2>1, <2>2, <3>1 DEF Typed, TypeOK
    <3>3. Shape'
      BY <3>1, MakefileKept DEF Typed, Shape, JobFits, top
    <3> QED BY <3>2, <3>3 DEF Typed
  <2> QED BY <2>4, <2>5
<1> QED BY <1>1, <1>2

\* The next command: the one at hand was left out, or is over.
LEMMA NextCommandTyped ==
  ASSUME Typed, pc \in {"exec"} \cup Awaiting, job' = [job EXCEPT !.a = @ + 1], pc' = "act",
         child' \notin {"new", "run", "term"}, child' \in {"none", "ok", "fail"}, exitstatus' \in {0, 1},
         UNCHANGED <<file, clock, user, stamp, goals, stack, stop, outcome, done, ran, cut>>
  PROVE  Typed'
<1>1. job \in Job /\ JobFits
  BY DEF Typed, Shape, Idle, Awaiting
<1>2. Len(Recipe[job.rule]) \in Nat /\ job.a \in Nat /\ job.a <= Len(Recipe[job.rule])
  <2>1. Recipe[job.rule] \in Seq([plus : BOOLEAN, minus : BOOLEAN, writes : BOOLEAN])
    BY <1>1, MakefileTyped DEF Typed, TypeOK, JobFits
  <2> QED BY <1>1, <2>1 DEF JobFits, Job
<1>3. /\ job' \in Job /\ job'.rule = job.rule /\ job'.tgt = job.tgt /\ job'.req = job.req
      /\ job'.a = job.a + 1 /\ job'.wrote = job.wrote
  BY <1>1 DEF Job
<1>4. TypeOK'
  BY <1>3 DEF Typed, TypeOK
<1>5. top' = top /\ Recipe' = Recipe /\ Deps' = Deps
  BY MakefileKept DEF top
<1>6. JobFits'
  BY <1>1, <1>2, <1>3, <1>5 DEF JobFits, Awaiting
<1>7. Shape'
  BY <1>3, <1>5, <1>6 DEF Typed, Shape, Idle, Awaiting
<1> QED BY <1>4, <1>7 DEF Typed

LEMMA ResultTyped ==
  ASSUME Typed, pc \in {"exec", "wait", "wait2", "lost"}, NEW r \in {-1, 0, 1}, Result(r),
         child \in {"new", "run", "term"} => stop
  PROVE  Typed'
<1>1. CASE r = 0 \/ Ignore
  <2>1. /\ job' = [job EXCEPT !.a = @ + 1] /\ pc' = "act" /\ child' = "none"
        /\ UNCHANGED <<file, clock, user, stamp, goals, stack, exitstatus, stop, outcome, done, ran, cut>>
    BY <1>1 DEF Result, disk, history
  <2>2. exitstatus' \in {0, 1}
    BY <2>1 DEF Typed, TypeOK
  <2> QED BY <2>1, <2>2, NextCommandTyped DEF Awaiting
<1>2. CASE ~(r = 0 \/ Ignore)
  BY <1>2, FailTyped DEF Result, Idle
<1> QED BY <1>1, <1>2

\* The activation on top, and its prerequisites.
LEMMA TopFacts ==
  ASSUME Typed, pc # "goal"
  PROVE  /\ stack \in Seq(Frame) /\ stack # <<>> /\ Len(stack) \in Nat \ {0} /\ top = stack[Len(stack)]
         /\ top \in Frame /\ top.t \in Names /\ top.i \in Nat \ {0} /\ top.err \in BOOLEAN
         /\ Deps[top.t] \in Seq(Names)
<1>1. stack \in Seq(Frame) /\ stack # <<>> /\ user \in Scenarios
  BY DEF Typed, TypeOK, Shape
<1>2. top \in Frame /\ Len(stack) \in Nat \ {0} /\ top = stack[Len(stack)]
  BY <1>1, FrontFacts DEF top
<1> QED BY <1>1, <1>2, MakefileTyped DEF Frame

LEMMA StartRunTyped ==
  ASSUME Typed, pc = "decide", NEW rule, NEW tgt, NEW req \in Names \cup {NONE},
         StartRun(rule, tgt, req),
         \/ rule \in Names /\ rule = top.t /\ tgt = top.t
         \/ rule \in Rules /\ tgt = top.t /\ Recipe[top.t] = <<>>
         \/ rule = DEFAULT /\ tgt = NONE
  PROVE  Typed'
<1>1. /\ job' = [NoJob EXCEPT !.rule = rule, !.tgt = tgt, !.req = req]
      /\ pc' \in {"touchdeps", "act"}
      /\ UNCHANGED <<file, clock, user, stamp, goals, stack, exitstatus, child, stop, outcome, done, ran, cut>>
  BY DEF StartRun, disk, history
<1>2. stack \in Seq(Frame) /\ stack # <<>> /\ top.t \in Names /\ child \notin {"new", "run", "term"}
  BY TopFacts DEF Typed, Shape, Awaiting
<1>3. /\ job' = [rule |-> rule, tgt |-> tgt, req |-> req, d |-> 1, a |-> 1, wrote |-> FALSE, cut |-> FALSE]
      /\ job' \in Job
  BY <1>1, <1>2 DEF NoJob, Job
<1>4. TypeOK'
  BY <1>1, <1>2, <1>3 DEF Typed, TypeOK, Job
<1>5. Recipe[rule] \in Seq([plus : BOOLEAN, minus : BOOLEAN, writes : BOOLEAN])
  BY <1>2, MakefileTyped DEF Typed, TypeOK
<1>6. JobFits'
  <2>1. job'.rule = rule /\ job'.tgt = tgt /\ job'.a = 1 /\ job'.wrote = FALSE
    BY <1>3
  <2>5. pc' \notin {"exec", "ran"} \cup Awaiting
    BY <1>1 DEF Awaiting
  <2>4. top' = top /\ Recipe' = Recipe
    BY <1>1, MakefileKept DEF top
  <2>2. Len(Recipe[rule]) \in Nat
    BY <1>5
  <2>3. 1 \in 1 .. Len(Recipe[rule]) + 1
    BY <2>2
  <2> QED BY <2>1, <2>3, <2>4, <2>5 DEF JobFits
<1>7. Shape'
  BY <1>1, <1>2, <1>3, <1>6, MakefileKept DEF Typed, Shape, Idle, top
<1> QED BY <1>4, <1>7 DEF Typed

\* make moves on; the recipe, the child and the rest stay.
LEMMA MoveTyped ==
  ASSUME Typed,
         UNCHANGED <<file, clock, user, stamp, goals, stack, job, child, exitstatus, stop, outcome, done, cut, ran>>,
         \/ pc = "dep" /\ pc' = "decide" /\ top.i > Len(Deps[top.t])
         \/ pc = "touchdeps" /\ pc' = "act"
         \/ pc = "act" /\ pc' = "ran" /\ job.a > Len(Recipe[job.rule])
         \/ pc = "act" /\ pc' = "exec" /\ ~(job.a > Len(Recipe[job.rule]))
         \/ pc = "forked" /\ pc' = "wait"
  PROVE  Typed'
<1>1. TypeOK'
  BY DEF Typed, TypeOK
<1>2. pc' \notin Idle => JobFits'
  <2> SUFFICES ASSUME pc' \notin Idle PROVE JobFits'
    OBVIOUS
  <2>1. JobFits /\ job.a \in Nat /\ job \in Job
    BY DEF Typed, Shape, Idle, Job
  <2>2. Recipe[job.rule] \in Seq([plus : BOOLEAN, minus : BOOLEAN, writes : BOOLEAN])
    BY <2>1, MakefileTyped DEF Typed, TypeOK, JobFits
  <2>3. Len(Recipe[job.rule]) \in Nat
    BY <2>2
  <2> QED BY <2>1, <2>3, MakefileKept DEF JobFits, top, Idle, Awaiting
<1>3. Shape'
  BY <1>2, MakefileKept DEF Typed, Shape, Idle, Awaiting, top
<1> QED BY <1>1, <1>3 DEF Typed

LEMMA InitTyped == Init => Typed
<1> SUFFICES ASSUME Init PROVE Typed
  OBVIOUS
<1>1. TypeOK
  <2>1. user \in Scenarios /\ file \in [Names -> Int] /\ goals \in Seq(Names)
    BY MakefileTyped DEF Init
  <2>2. stamp \in [Names -> Int] /\ stack \in Seq(Frame) /\ clock \in Nat
    BY DEF Init
  <2>3. job.rule = NONE /\ job.tgt = NONE /\ job.req = NONE
    BY DEF Init, NoJob
  <2> QED BY <2>1, <2>2, <2>3 DEF Init, TypeOK
<1>2. Shape
  BY NoJobTyped DEF Init, Shape, Idle, Awaiting
<1> QED BY <1>1, <1>2 DEF Typed

LEMMA CallTyped ==
  ASSUME Typed, pc \in {"goal", "dep"}, NEW t \in Names, NEW below \in Seq(Frame), Call(t, below),
         goals' \in Seq(Names),
         UNCHANGED <<file, clock, user, job, child, exitstatus, stop, outcome, done, cut, ran>>
  PROVE  Typed'
<1>1. /\ stack' \in Seq(Frame) /\ stack' # <<>> /\ pc' = "dep" /\ stamp' \in [Names -> Int]
      /\ job = NoJob /\ child \notin {"new", "run", "term"}
  BY CallFacts DEF Typed, Shape, Idle, Awaiting
<1>2. TypeOK'
  BY <1>1 DEF Typed, TypeOK
<1>3. Shape'
  BY <1>1, NoJobTyped DEF Shape, Idle, Awaiting
<1> QED BY <1>2, <1>3 DEF Typed

LEMMA NextGoalTyped == Typed /\ nextGoal => Typed'
<1> SUFFICES ASSUME Typed, nextGoal PROVE Typed'
  OBVIOUS
<1>1. CASE goals = <<>>
  BY <1>1, ExitTyped DEF nextGoal
<1>2. CASE goals # <<>>
  <2>1. goals \in Seq(Names) /\ Head(goals) \in Names /\ Tail(goals) \in Seq(Names)
    BY <1>2, HeadTailProperties DEF Typed, TypeOK
  <2>2. /\ goals' = Tail(goals) /\ Call(Head(goals), <<>>) /\ pc = "goal"
        /\ UNCHANGED <<file, clock, user, job, child, exitstatus, stop, outcome, done, cut, ran>>
    BY <1>2 DEF nextGoal, disk, history
  <2>3. <<>> \in Seq(Frame)
    OBVIOUS
  <2> QED BY <2>1, <2>2, <2>3, CallTyped
<1> QED BY <1>1, <1>2

LEMMA NextDepTyped == Typed /\ nextDep => Typed'
<1> SUFFICES ASSUME Typed, nextDep PROVE Typed'
  OBVIOUS
<1>1. pc = "dep" /\ stack \in Seq(Frame) /\ top.t \in Names /\ top.i \in Nat \ {0} /\ Deps[top.t] \in Seq(Names)
  BY TopFacts DEF nextDep
<1>2. CASE top.i > Len(Deps[top.t])
  BY <1>1, <1>2, MoveTyped DEF nextDep, disk, history
<1>3. CASE ~(top.i > Len(Deps[top.t])) /\ stop
  BY <1>3, CleanupTyped DEF nextDep
<1>4. CASE ~(top.i > Len(Deps[top.t])) /\ ~stop
  <2>1. Call(Deps[top.t][top.i], stack) /\ UNCHANGED <<file, clock, user, goals, job, child, exitstatus, stop, outcome, done, cut, ran>>
    BY <1>4 DEF nextDep, disk, history
  <2>2. Deps[top.t][top.i] \in Names
    BY <1>1, <1>4
  <2>3. goals \in Seq(Names) /\ goals' = goals
    BY <2>1 DEF Typed, TypeOK
  <2> QED BY <1>1, <2>1, <2>2, <2>3, CallTyped
<1> QED BY <1>2, <1>3, <1>4

LEMMA DecideTyped == Typed /\ decide => Typed'
<1> SUFFICES ASSUME Typed, decide PROVE Typed'
  OBVIOUS
<1>1. pc = "decide" /\ pc # "goal" /\ top.t \in Names /\ child \notin {"new", "run", "term"}
  BY TopFacts DEF decide, Typed, Shape, Awaiting
<1>2. CASE top.err
  <2>1. /\ Return(1, FALSE) /\ job' = job /\ job = NoJob
        /\ UNCHANGED <<file, clock, user, stamp, goals, child, stop, outcome, ran, exitstatus, cut>>
    BY <1>1, <1>2 DEF decide, NotRemade, disk, Typed, Shape, Idle
  <2>2. file' \in [Names -> Int] /\ clock' \in Nat /\ exitstatus' \in {0, 1} /\ cut' \subseteq Names
    BY <2>1 DEF Typed, TypeOK
  <2> QED BY <1>1, <2>1, <2>2, ReturnTyped
<1>3. CASE ~top.err /\ ~Needed
  BY <1>1, <1>3, DoneTyped DEF decide
<1>4. CASE ~top.err /\ Needed
  <2>1. update(top.t)
    BY <1>4 DEF decide
  <2>2. CASE Recipe[top.t] # <<>>
    BY <1>1, <2>1, <2>2, StartRunTyped DEF update
  <2>3. CASE Recipe[top.t] = <<>> /\ Usable(top.t, TRUE) # {}
    <3>1. inference(top.t)[1] \in Rules /\ inference(top.t)[2] \in Names
      BY <1>1, <2>3, InferenceTyped DEF Typed, TypeOK
    <3> QED BY <1>1, <2>1, <2>3, <3>1, StartRunTyped DEF update
  <2>4. CASE Recipe[top.t] = <<>> /\ Usable(top.t, TRUE) = {}
    BY <1>1, <2>1, <2>4, StartRunTyped, ExitTyped, DoneTyped DEF update
  <2> QED BY <2>2, <2>3, <2>4
<1> QED BY <1>2, <1>3, <1>4

LEMMA TouchdepsTyped == Typed /\ touchdeps => Typed'
<1> SUFFICES ASSUME Typed, touchdeps PROVE Typed'
  OBVIOUS
<1>1. /\ pc = "touchdeps" /\ pc \notin Idle /\ pc \notin {"exec", "ran"} \cup Awaiting
      /\ child \notin {"new", "run", "term"} /\ JobFits /\ job \in Job
  BY DEF touchdeps, Typed, Shape, Idle, Awaiting
<1>2. CASE job.d > Len(Touched) /\ pc' = "act" /\ UNCHANGED <<disk, job>>
           /\ UNCHANGED <<user, stamp, goals, stack, exitstatus, child, stop, outcome, round, nsig, history>>
  BY <1>1, <1>2, MoveTyped DEF disk, history
<1>3. CASE /\ Write({Touched[job.d]}) \/ (TouchIgnored /\ UNCHANGED disk)
           /\ job' = [job EXCEPT !.d = @ + 1]
           /\ UNCHANGED <<user, stamp, goals, stack, pc, exitstatus, child, stop, outcome, round, nsig, history>>
  <2>1. file' \in [Names -> Int] /\ clock' \in Nat
    BY <1>3, WriteTyped DEF Typed, TypeOK, disk
  <2>2. /\ job' \in Job /\ job'.rule = job.rule /\ job'.tgt = job.tgt /\ job'.a = job.a
        /\ job'.wrote = job.wrote /\ job'.req = job.req
    BY <1>1, <1>3 DEF Job
  <2>3. TypeOK'
    BY <1>3, <2>1, <2>2 DEF Typed, TypeOK, history
  <2>4. top' = top /\ Recipe' = Recipe /\ Deps' = Deps /\ pc' = pc
    BY <1>3, MakefileKept DEF top
  <2>5. JobFits'
    BY <1>1, <2>2, <2>4 DEF JobFits
  <2>6. Shape'
    BY <1>1, <1>3, <2>2, <2>4, <2>5 DEF Typed, Shape
  <2> QED BY <2>3, <2>6 DEF Typed
<1>4. CASE Fail
  BY <1>1, <1>4, FailTyped
<1> QED BY <1>2, <1>3, <1>4 DEF touchdeps

LEMMA NextActionTyped == Typed /\ nextAction => Typed'
<1> SUFFICES ASSUME Typed, nextAction PROVE Typed'
  OBVIOUS
<1>1. CASE cleanup(job.rule)
  BY <1>1, CleanupTyped
<1>2. CASE ~cleanup(job.rule)
  <2>1. /\ UNCHANGED <<file, clock, user, stamp, goals, stack, job, child, exitstatus, stop, outcome, done, cut, ran>>
        /\ pc = "act"
        /\ IF job.a > Len(Recipe[job.rule]) THEN pc' = "ran" ELSE pc' = "exec"
    BY <1>2 DEF nextAction, disk, history
  <2> QED BY <2>1, MoveTyped
<1> QED BY <1>1, <1>2

LEMMA RanAllTyped == Typed /\ ranAll => Typed'
<1> SUFFICES ASSUME Typed, ranAll PROVE Typed'
  OBVIOUS
<1>1. pc = "ran" /\ pc \notin Idle /\ pc # "goal" /\ child \notin {"new", "run", "term"}
  BY DEF ranAll, Typed, Shape, Idle, Awaiting
<1>2. CASE RanWhole /\ file' \in [Names -> Int] /\ clock' \in Nat
  <2>1. /\ Return(0, TRUE) /\ job' = NoJob /\ cut' \subseteq Names /\ exitstatus' \in {0, 1}
        /\ UNCHANGED <<user, stamp, goals, child, stop, outcome, ran>>
    BY <1>2, HalfTyped DEF RanWhole, Typed, TypeOK
  <2> QED BY <1>1, <1>2, <2>1, ReturnTyped
<1>3. CASE Fail
  BY <1>1, <1>3, FailTyped
<1>4. CASE RanWhole /\ Write({job.tgt} \cap Names)
  BY <1>2, <1>4, WriteTyped DEF Typed
<1>5. CASE RanWhole /\ UNCHANGED disk
  BY <1>2, <1>5 DEF Typed, TypeOK, disk
<1> QED BY <1>3, <1>4, <1>5 DEF ranAll


LEMMA SkipCommandTyped == Typed /\ skipCommand => Typed'
<1> SUFFICES ASSUME Typed, skipCommand PROVE Typed'
  OBVIOUS
<1>1. /\ pc = "exec" /\ job' = [job EXCEPT !.a = @ + 1] /\ pc' = "act" /\ child' = child
      /\ exitstatus' = (IF Flag("q") /\ ~Flag("t") THEN 1 ELSE exitstatus)
      /\ UNCHANGED <<file, clock, user, stamp, goals, stack, stop, outcome, done, ran, cut>>
  BY DEF skipCommand, disk, history
<1>2. child \in {"none", "ok", "fail"} /\ exitstatus' \in {0, 1}
  BY <1>1 DEF Typed, TypeOK, Shape, Awaiting
<1> QED BY <1>1, <1>2, NextCommandTyped

\* The child moves on, or make waits for it.
LEMMA AwaitTyped ==
  ASSUME Typed, pc \in {"exec"} \cup Awaiting, pc' \in Awaiting, child' \in {"none", "new", "run", "term", "ok", "fail"},
         job' \in Job, job'.rule = job.rule, job'.tgt = job.tgt, job'.req = job.req, job'.a = job.a,
         job'.wrote => job.tgt # NONE,
         pc' \in {"eintr", "wait2", "lost"} => stop',
         stop' \in BOOLEAN, ran' \subseteq Names, file' \in [Names -> Int], clock' \in Nat,
         UNCHANGED <<user, stamp, goals, stack, exitstatus, outcome, done, cut>>
  PROVE  Typed'
<1>1. job \in Job /\ JobFits /\ pc \notin Idle \cup {"goal", "dep"} /\ pc' \notin Idle \cup {"goal", "dep", "ran"}
  BY DEF Typed, Shape, Idle, Awaiting
<1>2. top' = top /\ Recipe' = Recipe /\ Deps' = Deps
  BY MakefileKept DEF top
<1>3. TypeOK'
  BY <1>1 DEF Typed, TypeOK, Awaiting
<1>4. job.tgt # NONE => job.tgt \in Names
  BY <1>1 DEF Job
<1>5. JobFits'
  BY <1>1, <1>2, <1>4 DEF JobFits
<1>6. Shape'
  BY <1>1, <1>2, <1>5 DEF Typed, Shape
<1> QED BY <1>3, <1>6 DEF Typed

LEMMA ForkTyped == Typed /\ fork => Typed'
<1> SUFFICES ASSUME Typed, fork PROVE Typed'
  OBVIOUS
<1>1. pc = "exec" /\ pc # "goal" /\ child \notin {"new", "run", "term"} /\ job \in Job /\ JobFits
  BY DEF fork, Typed, Shape, Idle, Awaiting
<1>2. CASE Result(-1)
  BY <1>1, <1>2, ResultTyped
<1>3. CASE ~Result(-1)
  <2>1. /\ child' = "new" /\ pc' = "forked" /\ ran' = ran \cup {top.t}
        /\ UNCHANGED <<file, clock, user, stamp, goals, stack, job, exitstatus, stop, outcome, done, cut>>
    BY <1>3 DEF fork, disk
  <2>2. ran' \subseteq Names /\ file' \in [Names -> Int] /\ clock' \in Nat /\ stop' \in BOOLEAN
    BY <1>1, <2>1, TopFacts DEF Typed, TypeOK
  <2>3. job'.wrote => job.tgt # NONE
    BY <1>1, <2>1, NamesAssumption DEF JobFits
  <2> QED BY <1>1, <2>1, <2>2, <2>3, AwaitTyped DEF Awaiting
<1> QED BY <1>2, <1>3

\* A written target has a name.
LEMMA WroteNamed ==
  ASSUME Typed, job.wrote
  PROVE  job.tgt # NONE
BY NamesAssumption DEF Typed, Shape, JobFits, NoJob

LEMMA EnterWaitTyped == Typed /\ enterWait => Typed'
BY MoveTyped DEF enterWait, disk, history

LEMMA ReapTyped == Typed /\ reap => Typed'
BY ResultTyped DEF reap

LEMMA TerminateTyped == Typed /\ terminate => Typed'
<1> SUFFICES ASSUME Typed, terminate PROVE Typed'
  OBVIOUS
<1>1. /\ pc = "eintr" /\ child' = (IF child = "run" THEN "term" ELSE child) /\ pc' = "wait2"
      /\ UNCHANGED <<file, clock, user, stamp, goals, stack, job, exitstatus, stop, outcome, done, cut, ran>>
  BY DEF terminate, disk, history
<1>2. /\ job' \in Job /\ child' \in {"none", "new", "run", "term", "ok", "fail"} /\ stop' /\ stop' \in BOOLEAN
      /\ ran' \subseteq Names /\ file' \in [Names -> Int] /\ clock' \in Nat
  BY <1>1 DEF Typed, TypeOK, Shape
<1> QED BY <1>1, <1>2, WroteNamed, AwaitTyped DEF Awaiting

LEMMA GiveUpTyped == Typed /\ giveUp => Typed'
<1> SUFFICES ASSUME Typed, giveUp PROVE Typed'
  OBVIOUS
<1>1. stop /\ pc = "lost" /\ \E st \in {0, 1} : Result(st)
  BY DEF giveUp, Typed, Shape
<1> QED BY <1>1, ResultTyped

LEMMA ChildTyped == Typed /\ Child => Typed'
<1> SUFFICES ASSUME Typed, Child PROVE Typed'
  OBVIOUS
<1>1. /\ child \in {"new", "run", "term"} /\ pc \in Awaiting /\ job \in Job
      /\ UNCHANGED <<user, stamp, goals, stack, exitstatus, pc, stop, outcome, done, ran, cut>>
  BY DEF Child, childExecs, childWrites, childEnds, childTerminated, ChildUnchanged, Typed, Shape
<1>2. /\ pc' \in Awaiting /\ (pc' \in {"eintr", "wait2", "lost"} => stop') /\ stop' \in BOOLEAN /\ ran' \subseteq Names
  BY <1>1 DEF Typed, TypeOK, Shape
<1>3. CASE childWrites
  <2>1. file' \in [Names -> Int] /\ clock' \in Nat
    BY <1>3, WriteTyped DEF childWrites, Typed, TypeOK, disk
  <2>2. job' = [job EXCEPT !.wrote = job.tgt # NONE] /\ child' = child
    BY <1>3 DEF childWrites
  <2>3. /\ job' \in Job /\ job'.rule = job.rule /\ job'.tgt = job.tgt /\ job'.req = job.req
        /\ job'.a = job.a /\ job'.wrote = (job.tgt # NONE)
    BY <1>1, <2>2 DEF Job
  <2> QED BY <1>1, <1>2, <2>1, <2>2, <2>3, AwaitTyped
<1>4. CASE childExecs \/ childEnds \/ childTerminated
  <2>1. /\ child' \in {"run", "ok", "fail"} /\ UNCHANGED disk
        /\ job' = job \/ job' = [job EXCEPT !.cut = TRUE]
    BY <1>4 DEF childExecs, childEnds, childTerminated
  <2>2. file' \in [Names -> Int] /\ clock' \in Nat
    BY <2>1 DEF disk, Typed, TypeOK
  <2>3. /\ job' \in Job /\ job'.rule = job.rule /\ job'.tgt = job.tgt /\ job'.req = job.req
        /\ job'.a = job.a /\ job'.wrote = job.wrote
    BY <1>1, <2>1 DEF Job
  <2> QED BY <1>1, <1>2, <2>1, <2>2, <2>3, WroteNamed, AwaitTyped
<1> QED BY <1>3, <1>4 DEF Child

LEMMA SignalTyped == ASSUME Typed, NEW group \in BOOLEAN, signal(group) PROVE Typed'
<1>1. /\ stop' = TRUE
      /\ child' = IF group /\ child = "run" THEN "fail" ELSE child
      /\ job' = IF group /\ child = "run" THEN [job EXCEPT !.cut = TRUE] ELSE job
      /\ UNCHANGED <<file, clock, user, stamp, goals, stack, exitstatus, outcome, done, ran, cut>>
      /\ pc' = pc \/ (pc = "wait" /\ pc' = "eintr") \/ (pc = "wait2" /\ pc' = "lost")
  BY DEF signal, disk, history
<1>2. /\ file' \in [Names -> Int] /\ clock' \in Nat /\ ran' \subseteq Names /\ job \in Job
      /\ child' \in {"none", "new", "run", "term", "ok", "fail"}
  BY <1>1 DEF Typed, TypeOK, Shape
<1>3. CASE pc \in Awaiting
  <2>1. /\ job' \in Job /\ job'.rule = job.rule /\ job'.tgt = job.tgt /\ job'.req = job.req
        /\ job'.a = job.a /\ job'.wrote = job.wrote
    BY <1>1, <1>2 DEF Job
  <2>2. pc' \in Awaiting
    BY <1>1, <1>3 DEF Awaiting
  <2> QED BY <1>1, <1>2, <1>3, <2>1, <2>2, WroteNamed, AwaitTyped
<1>4. CASE pc \notin Awaiting
  <2>1. UNCHANGED <<pc, job, child>>
    BY <1>1, <1>4 DEF Typed, Shape, Awaiting
  <2>2. TypeOK'
    BY <1>1, <2>1 DEF Typed, TypeOK
  <2>3. top' = top /\ Recipe' = Recipe /\ Deps' = Deps
    BY <1>1, MakefileKept DEF top
  <2>4. Shape'
    BY <1>1, <2>1, <2>3 DEF Typed, Shape, JobFits
  <2> QED BY <2>2, <2>4 DEF Typed
<1> QED BY <1>3, <1>4

LEMMA AgainTyped == Typed /\ again => Typed'
<1> SUFFICES ASSUME Typed, again PROVE Typed'
  OBVIOUS
<1>1. /\ stamp' = [n \in Names |-> -1]
      /\ goals' = Goals /\ stack' = <<>> /\ job' = NoJob /\ pc' = "goal"
      /\ child' = "none" /\ stop' = FALSE /\ exitstatus' = 0 /\ outcome' = "running"
      /\ done' = {} /\ ran' = {} /\ UNCHANGED <<user, cut>>
      /\ \E edited : IF edited = {} THEN UNCHANGED disk ELSE Write(edited)
  BY DEF again
<1>2. file' \in [Names -> Int] /\ clock' \in Nat
  <2>1. CASE UNCHANGED disk
    BY <2>1 DEF disk, Typed, TypeOK
  <2>2. CASE \E edited : Write(edited)
    BY <2>2, WriteTyped DEF Typed
  <2> QED BY <1>1, <2>1, <2>2
<1>3. TypeOK'
  <2>1. goals' \in Seq(Names)
    BY <1>1, MakefileTyped DEF Typed, TypeOK
  <2>2. stamp' \in [Names -> Int] /\ stack' \in Seq(Frame)
    BY <1>1
  <2>3. job'.rule = NONE /\ job'.tgt = NONE /\ job'.req = NONE
    BY <1>1 DEF NoJob
  <2> QED BY <1>1, <1>2, <2>1, <2>2, <2>3 DEF Typed, TypeOK
<1>4. Shape'
  BY <1>1, NoJobTyped DEF Shape, Idle, Awaiting
<1> QED BY <1>3, <1>4 DEF Typed

LEMMA StutterTyped == Typed /\ UNCHANGED vars => Typed'
<1> SUFFICES ASSUME Typed, UNCHANGED vars PROVE Typed'
  OBVIOUS
<1>1. UNCHANGED <<file, clock, user, stamp, goals, stack, job, pc, exitstatus, child, stop, outcome, done, ran, cut>>
  BY DEF vars, disk, memory, history
<1>2. TypeOK'
  BY <1>1 DEF Typed, TypeOK
<1>3. top' = top /\ Recipe' = Recipe /\ Deps' = Deps
  BY <1>1, MakefileKept DEF top
<1>4. Shape'
  BY <1>1, <1>3 DEF Typed, Shape, JobFits
<1> QED BY <1>2, <1>4 DEF Typed

LEMMA StepTyped == Typed /\ [Next]_vars => Typed'
<1> SUFFICES ASSUME Typed, [Next]_vars PROVE Typed'
  OBVIOUS
<1>1. CASE Make
  BY <1>1, NextGoalTyped, NextDepTyped, DecideTyped, TouchdepsTyped, NextActionTyped, RanAllTyped,
     SkipCommandTyped, ForkTyped, EnterWaitTyped, ReapTyped, TerminateTyped, GiveUpTyped DEF Make
<1>2. CASE Child
  BY <1>2, ChildTyped
<1>3. CASE User
  BY <1>3, SignalTyped, AgainTyped DEF User
<1>4. CASE Stopped \/ UNCHANGED vars
  BY <1>4, StutterTyped DEF Stopped
<1> QED BY <1>1, <1>2, <1>3, <1>4 DEF Next

LEMMA AlwaysTyped == Spec => []Typed
<1>1. Init => Typed
  BY InitTyped
<1>2. Typed /\ [Next]_vars => Typed'
  BY StepTyped
<1> QED BY <1>1, <1>2, PTL DEF Spec

(***************************************************************************)
(* What a signal leaves.                                                   *)
(***************************************************************************)
LEMMA SignalsKept ==
  ASSUME UNCHANGED user
  PROVE  /\ \A r, i : Forgiving(r, i)' <=> Forgiving(r, i)
         /\ \A n : Accounted(n)' <=> Accounted(n)
         /\ user.signals' = user.signals
BY DEF Forgiving, Accounted, Forgiven, Recipe, Ignored, Flag, Spared, Precious, Dirs

\* The end of a run of make: only files left half written may be new.
LEMMA EndSignalled ==
  ASSUME Signalled, UNCHANGED <<user, nsig, stop, pc, child, job, late>>, \A n \in cut' : Accounted(n)
  PROVE  Signalled'
<1>1. \A n \in cut' : Accounted(n)'
  BY SignalsKept
<1>2. user' = user /\ Recipe' = Recipe /\ Ignored' = Ignored
  BY MakefileKept
<1> QED BY <1>1, <1>2 DEF Signalled, Forgiving, Flag

\* cleanup() removes what the recipe in progress has written, or spares it.
LEMMA CleanupSignalled ==
  ASSUME Typed, Signalled, NEW name, cleanup(name), pc \in Idle \/ name = top.t \/ name = job.rule
  PROVE  Signalled'
<1> DEFINE gone == IF name \in Names /\ ~Spared(name) THEN {name} ELSE {}
<1>1. /\ cut' = (cut \cup Half) \ gone
      /\ UNCHANGED <<user, nsig, stop, pc, child, job, late>>
  BY DEF cleanup, memory
<1>2. \A n \in Half \ gone : Accounted(n)
  <2> SUFFICES ASSUME NEW n \in Half \ gone PROVE Accounted(n)
    OBVIOUS
  <2>1. job.wrote /\ n = job.tgt
    BY DEF Half
  <2>2. pc \notin Idle /\ JobFits
    BY <2>1 DEF Typed, Shape, NoJob
  <2>3. n \in Names /\ n = top.t /\ (job.rule = n \/ Recipe[n] = <<>>)
    BY <2>1, <2>2, NamesAssumption DEF JobFits
  <2> QED BY <2>2, <2>3 DEF Accounted
<1>3. \A n \in cut' : Accounted(n)
  BY <1>1, <1>2 DEF Signalled
<1> QED BY <1>1, <1>3, EndSignalled

\* rebuild() has returned, with the recipe that was in progress.
LEMMA ReturnSignalled ==
  ASSUME Typed, Signalled, pc' \in Idle, job' = NoJob, child \notin {"new", "run", "term"},
         UNCHANGED <<user, nsig, stop, child, late>>, \A n \in cut' : Accounted(n)
  PROVE  Signalled'
<1>1. \A n \in cut' : Accounted(n)'
  BY SignalsKept
<1>2. user' = user /\ ~job'.cut
  BY DEF NoJob
<1> QED BY <1>1, <1>2 DEF Signalled, Idle, Awaiting

LEMMA PcAfterReturn ==
  ASSUME NEW r, NEW built, Return(r, built)
  PROVE  pc' \in Idle
BY DEF Return, Idle

LEMMA FailSignalled ==
  ASSUME Typed, Signalled, Fail, child \in {"new", "run", "term"} => stop
  PROVE  Signalled'
<1>1. CASE stop
  BY <1>1, CleanupSignalled DEF Fail
<1>2. CASE ~stop
  <2>1. GiveUpTarget
    BY <1>2 DEF Fail
  <2>2. ~job.cut /\ cut' = cut
    BY <1>2, <2>1 DEF GiveUpTarget, Signalled
  <2>3. \A n \in cut' : Accounted(n)
    BY <2>2 DEF Signalled
  <2>4. CASE Flag("k")
    <3>1. Return(1, TRUE) /\ job' = NoJob /\ UNCHANGED <<user, nsig, stop, child, late>>
      BY <2>1, <2>4 DEF GiveUpTarget
    <3> QED BY <1>2, <2>3, <3>1, PcAfterReturn, ReturnSignalled
  <2>5. CASE ~Flag("k")
    BY <2>1, <2>3, <2>5, EndSignalled DEF GiveUpTarget
  <2> QED BY <2>4, <2>5
<1> QED BY <1>1, <1>2

\* The next command: the one at hand was not cut short, or is forgiven.
LEMMA NextCommandSignalled ==
  ASSUME Typed, Signalled, pc \in {"exec"} \cup Awaiting, job' = [job EXCEPT !.a = @ + 1], pc' = "act",
         child' # "term", job.cut => Forgiving(job.rule, job.a) \/ user.signals > 1,
         UNCHANGED <<user, nsig, stop, late, cut>>
  PROVE  Signalled'
<1>1. job \in Job /\ job.a \in Nat /\ job.a >= 1 /\ job'.a = job.a + 1 /\ job'.rule = job.rule /\ job'.cut = job.cut
  BY DEF Typed, Shape, JobFits, Job, Idle, Awaiting
<1>2. job'.a > 1 /\ job'.a - 1 = job.a
  BY <1>1
<1>3. user' = user /\ Recipe' = Recipe /\ Ignored' = Ignored /\ \A n \in cut' : Accounted(n)'
  BY MakefileKept, SignalsKept DEF Signalled
<1>4. job'.cut => job'.a > 1 /\ (Recipe'[job'.rule][job'.a - 1].minus \/ Flag("i")' \/ job'.rule \in Ignored' \/ user'.signals > 1)
  BY <1>1, <1>2, <1>3 DEF Forgiving, Flag
<1> QED BY <1>1, <1>3, <1>4 DEF Signalled, Awaiting, Forgiving

LEMMA ResultSignalled ==
  ASSUME Typed, Signalled, pc \in {"exec", "wait", "wait2", "lost"}, NEW r \in {-1, 0, 1}, Result(r),
         child \in {"new", "run", "term"} => stop,
         r = 0 => ~job.cut \/ user.signals > 1
  PROVE  Signalled'
<1>1. CASE r = 0 \/ Ignore
  <2>1. /\ job' = [job EXCEPT !.a = @ + 1] /\ pc' = "act" /\ child' = "none"
        /\ UNCHANGED <<user, nsig, stop, late, cut>>
    BY <1>1 DEF Result, history
  <2>2. Ignore => Forgiving(job.rule, job.a)
    BY DEF Ignore, cmd, Forgiving
  <2> QED BY <1>1, <2>1, <2>2, NextCommandSignalled DEF Awaiting
<1>2. CASE ~(r = 0 \/ Ignore)
  BY <1>2, FailSignalled DEF Result
<1> QED BY <1>1, <1>2

LEMMA ExitSignalled == ASSUME Signalled, NEW how, Exit(how) PROVE Signalled'
BY EndSignalled DEF Exit, memory, history, Signalled

\* What make does between recipes is done without a recipe.
LEMMA IdleSignalled ==
  ASSUME Typed, Signalled, pc \in Idle, pc' \in Idle, UNCHANGED <<user, nsig, stop, child, job, late, cut>>
  PROVE  Signalled'
<1>1. job' = NoJob /\ child \notin {"new", "run", "term"} /\ \A n \in cut' : Accounted(n)
  BY DEF Typed, Shape, Signalled, Idle, Awaiting
<1> QED BY <1>1, ReturnSignalled

LEMMA NextGoalSignalled == Typed /\ Signalled /\ nextGoal => Signalled'
<1> SUFFICES ASSUME Typed, Signalled, nextGoal PROVE Signalled'
  OBVIOUS
<1>1. CASE goals = <<>>
  BY <1>1, ExitSignalled DEF nextGoal
<1>2. CASE goals # <<>>
  <2>1. pc = "goal" /\ pc' = "dep" /\ UNCHANGED <<user, nsig, stop, child, job, late, cut>>
    BY <1>2 DEF nextGoal, Call, history
  <2> QED BY <2>1, IdleSignalled DEF Idle
<1> QED BY <1>1, <1>2

LEMMA NextDepSignalled == Typed /\ Signalled /\ nextDep => Signalled'
<1> SUFFICES ASSUME Typed, Signalled, nextDep PROVE Signalled'
  OBVIOUS
<1>1. CASE cleanup(top.t)
  BY <1>1, CleanupSignalled
<1>2. CASE ~cleanup(top.t)
  <2>1. pc = "dep" /\ pc' \in {"dep", "decide"} /\ UNCHANGED <<user, nsig, stop, child, job, late, cut>>
    BY <1>2 DEF nextDep, Call, history
  <2> QED BY <2>1, IdleSignalled DEF Idle
<1> QED BY <1>1, <1>2

LEMMA DoneSignalled ==
  ASSUME Typed, Signalled, pc = "decide", NEW built, Done(built)
  PROVE  Signalled'
<1>1. child \notin {"new", "run", "term"} /\ \A n \in cut : Accounted(n)
  BY DEF Typed, Shape, Awaiting, Signalled
<1> QED BY <1>1, PcAfterReturn, ReturnSignalled DEF Done

LEMMA StartRunSignalled ==
  ASSUME Typed, Signalled, pc = "decide", NEW rule, NEW tgt, NEW req, StartRun(rule, tgt, req)
  PROVE  Signalled'
<1>1. /\ job' = [NoJob EXCEPT !.rule = rule, !.tgt = tgt, !.req = req]
      /\ pc' \in {"touchdeps", "act"}
      /\ UNCHANGED <<user, nsig, stop, child, late, cut>>
  BY DEF StartRun, history
<1>2. ~job'.cut
  BY <1>1 DEF NoJob
<1>3. user' = user /\ \A n \in cut' : Accounted(n)'
  BY <1>1, SignalsKept DEF Signalled
<1> QED BY <1>1, <1>2, <1>3 DEF Signalled, Awaiting

LEMMA DecideSignalled == Typed /\ Signalled /\ decide => Signalled'
<1> SUFFICES ASSUME Typed, Signalled, decide PROVE Signalled'
  OBVIOUS
<1>1. pc = "decide" /\ child \notin {"new", "run", "term"} /\ \A n \in cut : Accounted(n)
  BY DEF decide, Typed, Shape, Awaiting, Signalled
<1>2. CASE top.err
  <2>1. /\ Return(1, FALSE) /\ UNCHANGED <<user, nsig, stop, child, job, late, cut>> /\ job = NoJob
    BY <1>1, <1>2 DEF decide, NotRemade, Typed, Shape, Idle
  <2> QED BY <1>1, <2>1, PcAfterReturn, ReturnSignalled
<1>3. CASE ~top.err /\ ~Needed
  BY <1>1, <1>3, DoneSignalled DEF decide
<1>4. CASE ~top.err /\ Needed
  BY <1>1, <1>4, StartRunSignalled, ExitSignalled, DoneSignalled DEF decide, update
<1> QED BY <1>2, <1>3, <1>4

\* make goes to the next step of a recipe; the command at hand stays.
LEMMA MoveSignalled ==
  ASSUME Typed, Signalled, UNCHANGED <<user, nsig, stop, child, late, cut>>,
         job'.rule = job.rule, job'.a = job.a, job'.cut = job.cut,
         \/ pc = "touchdeps" /\ pc' \in {"touchdeps", "act"}
         \/ pc = "act" /\ pc' = "ran"
         \/ pc = "act" /\ pc' = "exec" /\ ~stop
         \/ pc = "forked" /\ pc' = "wait"
  PROVE  Signalled'
<1>1. user' = user /\ Recipe' = Recipe /\ Ignored' = Ignored /\ (Flag("i")' <=> Flag("i"))
  BY MakefileKept
<1>2. \A n \in cut' : Accounted(n)'
  BY SignalsKept DEF Signalled
<1>3. CASE pc = "touchdeps"
  BY <1>1, <1>2, <1>3 DEF Signalled, Awaiting
<1>4. CASE pc = "act" /\ pc' = "ran"
  BY <1>1, <1>2, <1>4 DEF Signalled, Awaiting, Forgiving
<1>5. CASE pc = "act" /\ pc' = "exec"
  BY <1>1, <1>2, <1>5 DEF Signalled, Awaiting
<1>6. CASE pc = "forked"
  BY <1>1, <1>2, <1>6 DEF Signalled, Awaiting
<1> QED BY <1>3, <1>4, <1>5, <1>6

LEMMA TouchdepsSignalled == Typed /\ Signalled /\ touchdeps => Signalled'
<1> SUFFICES ASSUME Typed, Signalled, touchdeps PROVE Signalled'
  OBVIOUS
<1>1. pc = "touchdeps" /\ job \in Job /\ child \notin {"new", "run", "term"}
  BY DEF touchdeps, Typed, Shape, Awaiting
<1>2. CASE Fail
  BY <1>1, <1>2, FailSignalled
<1>3. CASE ~Fail
  <2>1. /\ pc' \in {"touchdeps", "act"}
        /\ job' = job \/ job' = [job EXCEPT !.d = @ + 1]
        /\ UNCHANGED <<user, nsig, stop, child, late, cut>>
    BY <1>1, <1>3 DEF touchdeps, history
  <2>2. job'.rule = job.rule /\ job'.a = job.a /\ job'.cut = job.cut
    BY <1>1, <2>1 DEF Job
  <2> QED BY <1>1, <2>1, <2>2, MoveSignalled
<1> QED BY <1>2, <1>3

LEMMA NextActionSignalled == Typed /\ Signalled /\ nextAction => Signalled'
<1> SUFFICES ASSUME Typed, Signalled, nextAction PROVE Signalled'
  OBVIOUS
<1>1. CASE cleanup(job.rule)
  BY <1>1, CleanupSignalled
<1>2. CASE ~cleanup(job.rule)
  <2>1. /\ pc = "act"
        /\ pc' = "ran" \/ (pc' = "exec" /\ ~stop)
        /\ UNCHANGED <<user, nsig, stop, child, job, late, cut>>
    BY <1>2 DEF nextAction, history
  <2> QED BY <2>1, MoveSignalled
<1> QED BY <1>1, <1>2

\* A recipe that ran to its end although a signal cut one of its commands short.
LEMMA HalfLeftAccounted ==
  ASSUME Typed, Signalled, pc = "ran", NEW n \in HalfLeft
  PROVE  Accounted(n)
<1>1. CASE n \in cut
  BY <1>1 DEF Signalled
<1>2. CASE n \notin cut
  <2>1. job.cut /\ job.wrote /\ n = job.tgt
    BY <1>2 DEF HalfLeft, Half
  <2>2. JobFits /\ job \in Job
    BY DEF Typed, Shape, Idle
  <2>3. n \in Names /\ n = top.t /\ (job.rule = n \/ Recipe[n] = <<>>)
    BY <2>1, <2>2, NamesAssumption DEF JobFits
  <2>4. job.a > 1 /\ (Forgiving(job.rule, job.a - 1) \/ user.signals > 1)
    BY <2>1 DEF Signalled
  <2>5. Recipe[job.rule] \in Seq([plus : BOOLEAN, minus : BOOLEAN, writes : BOOLEAN])
    BY <2>2, MakefileTyped DEF Typed, TypeOK, JobFits
  <2>6. job.a - 1 = Len(Recipe[job.rule])
    BY <2>2, <2>5 DEF JobFits
  <2>7. CASE job.rule = n /\ Forgiving(n, Len(Recipe[n])) /\ Recipe[n] # <<>>
    BY <2>7 DEF Accounted, Forgiven, Forgiving, Last
  <2> QED BY <2>3, <2>4, <2>6, <2>7 DEF Accounted
<1> QED BY <1>1, <1>2

LEMMA RanAllSignalled == Typed /\ Signalled /\ ranAll => Signalled'
<1> SUFFICES ASSUME Typed, Signalled, ranAll PROVE Signalled'
  OBVIOUS
<1>1. pc = "ran" /\ child \notin {"new", "run", "term"}
  BY DEF ranAll, Typed, Shape, Awaiting
<1>2. CASE RanWhole
  BY <1>1, <1>2, HalfLeftAccounted, PcAfterReturn, ReturnSignalled DEF RanWhole
<1>3. CASE Fail
  BY <1>1, <1>3, FailSignalled
<1> QED BY <1>2, <1>3 DEF ranAll

LEMMA SkipCommandSignalled == Typed /\ Signalled /\ skipCommand => Signalled'
<1> SUFFICES ASSUME Typed, Signalled, skipCommand PROVE Signalled'
  OBVIOUS
<1>1. pc = "exec" /\ child # "term" /\ ~job.cut
  BY DEF skipCommand, Typed, Shape, Awaiting, Signalled
<1> QED BY <1>1, NextCommandSignalled DEF skipCommand, history

\* What changes when a child starts, moves on, or is waited for.
LEMMA AwaitSignalled ==
  ASSUME Typed, Signalled, pc \in {"exec"} \cup Awaiting, pc' \in Awaiting,
         job'.cut = job.cut \/ (job'.cut /\ child' = "fail" /\ nsig' > 0),
         child' # "fail" => ~job.cut,
         child' = "term" => nsig' > 0,
         nsig' \in 0 .. user.signals, stop' <=> nsig' > 0, nsig' >= nsig,
         pc' \in {"eintr", "wait2"} => nsig' > 0, pc' = "lost" => nsig' > 1,
         late' = late \/ (late = 0 /\ late' = 1 /\ nsig > 0),
         UNCHANGED <<user, cut>>
  PROVE  Signalled'
<1>1. \A n \in cut' : Accounted(n)'
  BY SignalsKept DEF Signalled
<1>2. user' = user /\ pc' \notin {"exec", "touchdeps", "act", "ran"} /\ nsig \in Int /\ nsig' \in Int
  BY DEF Signalled, Awaiting
<1>3. late' = 0 \/ (late' = 1 /\ nsig' > 0 /\ pc' # "exec")
  BY <1>2 DEF Signalled
<1>4. child' = "term" \/ job'.cut => nsig' > 0
  BY <1>2 DEF Signalled
<1>5. pc' \in Awaiting /\ child' # "fail" => ~job'.cut
  OBVIOUS
<1> QED BY <1>1, <1>2, <1>3, <1>4, <1>5 DEF Signalled

LEMMA ForkSignalled == Typed /\ Signalled /\ fork => Signalled'
<1> SUFFICES ASSUME Typed, Signalled, fork PROVE Signalled'
  OBVIOUS
<1>1. pc = "exec" /\ ~job.cut /\ child \notin {"new", "run", "term"}
  BY DEF fork, Signalled, Typed, Shape, Awaiting
<1>2. CASE Result(-1)
  BY <1>1, <1>2, ResultSignalled
<1>3. CASE ~Result(-1)
  <2>1. /\ child' = "new" /\ pc' = "forked" /\ late' = IF stop THEN late + 1 ELSE late
        /\ UNCHANGED <<user, nsig, stop, job, cut>>
    BY <1>3 DEF fork
  <2>2. late = 0 /\ (stop <=> nsig > 0) /\ nsig \in 0 .. user.signals /\ nsig >= nsig
    BY <1>1 DEF Signalled
  <2> QED BY <1>1, <2>1, <2>2, AwaitSignalled DEF Awaiting
<1> QED BY <1>2, <1>3

LEMMA EnterWaitSignalled == Typed /\ Signalled /\ enterWait => Signalled'
BY MoveSignalled DEF enterWait, history

LEMMA ReapSignalled == Typed /\ Signalled /\ reap => Signalled'
<1> SUFFICES ASSUME Typed, Signalled, reap PROVE Signalled'
  OBVIOUS
<1>1. /\ pc \in {"wait", "wait2"} /\ child \in {"ok", "fail"}
      /\ Result(IF child = "ok" THEN 0 ELSE 1)
      /\ child = "ok" => ~job.cut
  BY DEF reap, Signalled, Awaiting
<1> DEFINE r == IF child = "ok" THEN 0 ELSE 1
<1>2. r \in {-1, 0, 1} /\ (r = 0 => ~job.cut)
  BY <1>1
<1> QED BY <1>1, <1>2, ResultSignalled

LEMMA TerminateSignalled == Typed /\ Signalled /\ terminate => Signalled'
<1> SUFFICES ASSUME Typed, Signalled, terminate PROVE Signalled'
  OBVIOUS
<1>1. /\ pc = "eintr" /\ child' = (IF child = "run" THEN "term" ELSE child) /\ pc' = "wait2"
      /\ UNCHANGED <<user, nsig, stop, job, late, cut>>
  BY DEF terminate, history
<1>2. /\ nsig > 0 /\ (stop <=> nsig > 0) /\ nsig \in 0 .. user.signals /\ nsig >= nsig
      /\ child # "fail" => ~job.cut
  BY <1>1 DEF Signalled, Awaiting
<1> QED BY <1>1, <1>2, AwaitSignalled DEF Awaiting

LEMMA GiveUpSignalled == Typed /\ Signalled /\ giveUp => Signalled'
<1> SUFFICES ASSUME Typed, Signalled, giveUp PROVE Signalled'
  OBVIOUS
<1>1. pc = "lost" /\ stop /\ nsig > 1 /\ nsig \in 0 .. user.signals /\ \E st \in {0, 1} : Result(st)
  BY DEF giveUp, Typed, Shape, Signalled
<1>2. user.signals > 1
  BY <1>1, MakefileTyped DEF Typed, TypeOK
<1> QED BY <1>1, <1>2, ResultSignalled

LEMMA ChildSignalled == Typed /\ Signalled /\ Child => Signalled'
<1> SUFFICES ASSUME Typed, Signalled, Child PROVE Signalled'
  OBVIOUS
<1>1. /\ child \in {"new", "run", "term"} /\ pc \in Awaiting /\ job \in Job
      /\ UNCHANGED <<user, pc, stop, nsig, late, cut>>
  BY DEF Child, childExecs, childWrites, childEnds, childTerminated, ChildUnchanged, Typed, Shape
<1>2. /\ ~job.cut /\ (stop <=> nsig > 0) /\ nsig \in 0 .. user.signals /\ nsig >= nsig
      /\ (pc \in {"eintr", "wait2"} => nsig > 0) /\ (pc = "lost" => nsig > 1) /\ (child = "term" => nsig > 0)
  BY <1>1 DEF Signalled
<1>3. CASE childTerminated
  <2>1. child = "term" /\ child' = "fail" /\ job' = [job EXCEPT !.cut = TRUE]
    BY <1>3 DEF childTerminated
  <2>2. job'.cut
    BY <1>1, <2>1 DEF Job
  <2> QED BY <1>1, <1>2, <2>1, <2>2, AwaitSignalled
<1>4. CASE childExecs \/ childWrites \/ childEnds
  <2>1. /\ child' \in {"run", "ok", "fail"}
        /\ job' = job \/ job' = [job EXCEPT !.wrote = job.tgt # NONE]
    BY <1>4 DEF childExecs, childWrites, childEnds
  <2>2. job'.cut = job.cut
    BY <1>1, <2>1 DEF Job
  <2> QED BY <1>1, <1>2, <2>1, <2>2, AwaitSignalled
<1> QED BY <1>3, <1>4 DEF Child

LEMMA SignalSignalled ==
  ASSUME Typed, Signalled, NEW group \in BOOLEAN, signal(group)
  PROVE  Signalled'
<1>1. /\ nsig < user.signals /\ nsig' = nsig + 1 /\ stop' = TRUE
      /\ child' = IF group /\ child = "run" THEN "fail" ELSE child
      /\ job' = IF group /\ child = "run" THEN [job EXCEPT !.cut = TRUE] ELSE job
      /\ UNCHANGED <<user, late, cut>>
      /\ pc' = pc \/ (pc = "wait" /\ pc' = "eintr") \/ (pc = "wait2" /\ pc' = "lost")
  BY DEF signal, history
<1>2. user.signals \in Nat /\ nsig \in 0 .. user.signals /\ job \in Job
  BY MakefileTyped DEF Typed, TypeOK, Shape, Signalled
<1>3. nsig' \in 0 .. user.signals /\ nsig' >= nsig /\ nsig' > 0 /\ (nsig > 0 => nsig' > 1) /\ nsig \in Nat
  BY <1>1, <1>2
<1>4. CASE pc \in Awaiting
  <2>1. pc' \in Awaiting /\ (pc' = "lost" => nsig' > 1)
    BY <1>1, <1>3, <1>4 DEF Awaiting, Signalled
  <2>2. CASE group /\ child = "run"
    <3>1. child' = "fail" /\ job' = [job EXCEPT !.cut = TRUE]
      BY <1>1, <2>2
    <3>2. job'.cut
      BY <1>2, <3>1 DEF Job
    <3> QED BY <1>1, <1>3, <1>4, <2>1, <3>1, <3>2, AwaitSignalled
  <2>3. CASE ~(group /\ child = "run")
    <3>1. child' = child /\ job' = job
      BY <1>1, <2>3
    <3>2. child' # "fail" => ~job.cut
      BY <1>4, <3>1 DEF Signalled
    <3> QED BY <1>1, <1>3, <1>4, <2>1, <3>1, <3>2, AwaitSignalled
  <2> QED BY <2>2, <2>3
<1>5. CASE pc \notin Awaiting
  <2>1. UNCHANGED <<pc, job, child>>
    BY <1>1, <1>5 DEF Typed, Shape, Awaiting
  <2>2. user' = user /\ Recipe' = Recipe /\ Ignored' = Ignored /\ (Flag("i")' <=> Flag("i"))
    BY <1>1, MakefileKept
  <2>3. \A n \in cut' : Accounted(n)'
    BY <1>1, SignalsKept DEF Signalled
  <2> QED BY <1>1, <1>3, <1>5, <2>1, <2>2, <2>3 DEF Signalled, Awaiting, Forgiving
<1> QED BY <1>4, <1>5

LEMMA StepSignalled == Typed /\ Signalled /\ [Next]_vars => Signalled'
<1> SUFFICES ASSUME Typed, Signalled, [Next]_vars PROVE Signalled'
  OBVIOUS
<1>1. CASE Make
  BY <1>1, NextGoalSignalled, NextDepSignalled, DecideSignalled, TouchdepsSignalled,
     NextActionSignalled, RanAllSignalled, SkipCommandSignalled, ForkSignalled,
     EnterWaitSignalled, ReapSignalled, TerminateSignalled, GiveUpSignalled DEF Make
<1>2. CASE Child
  BY <1>2, ChildSignalled
<1>3. CASE \E group \in BOOLEAN : signal(group)
  BY <1>3, SignalSignalled
<1>4. CASE again
  <2>1. /\ nsig' = 0 /\ stop' = FALSE /\ late' = 0 /\ pc' = "goal" /\ child' = "none" /\ job' = NoJob
        /\ user' = user /\ cut' = cut
    BY <1>4 DEF again
  <2>2. user.signals \in Nat /\ ~job'.cut
    BY <2>1, MakefileTyped DEF Typed, TypeOK, NoJob
  <2>3. \A n \in cut' : Accounted(n)'
    BY <2>1, SignalsKept DEF Signalled
  <2> QED BY <2>1, <2>2, <2>3 DEF Signalled, Awaiting
<1>5. CASE Stopped \/ UNCHANGED vars
  BY <1>5, EndSignalled DEF Stopped, vars, memory, history, Signalled
<1> QED BY <1>1, <1>2, <1>3, <1>4, <1>5 DEF Next, User

LEMMA InitSignalled == Init => Signalled
<1> SUFFICES ASSUME Init PROVE Signalled
  OBVIOUS
<1>1. user.signals \in Nat
  BY MakefileTyped DEF Init
<1> QED BY <1>1 DEF Init, Signalled, Awaiting, NoJob

\* After a signal make starts at most one more command, the one it was about to
\* fork when the handler ran; and when it has ended, the only files that a
\* signal cut short are those that cleanup() spares, cannot name, or never sees
\* because the error was forgiven or the status lost.
THEOREM SignalsAreHandled == Spec => []SignalsHandled
<1>1. Init => Typed /\ Signalled
  BY InitTyped, InitSignalled
<1>2. Typed /\ Signalled /\ [Next]_vars => Typed' /\ Signalled'
  BY StepTyped, StepSignalled
<1>3. Typed /\ Signalled => SignalsHandled
  BY DEF Signalled, SignalsHandled, InterruptedRemoved, OneStartAfterSignal, Accounted
<1> QED BY <1>1, <1>2, <1>3, PTL DEF Spec

(***************************************************************************)
(* Commands in the order of the prerequisites.                             *)
(***************************************************************************)
LEMMA TrapKept ==
  ASSUME UNCHANGED user, NEW C
  PROVE  Trap(C)' <=> Trap(C)
BY DEF Trap, Deps

\* The activations stay.
LEMMA StayInOrder ==
  ASSUME InOrder, UNCHANGED <<user, stack, done>>, pc' \notin Idle => pc \notin Idle \/ ~top.err
  PROVE  InOrder'
<1>1. Deps' = Deps /\ top' = top
  BY MakefileKept DEF top
<1> QED BY <1>1, TrapKept DEF InOrder

\* rebuild() is called, for a goal or for the next prerequisite.
LEMMA CallInOrder ==
  ASSUME Typed, InOrder, NEW t \in Names, NEW below \in Seq(Frame), Call(t, below), UNCHANGED <<user, done>>,
         \/ below = <<>>
         \/ below = stack /\ stack # <<>> /\ top.i <= Len(Deps[top.t]) /\ t = Deps[top.t][top.i]
  PROVE  InOrder'
<1> DEFINE n == Len(below)
<1>1. /\ stack' \in Seq(Frame) /\ Len(stack') = n + 1 /\ n \in Nat /\ DOMAIN stack' = 1 .. n + 1
      /\ \A k \in 1 .. n : stack'[k] = below[k]
      /\ stack'[n + 1] = [t |-> t, i |-> 1, need |-> FALSE, err |-> FALSE]
      /\ pc' = "dep"
  BY CallFacts DEF Typed
<1>2. Deps' = Deps /\ Deps[t] \in Seq(Names) /\ Len(Deps[t]) \in Nat
  BY MakefileKept, MakefileTyped DEF Typed, TypeOK
<1>3. stack'[n + 1].t = t /\ stack'[n + 1].i = 1
  BY <1>1
<1>4. n > 0 => below = stack /\ n = Len(stack) /\ t = Deps[stack[n].t][stack[n].i] /\ stack[n].i <= Len(Deps[stack[n].t])
  BY <1>1 DEF top
<1> HIDE DEF n
<1>5. \A k \in 1 .. Len(stack') - 1 :
        stack'[k].i <= Len(Deps[stack'[k].t]) /\ stack'[k + 1].t = Deps[stack'[k].t][stack'[k].i]
  <2> SUFFICES ASSUME NEW k \in 1 .. n
               PROVE  stack'[k].i <= Len(Deps[stack'[k].t]) /\ stack'[k + 1].t = Deps[stack'[k].t][stack'[k].i]
    BY <1>1
  <2>1. stack'[k] = stack[k] /\ k \in 1 .. Len(stack)
    BY <1>1, <1>4
  <2>2. CASE k = n
    BY <1>3, <1>4, <2>1, <2>2
  <2>3. CASE k # n
    <3>1. k \in 1 .. Len(stack) - 1 /\ k + 1 \in 1 .. n
      BY <1>1, <1>4, <2>3
    <3>2. stack'[k + 1] = stack[k + 1]
      BY <1>1, <1>4, <3>1
    <3> QED BY <2>1, <3>1, <3>2 DEF InOrder
  <2> QED BY <2>2, <2>3
<1>6. \A k \in DOMAIN stack' : stack'[k].i \in 1 .. Len(Deps[stack'[k].t]) + 1
  <2> SUFFICES ASSUME NEW k \in 1 .. n + 1
               PROVE  stack'[k].i \in 1 .. Len(Deps[stack'[k].t]) + 1
    BY <1>1
  <2>1. CASE k = n + 1
    BY <1>2, <1>3, <2>1
  <2>2. CASE k # n + 1
    <3>1. stack'[k] = stack[k] /\ k \in DOMAIN stack
      BY <1>1, <1>4, <2>2 DEF Typed, TypeOK
    <3> QED BY <3>1 DEF InOrder
  <2> QED BY <2>1, <2>2
<1>7. \A k \in DOMAIN stack' : (\A j \in k .. Len(stack') : ~stack'[j].err) =>
        \A i \in 1 .. stack'[k].i - 1 : Deps[stack'[k].t][i] \in done
  <2> SUFFICES ASSUME NEW k \in 1 .. n + 1, \A j \in k .. n + 1 : ~stack'[j].err, NEW i \in 1 .. stack'[k].i - 1
               PROVE  Deps[stack'[k].t][i] \in done
    BY <1>1
  <2>1. k # n + 1 /\ k \in 1 .. n
    BY <1>1, <1>3
  <2>2. stack'[k] = stack[k] /\ k \in DOMAIN stack /\ \A j \in k .. n : stack'[j] = stack[j]
    <3>1. n > 0 /\ below = stack /\ n = Len(stack) /\ stack \in Seq(Frame)
      BY <1>1, <1>4, <2>1 DEF Typed, TypeOK
    <3> QED BY <1>1, <2>1, <3>1
  <2>3. \A j \in k .. Len(stack) : ~stack[j].err
    BY <1>1, <1>4, <2>1, <2>2
  <2> QED BY <2>2, <2>3 DEF InOrder
<1>8. \A C \in SUBSET Names : Trap(C)' => done' \cap C = {}
  BY TrapKept DEF InOrder
<1> QED BY <1>1, <1>2, <1>5, <1>6, <1>7, <1>8 DEF InOrder, Idle

\* The prerequisites of a target without errors are done when it is decided.
LEMMA AllDone ==
  ASSUME Typed, InOrder, pc \notin {"goal", "dep"}, ~top.err
  PROVE  \A i \in DOMAIN Deps[top.t] : Deps[top.t][i] \in done
<1>1. /\ Len(stack) \in DOMAIN stack /\ top = stack[Len(stack)] /\ Deps[top.t] \in Seq(Names)
      /\ Len(stack) \in Nat /\ top.i \in Nat
  BY TopFacts DEF Typed, Shape
<1>2. \A j \in Len(stack) .. Len(stack) : ~stack[j].err
  BY <1>1
<1>3. \A i \in 1 .. top.i - 1 : Deps[top.t][i] \in done
  BY <1>1, <1>2 DEF InOrder
<1>4. top.i > Len(Deps[top.t])
  BY DEF Typed, Shape
<1> QED BY <1>1, <1>3, <1>4

\* rebuild() returns.
LEMMA ReturnInOrder ==
  ASSUME Typed, InOrder, pc \notin {"goal", "dep"}, NEW r \in {0, 1}, NEW built \in BOOLEAN, Return(r, built),
         r = 0 => ~top.err, UNCHANGED user
  PROVE  InOrder'
<1> DEFINE n == Len(stack) - 1
<1>1. /\ TypeOK /\ stack # <<>> /\ stack \in Seq(Frame)
  BY DEF Typed, TypeOK, Shape
<1>2. /\ done' = IF r = 0 THEN done \cup {top.t} ELSE done \ {top.t}
      /\ top \in Frame /\ top = stack[n + 1] /\ n \in Nat
      /\ stack' \in Seq(Frame) /\ Len(stack') = n /\ DOMAIN stack' = 1 .. n /\ DOMAIN stack = 1 .. n + 1
      /\ Len(stack) = n + 1
      /\ pc' \in Idle
      /\ \A k \in 1 .. n - 1 : stack'[k] = stack[k]
      /\ n > 0 => /\ stack'[n].t = stack[n].t /\ stack'[n].i = stack[n].i + 1
                  /\ stack'[n].err = (stack[n].err \/ r # 0)
  BY <1>1, ReturnFacts, PcAfterReturn DEF top
<1>3. Deps' = Deps
  BY MakefileKept
<1> HIDE DEF n
<1>4. \A k \in 1 .. n : /\ stack'[k].t = stack[k].t
                        /\ stack[k].i <= Len(Deps[stack[k].t]) /\ stack[k + 1].t = Deps[stack[k].t][stack[k].i]
                        /\ stack[k].i \in Nat /\ stack[k].i >= 1
                        /\ stack[k].err \in BOOLEAN
  <2> SUFFICES ASSUME NEW k \in 1 .. n
               PROVE  /\ stack'[k].t = stack[k].t
                      /\ stack[k].i <= Len(Deps[stack[k].t]) /\ stack[k + 1].t = Deps[stack[k].t][stack[k].i]
                      /\ stack[k].i \in Nat /\ stack[k].i >= 1
                      /\ stack[k].err \in BOOLEAN
    OBVIOUS
  <2>1. stack[k] \in Frame
    BY <1>1, <1>2
  <2>2. k \in 1 .. Len(stack) - 1
    BY <1>2 DEF n
  <2>3. stack'[k].t = stack[k].t
    BY <1>2
  <2> QED BY <2>1, <2>2, <2>3 DEF InOrder, Frame
<1>5. \A k \in 1 .. n : Len(Deps[stack[k].t]) \in Nat
  <2>1. \A k \in 1 .. n : stack[k].t \in Names
    <3> SUFFICES ASSUME NEW k \in 1 .. n PROVE stack[k].t \in Names
      OBVIOUS
    <3>1. k \in 1 .. Len(stack)
      BY <1>2
    <3>2. stack[k] \in Frame
      BY <1>1, <3>1
    <3> QED BY <3>2 DEF Frame
  <2>2. \A t \in Names : Len(Deps[t]) \in Nat
    BY <1>1, MakefileTyped DEF TypeOK
  <2> QED BY <2>1, <2>2
<1>6. \A k \in 1 .. n - 1 :
        stack'[k].i <= Len(Deps[stack'[k].t]) /\ stack'[k + 1].t = Deps[stack'[k].t][stack'[k].i]
  <2> SUFFICES ASSUME NEW k \in 1 .. n - 1
               PROVE  stack'[k].i <= Len(Deps[stack'[k].t]) /\ stack'[k + 1].t = Deps[stack'[k].t][stack'[k].i]
    OBVIOUS
  <2>1. stack'[k] = stack[k] /\ k \in 1 .. n /\ k + 1 \in 1 .. n
    BY <1>2
  <2> QED BY <1>4, <2>1
<1>7. \A k \in 1 .. n : stack'[k].i \in 1 .. Len(Deps[stack'[k].t]) + 1
  <2> SUFFICES ASSUME NEW k \in 1 .. n
               PROVE  stack'[k].i \in 1 .. Len(Deps[stack'[k].t]) + 1
    OBVIOUS
  <2>1. stack'[k].i = stack[k].i \/ stack'[k].i = stack[k].i + 1
    BY <1>2
  <2>2. stack[k].i \in Nat /\ stack[k].i >= 1 /\ stack[k].i <= Len(Deps[stack[k].t]) /\ stack'[k].t = stack[k].t
    BY <1>4
  <2>3. Len(Deps[stack[k].t]) \in Nat
    BY <1>5
  <2> QED BY <2>1, <2>2, <2>3
<1>8. \A k \in 1 .. n : (\A j \in k .. n : ~stack'[j].err) =>
        \A i \in 1 .. stack'[k].i - 1 : Deps[stack'[k].t][i] \in done'
  <2> SUFFICES ASSUME NEW k \in 1 .. n, \A j \in k .. n : ~stack'[j].err, NEW i \in 1 .. stack'[k].i - 1
               PROVE  Deps[stack'[k].t][i] \in done'
    OBVIOUS
  <2>1. n \in k .. n /\ n > 0
    BY <1>2
  <2>2. ~stack'[n].err
    BY <2>1
  <2>3. r = 0 /\ ~stack[n].err
    BY <1>2, <1>4, <2>1, <2>2
  <2>4. \A j \in k .. Len(stack) : ~stack[j].err
    <3> SUFFICES ASSUME NEW j \in k .. Len(stack) PROVE ~stack[j].err
      OBVIOUS
    <3>1. j = n + 1 \/ j = n \/ j \in k .. n - 1
      BY <1>2
    <3>2. CASE j \in k .. n - 1
      BY <1>2, <3>2
    <3> QED BY <1>2, <2>3, <3>1, <3>2
  <2>5. \A m \in 1 .. stack[k].i - 1 : Deps[stack[k].t][m] \in done
    <3>1. k \in DOMAIN stack
      BY <1>2
    <3>2. \A m \in DOMAIN stack : (\A j \in m .. Len(stack) : ~stack[j].err) =>
            \A h \in 1 .. stack[m].i - 1 : Deps[stack[m].t][h] \in done
      BY DEF InOrder
    <3> QED BY <2>4, <3>1, <3>2
  <2>6. done' = done \cup {top.t}
    BY <1>2, <2>3
  <2>7. CASE i \in 1 .. stack[k].i - 1
    BY <1>4, <2>5, <2>6, <2>7
  <2>8. CASE i \notin 1 .. stack[k].i - 1
    <3>1. k = n /\ i = stack[n].i
      BY <1>2, <1>4, <2>8
    <3>2. Deps[stack[n].t][i] = top.t
      BY <1>2, <1>4, <3>1
    <3> QED BY <1>4, <2>6, <3>1, <3>2
  <2> QED BY <2>7, <2>8
<1>9. \A C \in SUBSET Names : Trap(C)' => done' \cap C = {}
  <2> SUFFICES ASSUME NEW C \in SUBSET Names, Trap(C) PROVE done' \cap C = {}
    BY TrapKept
  <2>1. done \cap C = {}
    BY DEF InOrder
  <2>2. CASE r = 1
    BY <1>2, <2>1, <2>2
  <2>3. CASE r = 0
    <3>1. top.t \notin C
      <4> SUFFICES ASSUME top.t \in C PROVE FALSE
        OBVIOUS
      <4>1. PICK i \in DOMAIN Deps[top.t] : Deps[top.t][i] \in C
        BY DEF Trap
      <4> QED BY <2>1, <2>3, <4>1, AllDone
    <3> QED BY <1>2, <2>1, <2>3, <3>1
  <2> QED BY <2>2, <2>3
<1> QED BY <1>2, <1>3, <1>6, <1>7, <1>8, <1>9 DEF InOrder

\* rebuild() returns 1: nothing more is done, and the activation below knows.
LEMMA FailureInOrder ==
  ASSUME Typed, InOrder, pc \notin {"goal", "dep"}, NEW built \in BOOLEAN, Return(1, built), UNCHANGED user
  PROVE  InOrder'
<1>1. 1 \in {0, 1} /\ (1 = 0 => ~top.err)
  OBVIOUS
<1> QED BY <1>1, ReturnInOrder

LEMMA DoneInOrder ==
  ASSUME Typed, InOrder, pc = "decide", ~top.err, NEW built \in BOOLEAN, Done(built)
  PROVE  InOrder'
BY ReturnInOrder DEF Done

LEMMA FailInOrder ==
  ASSUME Typed, InOrder, pc \notin Idle, Fail
  PROVE  InOrder'
<1>1. CASE GiveUpTarget /\ Flag("k")
  BY <1>1, FailureInOrder DEF GiveUpTarget, Idle
<1>2. CASE GiveUpTarget /\ ~Flag("k")
  BY <1>2, StayInOrder DEF GiveUpTarget
<1>3. CASE cleanup(top.t)
  BY <1>3, StayInOrder DEF cleanup, memory
<1> QED BY <1>1, <1>2, <1>3 DEF Fail

LEMMA ResultInOrder ==
  ASSUME Typed, InOrder, pc \notin Idle, NEW r, Result(r)
  PROVE  InOrder'
<1>1. CASE r = 0 \/ Ignore
  BY <1>1, StayInOrder DEF Result, history
<1>2. CASE ~(r = 0 \/ Ignore)
  BY <1>2, FailInOrder DEF Result
<1> QED BY <1>1, <1>2

LEMMA NextGoalInOrder == Typed /\ InOrder /\ nextGoal => InOrder'
<1> SUFFICES ASSUME Typed, InOrder, nextGoal PROVE InOrder'
  OBVIOUS
<1>1. CASE goals = <<>>
  BY <1>1, StayInOrder DEF nextGoal, Exit, memory, history
<1>2. CASE goals # <<>>
  <2>1. Head(goals) \in Names
    BY <1>2, HeadTailProperties DEF Typed, TypeOK
  <2>2. Call(Head(goals), <<>>) /\ UNCHANGED <<user, done>>
    BY <1>2 DEF nextGoal, history
  <2>3. <<>> \in Seq(Frame)
    OBVIOUS
  <2> QED BY <2>1, <2>2, <2>3, CallInOrder
<1> QED BY <1>1, <1>2

LEMMA NextDepInOrder == Typed /\ InOrder /\ nextDep => InOrder'
<1> SUFFICES ASSUME Typed, InOrder, nextDep PROVE InOrder'
  OBVIOUS
<1>1. pc = "dep" /\ stack \in Seq(Frame) /\ stack # <<>> /\ top.i \in Nat \ {0} /\ Deps[top.t] \in Seq(Names)
  BY TopFacts DEF nextDep
<1>2. CASE top.i > Len(Deps[top.t])
  BY <1>1, <1>2, StayInOrder DEF nextDep, history, Idle
<1>3. CASE cleanup(top.t)
  BY <1>1, <1>3, StayInOrder DEF cleanup, memory, Idle
<1>4. CASE ~(top.i > Len(Deps[top.t])) /\ ~cleanup(top.t)
  <2>1. Call(Deps[top.t][top.i], stack) /\ UNCHANGED <<user, done>>
    BY <1>4 DEF nextDep, history
  <2>2. Deps[top.t][top.i] \in Names /\ top.i <= Len(Deps[top.t])
    BY <1>1, <1>4
  <2> QED BY <1>1, <2>1, <2>2, CallInOrder
<1> QED BY <1>2, <1>3, <1>4

LEMMA DecideInOrder == Typed /\ InOrder /\ decide => InOrder'
<1> SUFFICES ASSUME Typed, InOrder, decide PROVE InOrder'
  OBVIOUS
<1>1. pc = "decide"
  BY DEF decide
<1>2. CASE top.err
  BY <1>1, <1>2, FailureInOrder DEF decide, NotRemade
<1>3. CASE ~top.err /\ ~Needed
  BY <1>1, <1>3, DoneInOrder DEF decide
<1>4. CASE ~top.err /\ Needed
  <2>1. CASE \E rule, tgt, req : StartRun(rule, tgt, req)
    BY <1>4, <2>1, StayInOrder DEF StartRun, history
  <2>2. CASE Exit("error")
    BY <1>1, <2>2, StayInOrder DEF Exit, memory, history, Idle
  <2>3. CASE Done(TRUE)
    BY <1>1, <1>4, <2>3, DoneInOrder
  <2> QED BY <1>4, <2>1, <2>2, <2>3 DEF decide, update
<1> QED BY <1>2, <1>3, <1>4

\* The steps of make in a recipe that leave it in the recipe, and those of others.
LEMMA OthersInOrder ==
  ASSUME InOrder, UNCHANGED <<user, stack, done>>, pc' = pc \/ pc \notin Idle
  PROVE  InOrder'
BY StayInOrder

LEMMA StepInOrder == Typed /\ InOrder /\ [Next]_vars => InOrder'
<1> SUFFICES ASSUME Typed, InOrder, [Next]_vars PROVE InOrder'
  OBVIOUS
<1>1. CASE nextGoal \/ nextDep \/ decide
  BY <1>1, NextGoalInOrder, NextDepInOrder, DecideInOrder
<1>2. CASE touchdeps
  <2>1. pc \notin Idle
    BY <1>2 DEF touchdeps, Idle
  <2> QED BY <1>2, <2>1, FailInOrder, OthersInOrder DEF touchdeps, history
<1>3. CASE nextAction
  <2>1. pc \notin Idle
    BY <1>3 DEF nextAction, Idle
  <2> QED BY <1>3, <2>1, OthersInOrder DEF nextAction, cleanup, memory, history
<1>4. CASE ranAll
  <2>1. pc = "ran" /\ pc \notin Idle /\ ~top.err
    BY <1>4 DEF ranAll, Idle, InOrder
  <2>2. CASE RanWhole
    BY <2>1, <2>2, ReturnInOrder DEF RanWhole
  <2> QED BY <1>4, <2>1, <2>2, FailInOrder DEF ranAll
<1>5. CASE skipCommand \/ enterWait \/ terminate
  BY <1>5, OthersInOrder DEF skipCommand, enterWait, terminate, Idle, history
<1>6. CASE fork \/ reap \/ giveUp
  <2>1. pc \notin Idle
    BY <1>6 DEF fork, reap, giveUp, Idle
  <2>2. CASE \E r : Result(r)
    BY <2>1, <2>2, ResultInOrder
  <2>3. CASE fork /\ ~Result(-1)
    BY <2>1, <2>3, OthersInOrder DEF fork
  <2> QED BY <1>6, <2>2, <2>3 DEF fork, reap, giveUp
<1>7. CASE Child
  BY <1>7, OthersInOrder DEF Child, childExecs, childWrites, childEnds, childTerminated, ChildUnchanged
<1>8. CASE \E group \in BOOLEAN : signal(group)
  <2>1. PICK group \in BOOLEAN : signal(group)
    BY <1>8
  <2>2. UNCHANGED <<user, stack, done>> /\ (pc' = pc \/ pc \in {"wait", "wait2"})
    BY <2>1 DEF signal, history
  <2> QED BY <2>2, OthersInOrder DEF Idle
<1>9. CASE again
  <2>1. stack' = <<>> /\ done' = {} /\ pc' = "goal" /\ user' = user
    BY <1>9 DEF again
  <2> QED BY <2>1 DEF InOrder, Idle
<1>10. CASE Stopped \/ UNCHANGED vars
  BY <1>10, OthersInOrder DEF Stopped, vars, memory, history
<1> QED BY <1>1, <1>2, <1>3, <1>4, <1>5, <1>6, <1>7, <1>8, <1>9, <1>10 DEF Next, Make, User

LEMMA InitInOrder == Init => InOrder
BY DEF Init, InOrder, Idle

\* The recipe of a target starts when its prerequisites are done, and none of
\* them is below it: else it would be on a cycle, and not done.
LEMMA OrderFollows ==
  ASSUME Typed, InOrder
  PROVE  BuildsInOrder
<1> SUFFICES ASSUME child \in {"new", "run"}, NEW d \in ToSet(Deps[top.t])
             PROVE  d \in done /\ \A k \in DOMAIN stack : stack[k].t # d
  BY DEF BuildsInOrder
<1>1. pc \in Awaiting /\ pc \notin Idle /\ pc \notin {"goal", "dep"} /\ ~top.err
  BY DEF Typed, Shape, InOrder, Idle, Awaiting
<1>2. PICK i \in DOMAIN Deps[top.t] : d = Deps[top.t][i]
  BY DEF ToSet
<1>3. d \in done
  BY <1>1, <1>2, AllDone
<1>4. /\ stack \in Seq(Frame) /\ Len(stack) \in Nat /\ top = stack[Len(stack)]
  BY <1>1, TopFacts
<1>5. ASSUME NEW k \in DOMAIN stack, stack[k].t = d PROVE FALSE
  <2> DEFINE C == {stack[j].t : j \in k .. Len(stack)}
  <2>1. k \in 1 .. Len(stack) /\ \A j \in k .. Len(stack) : stack[j] \in Frame
    BY <1>4, <1>5
  <2>2. C \in SUBSET Names /\ d \in C
    BY <1>4, <1>5, <2>1 DEF Frame
  <2>3. Trap(C)
    <3> SUFFICES ASSUME NEW j \in k .. Len(stack)
                 PROVE  \E h \in DOMAIN Deps[stack[j].t] : Deps[stack[j].t][h] \in C
      BY DEF Trap
    <3>1. CASE j = Len(stack)
      BY <1>2, <1>4, <2>2, <3>1
    <3>2. CASE j # Len(stack)
      <4>1. j \in 1 .. Len(stack) - 1 /\ j + 1 \in k .. Len(stack) /\ j \in DOMAIN stack
        BY <1>4, <2>1, <3>2
      <4>2. /\ stack[j].i <= Len(Deps[stack[j].t]) /\ stack[j + 1].t = Deps[stack[j].t][stack[j].i]
            /\ stack[j].i \in 1 .. Len(Deps[stack[j].t]) + 1
        BY <4>1 DEF InOrder
      <4>3. Deps[stack[j].t] \in Seq(Names)
        BY <2>1, MakefileTyped DEF Frame, Typed, TypeOK
      <4>4. stack[j].i \in DOMAIN Deps[stack[j].t]
        BY <4>2, <4>3
      <4> QED BY <4>1, <4>2, <4>4
    <3> QED BY <3>1, <3>2
  <2> QED BY <1>3, <2>2, <2>3 DEF InOrder
<1> QED BY <1>3, <1>5

(***************************************************************************)
(* The failures that count.                                                *)
(***************************************************************************)
Counted == IgnoredNeverFails /\ (pc = "touchdeps" => Flag("t"))

LEMMA NoFailureCounted ==
  ASSUME Counted, UNCHANGED user, failed' = failed \/ failed' = {}, pc' = "touchdeps" => pc = "touchdeps" \/ Flag("t")
  PROVE  Counted'
<1>1. Ignored' = Ignored /\ (Flag("t")' <=> Flag("t"))
  BY MakefileKept
<1> QED BY <1>1 DEF Counted, IgnoredNeverFails

LEMMA FailCounted ==
  ASSUME Counted, Fail, Flag("t") \/ job.rule \notin Ignored
  PROVE  Counted'
<1>1. Ignored' = Ignored /\ (Flag("t")' <=> Flag("t")) /\ user' = user
  BY MakefileKept DEF Fail, GiveUpTarget, cleanup, memory
<1>2. pc' = pc \/ pc' \in Idle
  BY PcAfterReturn DEF Fail, GiveUpTarget, cleanup, memory
<1>3. failed' \subseteq failed \cup {job.rule}
  BY DEF Fail, GiveUpTarget, cleanup
<1> QED BY <1>1, <1>2, <1>3 DEF Counted, IgnoredNeverFails, Idle

LEMMA ResultCounted ==
  ASSUME Counted, NEW r, Result(r)
  PROVE  Counted'
<1>1. CASE r = 0 \/ Ignore
  BY <1>1, NoFailureCounted DEF Result, history
<1>2. CASE ~(r = 0 \/ Ignore)
  BY <1>2, FailCounted DEF Result, Ignore
<1> QED BY <1>1, <1>2

LEMMA StepCounted == Counted /\ [Next]_vars => Counted'
<1> SUFFICES ASSUME Counted, [Next]_vars PROVE Counted'
  OBVIOUS
<1>1. CASE nextGoal
  BY <1>1, NoFailureCounted DEF nextGoal, Call, Exit, memory, history
<1>2. CASE nextDep
  BY <1>2, NoFailureCounted DEF nextDep, Call, cleanup, memory, history
<1>3. CASE decide
  <2>1. UNCHANGED <<user, failed>>
    BY <1>3 DEF decide, NotRemade, update, StartRun, Exit, Done, memory, history
  <2>2. pc' = "touchdeps" => Flag("t")
    BY <1>3, PcAfterReturn DEF decide, NotRemade, update, StartRun, Exit, Done, memory, Idle
  <2> QED BY <2>1, <2>2, NoFailureCounted
<1>4. CASE touchdeps
  <2>1. Flag("t") /\ pc = "touchdeps"
    BY <1>4 DEF touchdeps, Counted
  <2> QED BY <1>4, <2>1, NoFailureCounted, FailCounted DEF touchdeps, history
<1>5. CASE nextAction
  BY <1>5, NoFailureCounted DEF nextAction, cleanup, memory, history
<1>6. CASE ranAll
  <2>1. CASE RanWhole
    BY <2>1, PcAfterReturn, NoFailureCounted DEF RanWhole, Idle
  <2> QED BY <1>6, <2>1, FailCounted DEF ranAll
<1>7. CASE skipCommand \/ enterWait \/ terminate
  BY <1>7, NoFailureCounted DEF skipCommand, enterWait, terminate, history
<1>8. CASE fork \/ reap \/ giveUp
  <2>1. CASE \E r : Result(r)
    BY <2>1, ResultCounted
  <2>2. CASE fork /\ ~Result(-1)
    BY <2>2, NoFailureCounted DEF fork
  <2> QED BY <1>8, <2>1, <2>2 DEF fork, reap, giveUp
<1>9. CASE Child
  BY <1>9, NoFailureCounted DEF Child, childExecs, childWrites, childEnds, childTerminated, ChildUnchanged
<1>10. CASE \E group \in BOOLEAN : signal(group)
  <2>1. PICK group \in BOOLEAN : signal(group)
    BY <1>10
  <2>2. UNCHANGED <<user, failed>> /\ (pc' = pc \/ pc' \in {"eintr", "lost"})
    BY <2>1 DEF signal, history
  <2> QED BY <2>2, NoFailureCounted
<1>11. CASE again
  BY <1>11, NoFailureCounted DEF again
<1>12. CASE Stopped \/ UNCHANGED vars
  BY <1>12, NoFailureCounted DEF Stopped, vars, memory, history
<1> QED BY <1>1, <1>2, <1>3, <1>4, <1>5, <1>6, <1>7, <1>8, <1>9, <1>10, <1>11, <1>12 DEF Next, Make, User

\* In every build of every makefile, cyclic ones too, the state has its type, a
\* command runs only when rebuild() of each prerequisite has returned 0, and no
\* target of .IGNORE is counted as failed, but under -t.
THEOREM BuildIsSound == Spec => []BuildInv
<1>1. Init => Typed /\ InOrder /\ Counted
  BY InitTyped, InitInOrder DEF Init, Counted, IgnoredNeverFails
<1>2. Typed /\ InOrder /\ Counted /\ [Next]_vars => Typed' /\ InOrder' /\ Counted'
  BY StepTyped, StepInOrder, StepCounted
<1>3. Typed /\ InOrder /\ Counted => BuildInv
  BY OrderFollows DEF BuildInv, Typed, Counted
<1> QED BY <1>1, <1>2, <1>3, PTL DEF Spec

(***************************************************************************)
(* The exit status.                                                        *)
(***************************************************************************)
LEMMA StatusKept ==
  ASSUME Status, UNCHANGED <<user, stack, goals, done, failed, exitstatus>>,
         outcome' = outcome \/ outcome' \in {"running", "error", "killed"}
  PROVE  Status'
<1>1. Goals' = Goals /\ (Flag("q")' <=> Flag("q"))
  BY MakefileKept
<1> QED BY <1>1 DEF Status

\* An exit status of 1 has a reason, and promises nothing.
LEMMA StatusOne ==
  ASSUME exitstatus' = 1, failed' # {} \/ Flag("q"), outcome' \notin {"ok"}, UNCHANGED user
  PROVE  Status'
<1>1. Flag("q")' <=> Flag("q")
  BY MakefileKept
<1> QED BY <1>1 DEF Status

\* rebuild() returns 0: what was in progress is done.
LEMMA ReturnStatus ==
  ASSUME Typed, Status, Running, pc # "goal", NEW built \in BOOLEAN, Return(0, built),
         UNCHANGED <<user, goals, failed, exitstatus, outcome>>
  PROVE  Status'
<1> DEFINE n == Len(stack) - 1
<1>1. TypeOK /\ stack # <<>> /\ stack \in Seq(Frame)
  BY DEF Typed, TypeOK, Shape
<1>2. /\ done' = done \cup {top.t}
      /\ top = stack[n + 1] /\ n \in Nat /\ DOMAIN stack = 1 .. n + 1 /\ DOMAIN stack' = 1 .. n
      /\ \A k \in 1 .. n - 1 : stack'[k] = stack[k]
      /\ n > 0 => /\ stack'[n].t = stack[n].t /\ stack'[n].err = (stack[n].err \/ 0 # 0)
  BY <1>1, ReturnFacts DEF top
<1>3. Goals' = Goals /\ (Flag("q")' <=> Flag("q"))
  BY MakefileKept
<1> HIDE DEF n
<1>4. ASSUME exitstatus = 0
      PROVE  /\ \A k \in DOMAIN stack' : ~stack'[k].err
             /\ ToSet(Goals) \subseteq done' \cup ToSet(goals) \cup {stack'[k].t : k \in {1} \cap DOMAIN stack'}
  <2>1. \A k \in DOMAIN stack : ~stack[k].err
    BY <1>4 DEF Status
  <2>2. ASSUME NEW k \in 1 .. n PROVE ~stack'[k].err
    <3>1. CASE k = n
      <4>1. n > 0 /\ n \in DOMAIN stack
        BY <1>2, <3>1
      <4>2. stack[n].err = FALSE
        BY <1>1, <2>1, <4>1 DEF Frame
      <4> QED BY <1>2, <3>1, <4>1, <4>2
    <3>2. CASE k # n
      BY <1>2, <2>1, <3>2
    <3> QED BY <3>1, <3>2
  <2>3. ToSet(Goals) \subseteq done \cup ToSet(goals) \cup {stack[k].t : k \in {1} \cap DOMAIN stack}
    BY <1>4 DEF Status
  <2>4. CASE n = 0
    <3>1. {stack[k].t : k \in {1} \cap DOMAIN stack} = {top.t}
      BY <1>2, <2>4
    <3> QED BY <1>2, <2>2, <2>3, <3>1
  <2>5. CASE n > 0
    <3>1. 1 \in DOMAIN stack' /\ 1 \in DOMAIN stack /\ stack'[1].t = stack[1].t
      <4>1. CASE n = 1
        BY <1>2, <4>1
      <4>2. CASE n # 1
        BY <1>2, <2>5, <4>2
      <4> QED BY <4>1, <4>2
    <3>2. {stack'[k].t : k \in {1} \cap DOMAIN stack'} = {stack[k].t : k \in {1} \cap DOMAIN stack}
      BY <3>1
    <3> QED BY <1>2, <2>2, <2>3, <3>2
  <2> QED BY <1>2, <2>4, <2>5
<1> QED BY <1>3, <1>4 DEF Status, Running

LEMMA CallStatus ==
  ASSUME Typed, Status, Running, NEW t \in Names, NEW below \in Seq(Frame), Call(t, below),
         UNCHANGED <<user, done, failed, exitstatus, outcome>>,
         \/ stack = <<>> /\ below = <<>> /\ ToSet(goals) \subseteq ToSet(goals') \cup {t}
         \/ stack # <<>> /\ below = stack /\ goals' = goals
  PROVE  Status'
<1> DEFINE n == Len(below)
<1>1. /\ n \in Nat /\ DOMAIN stack' = 1 .. n + 1
      /\ \A k \in 1 .. n : stack'[k] = below[k]
      /\ stack'[n + 1].t = t /\ stack'[n + 1].err = FALSE
  <2>1. /\ stack' \in Seq(Frame) /\ Len(stack') = n + 1 /\ n \in Nat
        /\ \A k \in 1 .. n : stack'[k] = below[k]
        /\ stack'[n + 1] = [t |-> t, i |-> 1, need |-> FALSE, err |-> FALSE]
    BY CallFacts DEF Typed
  <2>2. stack'[n + 1].t = t /\ stack'[n + 1].err = FALSE
    BY <2>1
  <2> QED BY <2>1, <2>2
<1>2. Goals' = Goals /\ (Flag("q")' <=> Flag("q"))
  BY MakefileKept
<1>3. n = 0 => below = <<>>
  OBVIOUS
<1>4. below = stack => DOMAIN stack = 1 .. n
  OBVIOUS
<1>5. below = <<>> => n = 0
  OBVIOUS
<1> HIDE DEF n
<1>6. ASSUME exitstatus = 0
      PROVE  /\ \A k \in DOMAIN stack' : ~stack'[k].err
             /\ ToSet(Goals) \subseteq done \cup ToSet(goals') \cup {stack'[k].t : k \in {1} \cap DOMAIN stack'}
  <2>1. /\ \A k \in DOMAIN stack : ~stack[k].err
        /\ ToSet(Goals) \subseteq done \cup ToSet(goals) \cup {stack[k].t : k \in {1} \cap DOMAIN stack}
    BY <1>6 DEF Status
  <2>2. CASE stack = <<>> /\ below = <<>> /\ ToSet(goals) \subseteq ToSet(goals') \cup {t}
    <3>1. DOMAIN stack = {} /\ DOMAIN stack' = {1} /\ stack'[1].t = t /\ ~stack'[1].err
      BY <1>1, <1>5, <2>2
    <3>2. {stack[k].t : k \in {1} \cap DOMAIN stack} = {} /\ {stack'[k].t : k \in {1} \cap DOMAIN stack'} = {t}
      BY <3>1
    <3> QED BY <2>1, <2>2, <3>1, <3>2
  <2>3. CASE stack # <<>> /\ below = stack /\ goals' = goals
    <3>1. n > 0 /\ DOMAIN stack = 1 .. n
      BY <1>1, <1>3, <1>4, <2>3
    <3>2. 1 \in DOMAIN stack /\ 1 \in DOMAIN stack' /\ stack'[1].t = stack[1].t
      BY <1>1, <2>3, <3>1
    <3>3. {stack'[k].t : k \in {1} \cap DOMAIN stack'} = {stack[k].t : k \in {1} \cap DOMAIN stack}
      BY <3>2
    <3>4. ASSUME NEW k \in DOMAIN stack' PROVE ~stack'[k].err
      <4>1. CASE k = n + 1
        BY <1>1, <4>1
      <4>2. CASE k # n + 1
        BY <1>1, <2>1, <2>3, <3>1, <4>2
      <4> QED BY <4>1, <4>2
    <3> QED BY <2>1, <2>3, <3>3, <3>4
  <2> QED BY <2>2, <2>3
<1> QED BY <1>2, <1>6 DEF Status, Running

LEMMA FailStatus ==
  ASSUME Status, Running, Fail
  PROVE  Status'
<1>1. CASE stop
  BY <1>1, StatusKept DEF Fail, cleanup, memory
<1>2. CASE ~stop
  <2>1. exitstatus' = 1 /\ failed' # {} /\ outcome' \notin {"ok"} /\ user' = user
    BY <1>2 DEF Fail, GiveUpTarget, Running
  <2> QED BY <2>1, StatusOne
<1> QED BY <1>1, <1>2

LEMMA ResultStatus ==
  ASSUME Status, Running, NEW r, Result(r)
  PROVE  Status'
<1>1. CASE r = 0 \/ Ignore
  BY <1>1, StatusKept DEF Result, history
<1>2. CASE ~(r = 0 \/ Ignore)
  BY <1>2, FailStatus DEF Result
<1> QED BY <1>1, <1>2

LEMMA NextGoalStatus == Typed /\ Status /\ nextGoal => Status'
<1> SUFFICES ASSUME Typed, Status, nextGoal PROVE Status'
  OBVIOUS
<1>1. pc = "goal" /\ stack = <<>> /\ Running /\ goals \in Seq(Names) /\ exitstatus \in {0, 1}
  BY DEF nextGoal, Typed, TypeOK, Shape
<1>2. CASE goals = <<>>
  <2>1. /\ outcome' = IF exitstatus = 0 THEN "ok" ELSE "fail"
        /\ UNCHANGED <<user, stack, goals, done, failed, exitstatus>>
    BY <1>2 DEF nextGoal, Exit, memory, history
  <2>2. Goals' = Goals /\ (Flag("q")' <=> Flag("q"))
    BY <2>1, MakefileKept
  <2> QED BY <1>1, <1>2, <2>1, <2>2 DEF Status
<1>3. CASE goals # <<>>
  <2>1. /\ goals' = Tail(goals) /\ Call(Head(goals), <<>>)
        /\ UNCHANGED <<user, done, failed, exitstatus, outcome>>
    BY <1>3 DEF nextGoal, history
  <2>2. Head(goals) \in Names /\ Tail(goals) \in Seq(Names) /\ Len(Tail(goals)) = Len(goals) - 1
        /\ \A i \in 1 .. Len(Tail(goals)) : Tail(goals)[i] = goals[i + 1]
    BY <1>1, <1>3, HeadTailProperties
  <2>3. ToSet(goals) \subseteq ToSet(goals') \cup {Head(goals)}
    <3> SUFFICES ASSUME NEW i \in 1 .. Len(goals) PROVE goals[i] \in ToSet(goals') \cup {Head(goals)}
      BY <1>1 DEF ToSet
    <3>1. CASE i = 1
      BY <1>1, <3>1
    <3>2. CASE i # 1
      <4>1. i - 1 \in 1 .. Len(Tail(goals)) /\ Tail(goals)[i - 1] = goals[i]
        BY <1>1, <2>2, <3>2
      <4>2. i - 1 \in DOMAIN goals'
        BY <2>1, <2>2, <4>1
      <4> QED BY <2>1, <4>1, <4>2 DEF ToSet
    <3> QED BY <3>1, <3>2
  <2>4. <<>> \in Seq(Frame)
    OBVIOUS
  <2> QED BY <1>1, <2>1, <2>2, <2>3, <2>4, CallStatus
<1> QED BY <1>2, <1>3

LEMMA NextDepStatus == Typed /\ Status /\ nextDep => Status'
<1> SUFFICES ASSUME Typed, Status, nextDep PROVE Status'
  OBVIOUS
<1>1. pc = "dep" /\ stack \in Seq(Frame) /\ stack # <<>> /\ top.i \in Nat \ {0} /\ Deps[top.t] \in Seq(Names) /\ Running
  BY TopFacts DEF nextDep
<1>2. CASE top.i > Len(Deps[top.t])
  BY <1>1, <1>2, StatusKept DEF nextDep, history
<1>3. CASE cleanup(top.t)
  BY <1>1, <1>3, StatusKept DEF cleanup, memory
<1>4. CASE ~(top.i > Len(Deps[top.t])) /\ ~cleanup(top.t)
  <2>1. Call(Deps[top.t][top.i], stack) /\ UNCHANGED <<user, done, failed, exitstatus, outcome, goals>>
    BY <1>4 DEF nextDep, history
  <2>2. Deps[top.t][top.i] \in Names
    BY <1>1, <1>4
  <2> QED BY <1>1, <2>1, <2>2, CallStatus
<1> QED BY <1>2, <1>3, <1>4

LEMMA DoneStatus ==
  ASSUME Typed, Status, Running, pc # "goal", NEW built \in BOOLEAN, Done(built)
  PROVE  Status'
BY ReturnStatus DEF Done

LEMMA DecideStatus == Typed /\ Status /\ decide => Status'
<1> SUFFICES ASSUME Typed, Status, decide PROVE Status'
  OBVIOUS
<1>1. pc # "goal" /\ Running
  BY DEF decide
<1>2. CASE top.err
  <2>1. Len(stack) \in DOMAIN stack /\ top = stack[Len(stack)]
    BY <1>1, TopFacts
  <2>2. exitstatus = 1
    BY <1>2, <2>1 DEF Status, Typed, TypeOK
  <2>3. UNCHANGED <<user, failed, exitstatus, outcome>>
    BY <1>2 DEF decide, NotRemade
  <2> QED BY <1>1, <2>2, <2>3, StatusOne DEF Status, Running
<1>3. CASE ~top.err /\ ~Needed
  BY <1>1, <1>3, DoneStatus DEF decide
<1>4. CASE ~top.err /\ Needed
  <2>1. CASE \E rule, tgt, req : StartRun(rule, tgt, req)
    BY <2>1, StatusKept DEF StartRun, history
  <2>2. CASE Exit("error")
    BY <2>2, StatusKept DEF Exit, memory, history
  <2>3. CASE Done(TRUE)
    BY <1>1, <2>3, DoneStatus
  <2> QED BY <1>4, <2>1, <2>2, <2>3 DEF decide, update
<1> QED BY <1>2, <1>3, <1>4

LEMMA StepStatus == Typed /\ Status /\ [Next]_vars => Status'
<1> SUFFICES ASSUME Typed, Status, [Next]_vars PROVE Status'
  OBVIOUS
<1>1. CASE nextGoal \/ nextDep \/ decide
  BY <1>1, NextGoalStatus, NextDepStatus, DecideStatus
<1>2. CASE touchdeps
  BY <1>2, FailStatus, StatusKept DEF touchdeps, history
<1>3. CASE nextAction
  BY <1>3, StatusKept DEF nextAction, cleanup, memory, history
<1>4. CASE ranAll
  <2>1. CASE RanWhole
    BY <1>4, <2>1, ReturnStatus DEF RanWhole, ranAll
  <2> QED BY <1>4, <2>1, FailStatus DEF ranAll
<1>5. CASE skipCommand
  <2>1. CASE Flag("q") /\ ~Flag("t")
    BY <1>5, <2>1, StatusOne DEF skipCommand, Running
  <2>2. CASE ~(Flag("q") /\ ~Flag("t"))
    BY <1>5, <2>2, StatusKept DEF skipCommand, history
  <2> QED BY <2>1, <2>2
<1>6. CASE enterWait \/ terminate
  BY <1>6, StatusKept DEF enterWait, terminate, memory, history
<1>7. CASE fork \/ reap \/ giveUp
  <2>1. CASE \E r : Result(r)
    BY <1>7, <2>1, ResultStatus DEF fork, reap, giveUp
  <2>2. CASE fork /\ ~Result(-1)
    BY <2>2, StatusKept DEF fork
  <2> QED BY <1>7, <2>1, <2>2 DEF fork, reap, giveUp
<1>8. CASE Child
  BY <1>8, StatusKept DEF Child, childExecs, childWrites, childEnds, childTerminated, ChildUnchanged
<1>9. CASE \E group \in BOOLEAN : signal(group)
  BY <1>9, StatusKept DEF signal, history
<1>10. CASE again
  <2>1. /\ goals' = Goals /\ stack' = <<>> /\ exitstatus' = 0 /\ failed' = {} /\ outcome' = "running"
        /\ user' = user
    BY <1>10 DEF again
  <2> QED BY <2>1, MakefileKept DEF Status
<1>11. CASE Stopped \/ UNCHANGED vars
  BY <1>11, StatusKept DEF Stopped, vars, memory, history
<1> QED BY <1>1, <1>2, <1>3, <1>4, <1>5, <1>6, <1>7, <1>8, <1>9, <1>10, <1>11 DEF Next, Make, User

LEMMA InitStatus == Init => Status
BY DEF Init, Status

\* make exits 0 only when rebuild() of every goal returned 0 and no recipe
\* failed, and 1 only when one failed or -q asked for it.
THEOREM ExitStatusIsHonest == Spec => []ExitStatusHonest
<1>1. Init => Typed /\ Status
  BY InitTyped, InitStatus
<1>2. Typed /\ Status /\ [Next]_vars => Typed' /\ Status'
  BY StepTyped, StepStatus
<1>3. Status => ExitStatusHonest
  <2>1. goals = <<>> => ToSet(goals) = {}
    BY DEF ToSet
  <2>2. stack = <<>> => {stack[k].t : k \in {1} \cap DOMAIN stack} = {}
    OBVIOUS
  <2> QED BY <2>1, <2>2 DEF Status, ExitStatusHonest
<1> QED BY <1>1, <1>2, <1>3, PTL DEF Spec
=============================================================================
