------------------------------- MODULE CcFlow -------------------------------
(***************************************************************************)
(* What C says of the control flow of a function, and that the code cc2    *)
(* makes of it does the same.  Both are seen as graphs over events: the    *)
(* expressions evaluated and the comparisons made, each named by its       *)
(* statement of ast.  From an event and its outcome the next event is      *)
(* determined, in the text by the rules of C (6.8) and in the code by      *)
(* following it; the two must be the same.                                 *)
(***************************************************************************)
EXTENDS Cc2Flow

Node(n) == ast[n]
Kids(n) == {m \in DOMAIN ast : ast[m].up = n}
FirstOf(S) == CHOOSE m \in S : \A k \in S : m <= k
Body(n) == FirstOf(Kids(n))

\* The statement that a break or continue in n leaves, and n's switch.
RECURSIVE Enclosing(_, _)
Enclosing(n, kinds) ==
    LET up == ast[n].up IN
    IF up = 0 THEN 0 ELSE IF ast[up].k \in kinds THEN up ELSE Enclosing(up, kinds)

Loops == {"while", "do", "for"}
CasesOf(n) == {m \in DOMAIN ast : ast[m].k = "case" /\ Enclosing(m, {"switch"}) = n}
DefaultsOf(n) == {m \in DOMAIN ast : ast[m].k = "default" /\ Enclosing(m, {"switch"}) = n}
LabelsOf(l) == {m \in DOMAIN ast : ast[m].k = "label" /\ ast[m].x = l}

Shape(n) == IF ast[n].k \in {"for", "expr"} THEN ast[n].x.s ELSE ast[n].x

\* After comparison leaf of a condition comes the other one, or its value.
Short(s, leaf, o) ==
    CASE s = "cmp" -> IF o = 1 THEN "T" ELSE "F"
      [] s = "and" -> IF o = 0 THEN "F" ELSE IF leaf = "1" THEN "2" ELSE "T"
      [] s = "or" -> IF o = 1 THEN "T" ELSE IF leaf = "1" THEN "2" ELSE "F"
      [] s = "notand" -> IF o = 0 THEN "T" ELSE IF leaf = "1" THEN "2" ELSE "F"

\* The beginning of a condition, and where its value leads.
Condition(n) ==
    CASE Shape(n) \in {"one", "none"} -> <<n, "T">>
      [] Shape(n) = "zero" -> <<n, "F">>
      [] OTHER -> <<n, "1">>

After(n) == IF Node(n).k = "for" /\ Node(n).x.full THEN <<n, "inc">> ELSE Condition(n)

(***************************************************************************)
(* The points of the text that are no events, and where control goes.      *)
(***************************************************************************)
SilentPoint(p) == p[2] \in {"in", "out", "T", "F"} /\ p # <<1, "out">>

Enter(n) ==
    LET k == Node(n).k IN
    CASE k \in {"if", "while"} -> Condition(n)
      [] k = "for" -> IF Node(n).x.full THEN <<n, "init">> ELSE Condition(n)
      [] k = "block" -> IF Kids(n) = {} THEN <<n, "out">> ELSE <<FirstOf(Kids(n)), "in">>
      [] k \in {"do", "label", "case", "default"} -> <<Body(n), "in">>
      [] k = "switch" -> <<n, "sw">>
      [] k = "expr" -> IF Node(n).x.form = "call" THEN <<n, "x">>
                       ELSE IF Node(n).x.form = "comma" THEN <<n, "l">> ELSE <<n, "1">>
      [] k = "return" -> <<n, "ret">>
      [] k = "empty" -> <<n, "out">>
      [] k = "goto" -> <<FirstOf(LabelsOf(Node(n).x)), "in">>
      [] k = "break" -> <<Enclosing(n, Loops \cup {"switch"}), "out">>
      [] k = "continue" -> After(Enclosing(n, Loops))

Leave(n) ==
    LET up == Node(n).up
        later == {m \in Kids(up) : m > n} IN
    CASE Node(up).k = "block" /\ later # {} -> <<FirstOf(later), "in">>
      [] Node(up).k \in Loops -> After(up)
      [] OTHER -> <<up, "out">>

Decided(n, yes) ==
    LET k == Node(n).k
        elses == {m \in Kids(n) : Node(m).else} IN
    CASE k = "expr" -> IF Node(n).x.form = "land" THEN <<n, IF yes THEN "one" ELSE "zero">>
                       ELSE <<n, IF yes THEN "l" ELSE "r">>
      [] yes -> <<Body(n), "in">>
      [] k = "if" /\ elses # {} -> <<FirstOf(elses), "in">>
      [] OTHER -> <<n, "out">>

Silently(p) ==
    CASE ~SilentPoint(p) -> p
      [] p[2] = "in" -> Enter(p[1])
      [] p[2] = "out" -> Leave(p[1])
      [] OTHER -> Decided(p[1], p[2] = "T")

\* Iterates a step often enough to pass every point once; a point that is
\* still silent then is on a loop without events.
Bound == 4 * Cardinality(DOMAIN ast) + 4
Settle(p) ==
    LET w[k \in 0..Bound] == IF k = 0 THEN p ELSE Silently(w[k - 1])
    IN IF SilentPoint(w[Bound]) THEN <<0, "loop">> ELSE w[Bound]

Terminal(e) == e[2] \in {"ret", "loop"} \/ e = <<1, "out">>

Outcomes(e) ==
    CASE e[2] \in {"1", "2"} -> {0, 1}
      [] e[2] = "sw" -> Values \cup {99}
      [] OTHER -> {0}

\* The event after e by the rules of C.
Follow(e, o) ==
    LET n == e[1] IN
    Settle(CASE e[2] \in {"1", "2"} -> <<n, Short(Shape(n), e[2], o)>>
             [] e[2] = "sw" ->
                  LET hit == {m \in CasesOf(n) : Node(m).x = o} IN
                  IF hit # {} THEN <<FirstOf(hit), "in">>
                  ELSE IF DefaultsOf(n) # {} THEN <<FirstOf(DefaultsOf(n)), "in">>
                  ELSE <<n, "out">>
             [] e[2] = "x" -> <<n, "out">>
             [] e[2] \in {"init", "inc"} -> Condition(n)
             [] Node(n).x.form = "ask" -> <<n, "out">>
             [] OTHER -> <<n, "x">>)

Start == Settle(<<1, "in">>)

RECURSIVE Reach(_)
Reach(E) ==
    LET F == E \cup UNION {{Follow(e, o) : o \in Outcomes(e)} : e \in {e \in E : ~Terminal(e)}}
    IN IF F = E THEN E ELSE Reach(F)

(***************************************************************************)
(* The same over the code: a position of list and the value switched on.   *)
(***************************************************************************)
Where(l) == {i \in DOMAIN list : list[i].lab = l}
GoTo(l) == IF Where(l) = {} THEN 0 ELSE FirstOf(Where(l))

IsEvent(i) ==
    \/ list[i].op \in {"call", "switch", "ret"}
    \/ list[i].op = "br" /\ list[i].cond.op = "cmp"

CodeStep(i, v) ==
    CASE i = 0 \/ i > Len(list) -> i
      [] IsEvent(i) \/ list[i].op = "efun" -> i
      [] list[i].op = "jmp" -> GoTo(list[i].sym)
      [] list[i].op = "br" -> IF list[i].cond.v = v THEN GoTo(list[i].sym) ELSE i + 1
      [] OTHER -> i + 1

\* The event a position leads to: <<0, "lost">> through a jump to no label.
CodeEvent(i) ==
    LET st == list[i] IN
    CASE i = 0 -> <<0, "lost">>
      [] st.op = "efun" \/ (st.op = "ret" /\ st.ev[1] = 0) -> <<1, "out">>
      [] ~IsEvent(i) -> <<0, "loop">>
      [] st.op = "br" -> st.cond.ev
      [] OTHER -> st.ev

CodeSettle(i, v) ==
    LET w[k \in 0..Len(list)] == IF k = 0 THEN i ELSE CodeStep(w[k - 1], v)
    IN CodeEvent(w[Len(list)])

EventPos(e) == {i \in DOMAIN list : IsEvent(i) /\ CodeEvent(i) = e}

CodeFollow(i, o) ==
    LET st == list[i] IN
    CASE st.op = "br" -> CodeSettle(IF (o = 1) = st.cond.pos THEN GoTo(st.sym) ELSE i + 1, 0)
      [] st.op = "switch" ->
           LET w == swtches[st.swt]
               hit == {k \in DOMAIN w.cases : w.cases[k].v = o} IN
           CodeSettle(GoTo(IF hit # {} THEN w.cases[FirstOf(hit)].lab ELSE swtchdefault(w)), 0)
      [] OTHER -> CodeSettle(i + 1, o)

SameFlow ==
    /\ CodeSettle(1, 0) = Start
    /\ \A e \in Reach({Start}) : Terminal(e) \/
          \E i \in EventPos(e) : \A o \in Outcomes(e) : CodeFollow(i, o) = Follow(e, o)

-----------------------------------------------------------------------------
Phases == {"parse", "emitted", "rejected", "crash", "parsed", "died", "lowered",
           "optimising", "optimised", "hang", "assert", "segv", "done"}

\* Types: labels are known, frames nest, and the phases are those of cc1 and cc2.
TypeOK ==
    /\ phase \in Phases /\ want \in BOOLEAN /\ failure \in BOOLEAN
    /\ nlab \in 0..MaxLab /\ named \in [Names -> 0..MaxLab] /\ defined \subseteq Names
    /\ \A i \in DOMAIN stack : stack[i].lbreak \in 0..nlab /\ stack[i].lcont \in 0..nlab
                               /\ stack[i].sw \in 0..i
    /\ \A i \in DOMAIN list : list[i].lab \in 0..nlab /\ list[i].sym \in 0..nlab

\* The statements C forbids where they are (6.8.1, 6.8.4.2, 6.8.6), and what
\* goes over a limit.
Misplaced(n) ==
    LET k == Node(n).k IN
    \/ k = "break" /\ Enclosing(n, Loops \cup {"switch"}) = 0
    \/ k = "continue" /\ Enclosing(n, Loops) = 0
    \/ k \in {"case", "default"} /\ Enclosing(n, {"switch"}) = 0
    \/ k = "default" /\ Cardinality(DefaultsOf(Enclosing(n, {"switch"}))) > 1
    \/ k = "goto" /\ LabelsOf(Node(n).x) = {}
    \/ k = "label" /\ Cardinality(LabelsOf(Node(n).x)) > 1

RECURSIVE Depth(_)
Depth(n) == (IF Node(n).k \in {"block", "for"} THEN 1 ELSE 0)
            + (IF Node(n).up = 0 THEN 0 ELSE Depth(Node(n).up))

OverLimit(n) ==
    \/ Node(n).k \in {"block", "for"} /\ Depth(n) >= NR_BLOCK
    \/ Node(n).k = "switch" /\ Cardinality(CasesOf(n)) >= NR_SWITCH

\* cc1 writes code for a function exactly when every statement of it may stand
\* where it stands and the limits are kept: errorp(), error(), the count of a
\* Switch and killsym() together miss none and invent none.
AcceptedRightly ==
    /\ phase \in {"emitted", "parsed", "done"} =>
         \A n \in DOMAIN ast : ~Misplaced(n) /\ ~OverLimit(n)
    /\ phase \in {"rejected", "crash"} => \E n \in DOMAIN ast : Misplaced(n) \/ OverLimit(n)

SwitchNest(n) == Node(n).k = "switch" /\ Enclosing(n, {"switch"}) # 0
NoDupCase == \A n \in DOMAIN ast : \A a, b \in CasesOf(n) : Node(a).x = Node(b).x => a = b

\* A condition of && || ! is lowered by giving the next statement a label, and
\* what that statement itself puts before it comes before the label.
Tangled ==
    \E i \in 1..(Len(code) - 1) :
        /\ code[i].op = "branch" /\ Logical(code[i].cond)
        /\ \/ code[i + 1].op = "branch" /\ Logical(code[i + 1].cond)
           \/ code[i + 1].op = "expr" /\ code[i + 1].form # "call"

\* The code has the control flow of the text: for a function cc2 finishes,
\* from every event that the function can reach every outcome leads to the
\* same event, whatever was lowered, negated, merged, deleted or trimmed.
FlowKept == phase = "done" /\ ~Tangled /\ NoDupCase => SameFlow

\* On z80 trimcfg() reads through a null pointer when it deletes the block of
\* OEFUN, which has no exit: only for a function that cannot end.
CrashOnlyEndless ==
    phase = "segv" /\ ~Tangled /\ NoDupCase =>
        \A e \in Reach({Start}) : e[2] \notin {"ret", "out"}

\* Only a goto makes chain_jumps go round for ever: the loops of while, for and
\* do have the marks of OBLOOP and OELOOP in the way.
HangNeedsGoto == phase = "hang" => \E n \in DOMAIN ast : Node(n).k = "goto"

\* Refs counts every jump to a label at least: the optimiser may delete the
\* label of a count of zero.
Uses(l) ==
    Cardinality({i \in DOMAIN list : list[i].op \in {"jmp", "br"} /\ list[i].sym = l})
    + Cardinality({<<k, c>> \in (DOMAIN swtches) \X (DOMAIN ast) :
                     /\ c \in DOMAIN swtches[k].cases
                     /\ swtches[k].cases[c].lab = l
                     /\ target = "z80"})

RefsCounted == phase = "lowered" => \A l \in 1..nlab : Uses(l) <= ref[l]

\* What the back ends make of a function is that function: its code, and what
\* stops them on the way, are what its text gives cause for.
CodeOfFunction == TypeOK /\ FlowKept /\ RefsCounted /\ CrashOnlyEndless /\ HangNeedsGoto
=============================================================================
