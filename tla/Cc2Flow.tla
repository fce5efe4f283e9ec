------------------------------ MODULE Cc2Flow -------------------------------
(***************************************************************************)
(* What cc2 does with the control flow of a function: the parser of the    *)
(* intermediate code builds the list of statements (parser.c, node.c),     *)
(* genaddr() lowers conditions, ternaries and switches (sethi.c, swtch.c)  *)
(* and, for z80, gencfg() optimises jumps and trims unreachable blocks     *)
(* (cfg.c); the qbe back ends have an empty gencfg().  Each pass of        *)
(* apply() over the list is one action, as nothing runs between.           *)
(*                                                                         *)
(* A statement has an id, which stands for its address: a label of a       *)
(* deleted statement keeps pointing at it.                                 *)
(***************************************************************************)
EXTENDS Cc1Stmt, SequencesExt

CONSTANTS Targets    \* the back ends: "qbe" and "z80"

VARIABLES
    target,   \* the back end that reads the code
    list,     \* the statements of the function (curfun->u.stmt)
    place,    \* label -> id of the statement it was given to (sym->u.stmt)
    ref,      \* label -> refcnt
    swtches   \* the switches, in the order of newswtch()

flowvars == <<target, list, place, ref, swtches>>
vars == <<stmtvars, flowvars>>

MaxLab == 30     \* bound: labels, the ones genaddr() makes included
ASSUME TargetAssumption == Targets \subseteq {"qbe", "z80"}

-----------------------------------------------------------------------------
(***************************************************************************)
(* The list under work.  A pass is a fold over it with the record          *)
(*   done: the statements before curstmt    todo: curstmt and what follows *)
(***************************************************************************)
Stmt(id, op) == [id |-> id, op |-> op, lab |-> 0, sym |-> 0, cond |-> NoCond,
                 ev |-> <<0, "none">>, swt |-> 0]

addstmt(S, st) == [S EXCEPT !.done = Append(@, [st EXCEPT !.id = S.nid]), !.nid = @ + 1]

refer(S, l) == [S EXCEPT !.ref[l] = @ + 1]

\* labelstmt(): the label and its statement point at each other.
labelstmt(S, st, l) == [addstmt(S, [st EXCEPT !.lab = l]) EXCEPT !.place[l] = S.nid]

Nop(S, l) == labelstmt(S, Stmt(0, "nop"), l)

(***************************************************************************)
(* parser.c: one line of intermediate code.  swp is the stack of open      *)
(* switches; a case goes to the switch on top and not to the list.         *)
(***************************************************************************)
jump(S, st, l) == addstmt(refer(S, l), [st EXCEPT !.sym = l])

bswitch(S, item) ==
    IF Len(S.swp) = NR_BLOCK THEN [S EXCEPT !.died = TRUE]
    ELSE LET k == Len(S.swtches) + 1 IN
         [addstmt(S, [Stmt(0, "switch") EXCEPT !.ev = item.ev, !.swt = k])
            EXCEPT !.swp = Append(@, k),
                   !.swtches = Append(@, [cases |-> <<>>, def |-> 0, end |-> 0])]

ocase(S, item) ==
    LET T == refer(S, item.lab)
        k == Last(S.swp) IN
    IF item.op = "default" THEN [T EXCEPT !.swtches[k].def = item.lab]
    ELSE [T EXCEPT !.swtches[k].cases = Append(@, [v |-> item.v, lab |-> item.lab])]

\* qsort() leaves equal values in any order; here in the order of the text.
cmpcase(a, b) == a.v < b.v

eswitch(S, item) ==
    LET k == Last(S.swp) IN
    [refer(S, item.lab) EXCEPT !.swp = Front(@), !.swtches[k].end = item.lab,
                               !.swtches[k].cases = SortSeq(@, cmpcase)]

nextline(S, item) ==
    IF S.died THEN S ELSE
    CASE item.op = "label" -> Nop(S, item.lab)
      [] item.op = "jump" -> jump(S, Stmt(0, "jmp"), item.lab)
      [] item.op = "branch" -> jump(S, [Stmt(0, "br") EXCEPT !.cond = item.cond], item.lab)
      [] item.op = "expr" -> addstmt(S, [Stmt(0, item.form) EXCEPT !.ev = item.ev, !.cond = item.cond])
      [] item.op = "ret" -> addstmt(S, [Stmt(0, "ret") EXCEPT !.ev = item.ev])
      [] item.op \in {"bloop", "eloop"} -> addstmt(S, Stmt(0, item.op))
      [] item.op = "bswitch" -> bswitch(S, item)
      [] item.op \in {"case", "default"} -> ocase(S, item)
      [] item.op = "eswitch" -> eswitch(S, item)

Empty == [done |-> <<>>, todo |-> <<>>, nid |-> 1, nlab |-> nlab, died |-> FALSE, swp |-> <<>>,
          swtches |-> <<>>, place |-> [l \in 1..MaxLab |-> 0], ref |-> [l \in 1..MaxLab |-> 0]]

RECURSIVE parselines(_, _)
parselines(S, items) ==
    IF items = <<>> THEN S ELSE parselines(nextline(S, Head(items)), Tail(items))

parse(items) == addstmt(parselines(addstmt(Empty, Stmt(0, "fun")), items), Stmt(0, "efun"))

-----------------------------------------------------------------------------
(***************************************************************************)
(* sethi.c: conditions become branches on comparisons.  What prestmt()     *)
(* inserts before curstmt goes to the end of done.                         *)
(***************************************************************************)
newlabel(S) == [S EXCEPT !.nlab = @ + 1]

branchnode(S, c, l) ==
    jump(S, IF c.op = "none" THEN Stmt(0, "jmp") ELSE [Stmt(0, "br") EXCEPT !.cond = c], l)

RECURSIVE bool(_, _, _, _)
bool(S, c, true, false) ==
    LET T == newlabel(S)
        l == T.nlab IN
    CASE c.op = "not" -> bool(S, c.l, false, true)
      [] c.op = "and" -> bool(Nop(bool(T, c.l, l, false), l), c.r, true, false)
      [] c.op = "or" -> bool(Nop(bool(T, c.l, true, l), l), c.r, true, false)
      [] OTHER -> branchnode(branchnode(S, c, true), NoCond, false)

Logical(c) == c.op \in {"not", "and", "or"}

\* A temporary is set on both sides of a condition; the events are the two
\* settings, <<statement, yes>> and <<statement, no>>.
Setting(ev, tag) == [Stmt(0, "call") EXCEPT !.ev = <<ev[1], tag>>]

logicexpr(S, c, ev) ==
    LET true == S.nlab + 1  false == S.nlab + 2  phi == S.nlab + 3
        T1 == bool([S EXCEPT !.nlab = @ + 3], c, true, false)
        T2 == branchnode(labelstmt(T1, Setting(ev, "one"), true), NoCond, phi) IN
    Nop(labelstmt(T2, Setting(ev, "zero"), false), phi)

ternary(S, c, ev) ==
    LET true == S.nlab + 1  false == S.nlab + 2  phi == S.nlab + 3
        T1 == bool([S EXCEPT !.nlab = @ + 3], c, true, false)
        T2 == branchnode(addstmt(Nop(T1, true), Setting(ev, "l")), NoCond, phi) IN
    Nop(addstmt(Nop(T2, false), Setting(ev, "r")), phi)

\* The statement at curstmt stays, in the place of the old one.
Keep(S, st) == [S EXCEPT !.done = Append(@, st), !.todo = Tail(@)]
Drop(S) == [S EXCEPT !.todo = Tail(@)]

\* replace() overwrites the node, its label included.
replace(S, st) == Keep(S, [st EXCEPT !.lab = 0])

\* swtch_if(): the switch becomes an assignment, and the tests follow it.
RECURSIVE Tests(_, _, _)
Tests(S, cases, n) ==
    IF cases = <<>> THEN <<S, <<>>>>
    ELSE LET st == [Stmt(S.nid, "br") EXCEPT !.sym = cases[1].lab,
                        !.cond = [op |-> "eq", v |-> cases[1].v, n |-> n]]
             R == Tests([S EXCEPT !.nid = @ + 1], Tail(cases), n) IN
         <<R[1], <<st>> \o R[2]>>

swtchdefault(w) == IF w.def # 0 THEN w.def ELSE w.end

swtch_if(S, st) ==
    LET w == S.swtches[st.swt]
        R == Tests(S, w.cases, st.ev[1])
        jmp == [Stmt(R[1].nid, "jmp") EXCEPT !.sym = swtchdefault(w)] IN
    [R[1] EXCEPT !.nid = @ + 1,
                 !.done = Append(@, [st EXCEPT !.op = "call"]),
                 !.todo = R[2] \o <<jmp>> \o Tail(@)]

\* swtch_dir() keeps the switch and writes a table of labels: n < mach.swtchif
\* is never true on z80 and always on qbe.
swtch(S, st) == IF target = "qbe" THEN swtch_if(S, st) ELSE Keep(S, st)

\* The statement after an OBRANCH gets a label.
labelnext(S) ==
    IF S.todo[2].lab # 0 THEN S
    ELSE [newlabel(S) EXCEPT !.todo[2].lab = S.nlab + 1,
                             !.place[S.nlab + 1] = S.todo[2].id]

\* qbe wants a block to end in a jump: a return after the end of the function.
OEFUN(S, st) ==
    IF target = "qbe" /\ Last(S.done).op \notin {"ret", "jmp"}
    THEN addstmt(Keep(S, st), Stmt(0, "ret")) ELSE Keep(S, st)

sethi(S) ==
    LET st == S.todo[1]
        T == labelnext(S)
        used == [st EXCEPT !.op = "call"] IN
    CASE st.op = "switch" -> swtch(S, st)
      [] st.op = "br" ->
           IF Logical(st.cond)
           THEN Drop([bool(T, st.cond, st.sym, T.todo[2].lab) EXCEPT !.ref[st.sym] = @ - 1])
           ELSE Keep(T, st)
      [] st.op = "set" -> Keep(ternary(S, st.cond, st.ev), used)
      [] st.op = "ask" -> replace(ternary(S, st.cond, st.ev), [st EXCEPT !.op = "tmp"])
      [] st.op = "land" -> Keep(logicexpr(S, st.cond, st.ev), used)
      [] st.op = "comma" -> replace(addstmt(S, Setting(st.ev, "l")), used)
      [] st.op = "efun" -> OEFUN(S, st)
      [] OTHER -> Keep(S, st)

RECURSIVE genaddr(_)
genaddr(S) == IF S.todo = <<>> THEN S ELSE genaddr(sethi(S))

-----------------------------------------------------------------------------
(* The rest of cc2's way through a function: gencfg() of cfg.c, which only *)
(* the z80 back end has, and the actions of cc2's main(), each one pass of *)
(* apply() over the statements.                                            *)

All(S) == S.done \o S.todo
Positions(s, id) == {i \in DOMAIN s : s[i].id = id}

unrefer(S, l) == [S EXCEPT !.ref[l] = @ - 1, !.mod = TRUE]

\* The statement skipnop() stops at, from position i of list s: the first that
\* is no nop, or the target.
skipnop(s, i, target_) ==
    CHOOSE j \in i..Len(s) :
        /\ s[j].op # "nop" \/ s[j].id = target_
        /\ \A k \in i..(j - 1) : s[k].op = "nop" /\ s[k].id # target_

(***************************************************************************)
(* chain_jumps: the jump np goes where the jump at its target goes.  seen  *)
(* holds the jumps passed: to meet one again is to go on for ever.  The    *)
(* node of a deleted label is neither a nop nor a jump.                    *)
(***************************************************************************)
RECURSIVE chain_jumps(_, _, _)
chain_jumps(S, np, seen) ==
    LET s == All(S)
        at == Positions(s, S.place[np.sym])
        p == s[skipnop(s, CHOOSE i \in at : TRUE, 0)] IN
    CASE at = {} \/ p.id = np.id \/ p.op # "jmp" -> Keep(S, np)
      [] p.id \in seen -> [Keep(S, np) EXCEPT !.hang = TRUE]
      [] OTHER -> chain_jumps(unrefer(S, np.sym), [np EXCEPT !.sym = p.sym], seen \cup {p.id})

\* Mutant: a jump after a branch is taken for one it goes over.
beforejump(S) ==
    LET np == S.todo[1]  next == S.todo[2] IN
    next.op = "jmp" /\ (next.lab = 0 \/ S.ref[next.lab] = 0)

\* avoid branch over jump: the branch takes the jump's target, negated.
overjump(S) ==
    LET np == S.todo[1]  next == S.todo[2] IN
    /\ next.op = "jmp" /\ S.todo[3].lab = np.sym
    /\ next.lab = 0 \/ S.ref[next.lab] = 0

RECURSIVE optbranch(_)
optbranch(S) ==
    LET np == S.todo[1]  next == S.todo[2] IN
    IF overjump(S)
    THEN optbranch([unrefer(S, np.sym) EXCEPT
                      !.todo = <<[np EXCEPT !.sym = next.sym, !.cond = negop(@)]>>
                               \o SubSeq(S.todo, 3, Len(S.todo))])
    ELSE chain_jumps(S, np, {})

optjmps_helper(S) ==
    LET np == S.todo[1]
        i == Len(S.done) + 2 IN
    CASE np.op = "nop" /\ S.ref[np.lab] = 0 -> [Drop(S) EXCEPT !.mod = TRUE]
      [] np.op = "br" -> optbranch(S)
      [] np.op = "jmp" ->
           IF All(S)[skipnop(All(S), i, S.place[np.sym])].id = S.place[np.sym]
           THEN Drop(unrefer(S, np.sym))
           ELSE chain_jumps(S, np, {})
      [] OTHER -> Keep(S, np)

RECURSIVE optjmps(_)
optjmps(S) == IF S.todo = <<>> \/ S.hang THEN S ELSE optjmps(optjmps_helper(S))

-----------------------------------------------------------------------------
(***************************************************************************)
(* buildcfg(): the statements where blocks begin (newentry), which may be  *)
(* the node of a deleted label, and the ones where blocks end.             *)
(***************************************************************************)
jtarget(l) == place[l]

Labels(st) == LET w == swtches[st.swt] IN
              {w.cases[i].lab : i \in DOMAIN w.cases} \cup {swtchdefault(w)}

markbb ==
    UNION { LET st == list[i] IN
            CASE st.op = "fun" -> {st.id}
              [] st.op = "ret" -> {list[i + 1].id, Last(list).id}
              [] st.op = "switch" -> {jtarget(l) : l \in Labels(st)}
              [] st.op \in {"br", "jmp"} -> {jtarget(st.sym), list[i + 1].id}
              [] OTHER -> {} : i \in DOMAIN list }

Ids == {list[i].id : i \in DOMAIN list}
Greatest(S) == CHOOSE m \in S : \A k \in S : k <= m

\* mkbb(): the block of every statement, named by the position it begins at,
\* when blocks begin at the statements of marks.
RECURSIVE mkbb(_, _)
mkbb(marks, bb) ==
    LET i == Len(bb) + 1 IN
    IF i > Len(list) THEN bb
    ELSE mkbb(marks, Append(bb, IF list[i].id \in marks THEN i ELSE Last(bb)))

\* The statements flagged BBEXIT: a block begins after them, or a switch.
Exits(bb, e) == {i \in DOMAIN list :
    /\ bb[i] = e
    /\ list[i].op = "switch" \/ (i < Len(list) /\ bb[i + 1] # e)}

exitp(bb, e) == IF Exits(bb, e) = {} THEN 0 ELSE Greatest(Exits(bb, e))

\* mkcfg(): the blocks that control goes to from block e.  The exit of a block
\* is its last statement that ends one; of the switches inside the last one
\* leaves its cases.
mkcfg(bb, e) ==
    LET i == exitp(bb, e)
        sw == {j \in Exits(bb, e) : list[j].op = "switch"}
        bbof(l) == bb[CHOOSE j \in DOMAIN list : list[j].id = jtarget(l)] IN
    (IF sw = {} THEN {} ELSE {bbof(l) : l \in Labels(list[Greatest(sw)])})
    \cup (IF i = 0 THEN {} ELSE
          CASE list[i].op = "ret" -> {bb[Len(list)]}
            [] list[i].op = "switch" -> {}
            [] list[i].op = "br" -> {bb[i + 1], bbof(list[i].sym)}
            [] list[i].op = "jmp" -> {bbof(list[i].sym)}
            [] OTHER -> {bb[i + 1]})

\* visit(): the blocks reached from those of B.
RECURSIVE visit(_, _)
visit(bb, B) ==
    LET C == B \cup UNION {mkcfg(bb, e) : e \in B} IN IF C = B THEN B ELSE visit(bb, C)

-----------------------------------------------------------------------------
(***************************************************************************)
(* cc2's main(): parse(), genaddr(), gencfg(), genasm().                   *)
(***************************************************************************)
Work(S) == list' = All(S) /\ place' = S.place /\ ref' = S.ref

\* parse() of the whole function.  EWTACKO: too many switches in switches.
Parse == \E t \in Targets :
    /\ phase = "emitted"
    /\ LET S == parse(code) IN
       /\ target' = t /\ swtches' = S.swtches
       /\ Work(S) /\ nlab' = S.nlab
       /\ phase' = IF S.died THEN "died" ELSE "parsed"
    /\ UNCHANGED <<ast, stack, want, dangling, code, named, defined, failure>>

Loaded == [done |-> <<>>, todo |-> list, nid |-> 1000, nlab |-> nlab, place |-> place,
           ref |-> ref, swtches |-> swtches, mod |-> FALSE, hang |-> FALSE]

StmtSame == UNCHANGED <<ast, stack, want, dangling, code, named, defined, failure>>

Genaddr ==
    /\ phase = "parsed"
    /\ LET S == genaddr(Loaded) IN Work(S) /\ nlab' = S.nlab
    /\ phase' = IF target = "z80" THEN "lowered" ELSE "done"
    /\ StmtSame /\ UNCHANGED <<target, swtches>>

\* One round of optjmps(): again while it changed something.
OptRound ==
    /\ phase \in {"lowered", "optimising"}
    /\ LET S == optjmps(Loaded) IN
       /\ Work(S)
       /\ phase' = CASE S.hang -> "hang" [] S.mod -> "optimising" [] OTHER -> "optimised"
    /\ StmtSame /\ UNCHANGED <<nlab, target, swtches>>

\* buildcfg() and trimcfg().  The assertion counts a block for every entry
\* marked; delrange() of a block without exit reads through a null pointer.
gencfg ==
    LET marks == markbb
        bb == mkbb(marks, <<>>)
        visited == visit(bb, {1})
        trimmed == {e \in {bb[i] : i \in DOMAIN bb} : e \notin visited}
        kept == {list[i].id : i \in {j \in DOMAIN list : bb[j] \in visited}} IN
    CASE ~(marks \subseteq Ids) -> <<"assert", list>>
      [] \E e \in trimmed : exitp(bb, e) = 0 -> <<"segv", list>>
      [] OTHER -> <<"done", SelectSeq(list, LAMBDA st : st.id \in kept)>>

Gencfg ==
    /\ phase = "optimised"
    /\ LET R == gencfg IN phase' = R[1] /\ list' = R[2]
    /\ StmtSame /\ UNCHANGED <<nlab, target, swtches, place, ref>>

Init ==
    /\ StmtInit
    /\ target = "none" /\ list = <<>> /\ swtches = <<>> /\ place = <<>> /\ ref = <<>>

Next ==
    \/ StmtNext /\ UNCHANGED flowvars
    \/ Parse \/ Genaddr \/ OptRound \/ Gencfg

Spec == Init /\ [][Next]_vars

=============================================================================
