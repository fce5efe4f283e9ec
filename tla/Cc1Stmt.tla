------------------------------ MODULE Cc1Stmt ------------------------------
(***************************************************************************)
(* The statement parser of cc1 (cc1/stmt.c): a recursive descent over one  *)
(* function body that emits the intermediate code cc2 reads.  Every        *)
(* handler (While, For, If, Swtch...) is an action that opens a statement  *)
(* and one that closes it; the C stack of the recursion is the variable    *)
(* stack, whose frames hold the handlers' arguments (lbreak, lcont,        *)
(* lswitch) and local labels.  The program is chosen statement by          *)
(* statement, and ast records it, for the definition of what C says of it. *)
(***************************************************************************)
EXTENDS Integers, Sequences, FiniteSets

CONSTANTS
    MaxStmts,     \* bound: statements of the function, its body included, case labels not
    Quota,        \* bound: how many statements of each kind
    Conds,        \* the shapes of conditions, of those in CondShapes
    Exprs,        \* the forms of expression statements, of those in ExprForms
    Names,        \* the identifiers of labels
    Values,       \* the constants of case labels
    NR_BLOCK,     \* nesting of blocks, bits/scc/cstd-c99.h
    NR_SWITCH     \* case labels of a switch, bits/scc/cstd-c99.h

CondShapes == {"cmp", "and", "or", "notand", "one", "zero"}
ExprForms == {"call", "set", "ask", "land", "comma"}
Kinds == {"block", "expr", "empty", "return", "while", "for", "do", "if",
          "break", "continue", "goto", "label", "switch", "case", "default"}

ASSUME StmtAssumption ==
    /\ MaxStmts \in Nat \ {0} /\ NR_BLOCK \in Nat \ {0} /\ NR_SWITCH \in Nat \ {0}
    /\ Conds \subseteq CondShapes /\ Exprs \subseteq ExprForms /\ Values \subseteq Nat
    /\ Quota \in [Kinds -> Nat]

VARIABLES
    ast,       \* the statements opened so far: what the source text is
    stack,     \* the handlers under way, the innermost last
    want,      \* TRUE: the handler on top has to call stmt()
    dangling,  \* the text read ends in an if without else: an else is its else
    code,      \* the intermediate code emitted
    nlab,      \* labels made so far (symbol ids)
    named,     \* the label symbol of an identifier, 0 when not declared
    defined,   \* the identifiers whose label is SDEFINED
    failure,   \* an error was reported, and stdout closed
    phase      \* "parse", "emitted", "rejected", "crash", then cc2's phases

stmtvars == <<ast, stack, want, dangling, code, nlab, named, defined, failure, phase>>

Top == stack[Len(stack)]

(***************************************************************************)
(* Conditions.  A comparison is an event <<statement, "1" or "2">> with    *)
(* two outcomes; pos is FALSE when its operator has been negated.          *)
(***************************************************************************)
Cmp(n, i) == [op |-> "cmp", ev |-> <<n, i>>, pos |-> TRUE]
Const(v) == [op |-> "const", v |-> v]
NoCond == [op |-> "none"]

negop(c) == [c EXCEPT !.pos = ~@]

exp2cond(c, neg) ==
    CASE ~neg -> c
      [] c.op = "cmp" -> negop(c)
      [] c.op = "const" -> Const(1 - c.v)
      [] OTHER -> [op |-> "not", l |-> c]

\* The tree of a condition as the expression parser builds it: logic() and
\* negation() of two comparisons.
CondTree(n, s) ==
    CASE s = "cmp" -> Cmp(n, "1")
      [] s = "and" -> [op |-> "and", l |-> Cmp(n, "1"), r |-> Cmp(n, "2")]
      [] s = "or" -> [op |-> "or", l |-> Cmp(n, "1"), r |-> Cmp(n, "2")]
      [] s = "notand" -> exp2cond([op |-> "and", l |-> Cmp(n, "1"), r |-> Cmp(n, "2")], TRUE)
      [] s = "one" -> Const(1)
      [] s = "zero" -> Const(0)

condexpr(n, s, neg) == exp2cond(CondTree(n, s), neg)

-----------------------------------------------------------------------------
(***************************************************************************)
(* The intermediate code of a statement, one item per line.                *)
(***************************************************************************)
Label(l) == [op |-> "label", lab |-> l]
Jump(l) == [op |-> "jump", lab |-> l]
Bloop == [op |-> "bloop"]
Eloop == [op |-> "eloop"]
OExpr(n, tag, form, cond) == [op |-> "expr", ev |-> <<n, tag>>, form |-> form, cond |-> cond]
Plain(n, tag) == OExpr(n, tag, "call", NoCond)

branch(l, c) ==
    CASE c.op = "none" -> <<Jump(l)>>
      [] c.op = "const" -> IF c.v # 0 THEN <<Jump(l)>> ELSE <<>>
      [] OTHER -> <<[op |-> "branch", lab |-> l, cond |-> c]>>

\* The first error closes stdout, so nothing emitted after it is written.
emit(items) == code' = IF failure THEN code ELSE code \o items

-----------------------------------------------------------------------------
(***************************************************************************)
(* Opening and closing statements.                                         *)
(***************************************************************************)
nested == Cardinality({i \in DOMAIN stack : stack[i].k = "block"})
curctx == 1 + Cardinality({i \in DOMAIN stack : stack[i].k \in {"block", "for"}})

CanParse == phase = "parse" /\ (want \/ Top.k = "block")

Number(kinds) == Cardinality({i \in DOMAIN ast : ast[i].k \in kinds})
Counted == 1 + Number(Kinds \ {"case"})

\* A statement of kind k with attribute x is read; n is its place in ast.  At
\* the bound, and after an error, only the empty statement a handler still needs is left.
Read(k, x, n) ==
    /\ CanParse
    /\ \/ ~failure /\ Counted <= MaxStmts /\ Number({k}) < Quota[k]
       \/ (failure \/ Counted > MaxStmts) /\ want /\ k = "empty"
    /\ ast' = Append(ast, [k |-> k, x |-> x, up |-> Top.n,
                           else |-> Top.k = "else"])

Frame(k, n) ==
    [k |-> k, n |-> n, lbreak |-> Top.lbreak, lcont |-> Top.lcont, sw |-> Top.sw,
     begin |-> 0, aux |-> 0, np |-> NoCond, nr |-> 0, hasdef |-> FALSE]

Push(frame) == stack' = Append(stack, frame) /\ want' = (frame.k # "block")
Pop == stack' = SubSeq(stack, 1, Len(stack) - 1) /\ want' = FALSE

\* A statement without statements inside ends here.
Leaf == want' = FALSE /\ dangling' = FALSE /\ UNCHANGED stack

\* error(): the message, and discard() leaves the parser.
error == failure' = TRUE /\ phase' = "rejected"
Quiet == UNCHANGED <<failure, phase>>
SameLabels == UNCHANGED <<nlab, named, defined>>

StmtInit ==
    /\ ast = <<[k |-> "block", x |-> "none", up |-> 0, else |-> FALSE]>>
    /\ stack = <<[k |-> "block", n |-> 1, lbreak |-> 0, lcont |-> 0, sw |-> 0,
                  begin |-> 0, aux |-> 0, np |-> NoCond, nr |-> 0, hasdef |-> FALSE]>>
    /\ want = FALSE /\ dangling = FALSE
    /\ code = <<>> /\ nlab = 0
    /\ named = [l \in Names |-> 0] /\ defined = {}
    /\ failure = FALSE /\ phase = "parse"

-----------------------------------------------------------------------------
(***************************************************************************)
(* The handlers.                                                           *)
(***************************************************************************)

\* stmtexp(): an expression statement.
stmtexp == \E form \in Exprs, s \in {"cmp", "or"} \cap Conds, n \in {Len(ast) + 1} :
    /\ Read("expr", [form |-> form, s |-> s], n)
    /\ form \in {"call", "comma"} => s = "cmp"
    /\ form = "land" => s = "or"
    /\ emit(<<OExpr(n, "x", form, CondTree(n, s))>>)
    /\ Leaf /\ SameLabels /\ Quiet

EmptyStmt == \E n \in {Len(ast) + 1} :
    /\ Read("empty", "none", n)
    /\ Leaf /\ SameLabels /\ Quiet /\ UNCHANGED code

Return == \E n \in {Len(ast) + 1} :
    /\ Read("return", "none", n)
    /\ emit(<<[op |-> "ret", ev |-> <<n, "ret">>]>>)
    /\ Leaf /\ SameLabels /\ Quiet

\* errorp() reports and goes on.
errorp == failure' = TRUE /\ UNCHANGED phase

Break == \E n \in {Len(ast) + 1} :
    /\ Read("break", "none", n)
    /\ IF Top.lbreak = 0 THEN errorp /\ UNCHANGED code
       ELSE emit(<<Jump(Top.lbreak)>>) /\ Quiet
    /\ Leaf /\ SameLabels

Continue == \E n \in {Len(ast) + 1} :
    /\ Read("continue", "none", n)
    /\ IF Top.lcont = 0 THEN errorp /\ UNCHANGED code
       ELSE emit(<<Jump(Top.lcont)>>) /\ Quiet
    /\ Leaf /\ SameLabels

\* The symbol of an identifier in NS_LABEL: installed when not yet declared.
Install(l) ==
    IF named[l] = 0 THEN nlab' = nlab + 1 /\ named' = [named EXCEPT ![l] = nlab + 1]
    ELSE UNCHANGED <<nlab, named>>

Goto == \E l \in Names, n \in {Len(ast) + 1} :
    /\ Read("goto", l, n)
    /\ Install(l) /\ UNCHANGED defined
    /\ emit(<<Jump(named'[l])>>)
    /\ Leaf /\ Quiet

label == \E l \in Names, n \in {Len(ast) + 1} :
    /\ Read("label", l, n)
    /\ IF l \in defined THEN error /\ UNCHANGED <<stack, want, code, nlab, named, defined>>
       ELSE /\ Install(l) /\ defined' = defined \cup {l}
            /\ emit(<<Label(named'[l])>>)
            /\ Push(Frame("labelled", n)) /\ Quiet
    /\ UNCHANGED dangling

While == \E s \in Conds, n \in {Len(ast) + 1} :
    /\ Read("while", s, n)
    /\ LET begin == nlab + 1  lcont == nlab + 2  lbreak == nlab + 3 IN
       /\ emit(<<Jump(lcont), Label(begin), Bloop>>)
       /\ Push([Frame("while", n) EXCEPT !.begin = begin, !.lcont = lcont, !.lbreak = lbreak,
                                         !.np = condexpr(n, s, FALSE)])
    /\ nlab' = nlab + 3
    /\ Quiet /\ UNCHANGED <<named, defined, dangling>>

\* for (init; cond; inc): init and inc are there or not, as the condition is.
For == \E s \in Conds \cup {"none"}, full \in BOOLEAN, n \in {Len(ast) + 1} :
    /\ Read("for", [s |-> s, full |-> full], n)
    /\ IF curctx + 1 = NR_BLOCK + 1
       THEN error /\ UNCHANGED <<stack, want, code, nlab>>
       ELSE LET begin == nlab + 1  lcont == nlab + 2  cond == nlab + 3  lbreak == nlab + 4
                np == IF s = "none" THEN NoCond ELSE condexpr(n, s, FALSE) IN
            /\ emit((IF full THEN <<Plain(n, "init")>> ELSE <<>>)
                    \o (IF s # "none" THEN <<Jump(cond)>> ELSE <<>>)
                    \o <<Label(begin), Bloop>>)
            /\ Push([Frame("for", n) EXCEPT !.begin = begin, !.lcont = lcont, !.aux = cond,
                                            !.lbreak = lbreak, !.np = np])
            /\ nlab' = nlab + 4 /\ Quiet
    /\ UNCHANGED <<named, defined, dangling>>

Dowhile == \E s \in Conds, n \in {Len(ast) + 1} :
    /\ Read("do", s, n)
    /\ LET begin == nlab + 1  lcont == nlab + 2  lbreak == nlab + 3 IN
       /\ emit(<<Label(begin), Bloop>>)
       /\ Push([Frame("do", n) EXCEPT !.begin = begin, !.lcont = lcont, !.lbreak = lbreak,
                                      !.np = condexpr(n, s, FALSE)])
    /\ nlab' = nlab + 3
    /\ Quiet /\ UNCHANGED <<named, defined, dangling>>

If == \E s \in Conds, n \in {Len(ast) + 1} :
    /\ Read("if", s, n)
    /\ emit(branch(nlab + 1, condexpr(n, s, TRUE)))
    /\ Push([Frame("if", n) EXCEPT !.aux = nlab + 1])
    /\ nlab' = nlab + 1
    /\ Quiet /\ UNCHANGED <<named, defined, dangling>>

\* Mutant of Swtch: continue ends the switch too.
SwtchContinues == \E n \in {Len(ast) + 1} :
    /\ Read("switch", "none", n)
    /\ emit(<<[op |-> "bswitch", ev |-> <<n, "sw">>]>>)
    /\ Push([Frame("switch", n) EXCEPT !.lbreak = nlab + 1, !.lcont = nlab + 1, !.sw = Len(stack) + 1])
    /\ nlab' = nlab + 1
    /\ Quiet /\ UNCHANGED <<named, defined, dangling>>

Swtch == \E n \in {Len(ast) + 1} :
    /\ Read("switch", "none", n)
    /\ emit(<<[op |-> "bswitch", ev |-> <<n, "sw">>]>>)
    /\ Push([Frame("switch", n) EXCEPT !.lbreak = nlab + 1, !.sw = Len(stack) + 1])
    /\ nlab' = nlab + 1
    /\ Quiet /\ UNCHANGED <<named, defined, dangling>>

\* Case(): the count of the Switch is tested as it grows, and stops at -1.
Case == \E v \in Values, n \in {Len(ast) + 1} :
    /\ Read("case", v, n)
    /\ LET sw == Top.sw
           full == sw # 0 /\ stack[sw].nr + 1 = NR_SWITCH
           nr == IF stack[sw].nr < 0 THEN -1 ELSE IF full THEN -1 ELSE stack[sw].nr + 1
           frames == IF sw = 0 THEN stack ELSE [stack EXCEPT ![sw].nr = nr] IN
       /\ failure' = (failure \/ sw = 0 \/ full)
       /\ stack' = Append(frames, Frame("labelled", n)) /\ want' = TRUE
       /\ emit(<<[op |-> "case", lab |-> nlab + 1, v |-> v], Label(nlab + 1)>>)
    /\ nlab' = nlab + 1
    /\ UNCHANGED <<phase, named, defined, dangling>>

\* Default() reads through sw without asking whether there is one.
Default == \E n \in {Len(ast) + 1} :
    /\ Read("default", "none", n)
    /\ IF Top.sw = 0
       THEN phase' = "crash" /\ UNCHANGED <<stack, want, code, nlab, failure>>
       ELSE /\ failure' = (failure \/ stack[Top.sw].hasdef)
            /\ stack' = Append([stack EXCEPT ![Top.sw].hasdef = TRUE], Frame("labelled", n))
            /\ want' = TRUE
            /\ emit(<<[op |-> "default", lab |-> nlab + 1], Label(nlab + 1)>>)
            /\ nlab' = nlab + 1 /\ UNCHANGED phase
    /\ UNCHANGED <<named, defined, dangling>>

\* compound(): a block inside a statement.
compound == \E n \in {Len(ast) + 1} :
    /\ Read("block", "none", n)
    /\ IF curctx + 1 = NR_BLOCK + 1 \/ nested = NR_BLOCK
       THEN error /\ UNCHANGED <<stack, want>>
       ELSE Push(Frame("block", n)) /\ Quiet
    /\ SameLabels /\ UNCHANGED <<code, dangling>>

-----------------------------------------------------------------------------
(***************************************************************************)
(* The second halves: what a handler does when stmt() returns to it.       *)
(***************************************************************************)
Returned(k) == phase = "parse" /\ ~want /\ Top.k = k

EndLoop == \E k \in {"while", "do"} :
    /\ Returned(k)
    /\ emit(<<Label(Top.lcont), Eloop>> \o branch(Top.begin, Top.np) \o <<Label(Top.lbreak)>>)
    /\ Pop /\ dangling' = (k = "while" /\ dangling)
    /\ SameLabels /\ Quiet /\ UNCHANGED ast

EndFor ==
    /\ Returned("for")
    /\ emit(<<Label(Top.lcont)>>
            \o (IF ast[Top.n].x.full THEN <<Plain(Top.n, "inc")>> ELSE <<>>)
            \o <<Label(Top.aux), Eloop>> \o branch(Top.begin, Top.np) \o <<Label(Top.lbreak)>>)
    /\ Pop
    /\ SameLabels /\ Quiet /\ UNCHANGED <<ast, dangling>>

\* accept(ELSE): the else belongs to the if on top.
Else ==
    /\ Returned("if") /\ ~dangling /\ Counted <= MaxStmts
    /\ emit(<<Jump(nlab + 1), Label(Top.aux)>>)
    /\ stack' = [stack EXCEPT ![Len(stack)].k = "else", ![Len(stack)].aux = nlab + 1]
    /\ want' = TRUE /\ nlab' = nlab + 1
    /\ Quiet /\ UNCHANGED <<ast, dangling, named, defined>>

EndIf == \E k \in {"if", "else"} :
    /\ Returned(k)
    /\ emit(<<Label(Top.aux)>>)
    /\ Pop /\ dangling' = (k = "if" \/ dangling)
    /\ SameLabels /\ Quiet /\ UNCHANGED ast

EndSwtch ==
    /\ Returned("switch")
    /\ emit(<<[op |-> "eswitch", lab |-> Top.lbreak], Label(Top.lbreak)>>)
    /\ Pop
    /\ SameLabels /\ Quiet /\ UNCHANGED <<ast, dangling>>

EndLabelled ==
    /\ Returned("labelled")
    /\ Pop
    /\ SameLabels /\ Quiet /\ UNCHANGED <<ast, code, dangling>>

\* The } of a block.  At the end of the function popctx() reaches GLOBALCTX
\* and killsym() reports every label declared and not defined.
EndCompound ==
    /\ phase = "parse" /\ Top.k = "block" /\ ~want
    /\ IF Len(stack) > 1 THEN Pop /\ Quiet
       ELSE LET undefined == {l \in Names : named[l] # 0 /\ l \notin defined} IN
            /\ failure' = (failure \/ undefined # {})
            /\ phase' = IF failure' THEN "rejected" ELSE "emitted"
            /\ UNCHANGED <<stack, want>>
    /\ dangling' = FALSE
    /\ SameLabels /\ UNCHANGED <<ast, code>>

StmtNext ==
    \/ stmtexp \/ EmptyStmt \/ Return \/ Break \/ Continue \/ Goto \/ label
    \/ While \/ For \/ Dowhile \/ If \/ Swtch \/ Case \/ Default \/ compound
    \/ EndLoop \/ EndFor \/ Else \/ EndIf \/ EndSwtch \/ EndLabelled \/ EndCompound

=============================================================================
