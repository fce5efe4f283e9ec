------------------------------- MODULE CcExpr -------------------------------
(***************************************************************************)
(* An expression on its way through the compiler: expr.c builds its tree,  *)
(* simplify() folds it, code.c writes it in postfix, and the stack of      *)
(* cc2's parser.c reads it back.  What cc2 ends with is compared with what *)
(* C says the text means, for every value of its variables.                *)
(***************************************************************************)
EXTENDS Cc1Expr

CONSTANTS Variables,   \* Variables[name]: the type of a global variable
          Literals,    \* the literal constants, <<value, type>>
          Enumerator,  \* the value of the enumerator A
          Functions,   \* Functions[name]: parameter types; all return int
          CastTypes, BinaryOps, UnaryOps, AssignOps,
          STACKSIZ,    \* depth of cc2's stack
          MaxTokens, Fits(_, _)   \* bounds on the text

VARIABLES ast,    \* the text read, as trees of C, a stack while it is parsed
          ops,    \* the nodes of expr.c for them
          len,    \* tokens read
          phase,  \* "parse", "emitted", "read", or how it failed
          tree,   \* the simplified tree
          enum,   \* the value the enumerator has now
          code,   \* the postfix that cc1 writes
          back    \* the tree that cc2 has

vars == <<arch, ast, ops, len, phase, tree, enum, code, back>>

-----------------------------------------------------------------------------
(* cc1's output and cc2's input.                                           *)
RECURSIVE emitnode(_)
\* a plausible error: OCOLON is printed too
emitnodeColon(np) ==
    IF np.op = "nil" THEN <<>>
    ELSE IF np.op = "OSYM" THEN <<[t |-> IF np.k THEN "const" ELSE "var", tp |-> np.tp, s |-> np.s, v |-> np.v]>>
    ELSE emitnode(np.l) \o emitnode(np.r) \o <<[t |-> np.op, tp |-> np.tp, s |-> "", v |-> 0]>>
emitnode(np) ==
    CASE np.op = "nil" -> <<>>
      [] np.op = "OSYM" -> IF np.k THEN <<[t |-> "const", tp |-> np.tp, s |-> "", v |-> np.v % (ones(size(np.tp)) + 1)]>>
                           ELSE <<[t |-> "var", tp |-> np.tp, s |-> np.s, v |-> 0]>>
      [] OTHER -> emitnode(np.l) \o emitnode(np.r)
                  \o (IF np.op = "OCOLON" THEN <<>> ELSE <<[t |-> np.op, tp |-> np.tp, s |-> "", v |-> 0]>>)

None == [op |-> "none"]
leaf(op, tok) == [l |-> None, v |-> tok.v, op |-> op, s |-> tok.s, r |-> None, tp |-> tok.tp]
inner(op, sub, tok, l, r) == [l |-> l, v |-> 0, op |-> op, s |-> sub, r |-> r, tp |-> tok.tp]

unaries == {"OCPL", "OSNEG", "OADDR", "OPTR", "OCAST", "OPAR", "ONEG"}
assigns == {"OASSIGN", "OINC", "ODEC"} \cup OA_ops

pop(st) == SubSeq(st, 1, Len(st) - 1)
top(st) == st[Len(st)]
Underflow == <<[op |-> "underflow"]>>
Overflow == <<[op |-> "overflow"]>>
Failed(st) == st # <<>> /\ st[1].op \in {"underflow", "overflow"}

\* call(): the OPAR nodes down to the function become its list
RECURSIVE parameters(_, _)
parameters(st, par) ==
    IF st = <<>> THEN <<st, par>>
    ELSE IF top(st).op # "OPAR" THEN <<st, par>>
    ELSE parameters(pop(st), [top(st) EXCEPT !.r = par])

readtoken(st, tok) ==
    LET depth == Len(st)
        b == IF depth > 0 THEN top(st) ELSE None
        a == IF depth > 1 THEN top(pop(st)) ELSE None
        rest == SubSeq(st, 1, depth - 2)
    IN With(parameters(st, None), LAMBDA c :
    CASE Failed(st) -> st
      \* a node, or the type that gettype() pushes for a moment
      [] ~Failed(st) /\ depth = STACKSIZ -> Overflow
      [] ~Failed(st) /\ depth < STACKSIZ /\ tok.t \in {"const", "var"} -> Append(st, leaf(tok.t, tok))
      [] ~Failed(st) /\ depth < STACKSIZ /\ tok.t \in unaries ->
            IF depth < 1 THEN Underflow ELSE Append(pop(st), inner(tok.t, "", tok, b, None))
      [] ~Failed(st) /\ depth < STACKSIZ /\ tok.t \in assigns ->
            IF depth < 2 THEN Underflow ELSE Append(rest, inner("OASSIG", tok.t, tok, a, b))
      [] ~Failed(st) /\ depth < STACKSIZ /\ tok.t = "OASK" ->
            IF depth < 3 THEN Underflow
            ELSE Append(SubSeq(st, 1, depth - 3), inner("OASK", "", tok, st[depth - 2], inner("OCOLON", "", tok, a, b)))
      [] ~Failed(st) /\ depth < STACKSIZ /\ tok.t \in {"OCALL", "OCALLE"} ->
            IF c[1] = <<>> THEN Underflow
            ELSE Append(pop(c[1]), inner(tok.t, "", tok, top(c[1]), c[2]))
      [] OTHER -> IF depth < 2 THEN Underflow ELSE Append(rest, inner(tok.t, "", tok, a, b)))
RECURSIVE eval(_, _)
eval(st, toks) == IF toks = <<>> THEN st ELSE eval(readtoken(st, Head(toks)), Tail(toks))

\* an assignment to a cast, which the code generators do not accept
RECURSIVE castassigned(_)
castassigned(t) ==
    /\ t.op \notin {"none", "const", "var"}
    /\  \/ t.op = "OASSIG" /\ t.l.op = "OCAST"
        \/ castassigned(t.l) \/ castassigned(t.r)

-----------------------------------------------------------------------------
(* The text, token by token.  A token of C is a tree with its operands.    *)
Term(op, s, v, tp, l, r) == [l |-> l, v |-> v, op |-> op, s |-> s, r |-> r, tp |-> tp]

RECURSIVE HasEnum(_)
HasEnum(e) == e.op # "none" /\ (e.s = "A" \/ HasEnum(e.l) \/ HasEnum(e.r))

Init ==
    /\ arch \in Arches
    /\ ast = <<>> /\ ops = <<>> /\ len = 0 /\ phase = "parse"
    /\ tree = Nil /\ enum = Enumerator /\ code = <<>> /\ back = None

\* n operands are replaced by a term and its node
Reduce(n, term, np) ==
    /\ phase = "parse" /\ Len(ops) >= n
    /\ len' = len + 1
    /\ Fits(len, term)
    /\ ast' = Append(SubSeq(ast, 1, Len(ast) - n), term)
    /\ IF np.op = "bad" THEN phase' = "refused" /\ ops' = <<>>
       ELSE phase' = phase /\ ops' = Append(SubSeq(ops, 1, Len(ops) - n), np)
    \* what is on the stack can still be made one expression
    /\ len' + Len(ast') - 1 <= MaxTokens
    /\ UNCHANGED <<arch, tree, enum, code, back>>

arg(k) == IF Len(ops) >= k THEN ops[Len(ops) + 1 - k] ELSE Nil     \* the k-th from the top
text(k) == IF Len(ast) >= k THEN ast[Len(ast) + 1 - k] ELSE None

primary ==
    \/ \E x \in DOMAIN Variables : phase = "parse" /\
          Reduce(0, Term("var", x, 0, Variables[x], None, None), varnode(x, Variables[x]))
    \/ \E c \in Literals : phase = "parse" /\
          Reduce(0, Term("const", "", c[1], c[2], None, None), constnode(c[1], c[2]))
    \/ /\ \A k \in 1 .. Len(ast) : ~HasEnum(ast[k])      \* bound: once in an expression
       /\ Reduce(0, Term("const", "A", enum, "int", None, None), [constnode(enum, "int") EXCEPT !.s = "A"])
unary == \E op \in UnaryOps : Len(ops) > 0 /\
            Reduce(1, Term(op, "", 0, "", text(1), None), unaryop(op, arg(1)))
cast == \E tp \in CastTypes : Len(ops) > 0 /\
            Reduce(1, Term("OCAST", "", 0, tp, text(1), None), castop(arg(1), tp))
binary == \E op \in BinaryOps : Len(ops) > 1 /\
            Reduce(2, Term(op, "", 0, "", text(2), text(1)), binaryop(op, arg(2), arg(1)))
assign == \E op \in AssignOps : Len(ops) > 1 /\
            Reduce(2, Term(op, "", 0, "", text(2), text(1)), assignment(op, arg(2), arg(1)))
conditional == Len(ops) > 2 /\
            Reduce(3, Term("OASK", "", 0, "", text(3), Term("OCOLON", "", 0, "", text(2), text(1))),
                   ternary(arg(3), arg(2), arg(1)))
postfix == \E f \in DOMAIN Functions, n \in 0 .. 2 : Len(ops) >= n /\
            Reduce(n, Term("call", f, n, "", IF n = 0 THEN None ELSE text(n), IF n < 2 THEN None ELSE text(1)),
                   call(f, Functions[f], SubSeq(ops, Len(ops) - n + 1, Len(ops))))
\* the end of the expression: emit(OEXPR, simplify(np))
Finish(np, term) ==
    /\ phase = "parse" /\ Len(ops) = 1
    /\ \E s \in {simplify(np)} :
       IF s[1].op = "bad"
       THEN phase' = "crashed" /\ UNCHANGED <<tree, enum, code>>
       ELSE /\ phase' = "emitted" /\ tree' = s[1] /\ enum' = enum - s[2]
            /\ code' = emitnode(s[1])
    /\ ops' = <<np>> /\ ast' = <<term>>
    /\ UNCHANGED <<arch, len, back>>
Emit == Len(ops) = 1 /\ Finish(ops[1], ast[1])
\* condexpr(): the expression is the condition of a statement
condexpr == \E neg \in BOOLEAN : Len(ops) = 1 /\
    len <= MaxTokens - 2 /\
    Finish(exp2cond(ops[1], neg), Term(IF neg THEN "not" ELSE "cond", "", 0, "", ast[1], None))

\* constexpr(): the expression of a case, an array size, an enumerator
constexpr ==
    /\ phase = "parse" /\ Len(ops) = 1 /\ ops[1].tp \in IntTypes /\ len <= MaxTokens - 2
    /\ \E np \in {convert(ops[1], "int", FALSE)} :
       \E s \in {simplify(np)} :
       /\ phase' = IF s[1].op = "bad" THEN "crashed" ELSE IF s[1].k THEN "constant" ELSE "variable"
       /\ tree' = IF s[1].op = "bad" THEN Nil ELSE s[1]
       /\ enum' = enum - s[2] /\ ops' = <<np>>
    /\ UNCHANGED <<arch, ast, len, code, back>>

\* cc2's nextline(): one line is one expression
Read ==
    /\ phase = "emitted"
    /\ \E st \in {eval(<<>>, code)} :
       /\ phase' = IF Failed(st) THEN st[1].op ELSE IF Len(st) # 1 THEN "left over"
                   ELSE IF castassigned(st[1]) THEN "asserted" ELSE "read"
       /\ back' = IF Failed(st) THEN None ELSE top(st)
    /\ code' = <<>>
    /\ UNCHANGED <<arch, ast, ops, len, tree, enum>>

Next == primary \/ unary \/ cast \/ binary \/ assign \/ conditional \/ postfix
        \/ Emit \/ condexpr \/ constexpr \/ Read
Spec == Init /\ [][Next]_vars

-----------------------------------------------------------------------------
(* What C says about an expression (C99 6.3, 6.5), what the tree that cc2  *)
(* has computes, and the properties that compare them.                     *)

CONSTANTS IntAddress    \* the address of the int i: an array of one int

-----------------------------------------------------------------------------
(* Types, with "bad" for a constraint that the text violates.              *)
CPromote(t) == IF rank[t] >= 3 THEN t ELSE IF maxof(t) <= maxof("int") THEN "int" ELSE "uint"
Unsign(t) == IF t = "int" THEN "uint" ELSE IF t = "long" THEN "ulong" ELSE t
CUsual(t1, t2) ==
    With(CPromote(t1), LAMBDA a :
    With(CPromote(t2), LAMBDA b :
    With(IF rank[a] >= rank[b] THEN a ELSE b, LAMBDA high :
    With(IF rank[a] >= rank[b] THEN b ELSE a, LAMBDA low :
    CASE a = b -> a
      [] a # b /\ (high \in TSIGNED) = (low \in TSIGNED) -> high
      [] a # b /\ high \notin TSIGNED /\ low \in TSIGNED -> high
      [] OTHER -> IF rank[a] = rank[b] THEN low ELSE IF maxof(high) >= maxof(low) THEN high ELSE Unsign(high)))))

RECURSIVE IsConst(_)
IsConst(e) ==
    \/ e.op \in {"none", "const", "sizeof"}
    \/ /\ e.op \notin {"var", "call", "OADDR", "OPTR", "array", "OINC", "ODEC", "OASSIGN", "OCOMMA"} \cup OA_ops
       /\ IsConst(e.l) /\ IsConst(e.r)
NoMemory == [x \in DOMAIN Variables |-> 0]
\* a null pointer constant: an integer constant expression with value 0
RECURSIVE CVal(_, _)
RECURSIVE CType(_)
IsNull(e) == IsConst(e) /\ With(CVal(e, NoMemory), LAMBDA r :
                           r.d /\ r.v = 0)
CAssignable(t, et, nil) ==
    \/ t \in IntTypes /\ et \in IntTypes
    \/ t \in PtrTypes /\ ((et \in PtrTypes /\ (t = et \/ "pvoid" \in {t, et})) \/ (et \in IntTypes /\ nil))
IsLvalue(e) == e.op \in {"var", "OPTR", "array"}

Additive == {"OADD", "OSUB"}
Arith == {"OMUL", "ODIV"}
Integral == {"OMOD", "OBAND", "OBXOR", "OBOR"}
Shifts == {"OSHL", "OSHR"}
\* the operator of a compound assignment
BaseOp == [OA_ADD |-> "OADD", OA_SUB |-> "OSUB", OA_MUL |-> "OMUL", OA_DIV |-> "ODIV", OA_MOD |-> "OMOD",
           OA_SHL |-> "OSHL", OA_SHR |-> "OSHR", OA_AND |-> "OBAND", OA_XOR |-> "OBXOR", OA_OR |-> "OBOR",
           OINC |-> "OADD", ODEC |-> "OSUB"]

CBinary(op, a, b, l, r) ==    \* operands of types a, b; l, r: a null pointer constant
    LET ints == a \in IntTypes /\ b \in IntTypes
    IN CASE op = "OCOMMA" -> b
         [] op \in {"OAND", "OOR"} -> "int"
         [] op \in Shifts -> IF ints THEN CPromote(a) ELSE "bad"
         [] op \in Integral \cup Arith -> IF ints THEN CUsual(a, b) ELSE "bad"
         [] op \in Additive -> IF ints THEN CUsual(a, b)
                               ELSE IF a = "ptr" /\ b \in IntTypes THEN a
                               ELSE IF op = "OADD" /\ a \in IntTypes /\ b = "ptr" THEN b
                               ELSE IF op = "OSUB" /\ a = "ptr" /\ b = "ptr" THEN DiffType[arch] ELSE "bad"
         [] op \in Relational -> IF ints THEN "int"
                                 ELSE IF a \in PtrTypes /\ b \in PtrTypes THEN "int"
                                 ELSE IF a \in PtrTypes /\ b \in IntTypes /\ r THEN "int"
                                 ELSE IF b \in PtrTypes /\ a \in IntTypes /\ l THEN "int" ELSE "bad"
         [] op = "array" -> IF a = "ptr" /\ b \in IntTypes THEN "int"
                          ELSE IF b = "ptr" /\ a \in IntTypes THEN "int" ELSE "bad"
CTernary(a, b, l, r) ==
    CASE a \in IntTypes /\ b \in IntTypes -> IF a = b THEN a ELSE CUsual(a, b)
      [] a \in PtrTypes /\ b \in PtrTypes -> IF a = b THEN a ELSE "bad"
      [] a \in PtrTypes /\ b \in IntTypes -> IF r THEN a ELSE "bad"
      [] a \in IntTypes /\ b \in PtrTypes -> IF l THEN b ELSE "bad"

CType(e) ==
    With(CType(e.l), LAMBDA a :
    With(CType(e.r), LAMBDA b :
    With(IsNull(e.l), LAMBDA l :
    With(IsNull(e.r), LAMBDA r :
    LET pars == Functions[e.s]
        fits(k, t, nil) == k > Len(pars) \/ pars[k] = "..." \/ CAssignable(pars[k], t, nil)
    IN CASE e.op = "none" -> "void"
         [] e.op \in {"var", "const"} -> e.tp
         [] e.op = "OCOLON" -> IF "bad" \in {a, b} THEN "bad" ELSE CTernary(a, b, l, r)
         [] e.op = "call" ->
               IF "bad" \in {a, b} THEN "bad"
               ELSE IF IF pars # <<>> THEN pars[1] = "..." ELSE FALSE THEN "int"
               ELSE IF e.v # Len(pars) THEN "bad"
               ELSE IF (e.v > 0 => fits(1, a, l)) /\ (e.v > 1 => fits(2, b, r)) THEN "int" ELSE "bad"
         [] OTHER ->
               IF "bad" \in {a, b} THEN "bad"
               ELSE CASE e.op \in BinaryOps /\ e.r.op # "none" -> CBinary(e.op, a, b, l, r)
                      [] e.op = "OCAST" -> e.tp
                      [] e.op \in {"cond", "not"} -> "int"
                      [] e.op = "OASK" -> b
                      [] e.op = "OPTR" -> IF a = "ptr" THEN "int" ELSE "bad"
                      [] e.op = "OADDR" -> IF IsLvalue(e.l) THEN "ptr" ELSE "bad"
                      [] e.op = "sizeof" -> SizeType[arch]
                      [] e.op = "OASSIGN" -> IF IsLvalue(e.l) /\ CAssignable(a, b, r) THEN a ELSE "bad"
                      [] e.op \in {"OADD", "OSNEG", "OCPL"} -> IF a \in IntTypes THEN CPromote(a) ELSE "bad"
                      [] e.r.op = "none" ->        \* ++ and --
                            IF IsLvalue(e.l) /\ a # "pvoid" THEN a ELSE "bad"
                      [] OTHER ->                  \* compound assignment
                            IF ~IsLvalue(e.l) THEN "bad"
                            ELSE IF b \in IntTypes /\ CBinary(BaseOp[e.op], a, b, l, r) # "bad" THEN a ELSE "bad"))))

-----------------------------------------------------------------------------
(* Values.  A result has the value v, the calls made n, the memory m, and  *)
(* whether the behaviour is defined, d.                                    *)
Conv(v, tp) == LET u == v % 2^size(tp)
               IN IF tp \in TSIGNED /\ u >= 2^(size(tp) - 1) THEN u - 2^size(tp) ELSE u
Res(d, v, n, m) == [d |-> d, v |-> v, n |-> n, m |-> m]

Elem == size("int")
InArray(a) == a \in {IntAddress, IntAddress + Elem}

\* the variables an expression stores to, and those it reads
RECURSIVE Mods(_)
Mods(e) ==
    CASE e.op \in {"none", "sizeof"} -> {}
      [] e.op \in AssignOps \cup {"OINC", "ODEC"} \/ e.op \in UnaryOps \cap OA_ops ->
            Mods(e.l) \cup Mods(e.r) \cup {IF e.l.op = "var" THEN e.l.s ELSE "i"}
      [] OTHER -> Mods(e.l) \cup Mods(e.r)
RECURSIVE Uses(_)
Uses(e) ==
    CASE e.op \in {"none", "sizeof"} -> {}
      [] e.op = "var" -> {e.s}
      [] OTHER -> Uses(e.l) \cup Uses(e.r) \cup IF e.op \in {"OPTR", "array"} THEN {"i"} ELSE {}
\* no store unsequenced with another access of the same variable
RECURSIVE Sequenced(_)
Sequenced(e) ==
    e.op # "none" =>
        /\ Sequenced(e.l) /\ Sequenced(e.r)
        /\ e.op \notin {"OCOMMA", "OAND", "OOR", "OASK", "OCOLON"} =>
              /\ Mods(e.l) \cap Mods(e.r) = {}
              /\ Mods(e.l) \cap Uses(e.r) = {} /\ Mods(e.r) \cap Uses(e.l) = {}
              /\ e.op \in AssignOps \cup {"OINC", "ODEC"} \cup OA_ops =>
                    /\ Mods(e.l) = {}
                    /\ (IF e.l.op = "var" THEN e.l.s ELSE "i") \notin Mods(e.r)

\* whether C defines an operation on values of type t, the result of which is x
CDefined(op, t, l, r, x) ==
    CASE op \in {"ODIV", "OMOD"} -> r # 0 /\ (t \in TSIGNED => Quot(l, r) \in minof(t) .. maxof(t))
      [] op \in Shifts -> r >= 0 /\ r < size(t) /\
                          (op = "OSHL" /\ t \in TSIGNED => l >= 0 /\ x <= maxof(t))
      [] op \in {"OADD", "OSUB", "OMUL", "OSNEG"} -> t \in TSIGNED => x \in minof(t) .. maxof(t)
      [] OTHER -> TRUE
COp(op, ta, tb, a, b) ==      \* <<defined, value>> of a op b, types ta and tb
    IF ta \in PtrTypes \/ tb \in PtrTypes
    THEN CASE op \in Relational -> <<op \in {"OEQ", "ONE"} \/ (InArray(a) /\ InArray(b)), compute(op, a, b)>>
           [] op = "OSUB" /\ ta = tb -> <<InArray(a) /\ InArray(b), Quot(a - b, Elem)>>
           [] OTHER -> LET p == IF ta \in PtrTypes THEN a ELSE b
                           n == IF ta \in PtrTypes THEN b ELSE a
                           x == IF op = "OSUB" THEN p - n * Elem ELSE p + n * Elem
                       IN <<InArray(p) /\ InArray(x), x>>
    ELSE With(IF op \in Shifts THEN CPromote(ta) ELSE CUsual(ta, tb), LAMBDA t :
         With(Conv(a, t), LAMBDA l :
         With(IF op \in Shifts THEN b ELSE Conv(b, t), LAMBDA r :
         With(compute(op, l, r), LAMBDA x :
         IF ~(op \in {"ODIV", "OMOD"} /\ r = 0) /\ CDefined(op, t, l, r, x)
         THEN <<TRUE, IF op \in Relational THEN x ELSE Conv(x, t)>>
         ELSE <<FALSE, 0>>))))

CVal(e, m) ==
    LET t == CType(e)
        ta == CType(e.l)
    IN With(CVal(e.l, m), LAMBDA a :
    With(CVal(e.r, a.m), LAMBDA b :
    LET both(v) == Res(a.d /\ b.d, v, a.n + b.n, b.m)
    IN \* an lvalue: the variable, and what evaluating its address did
    With(IF e.l.op = "OPTR" THEN CVal(e.l.l, m)
         ELSE IF e.l.op = "array" THEN CVal(Term("OADD", "", 0, "", e.l.l, e.l.r), m) ELSE Res(TRUE, 0, 0, m), LAMBDA p :
    LET x == IF e.l.op = "var" THEN e.l.s ELSE "i"
        there == p.d /\ (e.l.op # "var" => p.v = IntAddress)
    IN With(CVal(e.r, p.m), LAMBDA q :
    LET store(ok, v, ret, n) == Res(there /\ ok, ret, p.n + n, [q.m EXCEPT ![x] = v])
    IN CASE e.op = "none" -> Res(TRUE, 0, 0, m)
         [] e.op = "var" -> Res(TRUE, m[e.s], 0, m)
         [] e.op = "const" -> Res(TRUE, e.v, 0, m)
         [] e.op = "sizeof" -> Res(TRUE, size(ta), 0, m)
         [] e.op = "call" -> LET first == IF e.v = 0 THEN 1 ELSE Conv(a.v, IF Functions[e.s][1] = "..." THEN ta ELSE Functions[e.s][1])
                             IN Res(a.d /\ b.d, Conv(first, "int"), a.n + b.n + 1, b.m)
         [] e.op = "OCAST" -> Res(a.d, Conv(a.v, t), a.n, a.m)
         [] e.op = "cond" -> Res(a.d, Truth(a.v # 0), a.n, a.m)
         [] e.op = "not" -> Res(a.d, Truth(a.v = 0), a.n, a.m)
         [] e.op = "OADDR" -> IF e.l.op = "var" THEN Res(e.l.s = "i", IntAddress, 0, m)
                              ELSE Res(p.d, p.v, p.n, p.m)
         [] e.op = "OPTR" -> Res(a.d /\ a.v = IntAddress, a.m["i"], a.n, a.m)
         [] e.op = "array" -> LET s == CVal(Term("OADD", "", 0, "", e.l, e.r), m)
                              IN Res(s.d /\ s.v = IntAddress, s.m["i"], s.n, s.m)
         [] e.op = "OAND" -> IF a.d /\ a.v = 0 THEN Res(TRUE, 0, a.n, a.m) ELSE both(Truth(b.v # 0))
         [] e.op = "OOR" -> IF a.d /\ a.v # 0 THEN Res(TRUE, 1, a.n, a.m) ELSE both(Truth(b.v # 0))
         [] e.op = "OCOMMA" -> both(b.v)
         [] e.op = "OASK" -> LET c == CVal(IF a.v # 0 THEN e.r.l ELSE e.r.r, a.m)
                             IN Res(a.d /\ c.d, Conv(c.v, t), a.n + c.n, c.m)
         [] e.op \in {"OADD", "OSNEG", "OCPL"} /\ e.r.op = "none" ->
               With(Conv(a.v, t), LAMBDA v :
               IF e.op = "OADD" THEN Res(a.d, v, a.n, a.m)
               ELSE With(compute(e.op, v, 0), LAMBDA y : Res(a.d /\ CDefined(e.op, t, v, 0, y), Conv(y, t), a.n, a.m)))
         [] e.op = "OASSIGN" -> store(q.d, Conv(q.v, t), Conv(q.v, t), q.n)
         [] e.op \in DOMAIN BaseOp ->       \* ++, -- and compound assignment
               LET inc == e.r.op = "none"
               IN With(COp(BaseOp[e.op], ta, IF inc THEN "int" ELSE CType(e.r), m[x], IF inc THEN 1 ELSE q.v), LAMBDA o :
               With(Conv(o[2], t), LAMBDA v :
               store(q.d /\ o[1], v, IF e.op \in {"OINC", "ODEC"} THEN m[x] ELSE v, q.n)))
         [] OTHER -> With(COp(e.op, ta, CType(e.r), a.v, b.v), LAMBDA o :
                     Res(a.d /\ b.d /\ o[1], o[2], a.n + b.n, b.m))))))

(* What the tree of cc2 computes: two's complement at the width of the     *)
(* type of each node; d is false where the machine has no result.          *)
RECURSIVE Run(_, _)
Run(t, m) ==
    With(Run(t.l, m), LAMBDA a :
    With(Run(t.r, a.m), LAMBDA b :
    With(IF t.l.op = "OPTR" THEN Run(t.l.l, m) ELSE Res(TRUE, 0, 0, m), LAMBDA p :
    LET x == IF t.l.op = "var" THEN t.l.s ELSE "i"
        there == p.d /\ (t.l.op = "OPTR" => p.v = IntAddress)
    IN With(Run(t.r, p.m), LAMBDA q :
    LET store(v, ret) == Res(there /\ q.d, ret, p.n + q.n, [q.m EXCEPT ![x] = v])
    IN CASE t.op = "none" -> Res(TRUE, 0, 0, m)
         [] t.op = "var" -> Res(TRUE, IF t.tp = "fun" THEN 0 ELSE m[t.s], 0, m)
         [] t.op = "const" -> Res(TRUE, Conv(t.v, t.tp), 0, m)
         [] t.op = "OPAR" -> Res(a.d /\ b.d, a.v, a.n + b.n, b.m)
         [] t.op \in {"OCALL", "OCALLE"} ->
               Res(b.d, Conv(IF t.r.op = "none" THEN 1 ELSE b.v, "int"), b.n + 1, b.m)
         [] t.op = "OCAST" -> Res(a.d, Conv(a.v, t.tp), a.n, a.m)
         [] t.op = "ONEG" -> Res(a.d, Truth(a.v = 0), a.n, a.m)
         [] t.op = "OADDR" -> IF t.l.op = "var" THEN Res(TRUE, IntAddress, 0, m) ELSE p
         [] t.op = "OPTR" -> Res(a.d /\ a.v = IntAddress, a.m["i"], a.n, a.m)
         [] t.op = "OAND" -> IF a.v = 0 THEN Res(a.d, 0, a.n, a.m) ELSE Res(a.d /\ b.d, Truth(b.v # 0), a.n + b.n, b.m)
         [] t.op = "OOR" -> IF a.v # 0 THEN Res(a.d, 1, a.n, a.m) ELSE Res(a.d /\ b.d, Truth(b.v # 0), a.n + b.n, b.m)
         [] t.op = "OCOMMA" -> Res(a.d /\ b.d, b.v, a.n + b.n, b.m)
         [] t.op = "OASK" -> LET c == Run(IF a.v # 0 THEN t.r.l ELSE t.r.r, a.m)
                             IN Res(a.d /\ c.d, c.v, a.n + c.n, c.m)
         [] t.op = "OASSIG" ->
               IF t.s = "OASSIGN" THEN store(Conv(q.v, t.tp), Conv(q.v, t.tp))
               ELSE LET o == BaseOp[t.s]
                        ok == o \in {"ODIV", "OMOD"} => q.v # 0
                    IN With(IF ok THEN Conv(compute(o, m[x], q.v), t.tp) ELSE 0, LAMBDA v :
                    With(store(v, IF t.s \in {"OINC", "ODEC"} THEN m[x] ELSE v), LAMBDA s :
                    [s EXCEPT !.d = @ /\ ok]))
         [] OTHER -> IF t.op \in {"ODIV", "OMOD"} /\ b.v = 0 THEN Res(FALSE, 0, a.n + b.n, b.m)
                     ELSE Res(a.d /\ b.d, IF t.op \in Relational THEN compute(t.op, a.v, b.v)
                                          ELSE Conv(compute(t.op, a.v, b.v), t.tp), a.n + b.n, b.m)))))

-----------------------------------------------------------------------------
(* The rules of the compiler that are not those of C.  The properties say  *)
(* that there are no others.                                               *)
RECURSIVE Subterms(_)
Subterms(e) == IF e.op = "none" THEN {} ELSE {e} \cup Subterms(e.l) \cup Subterms(e.r)
RECURSIVE Subnodes(_)
Subnodes(np) == IF np.op = "nil" THEN {} ELSE {np} \cup Subnodes(np.l) \cup Subnodes(np.r)
S(np) == xsimplify(np)[1]

\* Of a node n with the operands l and r, s, sl and sr simplified:
\* commutative(): 1 < x becomes x >= 1, the negation and not the mirror
Mirrored(n, sl, sr) == n.op \in Relational \ {"OEQ", "ONE"} /\ sl.k /\ ~sr.k
\* identity(): x % 1 becomes x,1 ; reduce(): x % 2^n becomes x & (2^n - 1)
\* also for a signed x
ModByOne(n, sl, sr) == n.op = "OMOD" /\ ~hassym(sl) /\ cmpnode(sr, 1)
SignedMod(n, sl, sr) == n.op = "OMOD" /\ n.tp \in TSIGNED /\ ~hassym(sl) /\ power2node(sr)
\* identity(): 0 << f() becomes 0 and f is not called
LostCall(n, sl) == n.op \in Shifts /\ cmpnode(sl, 0) /\ n.r.ef
\* foldcast(): a constant narrowed to a value that is not negative keeps its high bits
WideCast(n, s, sl) == n.op = "OCAST" /\ hassym(sl) /\ TI(s.v) # Conv(sl.v, n.tp) /\ n.tp \in TSIGNED

\* Of an expression e with operands of the types a and b:
\* integerop(): both operands of a shift are brought to one type
MixedShift(e, a, b) == e.op \in Shifts /\ CPromote(a) # CPromote(b)
\* x op= y is computed in the type of x
NarrowOp(e, a, b) == e.op \in {"OA_DIV", "OA_MOD", "OA_SHL", "OA_SHR"} /\ (a # CPromote(a) \/ b # a)
UnaryPlus(e) == e.op = "OADD" /\ e.r.op = "none"
\* c++ of a type narrower than int increments a cast
CastStep(e, a, b) == e.op \in {"OINC", "ODEC"} /\ a \in {"char", "ushort"}
\* and so its type is int
SizeOfStep(e) == e.op = "sizeof" /\ CastStep(e.l, CType(e.l.l), "void")
\* parithmetic() swaps the operands of every operator
IntMinusPtr(e, a, b) == e.op \in {"OSUB", "OA_ADD", "OA_SUB"} /\ a \in IntTypes /\ b = "ptr"
PtrDifference(e, a, b) == e.op = "OSUB" /\ a = "ptr" /\ b = "ptr"
\* cmpnode() sees a null pointer constant only where it is a literal
HiddenNull(e) == e.op # "const" /\ IsNull(e)

\* Some expression of the text; with the types of its operands.
Some(P(_)) == \E k \in 1 .. Len(ast) : \E e \in Subterms(ast[k]) : P(e)
Has(P(_, _, _)) == Some(LAMBDA e : P(e, CType(e.l), CType(e.r)))

-----------------------------------------------------------------------------
Phases == {"parse", "refused", "crashed", "emitted", "read", "underflow", "overflow",
           "left over", "asserted", "constant", "variable"}

\* cc1 refuses exactly the texts that violate a constraint of C, but for
\* the swapped pointer operands, and the null constants it does not see.
AcceptedAsInC ==
    /\ phase = "refused" => \/ \E k \in 1 .. Len(ast) : CType(ast[k]) = "bad"
                            \/ Some(HiddenNull)
    /\ phase \in {"emitted"} => CType(ast[1]) # "bad" \/ Has(IntMinusPtr)

\* The type of an expression is the one C gives it, but for shifts of mixed
\* types and pointer differences.
TypeAsInC ==
    phase = "emitted" =>
        \/ ops[1].tp = CType(ast[1])
        \/ Has(LAMBDA e, a, b : \/ IntMinusPtr(e, a, b) \/ MixedShift(e, a, b)
                               \/ PtrDifference(e, a, b) \/ CastStep(e, a, b))

\* values of the variables that the text names
RECURSIVE Memory(_)
Memory(names) ==
    IF names = {} THEN {NoMemory}
    ELSE LET x == CHOOSE y \in names : TRUE
             vals == IF Variables[x] = "ptr" THEN {0, IntAddress, IntAddress + Elem}
                     ELSE minof(Variables[x]) .. maxof(Variables[x])
         IN {[m EXCEPT ![x] = v] : m \in Memory(names \ {x}), v \in vals}

Excused ==
    \/ Has(LAMBDA e, a, b : \/ IntMinusPtr(e, a, b) \/ MixedShift(e, a, b)
                           \/ NarrowOp(e, a, b) \/ SizeOfStep(e))
    \/ \E n \in Subnodes(ops[1]) :
         With(S(n), LAMBDA s : With(S(n.l), LAMBDA l : With(S(n.r), LAMBDA r :
         \/ Mirrored(n, l, r) \/ ModByOne(n, l, r) \/ SignedMod(n, l, r)
         \/ LostCall(n, l) \/ WideCast(n, s, l))))

\* For every value of its variables, what cc2 has computes the value that C
\* gives the expression, makes the same calls and leaves the same memory.
ValueAsInC ==
    phase = "read" /\ ~Excused /\ Sequenced(ast[1]) =>
        \A m \in Memory(Uses(ast[1]) \cup Mods(ast[1])) :
            With(CVal(ast[1], m), LAMBDA c :
            With(Run(back, m), LAMBDA r :
            c.d => r.d /\ r.v = c.v /\ r.n = c.n /\ r.m = c.m))

\* Where C wants an integer constant expression, cc1 accepts every one that
\* has a value, and takes that value, converted to int.
ConstantAsInC ==
    phase \in {"constant", "variable"} /\ ~Excused =>
        \A m \in IF phase = "constant" THEN Memory(Uses(ast[1]) \cup Mods(ast[1])) ELSE {NoMemory} :
            With(CVal(ast[1], m), LAMBDA c :
            IF phase = "constant" THEN c.d => TI(tree.v) = Conv(c.v, "int") ELSE ~IsConst(ast[1]) \/ ~c.d)

RECURSIVE Leaves(_)
Leaves(np) == IF np.op = "nil" THEN 0 ELSE IF np.op = "OSYM" THEN 1 ELSE Leaves(np.l) + Leaves(np.r)
\* cc2's stack reads every line that cc1 writes, and cc1 writes one for
\* every text it accepts; what fails has a unary plus, steps a variable
\* narrower than int, or has as many operands as the stack has places.
CodeReadBack ==
    /\ phase \in {"crashed", "underflow"} => Some(UnaryPlus)
    /\ phase = "asserted" => Has(CastStep)
    /\ phase = "overflow" => Leaves(tree) >= STACKSIZ
    /\ phase # "left over"

\* A constant keeps its value: the only expression that changes the value of
\* an enumerator is a remainder by it.
EnumeratorKept ==
    enum # Enumerator => Some(LAMBDA e : e.op = "OMOD" /\ HasEnum(e.r))

\* cc1 gives a text the meaning C does: it accepts it when C does, with C's type.
TypedAsInC == AcceptedAsInC /\ TypeAsInC

\* What is computed is what C computes, by the program or by cc1 while it folds.
ComputedAsInC == ValueAsInC /\ ConstantAsInC /\ EnumeratorKept
=============================================================================
