------------------------------ MODULE Cc1Expr -------------------------------
(***************************************************************************)
(* The trees that cc1 builds for expressions (expr.c, with the limits of   *)
(* types.c and the node constructors of code.c): conversions, the usual    *)
(* arithmetic conversions, pointer arithmetic, comparisons, conditions,    *)
(* assignments, calls.  The recursive descent is left out: the parser      *)
(* calls these functions bottom-up, in the order of a postfix text.        *)
(*                                                                         *)
(* Integers have the few bits Width gives them, a byte having one bit, so  *)
(* that the size of a type is also its width.  A constant is kept as the   *)
(* union TINT/TUINT of its symbol: a natural below 2^TINTBits.             *)
(***************************************************************************)
EXTENDS Integers, Sequences, FiniteSets, Once

CONSTANTS Arches,     \* the targets
          Width,      \* Width[arch][type]: size and width of a type
          SizeType,   \* SizeType[arch]: size_t
          DiffType,   \* DiffType[arch]: ptrdiff_t
          TINTBits    \* width of TINT and TUINT, in which cc1 computes

ASSUME WidthsFit == \A a \in Arches : \A t \in DOMAIN Width[a] : Width[a][t] \in 1 .. TINTBits

VARIABLE arch

IntTypes == {"char", "ushort", "int", "uint", "long", "ulong"}
TSIGNED == {"char", "int", "long"}
PtrTypes == {"ptr", "pvoid"}
rank == [char |-> 1, ushort |-> 2, int |-> 3, uint |-> 3, long |-> 4, ulong |-> 4]

size(tp) == Width[arch][IF tp \in PtrTypes THEN "ptr" ELSE tp]
\* limits of an integer type, the maximum as a TUINT
maxof(tp) == IF tp \in TSIGNED THEN 2^(size(tp) - 1) - 1 ELSE 2^size(tp) - 1
minof(tp) == IF tp \in TSIGNED THEN -(2^(size(tp) - 1)) ELSE 0

\* The bits of a TINT, and a TINT as a number.
TU(x) == x % 2^TINTBits
TI(x) == LET u == TU(x) IN IF u >= 2^(TINTBits - 1) THEN u - 2^TINTBits ELSE u
ones(n) == 2^n - 1

(***************************************************************************)
(* Nodes.  k is NCONST, lv NLVAL, ef NEFFECT; sc is SCONSTANT of the       *)
(* symbol, s the name of a variable, function or enumerator.               *)
(***************************************************************************)
Nil == [op |-> "nil", k |-> FALSE, ef |-> FALSE]
Bad == [op |-> "bad"]    \* an error was reported: nothing will be emitted
node(op, tp, l, r) == [l |-> l, v |-> 0, op |-> op, s |-> "", r |-> r, k |-> FALSE, tp |-> tp,
                       ef |-> l.ef \/ r.ef, sc |-> FALSE, lv |-> FALSE]
varnode(name, tp) == [node("OSYM", tp, Nil, Nil) EXCEPT !.s = name, !.lv = TRUE]
constnode(v, tp) == [node("OSYM", tp, Nil, Nil) EXCEPT !.v = TU(v), !.k = TRUE, !.sc = TRUE]
sizeofnode(tp) == [constnode(size(tp), SizeType[arch]) EXCEPT !.sc = FALSE]
\* the shared symbols zero and one, which are no SCONSTANT
shared(v) == [constnode(v, "int") EXCEPT !.sc = FALSE]

hassym(np) == np.k /\ np.op = "OSYM"
AllOnes == -1
cmpnode(np, val) ==
    /\ hassym(np)
    /\ LET mask == IF val = AllOnes THEN ones(size(np.tp)) ELSE ones(TINTBits)
       IN TU(np.v) % (mask + 1) = TU(val) % (mask + 1)
power2node(np) == hassym(np) /\ np.tp \in IntTypes /\ \E n \in 0 .. TINTBits - 1 : np.v = 2^n

TINTEGER(np) == np.tp \in IntTypes
PTR(np) == np.tp \in PtrTypes

\* convert(): Nil is the NULL of a conversion that is not allowed
convert(np, newtp, iscast) ==
    IF newtp = np.tp THEN np
    ELSE CASE TINTEGER(np) /\ newtp \in IntTypes -> node("OCAST", newtp, np, Nil)
           [] TINTEGER(np) /\ newtp \in PtrTypes ->
                IF iscast \/ cmpnode(np, 0) THEN node("OCAST", newtp, np, Nil) ELSE Nil
           [] PTR(np) /\ newtp \in IntTypes ->
                IF iscast THEN node("OCAST", newtp, np, Nil) ELSE Nil
           [] OTHER -> IF iscast \/ newtp = "pvoid" \/ np.tp = "pvoid"
                       THEN [np EXCEPT !.tp = newtp] ELSE Nil

promote(np) ==
    IF rank[np.tp] >= rank["int"] THEN np
    ELSE convert(np, IF TI(maxof(np.tp)) <= TI(maxof("int")) THEN "int" ELSE "uint", TRUE)

\* a plausible error: the rank alone decides
arithtoRank(t1, t2) == rank[t1] - rank[t2]
\* > 0: to the first type; < 0: to the second
arithto(t1, t2) ==
    LET s1 == t1 \in TSIGNED  s2 == t2 \in TSIGNED
        r1 == rank[t1]        r2 == rank[t2]
    IN IF s1 = s2 THEN r1 - r2
       ELSE IF ~s1 THEN (IF r1 >= r2 \/ TI(maxof(t1)) >= TI(maxof(t2)) THEN 1 ELSE -1)
       ELSE IF r2 >= r1 \/ TI(maxof(t2)) >= TI(maxof(t1)) THEN -1 ELSE 1
arithconv(l, r) ==
    With(promote(l), LAMBDA p :
    With(promote(r), LAMBDA q :
    With(IF p.tp = q.tp THEN 0 ELSE arithto(p.tp, q.tp), LAMBDA to :
    CASE to > 0 -> <<p, convert(q, p.tp, TRUE)>>
      [] to < 0 -> <<convert(p, q.tp, TRUE), q>>
      [] OTHER -> <<p, q>>)))

arithnode(op, l, r) == With(arithconv(l, r), LAMBDA c :
                       node(op, c[1].tp, c[1], c[2]))

OA_ops == {"OA_ADD", "OA_SUB", "OA_MUL", "OA_DIV", "OA_MOD", "OA_SHL", "OA_SHR",
           "OA_AND", "OA_XOR", "OA_OR"}

integerop(op, l, r) ==
    IF ~TINTEGER(l) \/ ~TINTEGER(r) THEN Bad
    ELSE IF op \in OA_ops THEN node(op, l.tp, l, convert(r, l.tp, FALSE))
    ELSE arithnode(op, l, r)
integeruop(op, np) == IF ~TINTEGER(np) THEN Bad ELSE node(op, promote(np).tp, promote(np), Nil)
numericaluop(op, np) == integeruop(op, np)    \* no floating types here

parithmetic(op, l0, r0) ==
    LET l == IF PTR(l0) THEN l0 ELSE r0
        r == IF PTR(l0) THEN r0 ELSE l0
        elem == sizeofnode("int")
    IN With(convert(r, l.tp, FALSE), LAMBDA diff :
    LET mul == node("OMUL", SizeType[arch], convert(promote(r), SizeType[arch], FALSE), elem)
    IN CASE "pvoid" \in {l.tp, r.tp} -> Bad
         [] op = "OSUB" /\ PTR(r) -> IF diff.op = "nil" THEN Bad
                                     ELSE node("ODIV", "int", node("OSUB", DiffType[arch], l, diff), elem)
         [] OTHER -> IF ~TINTEGER(r) THEN Bad ELSE node(op, l.tp, l, convert(mul, l.tp, TRUE)))

arithmetic(op, l, r) ==
    CASE TINTEGER(l) /\ TINTEGER(r) ->
            IF op \in OA_ops THEN node(op, l.tp, l, convert(r, l.tp, FALSE)) ELSE arithnode(op, l, r)
      [] (PTR(l) \/ PTR(r)) /\ op \in {"OADD", "OSUB", "OA_ADD", "OA_SUB", "OINC", "ODEC"} ->
            With(parithmetic(op, l, r), LAMBDA np :
            IF np.op # "bad" /\ l.k /\ r.k THEN [np EXCEPT !.k = TRUE] ELSE np)
      [] OTHER -> Bad

pcompare(op, l, r) ==
    With(IF TINTEGER(l) THEN convert(l, r.tp, FALSE) ELSE l, LAMBDA l2 :
    With(IF TINTEGER(r) THEN convert(r, l2.tp, FALSE) ELSE r, LAMBDA r2 :
    IF l2.op = "nil" THEN Bad ELSE IF r2.op = "nil" THEN Bad
    ELSE convert(node(op, "pvoid", l2, r2), "int", TRUE)))
compare(op, l, r) ==
    IF PTR(l) \/ PTR(r) THEN pcompare(op, l, r) ELSE convert(arithnode(op, l, r), "int", TRUE)

Relational == {"OEQ", "ONE", "OLT", "OGE", "OLE", "OGT"}
negop(op) == [OEQ |-> "ONE", ONE |-> "OEQ", OLT |-> "OGE", OGE |-> "OLT",
              OLE |-> "OGT", OGT |-> "OLE"][op]

exp2cond(np, neg) ==
    CASE np.op \in {"ONEG", "OOR", "OAND"} -> IF neg THEN node("ONEG", "int", np, Nil) ELSE np
      [] np.op \in Relational -> IF neg THEN [np EXCEPT !.op = negop(np.op)] ELSE np
      [] OTHER -> compare(IF neg THEN "OEQ" ELSE "ONE", np, shared(0))
logic(op, l, r) == node(op, "int", exp2cond(l, FALSE), exp2cond(r, FALSE))
negation(np) == exp2cond(np, TRUE)

\* a null pointer: what a zero converted to void * looks like
null(np) == np.tp = "pvoid" /\ np.op = "OCAST" /\ np.l.tp = "int" /\ cmpnode(np.l, 0)
chkternary(yes, no) ==
    LET v(np) == IF TINTEGER(np) /\ cmpnode(np, 0) THEN convert(np, "pvoid", FALSE) ELSE np
    IN With(v(yes), LAMBDA y1 :
    With(v(no), LAMBDA n1 :
    With(IF null(y1) THEN convert(y1, n1.tp, FALSE) ELSE y1, LAMBDA y2 :
    With(IF null(n1) THEN convert(n1, y2.tp, FALSE) ELSE n1, LAMBDA n2 :
    CASE yes.tp = no.tp -> node("OCOLON", yes.tp, yes, no)
      [] yes.tp # no.tp /\ TINTEGER(yes) /\ TINTEGER(no) -> arithnode("OCOLON", yes, no)
      [] OTHER -> IF ~PTR(y1) \/ ~PTR(n1) THEN Bad
                  ELSE IF y2.tp # n2.tp THEN Bad ELSE node("OCOLON", y2.tp, y2, n2)))))
ternary(cond, yes, no) ==
    With(chkternary(yes, no), LAMBDA np :
    IF np.op = "bad" THEN Bad ELSE node("OASK", np.tp, exp2cond(cond, FALSE), np))

effect(np) == [np EXCEPT !.ef = TRUE]
assignop(op, l, r) ==
    With(convert(r, l.tp, FALSE), LAMBDA c :
    IF c.op = "nil" THEN Bad ELSE node(op, l.tp, effect(l), c))
incdec(np, op) == IF ~np.lv THEN Bad ELSE arithmetic(op, effect(np), shared(1))

content(np) == IF np.tp # "ptr" THEN Bad ELSE [node("OPTR", "int", np, Nil) EXCEPT !.lv = TRUE]
array(l, r) ==
    IF ~TINTEGER(l) /\ ~TINTEGER(r) THEN Bad
    ELSE With(arithmetic("OADD", l, r), LAMBDA np :
         IF np.op = "bad" THEN Bad ELSE content(np))
\* the address of a variable is a constant without a symbol
address(np) == IF ~np.lv THEN Bad
               ELSE [node("OADDR", "ptr", np, Nil) EXCEPT !.k = np.op = "OSYM"]

castop(np, tp) == LET c == convert(np, tp, TRUE) IN [c EXCEPT !.lv = FALSE]

comma(l, r) == node("OCOMMA", r.tp, l, r)

\* Calls: pars are the parameter types, "..." the ellipsis.
parnode(arg, par, tp) == node("OPAR", arg.tp, par, arg)
RECURSIVE arguments(_, _, _)
arguments(par, args, pars) ==
    IF args = <<>> THEN (IF pars # <<>> THEN IF Head(pars) # "..." THEN Bad ELSE par ELSE par)
    ELSE IF pars = <<>> THEN Bad
    ELSE LET arg == Head(args)
         IN With(IF Head(pars) # "..." THEN convert(arg, Head(pars), FALSE)
              ELSE IF TINTEGER(arg) THEN promote(arg) ELSE arg, LAMBDA to :
         IF to.op = "nil" THEN Bad
         ELSE arguments(parnode(to, par, Head(pars)), Tail(args),
                        IF Head(pars) = "..." THEN pars ELSE Tail(pars)))
call(name, pars, args) ==
    With(arguments(Nil, args, pars), LAMBDA par :
    LET op == IF pars # <<>> /\ pars[Len(pars)] = "..." THEN "OCALLE" ELSE "OCALL"
    IN IF par.op = "bad" THEN Bad
       ELSE effect(node(op, "int", [varnode(name, "fun") EXCEPT !.lv = FALSE], par)))

\* the functions of the grammar, by operator
binaryop(op, l, r) ==
    CASE op \in {"OADD", "OSUB", "OMUL", "ODIV"} -> arithmetic(op, l, r)
      [] op \in {"OMOD", "OSHL", "OSHR", "OBAND", "OBXOR", "OBOR"} -> integerop(op, l, r)
      [] op \in Relational -> compare(op, l, r)
      [] op \in {"OAND", "OOR"} -> logic(op, l, r)
      [] op = "OCOMMA" -> comma(l, r)
      [] op = "array" -> array(l, r)
unaryop(op, np) ==
    CASE op = "not" -> negation(np)
      [] op \in {"OADD", "OSNEG"} -> numericaluop(op, np)
      [] op = "OCPL" -> integeruop(op, np)
      [] op = "OADDR" -> address(np)
      [] op = "OPTR" -> content(np)
      [] op = "sizeof" -> sizeofnode(np.tp)
      [] op \in {"OINC", "ODEC", "OA_ADD", "OA_SUB"} -> incdec(np, op)
assignment(op, l, r) ==
    IF ~l.lv THEN Bad
    ELSE CASE op = "OASSIGN" -> assignop(op, l, r)
           [] op \in {"OA_MUL", "OA_DIV", "OA_ADD", "OA_SUB"} -> arithmetic(op, effect(l), r)
           [] OTHER -> integerop(op, effect(l), r)

-----------------------------------------------------------------------------
(* fold.c: the simplification of a tree before it is emitted.  Constants   *)
(* are computed in TINT and TUINT; what the build does where C leaves the  *)
(* computation undefined is the wrap-around of two's complement and, for a *)
(* shift, the count modulo the width.                                      *)

CONSTANT HostIntBits    \* width of the int in which lshi() shifts a 1

\* bitwise operations on naturals below 2^TINTBits
BitwiseTable(f(_, _)) ==
    [x \in 0 .. 2^TINTBits - 1, y \in 0 .. 2^TINTBits - 1 |->
        LET t[n \in 0 .. TINTBits] ==
                IF n = 0 THEN 0
                ELSE t[n - 1] + 2^(n - 1) * f((x \div 2^(n - 1)) % 2, (y \div 2^(n - 1)) % 2)
        IN t[TINTBits]]
AndTable == BitwiseTable(LAMBDA a, b : a * b)
OrTable == BitwiseTable(LAMBDA a, b : IF a + b > 0 THEN 1 ELSE 0)
XorTable == BitwiseTable(LAMBDA a, b : (a + b) % 2)

Abs(x) == IF x < 0 THEN -x ELSE x
\* division and remainder of C: towards zero
Quot(l, r) == LET q == Abs(l) \div Abs(r) IN IF (l < 0) = (r < 0) THEN q ELSE -q
Rem(l, r) == l - r * Quot(l, r)
Truth(b) == IF b THEN 1 ELSE 0

addi(l, r, tp) ==
    LET max == TI(maxof(tp))  min == minof(tp)
    IN \/ l < 0 /\ r < 0 /\ l >= TI(min - r)
       \/ l = 0 \/ r = 0
       \/ l < 0 /\ r > 0
       \/ l > 0 /\ r < 0
       \/ l > 0 /\ r > 0 /\ l <= TI(max - r)
subi(l, r, tp) == addi(l, TI(-r), tp)
muli(l, r, tp) ==
    LET max == TI(maxof(tp))  min == minof(tp)
    IN \/ l \in {0, 1} \/ r \in {0, 1}
       \/ l < 0 /\ r < 0 /\ TI(-l) <= Quot(max, TI(-r))
       \/ l < 0 /\ r > 0 /\ l >= Quot(min, r)
       \/ l > 0 /\ r < 0 /\ r >= Quot(min, l)
       \/ l > 0 /\ r > 0 /\ l <= Quot(max, r)
divi(l, r, tp) == r # 0 /\ ~(TU(l) = TU(-minof(tp)) /\ r = -1)
lshi(l, r, tp) == r >= 0 /\ r < size(tp) /\ muli(l, 2^(r % HostIntBits), tp)
rshi(l, r, tp) == r >= 0 /\ r < size(tp)

validate(op, l, r, tp) ==
    CASE op = "OADD" -> addi(l, r, tp)
      [] op = "OSUB" -> subi(l, r, tp)
      [] op = "OMUL" -> muli(l, r, tp)
      [] op \in {"ODIV", "OMOD"} -> divi(l, r, tp)
      [] op = "OSHL" -> lshi(l, r, tp)
      [] op = "OSHR" -> rshi(l, r, tp)
      [] OTHER -> TRUE

Folded == {"OADD", "OSUB", "OMUL", "ODIV", "OMOD", "OSHL", "OSHR", "OBAND", "OBXOR", "OBOR",
           "OAND", "OOR", "ONEG", "OSNEG", "OCPL"} \cup Relational
Comparing == Relational \cup {"OAND", "OOR"}

compute(op, l, r) ==
    CASE op = "OADD" -> l + r [] op = "OSUB" -> l - r [] op = "OMUL" -> l * r
      [] op = "ODIV" -> Quot(l, r) [] op = "OMOD" -> Rem(l, r)
      [] op = "OSHL" -> l * 2^(TU(r) % TINTBits)
      [] op = "OSHR" -> l \div 2^(TU(r) % TINTBits)
      [] op = "OBAND" -> AndTable[TU(l), TU(r)]
      [] op = "OBXOR" -> XorTable[TU(l), TU(r)]
      [] op = "OBOR" -> OrTable[TU(l), TU(r)]
      [] op = "OAND" -> Truth(l # 0 /\ r # 0) [] op = "OOR" -> Truth(l # 0 \/ r # 0)
      [] op = "OLT" -> Truth(l < r) [] op = "OGT" -> Truth(l > r)
      [] op = "OGE" -> Truth(l >= r) [] op = "OLE" -> Truth(l <= r)
      [] op = "OEQ" -> Truth(l = r) [] op = "ONE" -> Truth(l # r)
      [] op = "ONEG" -> Truth(l = 0) [] op = "OSNEG" -> -l [] op = "OCPL" -> -l - 1

\* Nil when there is no result
foldint(op, tp, l, r) ==
    IF ~validate(op, l, r, tp) \/ op \notin Folded THEN Nil ELSE constnode(compute(op, l, r), tp)
folduint(op, tp, l, r) ==
    IF op \notin Folded THEN Nil
    ELSE With(TU(compute(op, l, r)), LAMBDA u :
         constnode(IF op \in Comparing THEN u ELSE u % (ones(size(tp)) + 1), tp))

fold(np) ==
    LET rs == IF np.r.op = "nil" THEN 0 ELSE np.r.v
    IN With(IF np.l.tp \in TSIGNED THEN foldint(np.op, np.tp, TI(np.l.v), TI(rs))
         ELSE folduint(np.op, np.tp, np.l.v, rs), LAMBDA p :
    IF np.op = "OSYM" THEN np
    ELSE IF np.op \in {"ODIV", "OMOD"} /\ cmpnode(np.r, 0) THEN np
    ELSE IF (np.r.op # "nil" /\ ~hassym(np.r)) \/ ~hassym(np.l) THEN np
    ELSE IF p.op = "nil" THEN [np EXCEPT !.k = FALSE] ELSE p)

\* a plausible error: the sign is not extended
foldcast(np) ==
    LET u == np.l.v
        mask == ones(size(np.tp))
        negative == (u \div 2^(size(np.tp) - 1)) % 2 = 1
    IN IF ~hassym(np.l) THEN np
       ELSE IF np.tp \notin TSIGNED THEN constnode(u % (mask + 1), np.tp)
       ELSE IF negative THEN constnode(OrTable[u, TU(-1 - mask)], np.tp)
       ELSE constnode(u, np.tp)

foldunary(np) ==
    LET l == np.l
    IN CASE np.op = "OCAST" -> foldcast(np)
         [] np.op \in {"ONEG", "OSNEG", "OCPL"} -> IF l.op = np.op THEN l.l ELSE np
         [] np.op = "OPTR" -> IF l.op # "OADDR" THEN np ELSE IF np.tp = l.l.tp THEN l.l ELSE np
         [] np.op = "OADDR" -> IF l.op = "OPTR" THEN l.l ELSE np

commutative(np) ==
    IF np.r.op = "nil" \/ np.r.k \/ ~np.l.k THEN np
    ELSE CASE np.op \in {"OLT", "OGT", "OGE", "OLE"} -> [np EXCEPT !.op = negop(np.op), !.l = np.r, !.r = np.l]
           [] np.op \in {"OEQ", "ONE", "OADD", "OMUL", "OBAND", "OBXOR", "OBOR"} ->
                 [np EXCEPT !.l = np.r, !.r = np.l]
           [] OTHER -> np

\* (x op c) op r => x op (r op c).  Bad stands for the read through a null
\* pointer: the operand that a unary plus does not have.
associative(np) ==
    IF np.op \notin {"OADD", "OMUL", "OBAND", "OBXOR", "OBOR"} \/ np.l.op # np.op THEN np
    ELSE IF np.l.r.op = "nil" THEN Bad
    ELSE IF ~np.l.r.sc THEN np
    ELSE IF np.r.op = "nil" THEN Bad
    ELSE [np EXCEPT !.l = np.l.l, !.r = fold([np.l EXCEPT !.l = np.r])]

\* a plausible error: i * 0 => 0, and i is not evaluated
identityZero(np) ==
    IF np.op # "OMUL" THEN np
    ELSE IF cmpnode(np.r, 0) THEN np.r ELSE IF cmpnode(np.r, 1) THEN np.l ELSE np
identity(np) ==
    With(cmpnode(np.r, 0), LAMBDA iszeror :
    With(cmpnode(np.r, 1), LAMBDA isoner :
    With(cmpnode(np.l, 0), LAMBDA iszerol :
    With(cmpnode(np.l, 1), LAMBDA isonel :
    LET to_comma == [np EXCEPT !.op = "OCOMMA"]
    IN IF np.op = "OSYM" THEN np
       ELSE IF np.r.op = "nil" THEN np
       ELSE CASE np.op = "OOR" -> IF isonel \/ iszeror THEN np.l ELSE IF iszerol THEN np.r
                                  ELSE IF isoner THEN to_comma ELSE np
              [] np.op = "OAND" -> IF iszerol \/ isoner THEN np.l ELSE IF isonel THEN np.r
                                   ELSE IF iszeror THEN to_comma ELSE np
              [] np.op \in {"OSHL", "OSHR"} -> IF iszeror \/ iszerol THEN np.l ELSE np
              [] np.op \in {"OBXOR", "OADD", "OBOR", "OSUB"} -> IF iszeror THEN np.l ELSE np
              [] np.op = "OMUL" -> IF iszeror THEN to_comma ELSE IF isoner THEN np.l ELSE np
              [] np.op = "ODIV" -> IF isoner THEN np.l ELSE np
              [] np.op = "OBAND" -> IF cmpnode(np.r, AllOnes) THEN np.l ELSE np
              [] np.op = "OMOD" -> IF isoner THEN to_comma ELSE np
              [] OTHER -> np))))

foldternary(np) ==
    IF ~np.l.k THEN np ELSE IF cmpnode(np.l, 0) THEN np.r.r ELSE np.r.l

\* i % 2^n => i & (2^n - 1); the symbol of the constant itself changes, and
\* with it an enumerator that is the constant
Reduces(np) == np.op = "OMOD" /\ power2node(np.r)
reduce(np) == IF Reduces(np) THEN [np EXCEPT !.op = "OBAND", !.r.v = @ - 1] ELSE np

NotFolded == {"OCALL", "OPAR", "OSYM", "OASSIGN"} \cup OA_ops
Unary == {"OSNEG", "OCPL", "OADDR", "OPTR", "OCAST", "ONEG"}

\* One pass over the top of a tree.  A result is the tree and by how much
\* the value of the enumerator was lowered.
pass(np) ==
    CASE np.op = "OASK" -> <<foldternary(np), 0>>
      [] np.op \in NotFolded -> <<np, 0>>
      [] np.op \in Unary -> <<fold(foldunary(np)), 0>>
      [] OTHER ->
            With(associative(commutative(np)), LAMBDA a :
            IF a.op = "bad" THEN <<Bad, 0>>
            ELSE With(identity(fold(a)), LAMBDA i :
                 <<reduce(i), IF Reduces(i) THEN IF i.r.s # "" THEN 1 ELSE 0 ELSE 0>>))

RECURSIVE repeat(_)
repeat(np) ==
    With(pass(np), LAMBDA p :
    IF p[1].op = "bad" \/ p[1].op = np.op THEN p
    ELSE LET q == repeat(p[1]) IN <<q[1], p[2] + q[2]>>)

RECURSIVE xsimplify(_)
xsimplify(np) ==
    IF np.op = "nil" THEN <<Nil, 0>>
    ELSE LET l == xsimplify(np.l)  r == xsimplify(np.r)
         IN IF l[1].op = "bad" \/ r[1].op = "bad" THEN <<Bad, 0>>
            ELSE With(repeat([np EXCEPT !.l = l[1], !.r = r[1]]), LAMBDA p :
                 <<p[1], l[2] + r[2] + p[2]>>)
simplify(np) == xsimplify(np)

=============================================================================
