------------------------------ MODULE Cc1Decl ------------------------------
(***************************************************************************)
(* cc1's symbol table (symbol.c), types (types.c) and declarations         *)
(* (decl.c, init.c) as operators on a record S:                            *)
(*   syms, types   every symbol and type ever allocated, by address        *)
(*   head, chain   symbols by age, and the one hash chain, newest first    *)
(*   ctx, curfun   curctx, and the function whose body is being read       *)
(*   local         types made in the body of a function                    *)
(*   out           what emitdcl() printed                                  *)
(*   ahead         the symbol of the token that was read ahead, or 0       *)
(*   st            "ok", "error" after a diagnostic, "assert"              *)
(* All names share one hash bucket.  A freed symbol or type keeps its      *)
(* place and loses its "live".                                             *)
(***************************************************************************)
EXTENDS Naturals, Sequences, FiniteSets, Once

CONSTANTS
    NR_BLOCK,        \* nested blocks that cc1 accepts
    NR_DECLARATORS   \* declarators in one declaration

GLOBALCTX == 0
PARAMCTX == 1
NS_IDEN == <<"iden", 0>>
NS_TAG == <<"tag", 0>>
NS_STRUCT(t) == <<"field", t>>    \* every struct has a name space of its own

Basic(op) == [op |-> op, of |-> 0, n |-> 0, def |-> TRUE, kr |-> FALSE, pars |-> <<>>, fields |-> <<>>, tag |-> 0, live |-> TRUE]
inttype == 1
chartype == 2
voidtype == 3
isyms == [syms |-> <<>>, types |-> <<Basic("int"), Basic("char"), Basic("void")>>, head |-> <<>>, chain |-> <<>>,
          ctx |-> GLOBALCTX, curfun |-> 0, curpars |-> <<>>, local |-> {}, out |-> <<>>, ahead |-> 0, st |-> "ok"]

errorp(S) == [S EXCEPT !.st = IF @ = "ok" THEN "error" ELSE @]
set(S, i, F) == [S EXCEPT !.syms[i].fl = @ \cup F]
clear(S, i, F) == [S EXCEPT !.syms[i].fl = @ \ F]
has(S, i, f) == f \in S.syms[i].fl

-----------------------------------------------------------------------------
(* symbol.c                                                                *)
newsym(S, ns, name) ==
    [S EXCEPT !.syms = Append(@, [name |-> name, ns |-> ns, ctx |-> S.ctx, tok |-> "IDEN", fl |-> {}, tp |-> 0,
                                  ent |-> {}, live |-> TRUE]),
              !.head = <<Len(S.syms) + 1>> \o @]
\* a plausible error: the symbol goes to the end of the chain
linkhashEnd(S, i) == set([S EXCEPT !.chain = Append(@, i)], i, {"SDECLARED"})
linkhash(S, i) == set([S EXCEPT !.chain = <<i>> \o @], i, {"SDECLARED"})

\* the first symbol of the chain with this name; 0 when there is none
lookup(S, ns, name) ==
    With({k \in DOMAIN S.chain :
             /\ S.syms[S.chain[k]].name = name
             /\ \/ S.syms[S.chain[k]].ns = ns
                \/ has(S, S.chain[k], "STYPEDEF") /\ ns[1] = "field"}, LAMBDA hits :
    IF hits = {} THEN 0 ELSE S.chain[CHOOSE k \in hits : \A m \in hits : k <= m])
\* what the lexer does with a name: <<S, symbol>>
iden(S, ns, name) ==
    IF lookup(S, ns, name) # 0 THEN <<S, lookup(S, ns, name)>>
    ELSE <<newsym(S, ns, name), Len(S.syms) + 1>>
\* <<S, symbol>>, where 0 stands for the null pointer
install(S, ns, i) ==
    IF has(S, i, "SDECLARED") \/ S.syms[i].ctx # S.ctx
    THEN IF S.syms[i].ctx = S.ctx /\ ns = S.syms[i].ns THEN <<S, 0>>
         ELSE <<linkhash(newsym(S, ns, S.syms[i].name), Len(S.syms) + 1), Len(S.syms) + 1>>
    ELSE <<linkhash(S, i), i>>

unlinkhash(S, i) ==
    IF ~has(S, i, "SDECLARED") THEN S
    ELSE [S EXCEPT !.st = IF S.chain[1] = i THEN @ ELSE "assert",
                   !.chain = SelectSeq(@, LAMBDA j : j # i)]
killsym(S, i) ==
    LET T == IF S.syms[i].ns = NS_TAG THEN [S EXCEPT !.types[S.syms[i].tp].def = FALSE] ELSE S
    IN [unlinkhash(T, i) EXCEPT !.syms[i].live = FALSE]
pushctx(S) == LET T == [S EXCEPT !.ctx = @ + 1] IN IF T.ctx = NR_BLOCK + 1 THEN errorp(T) ELSE T
RECURSIVE killctx(_)
killctx(S) ==
    IF S.head = <<>> THEN S
    ELSE IF S.syms[Head(S.head)].ctx # S.ctx THEN S
    ELSE killctx([killsym(S, Head(S.head)) EXCEPT !.head = Tail(@)])
\* a plausible error: the token that was read ahead is forgotten
popctxAhead(S) == [killctx(S) EXCEPT !.ctx = @ - 1]
popctx(S) ==
    With([killctx(S) EXCEPT !.ctx = @ - 1], LAMBDA T :
    IF S.ahead = 0 THEN T
    ELSE IF S.syms[S.ahead].ctx # S.ctx THEN T
    ELSE With(iden(T, NS_IDEN, S.syms[S.ahead].name), LAMBDA p :
         [p[1] EXCEPT !.ahead = p[2]]))

-----------------------------------------------------------------------------
(* types.c                                                                 *)
RECURSIVE eqrec(_, _, _, _)
eqtype(S, a, b, equiv) == a = b \/ eqrec(S, S.types[a], S.types[b], equiv)
eqfuns(S, A, B, equiv) ==
    /\ IF ~A.kr /\ ~B.kr
       THEN /\ Len(A.pars) = Len(B.pars)
            /\ \A k \in DOMAIN A.pars : A.pars[k] = B.pars[k] \/ eqrec(S, S.types[A.pars[k]], S.types[B.pars[k]], equiv)
       ELSE (A.kr /\ B.kr) \/ (equiv /\ \A k \in DOMAIN (A.pars \o B.pars) : (A.pars \o B.pars)[k] # chartype)
    /\ A.of = B.of \/ eqrec(S, S.types[A.of], S.types[B.of], equiv)
eqrec(S, A, B, equiv) ==
    /\ A.op = B.op
    /\ CASE A.op \in {"struct", "union"} -> A.tag = B.tag
         [] A.op = "fun" -> eqfuns(S, A, B, equiv)
         [] A.op = "ary" -> /\ A.n = B.n \/ (equiv /\ (A.n = 0 \/ B.n = 0))
                            /\ A.of = B.of \/ eqrec(S, S.types[A.of], S.types[B.of], equiv)
         [] A.op = "ptr" -> A.of = B.of \/ eqrec(S, S.types[A.of], S.types[B.of], equiv)
         [] OTHER -> A.op \in {"int", "char"}

newtype(S, T) ==
    [S EXCEPT !.types = Append(@, T), !.local = IF S.curfun # 0 THEN @ \cup {Len(S.types) + 1} ELSE @]
\* <<S, type>>: an equal type that is in the table, or a new one
mktype(S, T) ==
    With({k \in DOMAIN S.types : S.types[k].live /\ eqrec(S, S.types[k], T, FALSE)}, LAMBDA same :
    IF T.op \notin {"struct", "union"} /\ same # {} THEN <<S, CHOOSE k \in same : TRUE>>
    ELSE <<newtype(S, T), Len(S.types) + 1>>)
flushtypes(S) ==
    [S EXCEPT !.types = [k \in DOMAIN @ |-> [@[k] EXCEPT !.live = @ /\ k \notin S.local]], !.local = {}]

Derived(op, of, n) == [Basic(op) EXCEPT !.of = of, !.n = n, !.def = op # "ary" \/ n > 0]

-----------------------------------------------------------------------------
(* Tags: newtag(), structdcl() with one member, and enumdcl() of one       *)
(* constant without a tag.                                                 *)
newtag(S, op, name) ==
    With(iden(S, NS_TAG, name), LAMBDA p :
    With(IF has(p[1], p[2], "SDECLARED") THEN p[1] ELSE install(p[1], NS_TAG, p[2])[1], LAMBDA T :
    With(lookup(T, NS_TAG, name), LAMBDA i :
    With(mktype(T, [Basic(op) EXCEPT !.def = FALSE, !.tag = i]), LAMBDA m :
    With(IF T.syms[i].tp # 0 THEN T ELSE [m[1] EXCEPT !.syms[i].tp = m[2]], LAMBDA U :
    <<IF U.types[U.syms[i].tp].op = op THEN U ELSE errorp(U), U.syms[i].tp>>)))))
\* field(): the one member of a definition
field(S, t) ==
    With(iden(S, NS_STRUCT(t), "m"), LAMBDA p :
    With(install(p[1], NS_STRUCT(t), p[2]), LAMBDA q :
    With(q[2], LAMBDA i :
    IF i = 0 THEN errorp(q[1])
    ELSE [set(q[1], i, {"SFIELD", "SDECLARED"}) EXCEPT !.syms[i].tp = inttype, !.types[t].fields = Append(@, i)])))
structdcl(S, op, name) ==
    With(newtag(S, op, name), LAMBDA p :
    With(p[2], LAMBDA t :
    With([field(p[1], t) EXCEPT !.types[t].def = TRUE], LAMBDA T :
    IF p[1].types[t].def /\ p[1].syms[p[1].types[t].tag].ctx = p[1].ctx THEN <<errorp(T), t>> ELSE <<T, t>>)))
enumdcl(S, name) ==
    With(iden(S, NS_IDEN, name), LAMBDA p :
    With(install(p[1], NS_IDEN, p[2]), LAMBDA q :
    IF p[1].syms[p[2]].tok # "IDEN" \/ q[2] = 0 THEN <<errorp(q[1]), 0>>
    ELSE <<[set(q[1], q[2], {"SCONSTANT"}) EXCEPT !.syms[q[2]].tok = "CONSTANT", !.syms[q[2]].tp = inttype], q[2]>>))

\* specifier(): <<S, type>>, type 0 after an error
specifier(S, base) ==
    CASE base.k = "int" -> <<S, inttype>>
      [] base.k = "char" -> <<S, chartype>>
      [] base.k = "void" -> <<S, voidtype>>
      [] base.k \in {"struct", "union"} -> newtag(S, base.k, base.n)
      [] base.k = "structdef" -> structdcl(S, "struct", base.n)
      [] OTHER -> With(iden(S, NS_IDEN, base.n), LAMBDA p :
                  IF p[1].syms[p[2]].tok = "TYPEIDEN" THEN <<p[1], p[1].syms[p[2]].tp>>
                  ELSE <<errorp(p[1]), inttype>>)

-----------------------------------------------------------------------------
(* Declarators.  d is the list of what the name is, from the name on:      *)
(* "a function, that returns a pointer, to an array".                      *)
\* directdcl() for the name: a symbol that is not SDECLARED if it is new
directdcl(S, ns, name) ==
    With(iden(S, ns, name), LAMBDA p :
    With(install(p[1], ns, p[2]), LAMBDA q :
    IF name = "" THEN <<newsym(S, ns, name), Len(S.syms) + 1>>
    ELSE IF p[1].syms[p[2]].tok = "CONSTANT" THEN <<errorp(newsym(p[1], ns, "")), Len(p[1].syms) + 1>>
    ELSE IF q[2] = 0 THEN p ELSE <<clear(q[1], q[2], {"SDECLARED"}), q[2]>>))

\* parameter(): <<S, symbol, type>>, symbol 0 for void and after an error
parameter(S, i, t, kr) ==
    LET named == S.syms[i].name # ""
        isdcl == has(S, i, "SDECLARED")
        q == mktype(S, Derived("ptr", S.types[t].of, 0))
    IN With(IF S.types[t].op = "ary" THEN q ELSE <<S, t>>, LAMBDA R :
    IF t = voidtype THEN <<S, 0, 0>>
    ELSE IF S.types[t].op = "fun" THEN <<errorp(S), 0, 0>>
    ELSE IF named /\ isdcl # kr THEN <<errorp(S), 0, 0>>
    ELSE <<[set(R[1], i, IF named THEN {"SDECLARED", "SAUTO"} ELSE {"SAUTO"}) EXCEPT !.syms[i].tp = R[2]], i, R[2]>>)

\* a parameter is [base, ptr, name]
onepar(S, par) ==
    With(specifier(S, par.base), LAMBDA s :
    With(directdcl(s[1], NS_IDEN, par.name), LAMBDA p :
    With(CASE par.ptr = "" -> <<p[1], s[2]>>
           [] par.ptr = "fun" -> mktype(p[1], Derived("fun", s[2], 0))
           [] OTHER -> mktype(p[1], Derived(par.ptr, s[2], 2)), LAMBDA m :
    parameter(m[1], p[2], m[2], FALSE))))
\* ansifun(): <<S, symbols, types>>
RECURSIVE ansifun(_, _)
ansifun(S, pars) ==
    IF pars = <<>> THEN <<S, <<>>, <<>>>>
    ELSE LET q == ansifun(S, SubSeq(pars, 1, Len(pars) - 1))
         IN With(onepar(q[1], pars[Len(pars)]), LAMBDA p :
         IF p[2] = 0
         THEN <<IF q[3] = <<>> THEN p[1] ELSE errorp(p[1]), q[2], q[3]>>
         ELSE <<p[1], Append(q[2], p[2]), Append(q[3], p[3])>>)
\* krfun(): names without types
RECURSIVE krfun(_, _)
krfun(S, pars) ==
    IF pars = <<>> THEN <<S, <<>>, <<>>>>
    ELSE LET q == krfun(S, SubSeq(pars, 1, Len(pars) - 1))
         IN With(iden(q[1], NS_IDEN, pars[Len(pars)].name), LAMBDA p :
         With(install(set(p[1], p[2], {"SAUTO"}), NS_IDEN, p[2]), LAMBDA r :
         IF r[2] = 0 \/ p[1].syms[p[2]].tok # "IDEN" THEN <<errorp(r[1]), q[2], <<>>>>
         ELSE <<r[1], Append(q[2], r[2]), <<>>>>))
\* a name that is a type is the type of a parameter without a name
AsTypes(pars) == [k \in DOMAIN pars |-> [base |-> [k |-> "type", n |-> pars[k].name], ptr |-> "", name |-> ""]]
\* fundcl(): whether there is a list of names, then its result
fundcl(S, c) ==
    With(pushctx(S), LAMBDA T :
    With(IF c.pars = <<>> THEN 0 ELSE lookup(T, NS_IDEN, c.pars[1].name), LAMBDA first :
    With(c.kr /\ (IF first = 0 THEN TRUE ELSE T.syms[first].tok = "IDEN"), LAMBDA kr :
    <<kr>> \o IF kr THEN krfun(T, c.pars) ELSE ansifun(T, IF c.kr THEN AsTypes(c.pars) ELSE c.pars))))

\* the constructors of a declarator in the order they are read: each one
\* with the symbols and types of its parameters
RECURSIVE declarator(_, _)
declarator(S, d) ==
    IF d = <<>> THEN <<S, <<>>>>
    ELSE With(fundcl(S, Head(d)), LAMBDA p :
         LET isfun == Head(d).c = "fun"
         IN With(IF isfun THEN declarator(p[2], Tail(d)) ELSE declarator(S, Tail(d)), LAMBDA rest :
         <<rest[1], <<[c |-> Head(d), kr |-> isfun /\ p[1], pars |-> IF isfun THEN p[4] ELSE <<>>,
                       syms |-> IF isfun THEN p[3] ELSE <<>>]>> \o rest[2]>>))

endfundcl(S, pars) == popctx(S)
\* pop() until the name: the type from the base on.  The context of the
\* parameters of an inner function is closed; <<S, type, parameters>>
RECURSIVE poptypes(_, _, _, _, _)
poptypes(S, stack, t, pars, own) ==
    IF stack = <<>> THEN <<S, t, pars, own>>
    ELSE LET e == stack[Len(stack)]
             T == IF S.types[t].op = "fun" /\ own THEN endfundcl(S, pars) ELSE S
         IN With(mktype(T, IF e.c.c # "fun" THEN Derived(e.c.c, t, e.c.n)
                        ELSE [Derived("fun", t, Len(e.pars)) EXCEPT !.kr = e.kr, !.pars = e.pars]), LAMBDA m :
         poptypes(m[1], SubSeq(stack, 1, Len(stack) - 1), m[2], e.syms, e.c.c = "fun"))

-----------------------------------------------------------------------------
(* Identifiers.  A declaration dc is [sc, base, name, d, init].            *)
emitvar(S, i) ==
    CASE has(S, i, "SLOCAL") -> "T"
      [] ~has(S, i, "SLOCAL") /\ has(S, i, "SPRIVATE") -> "Y"
      [] S.syms[i].fl \cap {"SLOCAL", "SPRIVATE"} = {} /\ has(S, i, "SGLOBAL") -> "G"
      [] S.syms[i].fl \cap {"SLOCAL", "SPRIVATE", "SGLOBAL"} = {} /\ has(S, i, "SREGISTER") -> "R"
      [] S.syms[i].fl \cap {"SLOCAL", "SPRIVATE", "SGLOBAL", "SREGISTER"} = {} /\ has(S, i, "SEXTERN") -> "X"
      [] OTHER -> "A"
emitdcl(S, i) ==
    IF has(S, i, "SEMITTED") THEN S
    ELSE set([S EXCEPT !.out = Append(@, <<emitvar(S, i), i, has(S, i, "SHASINIT")>>)], i, {"SEMITTED"})

\* redcl(): the flags of a second declaration
redclFlags(S, i, sc) ==
    CASE sc = "none" /\ ~has(S, i, "SPRIVATE") ->
            set(IF has(S, i, "SEXTERN") THEN clear(S, i, {"SEXTERN", "SEMITTED"}) ELSE S, i, {"SGLOBAL"})
      [] sc = "extern" -> S
      [] sc = "static" /\ S.syms[i].fl \cap {"SGLOBAL", "SEXTERN"} = {} -> set(S, i, {"SPRIVATE"})
      [] OTHER -> errorp(S)
\* a plausible error: what a block declares twice is not refused
redclLocal(S, i, t, sc) ==
    LET old == S.syms[i].tp
        T == IF ~S.types[old].kr /\ S.types[t].kr THEN [S EXCEPT !.syms[i].tp = t] ELSE S
    IN IF ~eqtype(S, old, t, TRUE) THEN errorp(S)
       ELSE IF (S.syms[i].tok = "TYPEIDEN") # (sc = "typedef") THEN errorp(T)
       ELSE redclFlags(T, i, sc)
redcl(S, i, t, sc) ==
    LET old == S.syms[i].tp
        T == IF ~S.types[old].kr /\ S.types[t].kr THEN [S EXCEPT !.syms[i].tp = t] ELSE S
    IN IF ~eqtype(S, old, t, TRUE) THEN errorp(S)
       ELSE IF (S.syms[i].tok = "TYPEIDEN") # (sc = "typedef") THEN errorp(T)
       ELSE IF S.ctx # GLOBALCTX /\ S.types[t].op # "fun"
       THEN IF has(S, i, "SEXTERN") /\ sc = "extern" THEN T ELSE errorp(T)
       ELSE redclFlags(T, i, sc)

\* the flags of a first declaration
Storage(S, t, sc) ==
    CASE sc \in {"register", "auto"} /\ S.ctx # GLOBALCTX /\ S.types[t].op # "fun" ->
            IF sc = "register" THEN {"SREGISTER"} ELSE {"SAUTO"}
      [] sc = "none" -> IF S.ctx = GLOBALCTX THEN {"SGLOBAL"} ELSE {"SAUTO"}
      [] sc = "extern" -> {"SEXTERN"}
      [] sc = "static" -> IF S.ctx = GLOBALCTX THEN {"SPRIVATE"} ELSE {"SLOCAL"}
      [] sc = "typedef" -> {"STYPEDEF"}
      [] OTHER -> {"bad"}

\* autoinit(): the values of a list are a static symbol without a name
autoinit(S, i) ==
    IF S.types[S.syms[i].tp].op \in {"ary", "struct"}
    THEN With([set(newsym(S, NS_IDEN, ""), Len(S.syms) + 1, {"SLOCAL", "SHASINIT"}) EXCEPT
                  !.syms[Len(S.syms) + 1].tp = S.syms[i].tp], LAMBDA T :
         emitdcl(emitdcl(T, Len(S.syms) + 1), i))
    ELSE emitdcl(S, i)
\* initializer() with initlist(): a list completes the type of an array
initializer(S, i, init) ==
    LET t == S.syms[i].tp
    IN With(IF S.types[t].op = "ary" /\ ~S.types[t].def
         THEN [S EXCEPT !.types[t].n = init.n, !.types[t].def = TRUE] ELSE S, LAMBDA T :
    IF S.types[t].op = "fun" \/ has(S, i, "SDEFINED") THEN errorp(T)
    ELSE IF S.syms[i].fl \cap {"SGLOBAL", "SLOCAL", "SPRIVATE"} # {}
    THEN IF init.k = "var" THEN errorp(T)
         ELSE set(emitdcl(clear(set(T, i, {"SHASINIT"}), i, {"SEMITTED"}), i), i, {"SDEFINED"})
    ELSE IF S.syms[i].fl \cap {"SEXTERN", "STYPEDEF"} # {} THEN errorp(T)
    ELSE autoinit(T, i))

\* identifier(), after its declarator
identifier(S, i, t, scls, init) ==
    LET sc == IF S.types[t].op = "fun" /\ scls = "none" THEN "extern" ELSE scls
        incomplete == ~S.types[t].def /\ sc \notin {"extern", "typedef"} /\ ~(S.types[t].op = "ary" /\ init.k # "no")
    IN With(IF incomplete THEN errorp(S) ELSE S, LAMBDA A :
    With(set([A EXCEPT !.syms[i].tp = t, !.syms[i].tok = IF sc = "typedef" THEN "TYPEIDEN" ELSE @],
             i, {"SDECLARED"} \cup Storage(S, t, sc)), LAMBDA new :
    With(IF has(S, i, "SDECLARED") THEN redcl(A, i, t, sc)
         ELSE IF "bad" \in Storage(S, t, sc) THEN errorp(new) ELSE new, LAMBDA B :
    With(IF init.k # "no" THEN initializer(B, i, init) ELSE B, LAMBDA C :
    With(IF C.syms[i].fl \cap {"SGLOBAL", "SEXTERN"} = {} /\ C.types[t].op # "fun"
         THEN set(C, i, {"SDEFINED"}) ELSE C, LAMBDA E :
    IF S.syms[i].name = "" THEN [S EXCEPT !.syms[i].tp = t]
    ELSE IF E.syms[i].tok = "IDEN" /\ E.types[t].op # "fun" THEN emitdcl(E, i) ELSE E)))))

\* dodcl(): <<S, symbol, type, parameters, whether they have a context>>
dodcl(S, dc) ==
    With(specifier(S, dc.base), LAMBDA s :
    With(directdcl(s[1], NS_IDEN, dc.name), LAMBDA p :
    With(declarator(p[1], dc.d), LAMBDA q :
    With(poptypes(q[1], q[2], s[2], <<>>, FALSE), LAMBDA r :
    LET T == IF Len(dc.d) >= NR_DECLARATORS THEN errorp(r[1]) ELSE r[1]
    IN <<identifier(T, p[2], r[2], dc.sc, dc.init), p[2], r[2], r[3], r[4]>>))))
\* a declaration that no body follows
declaration(S, dc) ==
    With(dodcl(S, dc), LAMBDA r :
    With(r[1], LAMBDA T :
    IF T.types[r[3]].op # "fun" THEN T
    ELSE With(emitdcl(T, r[2]), LAMBDA U :
         IF r[5] THEN endfundcl(U, r[4]) ELSE U)))
RECURSIVE krtypes(_, _)
krtypes(S, pars) ==
    IF pars = <<>> THEN S
    ELSE krtypes(IF S.syms[Head(pars)].tp = 0 THEN [S EXCEPT !.syms[Head(pars)].tp = inttype] ELSE S, Tail(pars))
\* funbody() up to the statements of its compound()
funbody(S, dc) ==
    With(dodcl(S, dc), LAMBDA r :
    With([krtypes(r[1], r[4]) EXCEPT !.curfun = r[2], !.curpars = r[4]], LAMBDA T :
    With(r[2], LAMBDA f :
    With(IF T.ctx # PARAMCTX \/ T.syms[f].fl \cap {"STYPEDEF", "SDEFINED"} # {} THEN errorp(T) ELSE T, LAMBDA B :
    LET C == IF has(B, f, "SEXTERN") THEN set(clear(B, f, {"SEXTERN"}), f, {"SGLOBAL"}) ELSE B
    IN pushctx(emitdcl(clear(set(C, f, {"SDEFINED"}), f, {"SEMITTED"}), f))))))
\* the end of the body: compound() closes its context, reads a token ahead,
\* and funbody() closes the context of the parameters
endbody(S, next) ==
    With(popctx(S), LAMBDA A :
    With(iden(A, NS_IDEN, next), LAMBDA p :
    LET B == IF next = "" THEN A ELSE [p[1] EXCEPT !.ahead = p[2]]
    IN With([flushtypes(popctx(B)) EXCEPT !.curfun = 0], LAMBDA C :
    LET f == S.curfun
    IN With(C.syms[f].tp, LAMBDA t :
    With(mktype(C, Derived("fun", C.types[t].of, 0)), LAMBDA m :
    IF C.types[t].kr /\ S.curpars = <<>> THEN [m[1] EXCEPT !.syms[f].tp = m[2]] ELSE C)))))
=============================================================================
