------------------------------- MODULE CcDecl -------------------------------
(***************************************************************************)
(* cc1 reads a file of declarations: each action is one declaration, the   *)
(* beginning or the end of a function, or a brace in a function.  S is cc1 *)
(* (Cc1Decl), G is what C says of the same text.  Nothing is read after an *)
(* error.                                                                  *)
(***************************************************************************)
EXTENDS Cc1Decl

CONSTANTS Names, Tags

-----------------------------------------------------------------------------
(* What C says of declarations: scopes, linkage, compatible and composite  *)
(* types (C99 6.2.1, 6.2.2, 6.2.7, 6.7).  G is a record:                   *)
(*   sc     the scopes, the file's first: names and tags to numbers        *)
(*   ents   the things that names stand for                                *)
(*   tags   structs and unions                                             *)
(*   bad    a constraint is violated; ub: the text has no defined meaning  *)
(*   ex     the rules met where cc1 is known to differ from C              *)

NoScope == [ids |-> [n \in Names |-> 0], tg |-> [n \in Tags |-> 0]]
CInit == [sc |-> <<NoScope>>, ents |-> <<>>, tags |-> <<>>, bad |-> FALSE, ub |-> FALSE, ex |-> {}]

Bad(G, b) == IF b THEN [G EXCEPT !.bad = TRUE] ELSE G
Rule(G, r, b) == IF b THEN [G EXCEPT !.ex = @ \cup {r}] ELSE G
Depth(G) == Len(G.sc)
AtFile(G) == Depth(G) = 1

\* the innermost scope up to k that declares the name, as an entity or tag
Visible(G, name) ==
    LET at == {k \in DOMAIN G.sc : G.sc[k].ids[name] # 0}
    IN IF at = {} THEN 0 ELSE G.sc[CHOOSE k \in at : \A m \in at : m <= k].ids[name]
VisibleTag(G, name) ==
    LET at == {k \in DOMAIN G.sc : G.sc[k].tg[name] # 0}
    IN IF at = {} THEN 0 ELSE G.sc[CHOOSE k \in at : \A m \in at : m <= k].tg[name]

-----------------------------------------------------------------------------
(* Types: <<"int">>, <<"ptr", t>>, <<"ary", t, n>>, <<"struct", tag>>,     *)
(* <<"fun", t, prototype, parameters>>.                                    *)
RECURSIVE compatible(_, _)
compatible(a, b) ==
    \/ a = b
    \/ /\ a[1] = b[1]
       /\ CASE a[1] = "ary" -> (a[3] = b[3] \/ a[3] = 0 \/ b[3] = 0) /\ compatible(a[2], b[2])
            [] a[1] = "ptr" -> compatible(a[2], b[2])
            [] a[1] = "fun" ->
                 /\ compatible(a[2], b[2])
                 /\ IF a[3] /\ b[3]
                    THEN Len(a[4]) = Len(b[4]) /\ \A k \in DOMAIN a[4] : compatible(a[4][k], b[4][k])
                    ELSE \A k \in DOMAIN (a[4] \o b[4]) : (a[4] \o b[4])[k] # <<"char">>
            [] OTHER -> FALSE
\* 6.7.5.3: a prototype against an old-style definition of n names, that are ints
Agrees(proto, n) == Len(proto[4]) = n /\ \A k \in DOMAIN proto[4] : proto[4][k] = <<"int">>
composite(a, b) ==
    CASE a[1] = "ary" -> IF a[3] = 0 THEN b ELSE a
      [] a[1] = "fun" -> IF a[3] THEN a ELSE b
      [] OTHER -> a
complete(G, t) ==
    CASE t[1] = "ary" -> t[3] > 0
      [] t[1] \in {"struct", "union"} -> G.tags[t[2]].def
      [] OTHER -> t[1] # "void"

NewTag(G, op, name, def) ==
    [G EXCEPT !.tags = Append(@, [op |-> op, def |-> def]), !.sc[Depth(G)].tg[name] = Len(G.tags) + 1]
\* a specifier; alone: nothing follows it
CSpec(G, base, alone) ==
    LET own == G.sc[Depth(G)].tg[base.n]
    IN With(VisibleTag(G, base.n), LAMBDA seen :
    With(Rule(G, "InnerTag", own = 0 /\ seen # 0 /\ (alone \/ base.k = "structdef")), LAMBDA H :
    LET op == IF base.k = "structdef" THEN "struct" ELSE base.k
    IN CASE base.k \in {"int", "char", "void"} -> <<G, <<base.k>>>>
         [] base.k = "structdef" ->
              IF own = 0 THEN <<NewTag(H, op, base.n, TRUE), <<op, Len(G.tags) + 1>>>>
              ELSE <<Bad([H EXCEPT !.tags[own].def = TRUE], G.tags[own].def \/ G.tags[own].op # op), <<op, own>>>>
         [] base.k \in {"struct", "union"} ->
              IF own = 0 /\ (alone \/ seen = 0) THEN <<NewTag(H, op, base.n, FALSE), <<op, Len(G.tags) + 1>>>>
              ELSE <<Bad(H, G.tags[seen].op # op), <<G.tags[seen].op, seen>>>>
         [] OTHER -> With(Visible(G, base.n), LAMBDA e :
                     IF e = 0 THEN <<Bad(G, TRUE), <<"int">>>>
                     ELSE <<Bad(G, G.ents[e].kind # "type"), G.ents[e].ct>>)))

\* old: the names of its old-style definition, or -1
Entity(name, kind, lk, dur, ct) ==
    [name |-> name, kind |-> kind, lk |-> lk, dur |-> dur, ct |-> ct, def |-> FALSE, old |-> 0 - 1]
Bind(G, name, ent) ==
    [G EXCEPT !.ents = Append(@, ent), !.sc[Depth(G)].ids[name] = Len(G.ents) + 1]

HideConstant(G, name) ==
    LET v == Visible(G, name)
    IN Rule(G, "ConstantHidden", IF v = 0 THEN FALSE ELSE G.ents[v].kind = "const" /\ G.sc[Depth(G)].ids[name] = 0)

\* one parameter: the type is adjusted
CPar(G, par, only) ==
    With(CSpec(G, par.base, FALSE), LAMBDA p :
    With(CASE par.ptr \in {"ptr", "ary"} -> <<"ptr", p[2]>>
           [] par.ptr = "fun" -> <<"ptr", <<"fun", p[2], TRUE, <<>>>>>>
           [] OTHER -> p[2], LAMBDA t :
    With(Rule(Rule(Bad(p[1], t[1] = "void" /\ (par.name # "" \/ ~only)), "VoidNamed", t[1] = "void" /\ par.name # ""),
              "FunctionParameter", par.ptr = "fun"), LAMBDA H :
    LET twice == par.name # "" /\ H.sc[Depth(H)].ids[par.name] # 0
    IN IF t[1] = "void" THEN <<H, <<>>>>
       ELSE IF par.name = "" THEN <<H, <<t>>>>
       ELSE <<Bind(HideConstant(Bad(H, twice), par.name), par.name, Entity(par.name, "obj", "none", "par", t)), <<t>>>>)))
RECURSIVE CPars(_, _)
CPars(G, pars) ==
    IF pars = <<>> THEN <<G, <<>>>>
    ELSE LET q == CPars(G, SubSeq(pars, 1, Len(pars) - 1))
         IN With(CPar(q[1], pars[Len(pars)], Len(pars) = 1), LAMBDA p :
         <<p[1], q[2] \o p[2]>>)
\* the scope of a function declarator's parameters, and the function's type;
\* names without types are ints
CFun(G, c, t) ==
    LET P == [G EXCEPT !.sc = Append(@, NoScope)]
    IN With(IF c.pars = <<>> THEN 0 ELSE IF c.pars[1].name = "" THEN 0 ELSE Visible(G, c.pars[1].name), LAMBDA first :
    With(c.kr /\ (IF first = 0 THEN TRUE ELSE G.ents[first].kind # "type"), LAMBDA kr :
    With([k \in DOMAIN c.pars |->
            IF kr THEN [c.pars[k] EXCEPT !.base.k = "int"]
            ELSE IF c.kr THEN [base |-> [k |-> "type", n |-> c.pars[k].name], ptr |-> "", name |-> ""] ELSE c.pars[k]], LAMBDA typed :
    With(CPars(P, typed), LAMBDA q :
    LET constant == c.kr /\ (IF first = 0 THEN FALSE ELSE G.ents[first].kind = "const")
        nameless == \E k \in DOMAIN typed : typed[k].name = "" /\ typed[k].base.k # "void"
        declares == \E n \in Tags : q[1].sc[Depth(q[1])].tg[n] # 0
    IN <<Rule(Rule(q[1], "PrototypeTag", declares), "ConstantHidden", constant),
         <<"fun", t, ~kr, IF kr THEN <<>> ELSE q[2]>>, nameless>>))))
Close(G) == [G EXCEPT !.sc = SubSeq(@, 1, Depth(G) - 1)]
RECURSIVE CType(_, _, _)
\* the type of a declarator; the scope of the outermost function stays open
CType(G, d, t) ==
    IF d = <<>> THEN <<G, t, FALSE>>
    ELSE LET q == CType(G, Tail(d), t)
         IN With(IF Len(d) > 1 /\ d[2].c = "fun" THEN Close(q[1]) ELSE q[1], LAMBDA H :
         LET inner == q[2]
         IN CASE Head(d).c = "ptr" -> <<H, <<"ptr", inner>>, FALSE>>
              [] Head(d).c = "ary" -> <<Rule(Bad(H, inner[1] = "fun" \/ ~complete(H, inner)), "FunctionInside", inner[1] = "fun"),
                                       <<"ary", inner, Head(d).n>>, FALSE>>
              [] OTHER -> CFun(Rule(Bad(H, inner[1] \in {"fun", "ary"}), "FunctionInside", inner[1] \in {"fun", "ary"}),
                               Head(d), inner))

-----------------------------------------------------------------------------
(* A declaration [sc, base, name, d, init]; body: a function body follows. *)
\* 6.2.2: what the storage class and the earlier declarations say
Linkage(G, dc, isfun) ==
    LET e == Visible(G, dc.name)
    IN With(IF e = 0 THEN "none" ELSE G.ents[e].lk, LAMBDA prior :
    CASE dc.sc = "static" -> IF AtFile(G) THEN "internal" ELSE "none"
      [] dc.sc = "extern" \/ (isfun /\ dc.sc = "none") -> IF prior = "none" THEN "external" ELSE prior
      [] AtFile(G) /\ dc.sc = "none" -> "external"
      [] OTHER -> "none")
Kind(dc, isfun) == IF dc.sc = "typedef" THEN "type" ELSE IF isfun THEN "fun" ELSE "obj"
Duration(G, dc, lk) == IF lk # "none" \/ dc.sc = "static" THEN "static" ELSE "auto"

\* the entity that a declaration with linkage names again, or 0
Known(G, name, lk) ==
    LET same == {e \in DOMAIN G.ents : G.ents[e].name = name /\ G.ents[e].lk = lk}
    IN IF lk = "none" \/ same = {} THEN 0 ELSE CHOOSE e \in same : TRUE

\* 6.2.7: the declaration of a thing as t, with its earlier ones
Conflict(ent, dc, t, body) ==
    \/ ~compatible(ent.ct, t)
    \/ t[1] = "fun" /\ t[3] /\ ent.old >= 0 /\ ~Agrees(t, ent.old)
    \/ t[1] = "fun" /\ body /\ ~t[3] /\ ent.ct[3] /\ ~Agrees(ent.ct, Len(dc.d[1].pars))

\* the blocks cc1 counts where a declarator is read: each list of parameters
\* of the declarator is one more
Nested(G, d) == (IF AtFile(G) THEN 0 ELSE Depth(G)) + Cardinality({k \in DOMAIN d : d[k].c = "fun"})

HidesParameter(G, name) ==
    LET own == G.sc[Depth(G)].ids[name] IN own # 0 /\ (IF own = 0 THEN FALSE ELSE G.ents[own].dur = "par")
CDeclare(G, dc, body) ==
    With(CSpec(G, dc.base, dc.name = ""), LAMBDA spec :
    With(CType(spec[1], dc.d, spec[2]), LAMBDA ty :
    LET open == Len(dc.d) > 0 /\ dc.d[1].c = "fun"
    IN With(ty[2], LAMBDA t0 :
    With(IF t0[1] = "ary" /\ t0[3] = 0 /\ dc.init.k # "no" THEN [t0 EXCEPT ![3] = dc.init.n] ELSE t0, LAMBDA t :
    With(IF open THEN Close(ty[1]) ELSE ty[1], LAMBDA P :
    \* the name is declared outside
    With(t[1] = "fun", LAMBDA isfun :
    With(Linkage(P, dc, isfun), LAMBDA lk :
    With(P.sc[Depth(P)].ids[dc.name], LAMBDA own :
    With(Known(P, dc.name, lk), LAMBDA e :
    LET other == Known(P, dc.name, IF lk = "internal" THEN "external" ELSE IF lk = "external" THEN "internal" ELSE "none")
        init == dc.init.k # "no"
        static == Duration(P, dc, lk) = "static"
    IN With(P.ents[e], LAMBDA old :
    LET wrong == \/ AtFile(P) /\ dc.sc \in {"auto", "register"}
                 \/ isfun /\ dc.sc \in {"auto", "register"}
                 \/ isfun /\ ~AtFile(P) /\ dc.sc = "static"
                 \/ init /\ (isfun \/ dc.sc = "typedef" \/ (~AtFile(P) /\ dc.sc = "extern") \/ (static /\ dc.init.k = "var"))
                 \/ init /\ t0[1] = "ary" /\ t0[3] > 0 /\ dc.init.n > t0[3]
                 \/ own # 0 /\ (lk = "none" \/ P.ents[own].lk = "none" \/ P.ents[own].kind # Kind(dc, isfun))
                 \/ dc.sc # "typedef" /\ ~isfun /\ ~complete(P, t) /\ lk # "external" /\ dc.sc # "extern"
                 \/ t[1] = "void" /\ dc.sc # "typedef"
                 \/ e # 0 /\ own # 0 /\ Conflict(P.ents[e], dc, t, body)
                 \/ e # 0 /\ P.ents[e].def /\ (init \/ body)
                 \/ body /\ (~AtFile(P) \/ ~open \/ dc.sc = "typedef" \/ ty[3])
        old_style == body /\ isfun /\ ~t[3]
        HL == Rule(P, "BlockLimit", Nested(G, dc.d) > NR_BLOCK)
        H0 == Rule(HL, "NamelessParameter", body /\ ty[3])
        H1 == Rule(H0, "TentativeIncomplete", AtFile(P) /\ lk = "external" /\ dc.sc = "none" /\ ~isfun /\ ~complete(P, t))
        H2 == Rule(H1, "StaticTentative", AtFile(P) /\ lk = "internal" /\ e # 0 /\ init)
        H3 == Rule(H2, "ExternInitialized", AtFile(P) /\ dc.sc = "extern" /\ init)
        H4 == Rule(H3, "LocalStaticFunction", isfun /\ dc.sc = "static" /\ ~AtFile(P))
        H5 == Rule(H4, "BlockExternOfStatic", ~AtFile(P) /\ lk = "internal")
        H6 == Rule(H5, "InitializedAgain", e # 0 /\ init)
        H7 == Rule(H6, "MixedFunctions", e # 0 /\ isfun /\ (IF e = 0 THEN FALSE ELSE compatible(old.ct, t) /\ old.ct[3] # t[3]))
        H8 == HideConstant(H7, dc.name)
        H10 == Rule(H8, "SizeGivenLater", e # 0 /\ ~init /\ t[1] = "ary" /\ (IF e = 0 THEN FALSE ELSE ~complete(P, old.ct) /\ complete(P, t)))
        H11 == Rule(H10, "RedeclaredInBlock", e # 0 /\ own = 0 /\ (IF e = 0 THEN FALSE ELSE old.ct # t))
    IN With(Rule(H11, "ParameterHidden", own # 0 /\ HidesParameter(P, dc.name)), LAMBDA H9 :
    With(Bad([H9 EXCEPT !.ub = @ \/ other # 0 \/ (e # 0 /\ own = 0 /\ Conflict(P.ents[e], dc, t, body))], wrong), LAMBDA B :
    With(IF B.bad \/ B.ub THEN B
         ELSE IF e # 0 THEN [B EXCEPT !.ents[e].ct = composite(@, t), !.ents[e].def = @ \/ init \/ body,
                                      !.ents[e].old = IF old_style THEN Len(dc.d[1].pars) ELSE @,
                                      !.sc[Depth(P)].ids[dc.name] = e]
         ELSE Bind(B, dc.name, [Entity(dc.name, Kind(dc, isfun), lk, Duration(P, dc, lk), t) EXCEPT
                               !.def = init \/ body, !.old = IF old_style THEN Len(dc.d[1].pars) ELSE @]), LAMBDA C :
    IF dc.name = "" THEN P
    ELSE IF body THEN [C EXCEPT !.sc = Append(@, ty[1].sc[Depth(ty[1])])]    \* the parameters are the body's scope
    ELSE C)))))))))))))
HideType(G, name) ==
    LET v == Visible(G, name)
    IN Rule(G, "TypeHidden", IF v = 0 THEN FALSE ELSE G.ents[v].kind = "type" /\ G.sc[Depth(G)].ids[name] = 0)
CEnum(G, name) ==
    IF G.sc[Depth(G)].ids[name] # 0 THEN Bad(Rule(G, "ParameterHidden", HidesParameter(G, name)), TRUE)
    ELSE Bind(HideType(HideConstant(G, name), name), name, Entity(name, "const", "none", "auto", <<"int">>))
COpen(G) == Rule([G EXCEPT !.sc = Append(@, NoScope)], "BlockLimit", Depth(G) + 1 > NR_BLOCK)

-----------------------------------------------------------------------------

CONSTANTS
    Menu,          \* the declarations [sc, base, name, d, init]
    Enumerators,   \* names that enum { name } may declare
    Functions,     \* the declarations that a body may follow
    MaxLen,        \* bound: declarations and braces in a file
    Allowed(_, _)  \* bound: which of them, after how many

VARIABLES S, G, len
vars == <<S, G, len>>

\* the symbols of cc1 remember the entity that C sees in their declaration
Note(s, g, name) ==
    With(lookup(s, NS_IDEN, name), LAMBDA i :
    LET e == Visible(g, name)
    IN IF name = "" THEN s ELSE IF i = 0 \/ e = 0 THEN s ELSE [s EXCEPT !.syms[i].ent = @ \cup {e}])
RECURSIVE NotePars(_, _, _)
NotePars(s, g, pars) == IF pars = <<>> THEN s ELSE NotePars(Note(s, g, Head(pars).name), g, Tail(pars))

\* freed memory that cc1 can still reach: a symbol in the chain, the tag or
\* a member of a type that a symbol has
RECURSIVE Stale(_, _)
Stale(s, t) ==
    LET T == s.types[t]
    IN \/ ~T.live
       \/ T.tag # 0 /\ ~s.syms[T.tag].live
       \/ \E k \in DOMAIN T.fields : ~s.syms[T.fields[k]].live
       \/ T.op \in {"ptr", "ary", "fun"} /\ Stale(s, T.of)
       \/ \E k \in DOMAIN T.pars : Stale(s, T.pars[k])
Dangling(s) ==
    \/ \E k \in DOMAIN s.chain : ~s.syms[s.chain[k]].live
    \/ \E k \in DOMAIN s.head : s.syms[s.head[k]].tp # 0 /\ Stale(s, s.syms[s.head[k]].tp)

Reading == S.st = "ok" /\ ~G.bad /\ ~G.ub /\ ~Dangling(S) /\ len < MaxLen
Init == S = isyms /\ G = CInit /\ len = 0
Step(s, g) == S' = s /\ G' = g /\ len' = len + 1

\* an array whose size comes from its initializer, and that shares its type
Shared(s, dc) ==
    /\ dc.init.k = "list"
    /\ \E i \in DOMAIN s.syms, j \in DOMAIN s.syms :
          i # j /\ "" \notin {s.syms[i].name, s.syms[j].name} /\ s.syms[i].tp # 0 /\ s.syms[i].tp = s.syms[j].tp /\ s.types[s.syms[i].tp].op = "ary"

Declare == \E dc \in Menu :
    /\ Reading /\ Allowed(dc, len)
    /\ \E s \in {declaration([S EXCEPT !.ahead = 0], dc)} :
       \E g \in {CDeclare(G, dc, FALSE)} :
       Step(IF g.bad \/ g.ub THEN s ELSE Note(s, g, dc.name), Rule(g, "SharedArray", Shared(s, dc)))
Enum == \E name \in Enumerators :
    /\ Reading
    /\ \E p \in {enumdcl([S EXCEPT !.ahead = 0], name)} :
       \E g \in {CEnum(G, name)} :
       Step(IF g.bad THEN p[1] ELSE Note(p[1], g, name), g)
Define == \E dc \in Functions :
    /\ Reading
    /\ \E s \in {funbody([S EXCEPT !.ahead = 0], dc)} :
       \E g \in {CDeclare(G, dc, TRUE)} :
       Step(IF g.bad \/ g.ub THEN s ELSE NotePars(Note(s, g, dc.name), g, dc.d[1].pars), g)
Open == Reading /\ S.curfun # 0 /\ Step(pushctx(S), COpen(G))
CloseBlock == Reading /\ Depth(G) > 2 /\ Step(popctx(S), Close(G))
EndFunction == \E next \in Names \cup {""} :
    Reading /\ S.curfun # 0 /\ Depth(G) = 2 /\ Step(endbody(S, next), Close(G))
Next == Declare \/ Enum \/ Define \/ Open \/ CloseBlock \/ EndFunction
Spec == Init /\ [][Next]_vars

-----------------------------------------------------------------------------
Ok == S.st = "ok" /\ ~G.bad /\ ~G.ub
Met(rules) == G.ex \cap rules # {}

\* cc1 accepts what C allows and refuses the rest, but for the rules named;
\* text nested deeper than NR_BLOCK it refuses, and for its depth no other.
DeclAccepted ==
    /\ S.st = "error" => \/ G.bad \/ G.ub
                         \/ Met({"TentativeIncomplete", "StaticTentative", "ExternInitialized", "FunctionParameter",
                                 "ConstantHidden", "TypeHidden", "InnerTag", "BlockLimit"})
    /\ Met({"BlockLimit"}) => S.st # "ok"
    /\ G.bad => S.st # "ok" \/ Met({"VoidNamed", "FunctionInside", "LocalStaticFunction", "ParameterHidden", "NamelessParameter",
                                  "MixedFunctions", "InnerTag", "SharedArray"})

\* A name stands for what C's scopes say, and a symbol for one thing.
NamesAsInC ==
    Ok /\ ~Dangling(S) =>
      /\ \A name \in Names :
            With(lookup(S, NS_IDEN, name), LAMBDA i :
            With(Visible(G, name), LAMBDA e :
            /\ (i = 0) = (e = 0)
            /\ i # 0 => /\ S.syms[i].ent = {e}
                        /\ S.syms[i].tok = IF G.ents[e].kind = "type" THEN "TYPEIDEN"
                                           ELSE IF G.ents[e].kind = "const" THEN "CONSTANT" ELSE "IDEN"))

RECURSIVE Same(_, _)
Same(t, ct) ==
    LET T == S.types[t]
    IN /\ T.op = ct[1]
       /\ CASE T.op \in {"struct", "union"} -> T.def = G.tags[ct[2]].def /\ Len(T.fields) = IF T.def THEN 1 ELSE 0
            [] T.op = "ptr" -> Same(T.of, ct[2])
            [] T.op = "ary" -> T.n = ct[3] /\ Same(T.of, ct[2])
            [] T.op = "fun" -> /\ Same(T.of, ct[2])
                               /\ T.kr = ~ct[3] \/ (T.pars = <<>> /\ ct[4] = <<>>)
                               /\ ct[3] => Len(T.pars) = Len(ct[4]) /\ \A k \in DOMAIN ct[4] : Same(T.pars[k], ct[4][k])
            [] OTHER -> TRUE
\* The type of every name in scope is the composite of its declarations.
TypesAsInC ==
    Ok /\ ~Dangling(S) /\ ~Met({"InnerTag", "SharedArray", "MixedFunctions", "SizeGivenLater", "RedeclaredInBlock", "FunctionInside"}) =>
        \A name \in Names :
            With(lookup(S, NS_IDEN, name), LAMBDA i :
            LET e == Visible(G, name)
            IN i # 0 /\ e # 0 => Same(S.syms[i].tp, G.ents[e].ct))

\* A variable is printed with the class that its linkage and duration ask for.
StorageAsInC ==
    Ok /\ ~Dangling(S) /\ ~Met({"BlockExternOfStatic"}) =>
        \A name \in Names :
            With(lookup(S, NS_IDEN, name), LAMBDA i :
            With(Visible(G, name), LAMBDA e :
            i # 0 /\ e # 0 /\ G.ents[e].kind \in {"obj", "fun"} =>
               emitvar(S, i) \in CASE G.ents[e].lk = "external" -> {"G", "X"}
                                   [] G.ents[e].lk = "internal" -> IF G.ents[e].kind = "fun" THEN {"Y", "T"} ELSE {"Y"}
                                   [] OTHER -> IF G.ents[e].dur = "static" THEN {"T"} ELSE {"A", "R"}))

\* One line defines a thing, and a thing that is initialized is defined.
OneDefinition ==
    Ok /\ ~Met({"InitializedAgain"}) =>
        \A e \in DOMAIN G.ents :
            LET defs == {k \in DOMAIN S.out : S.out[k][1] \in {"G", "Y", "T"} /\ e \in S.syms[S.out[k][2]].ent
                                              /\ G.ents[e].kind = "obj"}
            IN Cardinality(defs) <= 1 /\ (G.ents[e].def /\ G.ents[e].kind = "obj" /\ G.ents[e].dur = "static"
                                            => \E k \in defs : S.out[k][3])

\* The table holds the declared symbols of the open scopes and nothing that
\* was freed; contexts nest as scopes do; the assertion of unlinkhash() holds.
TableExact ==
    /\ S.st # "assert"
    /\ S.st = "ok" /\ Dangling(S) => Met({"VoidNamed", "InnerTag", "PrototypeTag"})
    /\ Ok /\ ~Dangling(S) => /\ S.ctx = IF Depth(G) = 1 THEN 0 ELSE Depth(G)
                             /\ S.ahead # 0 => S.syms[S.ahead].live

\* What every name of the file means is what C's scopes, types and linkage say.
MeaningAsInC == NamesAsInC /\ TypesAsInC /\ StorageAsInC /\ OneDefinition
=============================================================================
