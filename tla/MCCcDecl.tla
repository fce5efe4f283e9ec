------------------------------ MODULE MCCcDecl ------------------------------
(* Two names, one tag: the declarations of two names that can conflict.    *)
EXTENDS CcDecl

B(k) == [k |-> k, n |-> "S"]
T(name) == [k |-> "type", n |-> name]
No == [k |-> "no", n |-> 0]
Const == [k |-> "const", n |-> 1]
Var == [k |-> "var", n |-> 1]
List(n) == [k |-> "list", n |-> n]
Ptr == [c |-> "ptr", n |-> 0, kr |-> FALSE, pars |-> <<>>]
Ary(n) == [c |-> "ary", n |-> n, kr |-> FALSE, pars |-> <<>>]
Fun(pars) == [c |-> "fun", n |-> 0, kr |-> FALSE, pars |-> pars]
KrFun(pars) == [c |-> "fun", n |-> 0, kr |-> TRUE, pars |-> pars]
Par(k, ptr, name) == [base |-> B(k), ptr |-> ptr, name |-> name]
Dcl(sc, base, name, d, init) == [sc |-> sc, base |-> base, name |-> name, d |-> d, init |-> init]
Void == Fun(<<Par("void", "", "")>>)

MCMenu ==
    {Dcl(sc, B("int"), x, <<>>, No) : sc \in {"none", "extern", "static", "typedef"}, x \in Names}
    \cup {Dcl(sc, B("int"), "x", <<>>, Const) : sc \in {"none", "extern", "static"}}
    \cup {Dcl("static", B("int"), "x", <<>>, Var), Dcl("register", B("int"), "x", <<>>, No),
          Dcl("none", B("char"), "x", <<>>, No), Dcl("none", T("x"), "y", <<>>, No), Dcl("none", T("x"), "x", <<>>, No)}
    \cup {Dcl("extern", B("int"), x, <<Ary(0)>>, No) : x \in Names}
    \cup {Dcl("none", B("int"), x, <<Ary(0)>>, List(2)) : x \in Names}
    \cup {Dcl("typedef", B("int"), "x", <<Ary(0)>>, No), Dcl("none", T("x"), "y", <<>>, List(3)),
          Dcl("none", B("int"), "x", <<Ary(2)>>, No), Dcl("none", B("int"), "x", <<Ary(0)>>, No)}
    \cup {Dcl(sc, B("int"), "x", <<Void>>, No) : sc \in {"none", "static", "typedef"}}
    \cup {Dcl("none", B("int"), "x", <<KrFun(<<>>)>>, No), Dcl("none", B("int"), "x", <<Fun(<<Par("char", "", "")>>)>>, No),
          Dcl("none", B("int"), "x", <<Fun(<<Par("int", "", "y"), Par("int", "ary", "")>>)>>, No),
          Dcl("none", B("int"), "x", <<Fun(<<Par("int", "", "x"), Par("int", "", "x")>>)>>, No),
          Dcl("none", B("int"), "x", <<Fun(<<Par("void", "", "y")>>)>>, No),
          Dcl("none", B("int"), "x", <<Fun(<<Par("int", "fun", "y")>>)>>, No),
          Dcl("none", B("int"), "x", <<Fun(<<Par("struct", "ptr", "y")>>)>>, No),
          Dcl("none", B("int"), "x", <<Ptr, Fun(<<Par("int", "", "y")>>)>>, No),
          Dcl("none", B("int"), "x", <<Void, Ptr, Fun(<<Par("int", "", "y")>>)>>, No),
          Dcl("none", B("int"), "x", <<Void, Fun(<<Par("int", "", "y")>>)>>, No)}
    \cup {Dcl("none", B(k), "", <<>>, No) : k \in {"struct", "structdef", "union"}}
    \cup {Dcl("none", B("struct"), "x", <<>>, No), Dcl("extern", B("struct"), "x", <<>>, No),
          Dcl("none", B("structdef"), "y", <<Ptr>>, No)}
MCFunctions ==
    {Dcl("none", B("int"), "x", <<Void>>, No), Dcl("static", B("int"), "y", <<Fun(<<Par("int", "", "x")>>)>>, No),
     Dcl("none", B("int"), "y", <<KrFun(<<Par("int", "", "x")>>)>>, No),
     Dcl("none", B("int"), "x", <<KrFun(<<>>)>>, No),
     Dcl("none", B("int"), "y", <<Fun(<<Par("struct", "ptr", "x")>>)>>, No)}

\* bound: after the third only these
Late == {Dcl("none", B("int"), "x", <<>>, No), Dcl("extern", B("int"), "x", <<>>, No),
         Dcl("static", B("int"), "x", <<>>, Const), Dcl("none", T("x"), "y", <<>>, No),
         Dcl("none", B("int"), "x", <<Void>>, No), Dcl("none", B("struct"), "x", <<>>, No)}
MCAllowed(dc, n) == n < 3 \/ dc \in Late
=============================================================================
