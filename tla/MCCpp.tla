-------------------------------- MODULE MCCpp --------------------------------
(***************************************************************************)
(* Cpp on every file of a few lines, with macros that name each other,     *)
(* that take an argument, that call through an argument and that leave     *)
(* the '(' to what follows them.                                           *)
(***************************************************************************)
EXTENDS Cpp

T(t) == [k |-> "tok", tok |-> t, par |-> 0]
P(k) == [k |-> k, tok |-> "", par |-> 1]
Obj(b) == [def |-> TRUE, npars |-> OBJLIKE, body |-> b]
Fun(n, b) == [def |-> TRUE, npars |-> n, body |-> b]
Undefined == [def |-> FALSE, npars |-> OBJLIKE, body |-> <<>>]

Blank == [d |-> "text", name |-> NoName, val |-> 0, mac |-> Undefined, toks |-> <<>>]
Text(ts) == [Blank EXCEPT !.toks = ts]
Dir(d, v) == [Blank EXCEPT !.d = d, !.val = v]
On(d, n) == [Blank EXCEPT !.d = d, !.name = n]
Def(n, m) == [Blank EXCEPT !.d = "define", !.name = n, !.mac = m]

\* A and B name each other; F expands its argument and B; G is a name of F.
Mutual == [A |-> Obj(<<T("B"), T("x"), T("A")>>), B |-> Obj(<<T("A"), T("y")>>),
           F |-> Fun(1, <<P("par"), P("raw"), P("str"), T("B")>>), G |-> Obj(<<T("F")>>)]
Empty == [n \in {"A", "B", "F", "G"} |-> Undefined]
Plain == [Mutual EXCEPT !["F"] = Undefined]

MCNames == {"A", "B", "F", "G"}
MCPredefined == {Mutual, Plain, Empty}

MCLines ==
  {Text(<<>>), Text(<<"A", "z">>), Text(<<"G">>), Text(<<"F", "(", "F", "(", "A", ")", ")">>),
   Text(<<"(", "B", ",">>), Text(<<")">>),
   Def("A", Obj(<<T("B"), T("A")>>)), Def("F", Fun(0, <<T("G"), T("A")>>)), On("undef", "F"), 
   On("ifdef", "A"), On("ifndef", "A"), Dir("elif", 1), Dir("elif", 0), Dir("if", 0),
   Dir("else", 0), Dir("endif", 0), Dir("include", 0), Dir("line", 7), Dir("pragma", 0),
   Dir("missing", 0), Dir("error", 0), Dir("bad", 0)}
=============================================================================
