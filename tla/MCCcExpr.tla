------------------------------ MODULE MCCcExpr ------------------------------
EXTENDS CcExpr

MCWidth == [z80 |-> [char |-> 2, ushort |-> 3, int |-> 3, uint |-> 3, long |-> 5, ulong |-> 5, ptr |-> 3],
            amd64 |-> [char |-> 2, ushort |-> 2, int |-> 3, uint |-> 3, long |-> 5, ulong |-> 5, ptr |-> 5]]
MCSizeType == [z80 |-> "uint", amd64 |-> "ulong"]
MCDiffType == [z80 |-> "int", amd64 |-> "long"]
MCVariables == [c |-> "char", i |-> "int", u |-> "uint", l |-> "long", p |-> "ptr", h |-> "ushort"]
MCLiterals == {<<0, "int">>, <<1, "int">>, <<2, "int">>, <<6, "long">>, <<9, "long">>}
MCFunctions == [f |-> <<>>, g |-> <<"char">>, v |-> <<"...">>]
MCBinaryOps == {"OADD", "OSUB", "OMUL", "ODIV", "OMOD", "OSHL", "OSHR", "OBAND", "OBXOR", "OBOR",
                "OAND", "OOR", "OCOMMA", "array", "OEQ", "ONE", "OLT", "OGE", "OLE", "OGT"}
MCUnaryOps == {"not", "OADD", "OSNEG", "OCPL", "OADDR", "OPTR", "sizeof", "OINC", "ODEC", "OA_ADD", "OA_SUB"}
MCAssignOps == {"OASSIGN", "OA_MUL", "OA_DIV", "OA_MOD", "OA_ADD", "OA_SUB", "OA_SHL", "OA_SHR",
                "OA_AND", "OA_XOR", "OA_OR"}
MCCastTypes == {"char", "int", "uint", "ptr"}

\* Every text of up to three tokens, the third operand being a constant, i
\* or a call.  Longer ones, for amd64 only: x op y op' 1, 1 op (x op' y),
\* x ? y : z, and one more unary operator, with the operators below.
Inner == {"OADD", "OMUL", "OSUB", "OCAST", "OCPL", "OAND", "OLT"}
Outer == {"OADD", "OMUL", "OMOD", "OLT", "OAND", "OBAND", "OASSIGN"}
Third(e) == CASE e.op = "var" -> e.s = "i"
              [] e.op = "call" -> e.v = 0 \/ Len(ast) = 2
              [] OTHER -> TRUE
Longer(n, e) ==
    CASE e.op = "var" -> FALSE
      [] e.op = "const" -> e.v \in {1, 2} /\ e.s = "" /\ Len(ast) = 1 /\ ast[1].op \in Inner
      [] e.op = "call" -> e.v = 0 /\ e.s = "f" /\ Len(ast) = 1 /\ ast[1].op \in Inner
      [] e.op = "OASK" -> TRUE
      [] e.op \in {"OCPL", "not", "OCAST"} -> n = 3 /\ Len(ast) = 1 /\ (e.op = "OCAST" => e.tp = "int")
      [] OTHER -> /\ e.op \in Outer
                  /\ ast[1].op \in Inner \/ (ast[1].op = "const" /\ e.op \in {"OADD", "OMUL", "OLT"})
Fit(n, e) == /\ n = 2 => Third(e)
             /\ n >= 3 => arch = "amd64" /\ Longer(n, e)
=============================================================================
