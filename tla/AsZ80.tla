------------------------------- MODULE AsZ80 -------------------------------
(***************************************************************************)
(* The Z80 half of scc-as: how operands select an entry of the operation   *)
(* table and what bytes the entry's format writes (x80/ins.c).             *)
(*                                                                         *)
(* A node is a record [op, addr, val, off, abs, name]: the value of its    *)
(* symbol, for (REG), (REG + n) and (n) that of the node below, and in off *)
(* the index.  Registers are symbols whose value is their code (proc.h).   *)
(* An entry is a record [args, size, bytes, format].                       *)
(***************************************************************************)
EXTENDS Integers, Sequences, Bitwise, Once

\* iarch(): the registers, in the order of enum args.
Registers == <<"AF", "A", "F", "BC", "B", "C", "HL", "H", "L", "DE", "D", "E",
  "IX", "IXL", "IXH", "IY", "IYL", "IYH", "R", "I", "AF'", "SP",
  "NZ", "Z", "NC", "PO", "PE", "P", "M">>

AMAX == 19

Code(r) == AMAX - 1 + CHOOSE i \in DOMAIN Registers : Registers[i] = r

\* The register a value stands for; a label named like a register changes it.
RegOf(v) == IF v - AMAX + 1 \in DOMAIN Registers THEN Registers[v - AMAX + 1] ELSE ""

ClassOf(r) ==
  CASE r = "C" -> {"r", "p", "q", "cc", "ss"}
    [] r \in {"A", "B", "D", "E"} -> {"r", "p", "q"}
    [] r \in {"H", "L"} -> {"r"}
    [] r \in {"IXL", "IXH"} -> {"p"}
    [] r \in {"IYL", "IYH"} -> {"q"}
    [] r = "HL" -> {"dd", "qq"}
    [] r \in {"BC", "DE"} -> {"dd", "qq", "pp", "rr"}
    [] r = "SP" -> {"dd", "pp", "rr"}
    [] r = "AF" -> {"qq"}
    [] r = "IX" -> {"pp"}
    [] r = "IY" -> {"rr"}
    [] r \in {"PO", "PE", "P", "M"} -> {"cc"}
    [] r \in {"NZ", "Z", "NC"} -> {"cc", "ss"}
    [] OTHER -> {}

getclass(np) == IF np.addr # "AREG" THEN {} ELSE ClassOf(RegOf(np.val))

Classes == {"r", "p", "q", "dd", "qq", "pp", "rr", "cc", "ss"}
Indirects == {"(HL)", "(DE)", "(BC)", "(SP)", "(C)", "(IX)", "(IY)"}
Inside == [i \in Indirects |->
  CASE i = "(HL)" -> "HL" [] i = "(DE)" -> "DE" [] i = "(BC)" -> "BC" [] i = "(SP)" -> "SP"
    [] i = "(C)" -> "C" [] i = "(IX)" -> "IX" [] OTHER -> "IY"]

\* No value of the model is wider than 32 bits.
toobig(np, type) ==
  CASE type = "imm3" -> np.val > 7
    [] type = "imm8" -> np.val > 255
    [] type = "imm16" -> np.val > 65535
    [] type = "imm32" -> FALSE
    [] OTHER -> TRUE

Checked(ok) == IF ok THEN "yes" ELSE "no"

\* One operand against one entry of op->args: yes, no, or error().
Fits(arg, np) ==
  CASE arg \in Indirects -> Checked(np.addr = "AINDIR" /\ RegOf(np.val) = Inside[arg])
    [] arg \in Classes -> Checked(arg \in getclass(np))
    [] arg \in {"(IX+n)", "(IY+n)"} ->
         IF np.addr # "AINDEX" \/ RegOf(np.val) # (IF arg = "(IX+n)" THEN "IX" ELSE "IY") THEN "no"
         ELSE IF toobig(np, "imm8") THEN "error" ELSE "yes"
    [] arg = "rst" -> Checked(np.addr = "AIMM" /\ np.val \in {8 * i : i \in 0 .. 7})
    [] arg = "0" -> Checked(np.addr = "AIMM")
    [] arg \in {"imm3", "imm8", "imm16", "imm32", "imm64"} ->
         IF np.addr # "AIMM" THEN "no" ELSE IF np.op = "UNARY" THEN "crash"
         ELSE IF toobig(np, arg) THEN "error" ELSE "yes"
    [] arg = "sym" -> Checked(np.op = "IDEN")
    [] arg = "(n)" -> Checked(np.addr = "ADIRECT")
    [] arg = "string" -> Checked(np.addr = "ASTR")
    [] OTHER -> Checked(np.addr = "AREG" /\ RegOf(np.val) = arg)

\* The loop of match(): AOPT and AREP use up an operand like any other entry,
\* so the operand they stand before is never looked at.
RECURSIVE Walk(_, _, _, _, _)
Walk(want, p, args, rep, opt) ==
  IF p > Len(want) THEN Checked(args = <<>>)
  ELSE IF args = <<>> THEN Checked(rep \/ opt)
  ELSE IF want[p] = "AOPT" THEN Walk(want, p + 1, Tail(args), rep, TRUE)
  ELSE IF want[p] = "AREP" THEN Walk(want, p + 1, Tail(args), TRUE, opt)
  ELSE With(Fits(want[p], args[1]), LAMBDA f :
       IF f = "yes" THEN Walk(want, IF rep THEN p ELSE p + 1, Tail(args), rep, opt) ELSE f)

\* A line without operands has args == NULL, which match() reads for any
\* entry that has operands.
match(op, noargs, args) ==
  IF op.args = <<>> THEN Checked(noargs)
  ELSE IF noargs THEN "crash" ELSE Walk(op.args, 1, args, FALSE, FALSE)

reg2int(np) ==
  CASE RegOf(np.val) \in {"F", "B", "BC"} -> 0
    [] RegOf(np.val) \in {"C", "DE"} -> 1
    [] RegOf(np.val) \in {"D", "HL", "IX", "IY"} -> 2
    [] RegOf(np.val) \in {"E", "AF", "SP"} -> 3
    [] RegOf(np.val) \in {"IXH", "IYH", "H"} -> 4
    [] RegOf(np.val) \in {"IXL", "IYL", "L"} -> 5
    [] RegOf(np.val) = "A" -> 7

Flags == <<"NZ", "Z", "NC", "C", "PO", "PE", "P", "M">>
cc2int(np) == (CHOOSE i \in 1 .. 8 : Flags[i] = RegOf(np.val)) - 1
ss2int(np) == 4 + (CHOOSE i \in 1 .. 4 : Flags[i] = RegOf(np.val)) - 1

Byte(v) == v % 256
High(v) == (v \div 256) % 256
OrInto(buf, i, v) == [buf EXCEPT ![i] = Byte(@ | v)]

\* memcpy(buf, op->bytes, n): the bytes the table leaves out are 0.
Buf(op) == [i \in 1 .. op.size |-> IF i <= Len(op.bytes) THEN op.bytes[i] ELSE 0]

dir(op, args) ==
  LET imm == IF args[2].addr = "ADIRECT" THEN args[2] ELSE args[1]  n == op.size IN
  [Buf(op) EXCEPT ![n] = High(imm.val), ![n - 1] = Byte(imm.val)]

ld8(op, args) ==
  LET imm == args[2].addr = "AIMM"
      n == IF imm THEN op.size - 1 ELSE op.size
      dst == IF args[1].addr = "AREG" THEN reg2int(args[1]) * 8 ELSE 0
      src == IF args[2].addr = "AREG" THEN reg2int(args[2]) ELSE 0
      buf == IF imm THEN [Buf(op) EXCEPT ![op.size] = Byte(args[2].val)] ELSE Buf(op)
  IN OrInto(buf, n, dst | src)

alu16(op, args) == OrInto(Buf(op), op.size, reg2int(args[Len(args)]) * 16)

ld16(op, args) ==
  IF Len(args) = 1 THEN alu16(op, args)
  ELSE LET n == op.size
           swap == args[1].addr # "AREG"
           dst == IF swap THEN args[2] ELSE args[1]
           src == IF swap THEN args[1] ELSE args[2]
       IN OrInto([Buf(op) EXCEPT ![n] = High(src.val), ![n - 1] = Byte(src.val)],
                 n - 2, reg2int(dst) * 16)

alu8(op, args) ==
  LET par == args[Len(args)]
      val == CASE par.addr = "AIMM" -> par.val
               [] par.addr = "AREG" -> reg2int(par) * (IF Len(args) = 2 THEN 1 ELSE 8)
               [] par.addr = "AINDEX" -> par.off
               [] par.addr = "AINDIR" -> 0
  IN OrInto(Buf(op), op.size, Byte(val))

idx(op, args) ==
  LET swap == args[1].addr # "AINDEX"
      index == IF swap THEN args[2] ELSE args[1]
      other == IF swap THEN args[1] ELSE args[2]
      imm == other.addr # "AREG"
      n == IF imm THEN op.size - 1 ELSE op.size
  IN With([Buf(op) EXCEPT ![op.size] = IF imm THEN Byte(other.val) ELSE @, ![n] = Byte(index.off)], LAMBDA buf :
  IF imm THEN buf ELSE OrInto(buf, n - 1, reg2int(other) * (IF swap THEN 8 ELSE 1)))

inout(op, args) ==
  LET first == args[1].addr \in {"ADIRECT", "AINDIR"}
      port == IF first THEN args[1] ELSE args[2]
      value == IF first THEN args[2] ELSE args[1]
      val == IF port.addr = "ADIRECT" THEN port.val
             ELSE IF value.addr = "AREG" THEN reg2int(value) * 8 ELSE 0
  IN OrInto(Buf(op), op.size, Byte(val))

\* Mutant of rot_bit: the number of the bit is not moved to bits 3 to 5.
rot_bitLow(op, args) == [i \in 1 .. op.size |-> IF i = op.size THEN Byte(Buf(op)[i] | args[1].val) ELSE Buf(op)[i]]
rot_bit(op, args) ==
  LET n == op.size
      bit == args[1].addr = "AIMM"
      rest == IF bit THEN Tail(args) ELSE args
  IN With(IF bit THEN OrInto(Buf(op), n, args[1].val * 8) ELSE Buf(op), LAMBDA buf :
  CASE rest[1].addr = "AINDEX" ->
         LET b == [buf EXCEPT ![n - 1] = Byte(rest[1].off)] IN
         IF Len(rest) = 1 THEN b ELSE OrInto(b, n, reg2int(rest[2]))
    [] rest[1].addr = "AREG" -> OrInto(buf, n, reg2int(rest[1]))
    [] rest[1].addr = "AINDIR" -> buf)

im(op, args) ==
  OrInto(Buf(op), op.size, (IF args[1].val > 0 THEN args[1].val + 1 ELSE 0) * 8)

branch(relative, op, args, pc) ==
  LET n == op.size
      flag == args[1].addr = "AREG"
      imm == IF flag THEN Tail(args) ELSE args
  IN With(IF imm = <<>> THEN Buf(op)
       ELSE IF relative THEN [Buf(op) EXCEPT ![n] = Byte(imm[1].val - (pc - 2))]
       ELSE [Buf(op) EXCEPT ![n] = High(imm[1].val), ![n - 1] = Byte(imm[1].val)], LAMBDA buf :
  LET at == n - (IF imm = <<>> THEN 0 ELSE IF relative THEN 1 ELSE 2)
  IN IF flag THEN OrInto(buf, at, 8 * (IF relative THEN ss2int(args[1]) ELSE cc2int(args[1])))
     ELSE buf)

rst(op, args) == <<Byte(op.bytes[1] | args[1].val)>>

\* The bytes an instruction writes at pc.
Instruction(op, args, pc) ==
  CASE op.format = "noargs" -> Buf(op)
    [] op.format = "dir" -> dir(op, args)
    [] op.format = "ld8" -> ld8(op, args)
    [] op.format = "ld16" -> ld16(op, args)
    [] op.format = "alu8" -> alu8(op, args)
    [] op.format = "alu16" -> alu16(op, args)
    [] op.format = "idx" -> idx(op, args)
    [] op.format = "inout" -> inout(op, args)
    [] op.format = "rot_bit" -> rot_bit(op, args)
    [] op.format = "im" -> im(op, args)
    [] op.format = "jp" -> branch(FALSE, op, args, pc)
    [] op.format = "jr" -> branch(TRUE, op, args, pc)
    [] op.format = "rst" -> rst(op, args)
=============================================================================
