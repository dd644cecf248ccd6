------------------------------ MODULE MCEmission ------------------------------
(***************************************************************************)
(* Every form of instruction with literals, symbols of the section, weak   *)
(* and foreign ones in every operand, and jumps around the ends of their   *)
(* reach.                                                                  *)
(***************************************************************************)
EXTENDS MSP430Emission

Here(o)    == [def |-> "here", off |-> o, addr |-> 0]
Weak(o, a) == [def |-> "weak", off |-> o, addr |-> a]
Else(a)    == [def |-> "else", off |-> 0, addr |-> a]

Symbols == {Here(2), Here(18), Weak(18, 30), Else(61)}

\* One reference has an addend.
Places == {Expr(s, 0) : s \in Symbols} \cup {Expr(Here(2), 2)}

Numbers == {Imm(5), Imm(-2)}

Regs == {Operand("reg", r, Imm(0)) : r \in {1, 5}}
Imms == {Operand("imm", 0, d) : d \in Places \cup Numbers}
CGs  == {Operand("cg", 0, Imm(c)) : c \in CGValues}
Inds == {Operand(m, 5, Imm(0)) : m \in {"ind", "post"}}

Absolutes  == {Operand("mem", SR, d) : d \in Places \cup {Imm(5)}}
Symbolics  == {Operand("mem", PCReg, d) : d \in Places \cup Numbers}
Zeros      == {Operand("mem", 5, Imm(0))}
Indexed    == {Operand("mem", 5, d) : d \in Places \cup Numbers}
Mems       == Absolutes \cup Symbolics \cup Zeros \cup Indexed

Instr(op, src, dst) == [op |-> op, src |-> src, dst |-> dst, cond |-> "NONE"]

DoubleOperand ==
  {Instr(op, s, d) : op \in {"add", "mov"}, s \in Regs \cup Imms \cup CGs \cup Inds \cup Mems,
                     d \in Regs \cup Mems}

SingleOperands ==
  {Instr(op, s, NoOperand) : op \in {"call", "push", "rra"},
                             s \in Regs \cup Imms \cup CGs \cup Inds \cup Mems}

\* A branch through 0(rn) has no text that is read again, see README.
Branches ==
  {Instr("br", s, Operand("reg", PCReg, Imm(0))) : s \in Regs \cup Imms \cup (Mems \ Zeros)}

\* @rn is shorter than the 0(rn) it is read for, which moves a number counted from PC.
Moved(i) == i.src \in Zeros /\ i.dst \in Symbolics

JumpTargets ==
  {Expr(Here(o), 0) : o \in 0..22} \cup {Expr(Weak(4, a), 0) : a \in {12, 40}}
  \cup {Expr(Else(a), 0) : a \in 0..63}

Jump(cond, d) == [op |-> "jump", src |-> NoOperand, dst |-> Operand("target", 0, d), cond |-> cond]

SymbolicJumps == {Jump(c, d) : c \in {"GE", "NONE"}, d \in JumpTargets}

LiteralJumps == {Jump(c, Imm(n)) : c \in CondCodes, n \in -Field..(Field - 1)}

At(is, places) == {[inst |-> i, at |-> a] : i \in is, a \in places}

SmallPrograms ==
  At({i \in DoubleOperand \cup SingleOperands \cup Branches : WellFormed(i) /\ ~Moved(i)}, {6})
  \cup At(SymbolicJumps, {2, 20}) \cup At(LiteralJumps, {20})

JumpPrograms == At(LiteralJumps, {20})
===============================================================================
