----------------------------- MODULE MSP430Lowering -----------------------------
(***************************************************************************)
(* Comparisons and shifts: what MSP430ISelLowering.cpp makes of a          *)
(* selection DAG node, and the run of the instructions it becomes.  A node *)
(* is of type i16 or i8; both are called words here, and are 0 .. M-1.     *)
(***************************************************************************)
EXTENDS Integers, Sequences

CONSTANTS
  Width,     \* bits of a word: i16 or i8
  ByteBits,  \* bits of a byte, 8
  AndKinds   \* the kinds of AND compared with zero, see Operand

ASSUME WidthAssumption == ByteBits \in Nat \ {0} /\ Width \in {ByteBits, 2 * ByteBits}
ASSUME KindAssumption == AndKinds \subseteq {"and", "trunc", "shared"}

\* Arithmetic: what proofs need of the powers of two.
ASSUME PowerAssumption ==
  /\ \A n \in 0..Width : 2 ^ n \in Nat \ {0} /\ 2 ^ (n + 1) = 2 * 2 ^ n
  /\ 2 ^ (2 * ByteBits) = 2 ^ ByteBits * 2 ^ ByteBits

VARIABLES
  node,    \* the node
  pc,      \* "lower", "compare", "use", "shift", "ops", "test", "loop", "done"
  cmp,     \* the comparison EmitCMP makes: operands and condition code
  sr,      \* the bits C, Z, N and V of the status register
  ops,     \* the unary operations left of a shift by a constant
  val,     \* the value shifted, at last the value of the node
  amount   \* what is left of a variable amount

vars == <<node, pc, cmp, sr, ops, val, amount>>

Half == 2 ^ (Width - 1)
M    == 2 * Half
Word == 0..(M - 1)

\* A constant, the AND of two values, the low byte of one (TRUNCATE), also of
\* one that has other uses ("shared"), or any other value.
Operand == [kind : {"const", "value"} \cup AndKinds, val : Word]

\* A constant that went past the last word.
BugConst(c) == [kind |-> "const", val |-> c]

Const(c) == [kind |-> "const", val |-> c % M]

Conditions == {"EQ", "NE", "UGE", "ULE", "UGT", "ULT", "GE", "LE", "GT", "LT"}

Compares == {"br_cc", "select_cc", "setcc"}
Shifts   == {"shl", "sra", "srl"}

\* A comparison; br_cc and select_cc have the same shape, and their value is
\* 1 where they take the first alternative.
Comparison == [op : Compares, cc : Conditions, lhs : Operand, rhs : Operand]

\* A shift by a constant or by a variable amount.
Shift == [op : Shifts, val : Word, amount : 0..(Width - 1), constant : BOOLEAN]

-------------------------------------------------------------------------------
(* The MSP430 *)

Signed(x) == IF x < Half THEN x ELSE x - M

Minus(a, b) == IF a >= b THEN a - b ELSE a - b + M

Bit(p) == IF p THEN 1 ELSE 0

\* CMP b, a
CmpFlags(a, b) ==
  [c |-> Bit(a >= b), z |-> Bit(a = b), n |-> Bit(Minus(a, b) >= Half),
   v |-> Bit(Signed(a) - Signed(b) \notin (-Half)..(Half - 1))]

\* BIT and AND: carry is set if the result is not zero.
BitFlags(r) == [c |-> Bit(r # 0), z |-> Bit(r = 0), n |-> Bit(r >= Half), v |-> 0]

\* Does jcc jump?
Holds(tcc, f) ==
  CASE tcc = "E"  -> f.z = 1
    [] tcc = "NE" -> f.z = 0
    [] tcc = "HS" -> f.c = 1
    [] tcc = "LO" -> f.c = 0
    [] tcc = "GE" -> f.n = f.v
    [] tcc = "L"  -> f.n # f.v

RLA(x) == (2 * x) % M
RRA(x) == x \div 2 + (IF x >= Half THEN Half ELSE 0)
RRC(x, c) == x \div 2 + c * Half

Byte == 2 ^ ByteBits
SWPB(x) == (x % Byte) * Byte + x \div Byte
ZEXT(x) == x % Byte
SXT(x)  == IF 2 * ZEXT(x) < Byte THEN ZEXT(x) ELSE ZEXT(x) + M - Byte

-------------------------------------------------------------------------------
(* Comparisons *)

\* A comparison turned round, and one of a constant with a value as one of the
\* value with the next constant.
Mirrored == [ULE |-> "UGE", UGT |-> "ULT", LE |-> "GE", GT |-> "LT"]
ByFlags  == [UGE |-> "HS", ULT |-> "LO", GE |-> "GE", LT |-> "L"]
ByNext   == [UGE |-> "LO", ULT |-> "HS", GE |-> "L", LT |-> "GE"]

EqualityCMP(lhs, rhs, tcc) ==
  IF lhs.kind = "const" THEN [lhs |-> rhs, rhs |-> lhs, tcc |-> tcc]
                        ELSE [lhs |-> lhs, rhs |-> rhs, tcc |-> tcc]

\* The constant is not counted up.
BugOrderCMP(lhs, rhs, cc) ==
  IF lhs.kind = "const"
    THEN [lhs |-> rhs, rhs |-> lhs, tcc |-> ByNext[cc]]
    ELSE [lhs |-> lhs, rhs |-> rhs, tcc |-> ByFlags[cc]]

OrderCMP(lhs, rhs, cc) ==
  IF lhs.kind = "const"
    THEN [lhs |-> rhs, rhs |-> Const(lhs.val + 1), tcc |-> ByNext[cc]]
    ELSE [lhs |-> lhs, rhs |-> rhs, tcc |-> ByFlags[cc]]

EmitCMP(lhs, rhs, cc) ==
  CASE cc = "EQ" -> EqualityCMP(lhs, rhs, "E")
    [] cc = "NE" -> EqualityCMP(lhs, rhs, "NE")
    [] cc \in DOMAIN Mirrored -> OrderCMP(rhs, lhs, Mirrored[cc])
    [] OTHER -> OrderCMP(lhs, rhs, cc)

\* LowerSETCC: an AND compared with zero, expected to become a BIT ...
andCC(n) == n.rhs = Const(0) /\ n.lhs.kind \in {"and", "trunc", "shared"}

\* ... which the patterns do for an AND without other uses (and_su).
SelectsBIT(c) == c.rhs = Const(0) /\ c.lhs.kind \in {"and", "trunc"}

\* LowerSETCC reads the value off SR where one bit has it, else it selects
\* between one and zero.
Convert(n, tcc) == n.op = "setcc" /\ tcc \in {"HS", "LO", "NE", "E"}

FromSR(tcc, and, f) ==
  CASE tcc = "HS" -> f.c
    [] tcc = "LO" -> 1 - f.c
    [] tcc = "NE" -> IF and THEN f.c ELSE 1 - f.z
    [] tcc = "E"  -> f.z

-------------------------------------------------------------------------------
(* Shifts *)

\* From eight on, which only an i16 has, half the shift is a byte swap.
ByteMove == [shl |-> <<"zext", "swpb">>, sra |-> <<"swpb", "sxt">>, srl |-> <<"swpb", "zext">>]

\* The second and later bits are shifted arithmetically: the top bit is zero.
BitMoves(op, n) ==
  CASE op = "shl" -> [i \in 1..n |-> "rla"]
    [] op = "sra" -> [i \in 1..n |-> "rra"]
    [] op = "srl" -> [i \in 1..n |-> IF i = 1 THEN "rrcl" ELSE "rra"]

\* The byte swap is taken for a shift by more than a byte only.
BugLowerShifts(op, n) ==
  IF n > ByteBits THEN ByteMove[op] \o BitMoves(op, n - ByteBits + 1) ELSE BitMoves(op, n)

LowerShifts(op, n) ==
  IF n >= ByteBits THEN ByteMove[op] \o BitMoves(op, n - ByteBits) ELSE BitMoves(op, n)

Executed(op, x) ==
  CASE op = "zext" -> ZEXT(x)
    [] op = "sxt"  -> SXT(x)
    [] op = "swpb" -> SWPB(x)
    [] op = "rla"  -> RLA(x)
    [] op = "rra"  -> RRA(x)
    [] op = "rrcl" -> RRC(x, 0)

\* EmitShiftInstr's loop: ADD x, x, RRA, or BIC #1, SR and RRC.
LoopShift(op, x) ==
  CASE op = "shl" -> RLA(x)
    [] op = "sra" -> RRA(x)
    [] op = "srl" -> RRC(x, 0)

-------------------------------------------------------------------------------
(* A node is lowered and executed *)

\* The constant c that decides x cc c for every x.
Deciding(cc) ==
  CASE cc \in {"UGE", "ULT"} -> 0
    [] cc \in {"ULE", "UGT"} -> M - 1
    [] cc \in {"GE", "LT"}   -> Half
    [] cc \in {"LE", "GT"}   -> Half - 1

\* SimplifySetCC makes a constant of the comparison, ...
Decided(n) ==
  /\ n.rhs.kind = "const"
  /\ n.lhs.kind = "const" \/ (n.cc \notin {"EQ", "NE"} /\ n.rhs.val = Deciding(n.cc))

\* ... which the DAG combiner takes for a setcc or select_cc: visitBR_CC takes
\* only another setcc.  A constant goes to the right of what is none.
Combined(n) ==
  /\ Decided(n) => n.op = "br_cc"
  /\ n.lhs.kind = "const" => n.rhs.kind = "const"

NoFlags == [c |-> 0, z |-> 0, n |-> 0, v |-> 0]

InitCompare ==
  /\ node \in {n \in Comparison : Combined(n)}
  /\ pc = "lower"
  /\ val = 0 /\ amount = 0

InitShift ==
  /\ node \in Shift
  /\ pc = "shift"
  /\ val = node.val /\ amount = node.amount

Init ==
  /\ InitCompare \/ InitShift
  /\ cmp = [lhs |-> Const(0), rhs |-> Const(0), tcc |-> "E"]
  /\ sr = NoFlags
  /\ ops = <<>>

LowerComparison ==
  /\ pc = "lower"
  /\ cmp' = EmitCMP(node.lhs, node.rhs, node.cc)
  /\ pc' = "compare"
  /\ UNCHANGED <<node, sr, ops, val, amount>>

Compare ==
  /\ pc = "compare"
  /\ sr' = IF SelectsBIT(cmp) THEN BitFlags(cmp.lhs.val)
                              ELSE CmpFlags(cmp.lhs.val, cmp.rhs.val)
  /\ pc' = "use"
  /\ UNCHANGED <<node, cmp, ops, val, amount>>

\* BR_CC, and the diamond EmitInstrWithCustomInserter makes of a select.
Jump ==
  /\ pc = "use"
  /\ ~Convert(node, cmp.tcc)
  /\ val' = Bit(Holds(cmp.tcc, sr))
  /\ pc' = "done"
  /\ UNCHANGED <<node, cmp, sr, ops, amount>>

ReadSR ==
  /\ pc = "use"
  /\ Convert(node, cmp.tcc)
  /\ val' = FromSR(cmp.tcc, andCC(node), sr)
  /\ pc' = "done"
  /\ UNCHANGED <<node, cmp, sr, ops, amount>>

LowerShift ==
  /\ pc = "shift"
  /\ IF node.constant THEN pc' = "ops" /\ ops' = LowerShifts(node.op, node.amount)
                      ELSE pc' = "test" /\ UNCHANGED ops
  /\ UNCHANGED <<node, cmp, sr, val, amount>>

ExecuteOp ==
  /\ pc = "ops"
  /\ IF ops = <<>> THEN pc' = "done" /\ UNCHANGED <<ops, val>>
                   ELSE /\ val' = Executed(Head(ops), val)
                        /\ ops' = Tail(ops)
                        /\ UNCHANGED pc
  /\ UNCHANGED <<node, cmp, sr, amount>>

\* cmp.b #0, amount; jeq RemBB
TestAmount ==
  /\ pc = "test"
  /\ sr' = CmpFlags(amount, 0)
  /\ pc' = IF Holds("E", sr') THEN "done" ELSE "loop"
  /\ UNCHANGED <<node, cmp, ops, val, amount>>

\* The shift; sub.b #1, amount; jne LoopBB
ShiftLoop ==
  /\ pc = "loop"
  /\ val' = LoopShift(node.op, val)
  /\ amount' = Minus(amount, 1)
  /\ sr' = CmpFlags(amount, 1)
  /\ pc' = IF Holds("NE", sr') THEN "loop" ELSE "done"
  /\ UNCHANGED <<node, cmp, ops>>

Next ==
  \/ LowerComparison
  \/ Compare
  \/ Jump
  \/ ReadSR
  \/ LowerShift
  \/ ExecuteOp
  \/ TestAmount
  \/ ShiftLoop

Spec == Init /\ [][Next]_vars

-------------------------------------------------------------------------------
(* Properties *)

\* The types of the variables.
TypeOK ==
  /\ node \in Comparison \cup Shift
  /\ pc \in {"lower", "compare", "use", "shift", "ops", "test", "loop", "done"}
  /\ cmp.lhs \in Operand /\ cmp.rhs \in Operand
  /\ sr \in [c : {0, 1}, z : {0, 1}, n : {0, 1}, v : {0, 1}]
  /\ val \in Word /\ amount \in 0..(Width - 1)

Meaning(cc, a, b) ==
  CASE cc = "EQ"  -> a = b
    [] cc = "NE"  -> a # b
    [] cc = "UGE" -> a >= b
    [] cc = "ULE" -> a <= b
    [] cc = "UGT" -> a > b
    [] cc = "ULT" -> a < b
    [] cc = "GE"  -> Signed(a) >= Signed(b)
    [] cc = "LE"  -> Signed(a) <= Signed(b)
    [] cc = "GT"  -> Signed(a) > Signed(b)
    [] cc = "LT"  -> Signed(a) < Signed(b)

Computed == val = Bit(Meaning(node.cc, node.lhs.val, node.rhs.val))

\* The constant EmitCMP counts up is the largest of its kind.
Wraps(n) ==
  LET counted == IF n.cc \in DOMAIN Mirrored THEN n.rhs ELSE n.lhs
      largest == IF n.cc \in {"UGE", "ULE", "UGT", "ULT"} THEN M - 1 ELSE Half - 1
  IN  n.cc \notin {"EQ", "NE"} /\ counted = Const(largest)

\* The carry that CMP #0 always sets is asked of a BIT, which sets another.
MissesCarry(n) ==
  n.cc \in {"UGE", "ULT"} /\ n.rhs = Const(0) /\ n.lhs.kind \in {"and", "trunc"}

(***************************************************************************)
(* The instructions a comparison becomes, with operands swapped, the       *)
(* constant counted up, the flags of CMP or BIT and the bits read off SR,  *)
(* compute what the node means.  Two kinds of branches that go one way     *)
(* whatever is compared are excepted, see BranchesHold.                    *)
(***************************************************************************)
ComparisonsHold ==
  pc = "done" /\ node.op \in Compares /\ ~Wraps(node) /\ ~MissesCarry(node) => Computed

(***************************************************************************)
(* Every branch on a value goes where its condition says.  It does not if  *)
(* every value fulfils the condition, or none, and the branch was not      *)
(* folded for that: EmitCMP then wraps a constant, or a BIT is made of an  *)
(* unsigned comparison with zero.                                          *)
(***************************************************************************)
BranchesHold == pc = "done" /\ node.op = "br_cc" /\ node.lhs.kind # "const" => Computed

Shifted(op, x, n) ==
  CASE op = "shl" -> (x * 2 ^ n) % M
    [] op = "srl" -> x \div 2 ^ n
    [] op = "sra" -> (Signed(x) \div 2 ^ n) % M

(***************************************************************************)
(* Both expansions of a shift, the byte moves and single bits of           *)
(* LowerShifts and the loop of EmitShiftInstr, shift by the amount.        *)
(***************************************************************************)
ShiftsHold ==
  pc = "done" /\ node.op \in Shifts => val = Shifted(node.op, node.val, node.amount)
===============================================================================
