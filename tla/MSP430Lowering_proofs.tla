------------------------- MODULE MSP430Lowering_proofs -------------------------
(***************************************************************************)
(* Comparisons are lowered rightly for words of every size, except two     *)
(* kinds of branches that every value or none takes, and as long as no AND *)
(* that is compared with zero through a TRUNCATE has other uses.           *)
(* Shifts are lowered rightly for words of every size.                     *)
(***************************************************************************)
EXTENDS MSP430Lowering, SequenceTheorems, TLAPS

\* What a condition code says of the operands of CMP.
TestOf(tcc, a, b) ==
  CASE tcc = "E"  -> a = b
    [] tcc = "NE" -> a # b
    [] tcc = "HS" -> a >= b
    [] tcc = "LO" -> a < b
    [] tcc = "GE" -> Signed(a) >= Signed(b)
    [] tcc = "L"  -> Signed(a) < Signed(b)

Codes == {"E", "NE", "HS", "LO", "GE", "L"}

\* Words are half negative, half not.
LEMMA Words ==
  /\ M \in Nat /\ M = Half + Half /\ Half \in Nat /\ Half > 0
  /\ \A x \in Word : x \in Nat /\ x < M
  /\ 0 \in Word
<1>1. Width - 1 \in 0..Width
  BY WidthAssumption
<1>2. Half \in Nat /\ Half > 0
  BY <1>1, PowerAssumption DEF Half
<1> QED BY <1>2 DEF M, Word

\* A constant is reduced to a word.
LEMMA Constants ==
  /\ \A c \in Word : c + 1 < M => Const(c + 1) = [kind |-> "const", val |-> c + 1]
  /\ Const((M - 1) + 1) = [kind |-> "const", val |-> 0]
  /\ Const(0) = [kind |-> "const", val |-> 0]
<1>1. \A c \in Word : c + 1 < M => (c + 1) % M = c + 1
  BY Words
<1>2. ((M - 1) + 1) % M = 0
  BY Words
<1>3. 0 % M = 0
  BY Words
<1> QED BY <1>1, <1>2, <1>3 DEF Const

\* Each code is decided by the flags of CMP.
LEMMA CmpDecides ==
  ASSUME NEW a \in Word, NEW b \in Word, NEW tcc \in Codes
  PROVE  Holds(tcc, CmpFlags(a, b)) <=> TestOf(tcc, a, b)
<1> DEFINE f == CmpFlags(a, b)
<1>1. (f.c = 1 <=> a >= b) /\ (f.c = 0 <=> a < b)
  BY Words DEF CmpFlags, Bit
<1>2. (f.z = 1 <=> a = b) /\ (f.z = 0 <=> a # b)
  BY DEF CmpFlags, Bit
<1>3. /\ f.n = f.v <=> Signed(a) >= Signed(b)
      /\ f.n # f.v <=> Signed(a) < Signed(b)
  BY Words DEF CmpFlags, Bit, Minus, Signed
<1> QED BY <1>1, <1>2, <1>3 DEF Codes, Holds, TestOf

\* All but carry are decided by the flags of BIT as by those of CMP #0.
LEMMA BitDecides ==
  ASSUME NEW a \in Word, NEW tcc \in Codes \ {"HS", "LO"}
  PROVE  Holds(tcc, BitFlags(a)) <=> TestOf(tcc, a, 0)
<1> DEFINE f == BitFlags(a)
<1>1. (f.z = 1 <=> a = 0) /\ (f.z = 0 <=> a # 0)
  BY DEF BitFlags, Bit
<1>2. /\ f.n = f.v <=> Signed(a) >= Signed(0)
      /\ f.n # f.v <=> Signed(a) < Signed(0)
  BY Words DEF BitFlags, Bit, Signed
<1> QED BY <1>1, <1>2 DEF Codes, Holds, TestOf

Emitted(n) == EmitCMP(n.lhs, n.rhs, n.cc)

\* The cases of TestOf and Meaning, one by one.
LEMMA Tests ==
  ASSUME NEW a, NEW b
  PROVE  /\ TestOf("E", a, b) <=> a = b
         /\ TestOf("NE", a, b) <=> a # b
         /\ TestOf("HS", a, b) <=> a >= b
         /\ TestOf("LO", a, b) <=> a < b
         /\ TestOf("GE", a, b) <=> Signed(a) >= Signed(b)
         /\ TestOf("L", a, b) <=> Signed(a) < Signed(b)
BY DEF TestOf

LEMMA Meanings ==
  ASSUME NEW a, NEW b
  PROVE  /\ Meaning("EQ", a, b) <=> a = b
         /\ Meaning("NE", a, b) <=> a # b
         /\ Meaning("UGE", a, b) <=> a >= b
         /\ Meaning("ULE", a, b) <=> a <= b
         /\ Meaning("UGT", a, b) <=> a > b
         /\ Meaning("ULT", a, b) <=> a < b
         /\ Meaning("GE", a, b) <=> Signed(a) >= Signed(b)
         /\ Meaning("LE", a, b) <=> Signed(a) <= Signed(b)
         /\ Meaning("GT", a, b) <=> Signed(a) > Signed(b)
         /\ Meaning("LT", a, b) <=> Signed(a) < Signed(b)
BY DEF Meaning

\* A constant operand is the constant of its word.
LEMMA ConstantOperand ==
  ASSUME NEW o \in Operand, o.kind = "const"
  PROVE  o = Const(o.val)
<1>1. o = [kind |-> "const", val |-> o.val] /\ o.val \in Word
  BY DEF Operand
<1>2. o.val % M = o.val
  BY <1>1, Words
<1> QED BY <1>1, <1>2 DEF Const

\* What one of OrderCMP's results says, for operands it does not wrap and a
\* BIT whose carry it does not use.
LEMMA OrderMeans ==
  ASSUME NEW l \in Operand, NEW r \in Operand, NEW cc \in DOMAIN ByFlags,
         l.kind = "const" => l.val # (IF cc \in {"UGE", "ULT"} THEN M - 1 ELSE Half - 1),
         r = Const(0) /\ cc \in {"UGE", "ULT"} => l.kind \notin {"and", "trunc"}
  PROVE  LET c == OrderCMP(l, r, cc)
         IN  /\ c.lhs \in Operand /\ c.rhs \in Operand /\ c.tcc \in Codes \ {"E", "NE"}
             /\ TestOf(c.tcc, c.lhs.val, c.rhs.val) <=> Meaning(cc, l.val, r.val)
             /\ SelectsBIT(c) => c.tcc \notin {"HS", "LO"}
<1> DEFINE c == OrderCMP(l, r, cc)
<1>1. l.val \in Word /\ r.val \in Word /\ cc \in {"UGE", "ULT", "GE", "LT"}
  BY DEF Operand, ByFlags
<1>2. CASE l.kind # "const"
  <2>1. c = [lhs |-> l, rhs |-> r, tcc |-> ByFlags[cc]]
    BY <1>2 DEF OrderCMP
  <2>2. /\ c.tcc \in Codes \ {"E", "NE"}
        /\ TestOf(c.tcc, l.val, r.val) <=> Meaning(cc, l.val, r.val)
        /\ c.tcc \in {"HS", "LO"} => cc \in {"UGE", "ULT"}
    <3>1. ByFlags[cc] \in Codes \ {"E", "NE"} /\ (ByFlags[cc] \in {"HS", "LO"} => cc \in {"UGE", "ULT"})
      BY <1>1 DEF ByFlags, Codes
    <3>2. TestOf(ByFlags[cc], l.val, r.val) <=> Meaning(cc, l.val, r.val)
      <4>1. CASE cc = "UGE" BY <4>1, Tests, Meanings DEF ByFlags
      <4>2. CASE cc = "ULT" BY <4>2, Tests, Meanings DEF ByFlags
      <4>3. CASE cc = "GE" BY <4>3, Tests, Meanings DEF ByFlags
      <4>4. CASE cc = "LT" BY <4>4, Tests, Meanings DEF ByFlags
      <4> QED BY <1>1, <4>1, <4>2, <4>3, <4>4
    <3> QED BY <2>1, <3>1, <3>2
  <2>3. SelectsBIT(c) => c.tcc \notin {"HS", "LO"}
    BY <2>1, <2>2 DEF SelectsBIT
  <2> QED BY <2>1, <2>2, <2>3
<1>3. CASE l.kind = "const"
  <2> DEFINE next == IF l.val = M - 1 THEN 0 ELSE l.val + 1
  <2>1. Const(l.val + 1) = [kind |-> "const", val |-> next] /\ next \in Word
    BY <1>1, Words, Constants DEF Word
  <2>2. c = [lhs |-> r, rhs |-> [kind |-> "const", val |-> next], tcc |-> ByNext[cc]]
    BY <1>3, <2>1 DEF OrderCMP
  <2>3. [kind |-> "const", val |-> next] \in Operand
    BY <2>1 DEF Operand
  <2>4. c.tcc \in Codes \ {"E", "NE"} /\ (c.tcc \in {"HS", "LO"} => cc \in {"UGE", "ULT"})
    BY <1>1, <2>2 DEF ByNext, Codes
  <2>5. cc \in {"UGE", "ULT"} => next = l.val + 1 /\ next # 0
    BY <1>1, <1>3, Words
  <2>6. TestOf(c.tcc, r.val, next) <=> Meaning(cc, l.val, r.val)
    <3>1. CASE cc = "UGE"
      BY <1>1, <2>2, <2>5, <3>1, Words, Tests, Meanings DEF ByNext, Word
    <3>2. CASE cc = "ULT"
      BY <1>1, <2>2, <2>5, <3>2, Words, Tests, Meanings DEF ByNext, Word
    <3>3. cc \in {"GE", "LT"} => Signed(next) = Signed(l.val) + 1
      BY <1>1, <1>3, Words DEF Signed
    <3>4. Signed(l.val) \in Int /\ Signed(r.val) \in Int
      BY <1>1, Words DEF Signed
    <3>5. CASE cc = "GE"
      BY <2>2, <3>3, <3>4, <3>5, Tests, Meanings DEF ByNext
    <3>6. CASE cc = "LT"
      BY <2>2, <3>3, <3>4, <3>6, Tests, Meanings DEF ByNext
    <3> QED BY <1>1, <3>1, <3>2, <3>5, <3>6
  <2>7. SelectsBIT(c) => next = 0
    BY <2>2, Constants DEF SelectsBIT
  <2> QED BY <2>2, <2>3, <2>4, <2>5, <2>6, <2>7
<1> QED BY <1>2, <1>3

\* A comparison whose constant, if any, does not wrap and whose carry is CMP's.
Faithful(n) == n \in Comparison /\ Combined(n) /\ ~Wraps(n) /\ ~MissesCarry(n)

\* The comparison made for such a node says what the node says.
LEMMA EmittedMeans ==
  ASSUME NEW n, Faithful(n)
  PROVE  LET c == Emitted(n)
         IN  /\ c.lhs \in Operand /\ c.rhs \in Operand /\ c.tcc \in Codes
             /\ c.tcc = "NE" => n.cc = "NE"
             /\ TestOf(c.tcc, c.lhs.val, c.rhs.val) <=> Meaning(n.cc, n.lhs.val, n.rhs.val)
             /\ SelectsBIT(c) => c.tcc \notin {"HS", "LO"}
<1> DEFINE c == Emitted(n)
<1>1. /\ n.lhs \in Operand /\ n.rhs \in Operand /\ n.cc \in Conditions
      /\ n.lhs.val \in Word /\ n.rhs.val \in Word
  BY DEF Faithful, Comparison, Operand
<1>2. n.lhs.kind = "const" => n.rhs.kind = "const"
  BY DEF Faithful, Combined
<1>3. \A x \in Word : x \in Int /\ Signed(x) \in Int
  BY Words DEF Signed
<1>4. CASE n.cc = "EQ"
  <2>1. \/ c = [lhs |-> n.lhs, rhs |-> n.rhs, tcc |-> "E"]
        \/ c = [lhs |-> n.rhs, rhs |-> n.lhs, tcc |-> "E"]
    BY <1>4 DEF Emitted, EmitCMP, EqualityCMP, Mirrored
  <2>2. c.lhs \in Operand /\ c.rhs \in Operand /\ c.tcc = "E"
    BY <1>1, <2>1
  <2>3. TestOf("E", c.lhs.val, c.rhs.val) <=> Meaning("EQ", n.lhs.val, n.rhs.val)
    BY <2>1, Tests, Meanings
  <2> QED BY <1>4, <2>2, <2>3 DEF Codes
<1>5. CASE n.cc = "NE"
  <2>1. \/ c = [lhs |-> n.lhs, rhs |-> n.rhs, tcc |-> "NE"]
        \/ c = [lhs |-> n.rhs, rhs |-> n.lhs, tcc |-> "NE"]
    BY <1>5 DEF Emitted, EmitCMP, EqualityCMP, Mirrored
  <2>2. c.lhs \in Operand /\ c.rhs \in Operand /\ c.tcc = "NE"
    BY <1>1, <2>1
  <2>3. TestOf("NE", c.lhs.val, c.rhs.val) <=> Meaning("NE", n.lhs.val, n.rhs.val)
    BY <2>1, Tests, Meanings
  <2> QED BY <1>5, <2>2, <2>3 DEF Codes
<1>6. CASE n.cc \in {"UGE", "ULT", "GE", "LT"}
  <2>1. c = OrderCMP(n.lhs, n.rhs, n.cc)
    BY <1>6 DEF Emitted, EmitCMP, Mirrored
  <2>2. /\ n.lhs.kind = "const" => n.lhs.val # (IF n.cc \in {"UGE", "ULT"} THEN M - 1 ELSE Half - 1)
        /\ n.rhs = Const(0) /\ n.cc \in {"UGE", "ULT"} => n.lhs.kind \notin {"and", "trunc"}
    <3>1. n.lhs # Const(IF n.cc \in {"UGE", "ULT"} THEN M - 1 ELSE Half - 1)
      BY <1>6 DEF Faithful, Wraps, Mirrored
    <3> QED BY <1>1, <3>1, ConstantOperand DEF Faithful, MissesCarry
  <2> QED BY <1>1, <1>6, <2>1, <2>2, OrderMeans DEF ByFlags
<1>7. CASE n.cc \in {"ULE", "UGT", "LE", "GT"}
  <2>1. c = OrderCMP(n.rhs, n.lhs, Mirrored[n.cc]) /\ Mirrored[n.cc] \in DOMAIN ByFlags
    BY <1>7 DEF Emitted, EmitCMP, Mirrored, ByFlags
  <2>2. /\ n.rhs.kind = "const" =>
             n.rhs.val # (IF Mirrored[n.cc] \in {"UGE", "ULT"} THEN M - 1 ELSE Half - 1)
        /\ n.lhs = Const(0) => n.rhs.kind \notin {"and", "trunc"}
    <3>1. n.rhs # Const(IF Mirrored[n.cc] \in {"UGE", "ULT"} THEN M - 1 ELSE Half - 1)
      BY <1>7 DEF Faithful, Wraps, Mirrored
    <3>2. n.lhs = Const(0) => n.rhs.kind = "const"
      BY <1>2, Constants
    <3> QED BY <1>1, <3>1, <3>2, ConstantOperand
  <2>3. Meaning(Mirrored[n.cc], n.rhs.val, n.lhs.val) <=> Meaning(n.cc, n.lhs.val, n.rhs.val)
    <3>1. CASE n.cc = "ULE" BY <1>1, <1>3, <3>1, Meanings DEF Mirrored
    <3>2. CASE n.cc = "UGT" BY <1>1, <1>3, <3>2, Meanings DEF Mirrored
    <3>3. CASE n.cc = "LE" BY <1>1, <1>3, <3>3, Meanings DEF Mirrored
    <3>4. CASE n.cc = "GT" BY <1>1, <1>3, <3>4, Meanings DEF Mirrored
    <3> QED BY <1>7, <3>1, <3>2, <3>3, <3>4
  <2> QED BY <1>1, <2>1, <2>2, <2>3, OrderMeans
<1> QED BY <1>1, <1>4, <1>5, <1>6, <1>7 DEF Conditions

FlagsOf(c) == IF SelectsBIT(c) THEN BitFlags(c.lhs.val) ELSE CmpFlags(c.lhs.val, c.rhs.val)

ValueOf(n, c, f) ==
  IF Convert(n, c.tcc) THEN FromSR(c.tcc, andCC(n), f) ELSE Bit(Holds(c.tcc, f))

\* The code for a comparison gives the value of the node.
LEMMA ValueMeans ==
  ASSUME "shared" \notin AndKinds, NEW n, Faithful(n)
  PROVE  ValueOf(n, Emitted(n), FlagsOf(Emitted(n)))
           = Bit(Meaning(n.cc, n.lhs.val, n.rhs.val))
<1> DEFINE c == Emitted(n)
           f == FlagsOf(c)
<1>1. /\ c.lhs.val \in Word /\ c.rhs.val \in Word /\ c.tcc \in Codes
      /\ TestOf(c.tcc, c.lhs.val, c.rhs.val) <=> Meaning(n.cc, n.lhs.val, n.rhs.val)
      /\ SelectsBIT(c) => c.tcc \notin {"HS", "LO"}
      /\ c.tcc = "NE" => n.cc = "NE"
  BY EmittedMeans DEF Operand
<1>2. SelectsBIT(c) => c.rhs.val = 0 /\ c.tcc \notin {"HS", "LO"}
  BY <1>1, Constants DEF SelectsBIT
<1>3. Holds(c.tcc, f) <=> TestOf(c.tcc, c.lhs.val, c.rhs.val)
  <2>1. CASE SelectsBIT(c)
    BY <1>1, <1>2, <2>1, BitDecides DEF FlagsOf
  <2>2. CASE ~SelectsBIT(c)
    BY <1>1, <2>2, CmpDecides DEF FlagsOf
  <2> QED BY <2>1, <2>2
<1>4. f.c \in {0, 1} /\ f.z \in {0, 1}
  BY DEF FlagsOf, BitFlags, CmpFlags, Bit
<1>5. CASE ~Convert(n, c.tcc)
  BY <1>1, <1>3, <1>5 DEF ValueOf, Bit
<1>6. CASE Convert(n, c.tcc) /\ ~(c.tcc = "NE" /\ andCC(n))
  <2>1. FromSR(c.tcc, andCC(n), f) = Bit(Holds(c.tcc, f))
    <3>1. CASE c.tcc = "HS" BY <1>4, <3>1 DEF FromSR, Holds, Bit
    <3>2. CASE c.tcc = "LO" BY <1>4, <3>2 DEF FromSR, Holds, Bit
    <3>3. CASE c.tcc = "E" BY <1>4, <3>3 DEF FromSR, Holds, Bit
    <3>4. CASE c.tcc = "NE" /\ ~andCC(n) BY <1>4, <3>4 DEF FromSR, Holds, Bit
    <3> QED BY <1>6, <3>1, <3>2, <3>3, <3>4 DEF Convert
  <2> QED BY <1>1, <1>3, <1>6, <2>1 DEF ValueOf, Bit
<1>7. CASE Convert(n, c.tcc) /\ c.tcc = "NE" /\ andCC(n)
  <2>1. n.lhs.kind \in {"and", "trunc"} /\ n.rhs = Const(0)
    BY <1>7 DEF andCC, Faithful, Comparison, Operand
  <2>2. c = [lhs |-> n.lhs, rhs |-> n.rhs, tcc |-> "NE"]
    BY <1>1, <1>7, <2>1 DEF Emitted, EmitCMP, EqualityCMP, Mirrored
  <2>3. f = BitFlags(n.lhs.val)
    BY <2>1, <2>2 DEF FlagsOf, SelectsBIT
  <2>4. n.rhs.val = 0
    BY <2>1, Constants
  <2>5. f.c = Bit(n.lhs.val # n.rhs.val)
    BY <2>3, <2>4 DEF BitFlags
  <2>6. Meaning(n.cc, n.lhs.val, n.rhs.val) <=> n.lhs.val # n.rhs.val
    BY <1>1, <1>7, Meanings
  <2> QED BY <1>7, <2>5, <2>6 DEF ValueOf, FromSR, Bit
<1> QED BY <1>5, <1>6, <1>7

-------------------------------------------------------------------------------
(* The specification *)

\* What is known of a node's code at each point.
CompareInv ==
  node.op \in Compares =>
    /\ node \in Comparison /\ Combined(node)
    /\ pc \in {"lower", "compare", "use", "done"}
    /\ pc \in {"compare", "use"} => cmp = Emitted(node)
    /\ pc = "use" => sr = FlagsOf(cmp)
    /\ pc = "done" /\ Faithful(node) => Computed

\* A node keeps its kind.
ShiftInv ==
  /\ node.op \in Compares \cup Shifts
  /\ node.op \in Shifts => pc \in {"shift", "ops", "test", "loop", "done"}

(***************************************************************************)
(* EmitCMP, LowerSETCC, LowerBR_CC and LowerSELECT_CC are right for words  *)
(* of every size, provided an AND compared with zero has no other uses.    *)
(* Excepted are the branches on a comparison that wraps its constant, and  *)
(* on an unsigned one of an AND with zero: with BranchesHold these go the  *)
(* wrong way.                                                              *)
(***************************************************************************)
THEOREM ComparisonsCorrect == ASSUME "shared" \notin AndKinds PROVE Spec => []ComparisonsHold
<1> DEFINE Inv == CompareInv /\ ShiftInv
<1>1. Init => Inv
  <2>1. ASSUME Init, InitCompare PROVE Inv
    BY <2>1 DEF InitCompare, CompareInv, ShiftInv, Comparison, Compares, Shifts
  <2>2. ASSUME Init, InitShift PROVE Inv
    BY <2>2 DEF InitShift, CompareInv, ShiftInv, Shift, Compares, Shifts
  <2> QED BY <2>1, <2>2 DEF Init
<1>2. Inv /\ [Next]_vars => Inv'
  <2> SUFFICES ASSUME Inv, [Next]_vars PROVE Inv'
    OBVIOUS
  <2> USE DEF CompareInv, ShiftInv
  <2>1. CASE LowerComparison
    BY <2>1 DEF LowerComparison, Emitted, Compares, Shifts
  <2>2. CASE Compare
    BY <2>2 DEF Compare, FlagsOf, Compares, Shifts
  <2>3. CASE Jump
    <3>1. CASE node.op \in Compares
      <4>1. val' = ValueOf(node, cmp, sr)
        BY <2>3 DEF Jump, ValueOf
      <4>2. Faithful(node) => val' = Bit(Meaning(node.cc, node.lhs.val, node.rhs.val))
        BY <2>3, <3>1, <4>1, ValueMeans DEF Jump
      <4> QED BY <2>3, <3>1, <4>2 DEF Jump, Computed, Compares, Shifts
    <3> QED BY <2>3, <3>1 DEF Jump, Compares, Shifts
  <2>4. CASE ReadSR
    <3>1. CASE node.op \in Compares
      <4>1. val' = ValueOf(node, cmp, sr)
        BY <2>4 DEF ReadSR, ValueOf
      <4>2. Faithful(node) => val' = Bit(Meaning(node.cc, node.lhs.val, node.rhs.val))
        BY <2>4, <3>1, <4>1, ValueMeans DEF ReadSR
      <4> QED BY <2>4, <3>1, <4>2 DEF ReadSR, Computed, Compares, Shifts
    <3> QED BY <2>4, <3>1 DEF ReadSR, Compares, Shifts
  <2>5. CASE LowerShift
    BY <2>5 DEF LowerShift, Compares, Shifts
  <2>6. CASE ExecuteOp
    BY <2>6 DEF ExecuteOp, Compares, Shifts
  <2>7. CASE TestAmount
    BY <2>7 DEF TestAmount, Compares, Shifts
  <2>8. CASE ShiftLoop
    BY <2>8 DEF ShiftLoop, Compares, Shifts
  <2>9. CASE UNCHANGED vars
    BY <2>9 DEF vars, Computed
  <2> QED BY <2>1, <2>2, <2>3, <2>4, <2>5, <2>6, <2>7, <2>8, <2>9 DEF Next
<1>3. Inv => ComparisonsHold
  BY DEF CompareInv, Faithful, ComparisonsHold
<1> QED BY <1>1, <1>2, <1>3, PTL DEF Spec

-------------------------------------------------------------------------------
(* Shifts by one bit *)

\* Quotient and remainder are unique.
LEMMA Division ==
  ASSUME NEW b \in Nat, b > 0, NEW q \in Int, NEW r \in Int, 0 <= r, r < b
  PROVE  (b * q + r) % b = r /\ (b * q + r) \div b = q
<1> DEFINE a == b * q + r
<1>1. /\ a \in Int /\ (a % b) \in Int /\ (a \div b) \in Int
      /\ 0 <= (a % b) /\ (a % b) < b /\ a = b * (a \div b) + (a % b)
  OBVIOUS
<1>2. b * (a \div b - q) = r - (a % b) /\ b * (q - a \div b) = (a % b) - r
  BY <1>1
<1>3. \A d \in Int : d >= 1 => b * d >= b
  OBVIOUS
<1> HIDE DEF a
<1>4. ~(a \div b - q >= 1) /\ ~(q - a \div b >= 1)
  BY <1>1, <1>2, <1>3
<1>5. a \div b = q
  BY <1>1, <1>4
<1>6. a % b = r
  BY <1>1, <1>2, <1>5
<1> QED BY <1>5, <1>6 DEF a

\* What % and \div are.
LEMMA Divided ==
  ASSUME NEW b \in Nat, b > 0, NEW a \in Int
  PROVE  /\ (a % b) \in Nat /\ (a % b) < b /\ (a \div b) \in Int
         /\ a = b * (a \div b) + (a % b)
OBVIOUS

LEMMA Powers ==
  /\ 2 ^ 0 = 1
  /\ \A n \in 0..Width : 2 ^ n \in Nat /\ 2 ^ n > 0 /\ 2 ^ (n + 1) = 2 * 2 ^ n
  /\ 2 ^ Width = M
  /\ ByteBits \in 1..Width /\ Width \in Nat
  /\ Byte \in Nat /\ Byte > 0
  /\ Width = 2 * ByteBits => M = Byte * Byte
<1>1. ByteBits \in 1..Width /\ Width \in Nat /\ Width - 1 \in 0..Width
  BY WidthAssumption
<1>2. \A n \in 0..Width : 2 ^ n \in Nat /\ 2 ^ n > 0 /\ 2 ^ (n + 1) = 2 * 2 ^ n
  BY PowerAssumption
<1>3. 2 ^ ((Width - 1) + 1) = M
  BY <1>1, <1>2 DEF M, Half
<1>4. (Width - 1) + 1 = Width
  BY <1>1
<1>5. 2 ^ Width = M
  BY <1>3, <1>4
<1>6. Byte \in Nat /\ Byte > 0
  BY <1>1, <1>2 DEF Byte
<1>7. Width = 2 * ByteBits => M = Byte * Byte
  BY <1>5, PowerAssumption DEF Byte
<1>8. 2 ^ 0 = 1
  OBVIOUS
<1> QED BY <1>1, <1>2, <1>5, <1>6, <1>7, <1>8

\* To divide by p and then by 2 is to divide by 2 * p.
LEMMA Halved ==
  ASSUME NEW a \in Int, NEW p \in Nat, p > 0
  PROVE  (a \div p) \div 2 = a \div (2 * p)
<1> DEFINE t == a \div p
           r == a % p
           q == t \div 2
           s == t % 2
<1>1. t \in Int /\ r \in Nat /\ r < p /\ a = p * t + r
  BY Divided
<1>2. q \in Int /\ s \in {0, 1} /\ t = 2 * q + s
  BY <1>1
<1> HIDE DEF t, r, q, s
<1>3. a = (2 * p) * q + (p * s + r)
  <2>1. p * t = p * (2 * q) + p * s
    BY <1>2
  <2> QED BY <1>1, <1>2, <2>1
<1>4. p * s + r \in Int /\ 0 <= p * s + r /\ p * s + r < 2 * p
  BY <1>1, <1>2
<1>5. ((2 * p) * q + (p * s + r)) \div (2 * p) = q
  BY <1>2, <1>4, Division, 2 * p \in Nat /\ 2 * p > 0
<1> QED BY <1>3, <1>5 DEF q, t

\* RLA shifts left by one bit more.
LEMMA LeftOneMore ==
  ASSUME NEW x \in Word, NEW p \in Nat
  PROVE  RLA((x * p) % M) = (x * (2 * p)) % M
<1> DEFINE q == (x * p) \div M
           r == (x * p) % M
<1>1. x \in Nat /\ M \in Nat /\ M > 0 /\ x * p \in Int
  BY Words
<1>2. q \in Int /\ r \in Nat /\ r < M /\ x * p = M * q + r
  BY <1>1, Divided
<1>3. x * (2 * p) = 2 * (x * p)
  BY <1>1
<1> HIDE DEF q, r
<1>4. CASE 2 * r < M
  <2> DEFINE u == 2 * q
             v == 2 * r
  <2>1. /\ x * (2 * p) = M * u + v
        /\ u \in Int /\ v \in Int /\ 0 <= v /\ v < M
    BY <1>1, <1>2, <1>3, <1>4
  <2>2. v % M = v
    BY <1>1, <2>1
  <2>3. RLA(r) = v % M
    BY DEF RLA
  <2> HIDE DEF u, v
  <2>4. (M * u + v) % M = v
    BY <1>1, <2>1, Division
  <2> QED BY <2>1, <2>2, <2>3, <2>4 DEF r
<1>5. CASE 2 * r >= M
  <2> DEFINE u == 2 * q + 1
             v == 2 * r - M
  <2>1. /\ x * (2 * p) = M * u + v
        /\ u \in Int /\ v \in Int /\ 0 <= v /\ v < M
    BY <1>1, <1>2, <1>3, <1>5
  <2>2. 2 * r = M * 1 + v
    BY <1>1, <1>2
  <2>3. RLA(r) = (2 * r) % M
    BY DEF RLA
  <2> HIDE DEF u, v
  <2>4. (M * u + v) % M = v /\ (M * 1 + v) % M = v
    BY <1>1, <2>1, Division
  <2> QED BY <2>1, <2>2, <2>3, <2>4 DEF r
<1> QED BY <1>1, <1>2, <1>4, <1>5

\* A signed quotient is in the range of the dividend.
LEMMA SignedQuotient ==
  ASSUME NEW a \in Int, NEW k \in Nat, k > 0, -k <= a, a < k, NEW p \in Nat, p > 0
  PROVE  (a \div p) \in Int /\ -k <= (a \div p) /\ (a \div p) < k
<1> DEFINE t == a \div p
           r == a % p
<1>1. t \in Int /\ r \in Nat /\ r < p /\ a = p * t + r
  BY Divided
<1> HIDE DEF t, r
<1>2. ~(t >= k)
  <2> SUFFICES ASSUME t >= k PROVE FALSE
    OBVIOUS
  <2>1. p * t >= t
    BY <1>1
  <2> QED BY <1>1, <2>1
<1>3. ~(t < -k)
  <2> SUFFICES ASSUME t + 1 <= -k PROVE FALSE
    BY <1>1
  <2>1. p * (t + 1) <= t + 1
    BY <1>1
  <2>2. a < p * (t + 1)
    BY <1>1
  <2> QED BY <1>1, <2>1, <2>2
<1> QED BY <1>1, <1>2, <1>3 DEF t

\* What a number of either sign is as a word.
LEMMA AsWord ==
  ASSUME NEW t \in Int, -Half <= t, t < Half
  PROVE  /\ t % M = (IF t >= 0 THEN t ELSE t + M)
         /\ (t % M) \in Word
         /\ Signed(t % M) = t
<1>1. Half \in Nat /\ Half > 0 /\ M = Half + Half /\ M \in Nat
  BY Words
<1>2. CASE t >= 0
  BY <1>1, <1>2 DEF Word, Signed
<1>3. CASE t < 0
  <2> DEFINE v == t + M
  <2>1. t = M * (-1) + v /\ v \in Nat /\ v < M /\ v >= Half
    BY <1>1, <1>3
  <2> HIDE DEF v
  <2>2. (M * (-1) + v) % M = v
    BY <1>1, <2>1, Division
  <2> QED BY <1>1, <1>3, <2>1, <2>2 DEF Word, Signed, v
<1> QED BY <1>2, <1>3

\* RRA shifts right by one bit more, and keeps the sign.
LEMMA ArithmeticOneMore ==
  ASSUME NEW a \in Int, -Half <= a, a < Half, NEW p \in Nat, p > 0
  PROVE  RRA((a \div p) % M) = (a \div (2 * p)) % M
<1> DEFINE t == a \div p
           h == t \div 2
<1>1. Half \in Nat /\ Half > 0 /\ M = Half + Half
  BY Words
<1>2. t \in Int /\ -Half <= t /\ t < Half
  BY <1>1, SignedQuotient
<1>3. h \in Int /\ -Half <= h /\ h < Half /\ (h >= 0 <=> t >= 0)
  BY <1>1, <1>2
<1>4. h = a \div (2 * p)
  BY Halved
<1> HIDE DEF t
<1>5. RRA(t % M) = h % M
  <2>1. CASE t >= 0
    BY <1>1, <1>2, <1>3, <2>1, AsWord DEF RRA
  <2>2. CASE t < 0
    <3>1. t % M = t + (Half + Half) /\ h % M = h + M /\ t % M >= Half
      BY <1>1, <1>2, <1>3, <2>2, AsWord
    <3>2. (t + (Half + Half)) \div 2 = h + Half
      BY <1>1, <1>2
    <3> QED BY <1>1, <1>3, <3>1, <3>2 DEF RRA
  <2> QED BY <1>2, <2>1, <2>2
<1> QED BY <1>4, <1>5 DEF t

\* RRC of a clear carry shifts right by one bit more, and so does RRA once
\* the sign is clear.
LEMMA RightOneMore ==
  ASSUME NEW x \in Word, NEW p \in Nat, p > 0
  PROVE  /\ RRC(x \div p, 0) = x \div (2 * p)
         /\ p > 1 => RRA(x \div p) = x \div (2 * p)
<1> DEFINE t == x \div p
           r == x % p
<1>1. Half \in Nat /\ Half > 0 /\ M = Half + Half /\ x \in Nat /\ x < M
  BY Words
<1>2. t \in Int /\ r \in Nat /\ x = p * t + r
  BY <1>1, Divided
<1>3. t \div 2 = x \div (2 * p)
  BY <1>1, Halved
<1> HIDE DEF t, r
<1>4. RRC(t, 0) = t \div 2
  BY <1>1, <1>2 DEF RRC
<1>5. p > 1 => t < Half
  <2> SUFFICES ASSUME p > 1, t >= Half PROVE FALSE
    BY <1>1, <1>2
  <2>1. p * t >= 2 * t
    BY <1>1, <1>2
  <2> QED BY <1>1, <1>2, <2>1
<1>6. p > 1 => RRA(t) = t \div 2
  BY <1>1, <1>2, <1>5 DEF RRA
<1> QED BY <1>3, <1>4, <1>6 DEF t

\* The cases of Shifted, LoopShift and Executed, one by one.
LEMMA ShiftedIs ==
  ASSUME NEW x, NEW n
  PROVE  /\ Shifted("shl", x, n) = (x * 2 ^ n) % M
         /\ Shifted("srl", x, n) = x \div 2 ^ n
         /\ Shifted("sra", x, n) = (Signed(x) \div 2 ^ n) % M
BY DEF Shifted

LEMMA LoopShiftIs ==
  ASSUME NEW x
  PROVE  LoopShift("shl", x) = RLA(x) /\ LoopShift("sra", x) = RRA(x) /\ LoopShift("srl", x) = RRC(x, 0)
BY DEF LoopShift

LEMMA ExecutedIs ==
  ASSUME NEW x
  PROVE  /\ Executed("zext", x) = ZEXT(x)
         /\ Executed("sxt", x) = SXT(x)
         /\ Executed("swpb", x) = SWPB(x)
         /\ Executed("rla", x) = RLA(x)
         /\ Executed("rra", x) = RRA(x)
         /\ Executed("rrcl", x) = RRC(x, 0)
BY DEF Executed

LEMMA SignedRange ==
  ASSUME NEW x \in Word
  PROVE  Signed(x) \in Int /\ -Half <= Signed(x) /\ Signed(x) < Half
BY Words DEF Signed

\* A word shifted is a word.
LEMMA ShiftedWord ==
  ASSUME NEW op \in Shifts, NEW x \in Word, NEW n \in 0..Width
  PROVE  Shifted(op, x, n) \in Word
<1> DEFINE p == 2 ^ n
<1>1. p \in Nat /\ p > 0
  BY Powers
<1>2. x \in Nat /\ x < M /\ M \in Nat /\ M > 0 /\ Half \in Nat /\ Half > 0
  BY Words
<1> HIDE DEF p
<1>3. (x * p) % M \in Word
  <2>1. x * p \in Int
    BY <1>1, <1>2
  <2> QED BY <1>2, <2>1, Divided DEF Word
<1>4. x \div p \in Word
  <2>1. (x \div p) \in Int /\ (x \div p) < M
    BY <1>1, <1>2, SignedQuotient
  <2>2. x \div p >= 0
    BY <1>1, <1>2
  <2> QED BY <1>2, <2>1, <2>2 DEF Word
<1>5. (Signed(x) \div p) % M \in Word
  BY <1>1, <1>2, SignedRange, SignedQuotient, AsWord
<1> QED BY <1>3, <1>4, <1>5, ShiftedIs DEF Shifts, p

\* A word shifted by nothing is the same.
LEMMA NotShifted ==
  ASSUME NEW op \in Shifts, NEW x \in Word
  PROVE  Shifted(op, x, 0) = x
<1>1. x \in Nat /\ x < M /\ M \in Nat /\ M > 0 /\ Half \in Nat /\ M = Half + Half
  BY Words
<1>2. (x * 1) % M = x /\ x \div 1 = x /\ Signed(x) \div 1 = Signed(x)
  BY <1>1, SignedRange
<1>3. Signed(x) % M = x
  BY <1>1, SignedRange, AsWord DEF Signed
<1> DEFINE p == 2 ^ 0
<1>4. p = 1
  BY Powers
<1>5. /\ Shifted("shl", x, 0) = (x * p) % M
      /\ Shifted("srl", x, 0) = x \div p
      /\ Shifted("sra", x, 0) = (Signed(x) \div p) % M
  BY ShiftedIs, Zenon
<1> HIDE DEF p
<1>6. Shifted("shl", x, 0) = x /\ Shifted("srl", x, 0) = x /\ Shifted("sra", x, 0) = x
  BY <1>2, <1>3, <1>4, <1>5
<1> QED BY <1>6 DEF Shifts

\* Every turn of the loop, and every instruction for a single bit, shifts by
\* one more.
LEMMA OneMore ==
  ASSUME NEW op \in Shifts, NEW x \in Word, NEW n \in 0..(Width - 1)
  PROVE  LET y == Shifted(op, x, n)
             z == Shifted(op, x, n + 1)
         IN  /\ LoopShift(op, y) = z
             /\ op = "shl" => RLA(y) = z
             /\ op = "sra" => RRA(y) = z
             /\ op = "srl" => RRC(y, 0) = z /\ (n > 0 => RRA(y) = z)
<1> DEFINE p == 2 ^ n
           y == Shifted(op, x, n)
           z == Shifted(op, x, n + 1)
<1>1. n \in 0..Width /\ n + 1 \in 0..Width
  BY Powers
<1>2. p \in Nat /\ p > 0 /\ 2 ^ (n + 1) = 2 * p
  BY <1>1, Powers
<1>3. n > 0 => p > 1
  <2> SUFFICES ASSUME n > 0 PROVE p > 1
    OBVIOUS
  <2>1. n - 1 \in 0..Width /\ (n - 1) + 1 = n
    BY Powers
  <2>2. 2 ^ (n - 1) \in Nat /\ 2 ^ (n - 1) > 0 /\ 2 ^ ((n - 1) + 1) = 2 * 2 ^ (n - 1)
    BY <2>1, Powers
  <2>3. p = 2 * 2 ^ (n - 1)
    BY <2>1, <2>2
  <2> HIDE DEF p
  <2> QED BY <2>2, <2>3
<1>4. CASE op = "shl"
  <2>1. y = (x * p) % M /\ z = (x * (2 * p)) % M
    BY <1>2, <1>4, ShiftedIs
  <2> QED BY <1>2, <1>4, <2>1, LeftOneMore, LoopShiftIs
<1>5. CASE op = "sra"
  <2>1. y = (Signed(x) \div p) % M /\ z = (Signed(x) \div (2 * p)) % M
    BY <1>2, <1>5, ShiftedIs
  <2> QED BY <1>2, <1>5, <2>1, SignedRange, ArithmeticOneMore, LoopShiftIs
<1>6. CASE op = "srl"
  <2>1. y = x \div p /\ z = x \div (2 * p)
    BY <1>2, <1>6, ShiftedIs
  <2> QED BY <1>2, <1>3, <1>6, <2>1, RightOneMore, LoopShiftIs
<1> QED BY <1>4, <1>5, <1>6 DEF Shifts

\* The moves of a byte shift by a byte.
LEMMA ByteMoves ==
  ASSUME NEW op \in Shifts, NEW x \in Word, Width = 2 * ByteBits
  PROVE  /\ Executed(ByteMove[op][1], x) \in Word
         /\ Executed(ByteMove[op][2], Executed(ByteMove[op][1], x)) = Shifted(op, x, ByteBits)
<1> DEFINE l == x % Byte
           h == x \div Byte
<1>1. /\ Byte \in Nat /\ Byte > 0 /\ M = Byte * Byte
      /\ x \in Nat /\ x < M /\ M \in Nat /\ Half \in Nat /\ M = Half + Half
  BY Powers, Words
<1>2. l \in Nat /\ l < Byte /\ h \in Int /\ x = Byte * h + l
  BY <1>1, Divided
<1>3. h >= 0 /\ h < Byte
  <2> HIDE DEF l, h
  <2>1. ~(h >= Byte)
    <3> SUFFICES ASSUME h >= Byte PROVE FALSE
      OBVIOUS
    <3>1. Byte * h >= Byte * Byte
      BY <1>1, <1>2
    <3> QED BY <1>1, <1>2, <3>1
  <2>2. ~(h < 0)
    <3> SUFFICES ASSUME h + 1 <= 0 PROVE FALSE
      BY <1>2
    <3>1. Byte * (h + 1) <= 0
      BY <1>1, <1>2
    <3>2. Byte * (h + 1) = Byte * h + Byte
      BY <1>1, <1>2
    <3> QED BY <1>1, <1>2, <3>1, <3>2
  <2> QED BY <1>1, <1>2, <2>1, <2>2
\* A word of two bytes.
<1>4. \A u \in 0..(Byte - 1), v \in 0..(Byte - 1) :
        /\ Byte * u + v \in Word
        /\ (Byte * u + v) % Byte = v /\ (Byte * u + v) \div Byte = u
  <2> TAKE u \in 0..(Byte - 1), v \in 0..(Byte - 1)
  <2>1. (Byte * u + v) % Byte = v /\ (Byte * u + v) \div Byte = u
    BY <1>1, Division
  <2>2. Byte * (u + 1) <= Byte * Byte
    BY <1>1
  <2>3. Byte * (u + 1) = Byte * u + Byte /\ Byte * u >= 0
    BY <1>1
  <2> QED BY <1>1, <2>1, <2>2, <2>3 DEF Word
<1>5. l \in 0..(Byte - 1) /\ h \in 0..(Byte - 1) /\ 0 \in 0..(Byte - 1)
  BY <1>1, <1>2, <1>3
<1>6. SWPB(x) = Byte * l + h
  BY <1>1, <1>2, <1>3 DEF SWPB
<1>7. 2 ^ ByteBits = Byte
  BY DEF Byte
<1>8. CASE op = "shl"
  <2>1. Executed(ByteMove[op][1], x) = l
    BY <1>8, ExecutedIs DEF ByteMove, ZEXT
  <2>2. l = Byte * 0 + l
    BY <1>1, <1>2
  <2>3. l \in Word /\ l % Byte = l /\ l \div Byte = 0
    BY <1>4, <1>5, <2>2
  <2>4. SWPB(l) = l * Byte
    BY <1>1, <1>2, <2>3 DEF SWPB
  <2>5. Executed(ByteMove[op][2], l) = l * Byte
    BY <1>8, <2>4, ExecutedIs DEF ByteMove
  <2>6. (x * Byte) % M = l * Byte
    <3> DEFINE v == Byte * l + 0
    <3>1. v \in Word
      BY <1>4, <1>5
    <3>2. x * Byte = M * h + v /\ v = l * Byte
      <4> HIDE DEF l, h
      <4>1. x * Byte = (Byte * Byte) * h + Byte * l
        BY <1>1, <1>2
      <4> QED BY <1>1, <1>2, <4>1
    <3> HIDE DEF v, l, h
    <3>3. v \in Int /\ 0 <= v /\ v < M /\ M \in Nat /\ M > 0 /\ h \in Int
      BY <1>2, <3>1, Words
    <3>4. (M * h + v) % M = v
      BY <3>3, Division
    <3> QED BY <3>2, <3>4
  <2> QED BY <1>7, <1>8, <2>1, <2>3, <2>5, <2>6, ShiftedIs
<1>9. CASE op = "srl"
  <2>1. Executed(ByteMove[op][1], x) = Byte * l + h
    BY <1>6, <1>9, ExecutedIs DEF ByteMove
  <2>2. Executed(ByteMove[op][2], Byte * l + h) = (Byte * l + h) % Byte
    BY <1>9, ExecutedIs DEF ByteMove, ZEXT
  <2>3. Byte * l + h \in Word /\ (Byte * l + h) % Byte = h
    BY <1>4, <1>5
  <2> QED BY <1>7, <1>9, <2>1, <2>2, <2>3, ShiftedIs
<1>10. CASE op = "sra"
  <2>1. Executed(ByteMove[op][1], x) = Byte * l + h
    BY <1>6, <1>10, ExecutedIs DEF ByteMove
  <2>2. Byte * l + h \in Word /\ ZEXT(Byte * l + h) = h
    BY <1>4, <1>5 DEF ZEXT
  <2>3. Executed(ByteMove[op][2], Byte * l + h) = (IF 2 * h < Byte THEN h ELSE h + M - Byte)
    BY <1>10, <2>2, ExecutedIs DEF ByteMove, SXT
\* The sign of the word is the sign of its high byte.
  <2>4. 2 * h < Byte <=> x < Half
    <3> DEFINE b == 2 ^ (ByteBits - 1)
    <3>1. b \in Nat /\ Byte = 2 * b
      <4>1. ByteBits - 1 \in 0..Width /\ (ByteBits - 1) + 1 = ByteBits
        BY Powers
      <4> QED BY <1>7, <4>1, Powers
    <3> HIDE DEF b, l, h
    <3>2. Half = Byte * b
      <4>1. Byte * Byte = 2 * (Byte * b)
        BY <1>1, <3>1
      <4> QED BY <1>1, <3>1, <4>1
    <3>3. CASE h < b
      <4>1. Byte * (h + 1) <= Byte * b
        BY <1>1, <1>2, <3>1, <3>3
      <4>2. Byte * (h + 1) = Byte * h + Byte
        BY <1>1, <1>2
      <4> QED BY <1>1, <1>2, <3>1, <3>2, <3>3, <4>1, <4>2
    <3>4. CASE h >= b
      <4>1. Byte * h >= Byte * b
        BY <1>1, <1>2, <3>1, <3>4
      <4> QED BY <1>1, <1>2, <3>1, <3>2, <3>4, <4>1
    <3> QED BY <1>1, <1>2, <3>1, <3>3, <3>4
  <2>5. CASE x < Half
    <3>1. Signed(x) \div Byte = h
      BY <2>5 DEF Signed
    <3>2. h < Half
      BY <1>1, <1>2, <2>5, SignedQuotient
    <3>3. h % M = h
      BY <1>1, <1>2, <1>3, <3>2, AsWord
    <3> QED BY <1>7, <1>10, <2>1, <2>2, <2>3, <2>4, <2>5, <3>1, <3>3, ShiftedIs
  <2>6. CASE x >= Half
    <3> DEFINE g == h - Byte
    <3>1. x - M = Byte * g + l /\ g \in Int /\ g < 0
      <4> HIDE DEF l, h
      <4>1. Byte * (h - Byte) = Byte * h - Byte * Byte
        BY <1>1, <1>2
      <4> QED BY <1>1, <1>2, <1>3, <4>1
    <3>2. Signed(x) = Byte * g + l
      BY <1>1, <2>6, <3>1 DEF Signed
    <3> HIDE DEF g, l, h
    <3>3. (Byte * g + l) \div Byte = g
      BY <1>1, <1>2, <3>1, Division
    <3>4. -Half <= g
      BY <1>1, <3>2, <3>3, SignedRange, SignedQuotient
    <3>5. g % M = g + M
      BY <1>1, <3>1, <3>4, AsWord
    <3>6. g + M = h + M - Byte
      BY <1>1, <1>2 DEF g
    <3>7. Shifted(op, x, ByteBits) = g + M
      BY <1>7, <1>10, <3>2, <3>3, <3>5, ShiftedIs
    <3>8. ~(2 * h < Byte)
      BY <1>1, <2>4, <2>6
    <3> QED BY <2>1, <2>2, <2>3, <3>6, <3>7, <3>8
  <2> QED BY <1>1, <2>5, <2>6
<1> QED BY <1>8, <1>9, <1>10 DEF Shifts

-------------------------------------------------------------------------------
(* Shifts: the instructions in order, the loop turn by turn *)

\* The single bits of a shift by a constant.
Singles(n) == IF n >= ByteBits THEN n - ByteBits ELSE n

\* The last k of m moves by a bit.
Rest(op, m, k) == [i \in 1..k |-> BitMoves(op, m)[m - k + i]]

\* How far a shift of x by n is, with the value v and the instructions s left:
\* before the moves of a byte, between them, or with k single bits to go.
HalfWay(op, x, n, s, v) ==
  LET m == Singles(n)
  IN  \/ n >= ByteBits /\ s = ByteMove[op] \o BitMoves(op, m) /\ v = x
      \/ /\ n >= ByteBits
         /\ s = <<ByteMove[op][2]>> \o BitMoves(op, m)
         /\ v = Executed(ByteMove[op][1], x)
      \/ \E k \in 0..m : s = Rest(op, m, k) /\ v = Shifted(op, x, n - k)

\* What is known of the value shifted at each point.
ShiftedSoFar ==
  node.op \in Shifts =>
    /\ node \in Shift
    /\ pc \in {"shift", "test"} => val = node.val /\ amount = node.amount
    /\ pc = "ops" => HalfWay(node.op, node.val, node.amount, ops, val)
    /\ pc = "loop" => /\ amount \in 1..node.amount
                      /\ val = Shifted(node.op, node.val, node.amount - amount)
    /\ pc = "done" => val = Shifted(node.op, node.val, node.amount)

\* The moves by a bit, one by one.
LEMMA BitMovesAre ==
  ASSUME NEW op \in Shifts, NEW m \in Nat
  PROVE  /\ BitMoves(op, m) \in Seq({"rla", "rra", "rrcl"})
         /\ Len(BitMoves(op, m)) = m
         /\ \A i \in 1..m : BitMoves(op, m)[i] =
              (IF op = "shl" THEN "rla" ELSE IF op = "srl" /\ i = 1 THEN "rrcl" ELSE "rra")
<1>1. CASE op = "shl"
  <2>1. BitMoves(op, m) = [i \in 1..m |-> "rla"]
    BY <1>1 DEF BitMoves
  <2> QED BY <1>1, <2>1
<1>2. CASE op = "sra"
  <2>1. BitMoves(op, m) = [i \in 1..m |-> "rra"]
    BY <1>2 DEF BitMoves
  <2> QED BY <1>2, <2>1
<1>3. CASE op = "srl"
  <2>1. BitMoves(op, m) = [i \in 1..m |-> IF i = 1 THEN "rrcl" ELSE "rra"]
    BY <1>3 DEF BitMoves
  <2> QED BY <1>3, <2>1
<1> QED BY <1>1, <1>2, <1>3 DEF Shifts

\* The first of the last k moves, and the others.
LEMMA RestIs ==
  ASSUME NEW op \in Shifts, NEW m \in Nat, NEW k \in 0..m
  PROVE  /\ Rest(op, m, m) = BitMoves(op, m)
         /\ Rest(op, m, k) = <<>> <=> k = 0
         /\ k > 0 => /\ Head(Rest(op, m, k)) = BitMoves(op, m)[m - k + 1]
                     /\ Tail(Rest(op, m, k)) = Rest(op, m, k - 1)
<1> DEFINE b == BitMoves(op, m)
<1>1. b \in Seq({"rla", "rra", "rrcl"}) /\ Len(b) = m
  BY BitMovesAre
<1> HIDE DEF b
<1>2. [i \in 1..m |-> b[m - m + i]] = b
  BY <1>1
<1> DEFINE r == [i \in 1..k |-> b[m - k + i]]
           t == [i \in 1..(k - 1) |-> b[m - (k - 1) + i]]
<1>3. r \in Seq({"rla", "rra", "rrcl"}) /\ Len(r) = k
  BY <1>1
<1>4. r = <<>> <=> k = 0
  BY <1>3
<1>5. ASSUME k > 0 PROVE Head(r) = b[m - k + 1] /\ Tail(r) = t
  <2>1. Head(r) = r[1] /\ r[1] = b[m - k + 1]
    BY <1>3, <1>5
  <2>2. Tail(r) = [i \in 1..(k - 1) |-> r[i + 1]]
    <3> HIDE DEF r
    <3>1. r # <<>>
      BY <1>4, <1>5
    <3>2. /\ Tail(r) \in Seq({"rla", "rra", "rrcl"}) /\ Len(Tail(r)) = k - 1
          /\ \A i \in 1..(k - 1) : Tail(r)[i] = r[i + 1]
      BY <1>3, <3>1, HeadTailProperties
    <3>3. PICK w : w = Tail(r)
      OBVIOUS
    <3>4. w \in Seq({"rla", "rra", "rrcl"}) /\ Len(w) = k - 1 /\ (\A i \in 1..(k - 1) : w[i] = r[i + 1])
      BY <3>2, <3>3
    <3>5. w = [i \in 1..(k - 1) |-> r[i + 1]]
      BY <3>4
    <3> QED BY <3>3, <3>5
  <2>3. \A i \in 1..(k - 1) : r[i + 1] = b[m - (k - 1) + i]
    <3> TAKE i \in 1..(k - 1)
    <3>1. i + 1 \in 1..k /\ m - k + (i + 1) = m - (k - 1) + i
      BY <1>5
    <3> QED BY <3>1
  <2> HIDE DEF r
  <2> QED BY <2>1, <2>2, <2>3
<1> HIDE DEF r, t
<1> QED BY <1>2, <1>4, <1>5 DEF Rest, b, r, t

LEMMA Prefixed ==
  ASSUME NEW S, NEW s \in Seq(S), NEW a \in S, NEW b \in S
  PROVE  /\ <<a>> \o s # <<>> /\ Head(<<a>> \o s) = a /\ Tail(<<a>> \o s) = s
         /\ <<a, b>> \o s # <<>> /\ Head(<<a, b>> \o s) = a /\ Tail(<<a, b>> \o s) = <<b>> \o s
OBVIOUS

LEMMA ByteMovesAre ==
  ASSUME NEW op \in Shifts
  PROVE  LET S == {"rla", "rra", "rrcl", "zext", "sxt", "swpb"}
         IN  /\ ByteMove[op] = <<ByteMove[op][1], ByteMove[op][2]>>
             /\ ByteMove[op][1] \in S /\ ByteMove[op][2] \in S
<1>1. CASE op = "shl" BY <1>1 DEF ByteMove
<1>2. CASE op = "sra" BY <1>2 DEF ByteMove
<1>3. CASE op = "srl" BY <1>3 DEF ByteMove
<1> QED BY <1>1, <1>2, <1>3 DEF Shifts

\* A constant amount is expanded into what shifts by it.
LEMMA ShiftBegins ==
  ASSUME NEW op \in Shifts, NEW x \in Word, NEW n \in 0..(Width - 1)
  PROVE  HalfWay(op, x, n, LowerShifts(op, n), x)
<1>1. n \in Nat /\ ByteBits \in Nat
  BY Powers
<1>2. CASE n >= ByteBits
  BY <1>2 DEF LowerShifts, HalfWay, Singles
<1>3. CASE ~(n >= ByteBits)
  <2>1. Singles(n) = n /\ LowerShifts(op, n) = BitMoves(op, n)
    BY <1>3 DEF LowerShifts, Singles
  <2>2. LowerShifts(op, n) = Rest(op, n, n) /\ n \in 0..n
    BY <1>1, <2>1, RestIs
  <2>3. x = Shifted(op, x, n - n)
    <3>1. n - n = 0
      BY <1>1
    <3> QED BY <3>1, NotShifted
  <2> QED BY <2>1, <2>2, <2>3 DEF HalfWay
<1> QED BY <1>2, <1>3

\* An instruction is executed, or all have been.
LEMMA ShiftGoesOn ==
  ASSUME NEW op \in Shifts, NEW x \in Word, NEW n \in 0..(Width - 1), NEW s, NEW v,
         HalfWay(op, x, n, s, v)
  PROVE  /\ v \in Word
         /\ s = <<>> => v = Shifted(op, x, n)
         /\ s # <<>> => HalfWay(op, x, n, Tail(s), Executed(Head(s), v))
<1>1. PICK m : m = Singles(n)
  OBVIOUS
<1>2. n \in Nat /\ ByteBits \in Nat /\ Width \in Nat
  BY Powers
<1>3. m \in Nat /\ m <= n
  BY <1>1, <1>2 DEF Singles
<1>4. n >= ByteBits => Width = 2 * ByteBits /\ n - m = ByteBits
  BY <1>1, <1>2, WidthAssumption DEF Singles
<1>5. PICK bits : bits = BitMoves(op, m)
  OBVIOUS
<1>6. PICK a, b : a = ByteMove[op][1] /\ b = ByteMove[op][2]
  OBVIOUS
<1> DEFINE S == {"rla", "rra", "rrcl", "zext", "sxt", "swpb"}
<1>7. bits \in Seq(S) /\ ByteMove[op] = <<a, b>> /\ a \in S /\ b \in S
  <2>1. bits \in Seq({"rla", "rra", "rrcl"})
    BY <1>3, <1>5, BitMovesAre
  <2>2. bits \in Seq(S)
    BY <2>1
  <2> QED BY <1>6, <2>2, ByteMovesAre
<1> HIDE DEF S
<1>8. CASE n >= ByteBits /\ s = <<a, b>> \o bits /\ v = x
  <2>1. s # <<>> /\ Head(s) = a /\ Tail(s) = <<b>> \o bits
    BY <1>7, <1>8, Prefixed
  <2>2. HalfWay(op, x, n, Tail(s), Executed(a, x))
    BY <1>1, <1>5, <1>6, <1>8, <2>1 DEF HalfWay
  <2> QED BY <1>8, <2>1, <2>2
<1>9. CASE n >= ByteBits /\ s = <<b>> \o bits /\ v = Executed(a, x)
  <2>1. s # <<>> /\ Head(s) = b /\ Tail(s) = bits
    BY <1>7, <1>9, Prefixed
  <2>2. v \in Word /\ Executed(b, v) = Shifted(op, x, n - m)
    <3>1. Width = 2 * ByteBits
      BY <1>4, <1>9
    <3>2. /\ Executed(ByteMove[op][1], x) \in Word
          /\ Executed(ByteMove[op][2], Executed(ByteMove[op][1], x)) = Shifted(op, x, ByteBits)
      BY <3>1, ByteMoves
    <3>3. v \in Word /\ Executed(b, v) = Shifted(op, x, ByteBits)
      BY <1>6, <1>9, <3>2, Zenon
    <3>4. Shifted(op, x, n - m) = Shifted(op, x, ByteBits)
      BY <1>4, <1>9
    <3> QED BY <3>3, <3>4
  <2>3. Tail(s) = Rest(op, m, m) /\ m \in 0..m
    <3>1. m \in 0..m
      BY <1>3
    <3>2. Rest(op, m, m) = BitMoves(op, m)
      BY <1>3, <3>1, RestIs
    <3> QED BY <1>5, <2>1, <3>1, <3>2
  <2>4. HalfWay(op, x, n, Tail(s), Executed(b, v))
    BY <1>1, <2>2, <2>3 DEF HalfWay
  <2> QED BY <2>1, <2>2, <2>4
<1>10. ASSUME NEW k \in 0..m, s = Rest(op, m, k), v = Shifted(op, x, n - k)
       PROVE  /\ v \in Word
              /\ s = <<>> => v = Shifted(op, x, n)
              /\ s # <<>> => HalfWay(op, x, n, Tail(s), Executed(Head(s), v))
  <2>1. v \in Word
    <3>1. n - k \in 0..Width
      BY <1>2, <1>3
    <3> QED BY <1>10, <3>1, ShiftedWord
  <2>2. ASSUME s = <<>> PROVE v = Shifted(op, x, n)
    <3>1. k = 0
      BY <1>3, <1>10, <2>2, RestIs
    <3>2. n - k = n
      BY <1>2, <3>1
    <3> QED BY <1>10, <3>2
  <2>3. ASSUME s # <<>> PROVE HalfWay(op, x, n, Tail(s), Executed(Head(s), v))
    <3>1. k # 0
      BY <1>3, <1>10, <2>3, RestIs
    <3>2. k > 0 /\ m - k + 1 \in 1..m /\ (m - k + 1 # 1 => n - k > 0)
      BY <1>2, <1>3, <3>1
    <3>3. Head(s) = bits[m - k + 1] /\ Tail(s) = Rest(op, m, k - 1)
      BY <1>3, <1>5, <1>10, <3>2, RestIs
    <3>4. PICK i \in 1..m : i = m - k + 1
      BY <3>2
    <3>5. Head(s) = (IF op = "shl" THEN "rla" ELSE IF op = "srl" /\ i = 1 THEN "rrcl" ELSE "rra")
      BY <1>3, <1>5, <3>3, <3>4, BitMovesAre
    <3>6. n - k \in 0..(Width - 1) /\ (n - k) + 1 = n - (k - 1) /\ k - 1 \in 0..m
      BY <1>2, <1>3, <3>2
    <3>7. Executed(Head(s), v) = Shifted(op, x, (n - k) + 1)
      <4>1. PICK z : z = Shifted(op, x, (n - k) + 1)
        OBVIOUS
      <4>2. /\ op = "shl" => RLA(v) = z
            /\ op = "sra" => RRA(v) = z
            /\ op = "srl" => RRC(v, 0) = z /\ (n - k > 0 => RRA(v) = z)
        BY <1>10, <3>6, <4>1, OneMore
      <4>3. CASE op = "shl" BY <3>5, <4>1, <4>2, <4>3, ExecutedIs
      <4>4. CASE op = "sra" BY <3>5, <4>1, <4>2, <4>4, ExecutedIs
      <4>5. CASE op = "srl" /\ i = 1 BY <3>5, <4>1, <4>2, <4>5, ExecutedIs
      <4>6. CASE op = "srl" /\ i # 1 BY <3>2, <3>4, <3>5, <4>1, <4>2, <4>6, ExecutedIs
      <4> QED BY <4>3, <4>4, <4>5, <4>6 DEF Shifts
    <3>8. Executed(Head(s), v) = Shifted(op, x, n - (k - 1))
      BY <3>6, <3>7
    <3> QED BY <1>1, <3>3, <3>6, <3>8 DEF HalfWay
  <2> QED BY <2>1, <2>2, <2>3
<1>11. \/ n >= ByteBits /\ s = <<a, b>> \o bits /\ v = x
       \/ n >= ByteBits /\ s = <<b>> \o bits /\ v = Executed(a, x)
       \/ \E k \in 0..m : s = Rest(op, m, k) /\ v = Shifted(op, x, n - k)
  BY <1>1, <1>5, <1>6, <1>7 DEF HalfWay
<1> QED BY <1>8, <1>9, <1>10, <1>11

LEMMA ZeroFlag ==
  ASSUME NEW a, NEW b
  PROVE  /\ Holds("E", CmpFlags(a, b)) <=> a = b
         /\ Holds("NE", CmpFlags(a, b)) <=> a # b
<1>1. CmpFlags(a, b).z = Bit(a = b)
  BY DEF CmpFlags
<1>2. /\ Holds("E", CmpFlags(a, b)) <=> CmpFlags(a, b).z = 1
      /\ Holds("NE", CmpFlags(a, b)) <=> CmpFlags(a, b).z = 0
  BY DEF Holds
<1> QED BY <1>1, <1>2 DEF Bit

\* One turn of the loop.
LEMMA Turn ==
  ASSUME NEW op \in Shifts, NEW x \in Word, NEW n \in 0..(Width - 1), NEW k \in 1..n
  PROVE  /\ Shifted(op, x, n - k) \in Word
         /\ Minus(k, 1) = k - 1
         /\ LoopShift(op, Shifted(op, x, n - k)) = Shifted(op, x, n - (k - 1))
<1>1. n - k \in 0..(Width - 1) /\ n - k \in 0..Width /\ (n - k) + 1 = n - (k - 1)
  BY Powers
<1>2. LoopShift(op, Shifted(op, x, n - k)) = Shifted(op, x, (n - k) + 1)
  BY <1>1, OneMore
<1>3. Shifted(op, x, n - k) \in Word
  BY <1>1, ShiftedWord
<1>4. Minus(k, 1) = k - 1
  BY DEF Minus
<1> QED BY <1>1, <1>2, <1>3, <1>4

LEMMA ShiftFields ==
  ASSUME node \in Shift
  PROVE  /\ node.op \in Shifts /\ node.op \notin Compares
         /\ node.val \in Word /\ node.amount \in 0..(Width - 1) /\ node.constant \in BOOLEAN
BY DEF Shift, Shifts, Compares

LEMMA ShiftInit == Init => ShiftInv /\ ShiftedSoFar
<1>1. ASSUME Init, InitCompare PROVE ShiftInv /\ ShiftedSoFar
  BY <1>1 DEF InitCompare, ShiftInv, ShiftedSoFar, Comparison, Compares, Shifts
<1>2. ASSUME Init, InitShift PROVE ShiftInv /\ ShiftedSoFar
  BY <1>2, ShiftFields DEF InitShift, ShiftInv, ShiftedSoFar
<1> QED BY <1>1, <1>2 DEF Init

\* Every step leaves a shift as far as ShiftedSoFar says.
LEMMA ShiftNext == ShiftInv /\ ShiftedSoFar /\ [Next]_vars => (ShiftInv /\ ShiftedSoFar)'
<1> SUFFICES ASSUME ShiftInv, ShiftedSoFar, [Next]_vars PROVE (ShiftInv /\ ShiftedSoFar)'
  OBVIOUS
<1>1. CASE LowerComparison \/ Compare \/ Jump \/ ReadSR
  <2>1. node' = node /\ pc \in {"lower", "compare", "use"}
    BY <1>1 DEF LowerComparison, Compare, Jump, ReadSR
  <2>2. node.op \notin Shifts
    BY <2>1 DEF ShiftInv
  <2> QED BY <2>1, <2>2 DEF ShiftInv, ShiftedSoFar
<1>2. CASE LowerShift \/ ExecuteOp \/ TestAmount \/ ShiftLoop
  <2>1. node' = node /\ pc \in {"shift", "ops", "test", "loop"}
    BY <1>2 DEF LowerShift, ExecuteOp, TestAmount, ShiftLoop
  <2>2. CASE node.op \notin Shifts
    BY <2>1, <2>2 DEF ShiftInv, ShiftedSoFar
  <2>3. CASE node.op \in Shifts
    <3>1. node \in Shift /\ node' \in Shift
      BY <2>1, <2>3 DEF ShiftedSoFar
    <3>2. ShiftInv'
      BY <1>2, <2>1, <2>3 DEF ShiftInv, LowerShift, ExecuteOp, TestAmount, ShiftLoop
    <3>3. PICK op, x, n : op = node.op /\ x = node.val /\ n = node.amount
      OBVIOUS
    <3>4. op \in Shifts /\ x \in Word /\ n \in 0..(Width - 1)
      BY <3>1, <3>3, ShiftFields
    <3>5. op = node'.op /\ x = node'.val /\ n = node'.amount
      BY <2>1, <3>3
    <3>6. CASE LowerShift
      <4>1. val' = x /\ amount' = n
        BY <3>3, <3>6, <2>3 DEF LowerShift, ShiftedSoFar
      <4>2. CASE node.constant
        <5>1. pc' = "ops" /\ ops' = LowerShifts(op, n)
          BY <3>3, <3>6, <4>2 DEF LowerShift
        <5>2. HalfWay(op, x, n, ops', val')
          BY <3>4, <4>1, <5>1, ShiftBegins
        <5> QED BY <3>1, <3>2, <3>5, <5>1, <5>2 DEF ShiftedSoFar
      <4>3. CASE ~node.constant
        <5>1. pc' = "test"
          BY <3>6, <4>3 DEF LowerShift
        <5> QED BY <3>1, <3>2, <3>5, <4>1, <5>1 DEF ShiftedSoFar
      <4> QED BY <4>2, <4>3
    <3>7. CASE ExecuteOp
      <4>1. HalfWay(op, x, n, ops, val) /\ pc = "ops"
        BY <2>3, <3>3, <3>7 DEF ExecuteOp, ShiftedSoFar
      <4>2. CASE ops = <<>>
        <5>1. pc' = "done" /\ val' = val
          BY <3>7, <4>2 DEF ExecuteOp
        <5>2. val = Shifted(op, x, n)
          BY <3>4, <4>1, <4>2, ShiftGoesOn
        <5> QED BY <3>1, <3>2, <3>5, <5>1, <5>2 DEF ShiftedSoFar
      <4>3. CASE ops # <<>>
        <5>1. pc' = "ops" /\ val' = Executed(Head(ops), val) /\ ops' = Tail(ops)
          BY <3>7, <4>1, <4>3 DEF ExecuteOp
        <5>2. HalfWay(op, x, n, Tail(ops), Executed(Head(ops), val))
          BY <3>4, <4>1, <4>3, ShiftGoesOn
        <5>3. HalfWay(op, x, n, ops', val')
          BY <5>1, <5>2
        <5> QED BY <3>1, <3>2, <3>5, <5>1, <5>3 DEF ShiftedSoFar
      <4> QED BY <4>2, <4>3
    <3>8. CASE TestAmount
      <4>1. val' = x /\ amount' = n /\ amount = n
        BY <2>3, <3>3, <3>8 DEF TestAmount, ShiftedSoFar
      <4>2. pc' = (IF n = 0 THEN "done" ELSE "loop")
        BY <3>8, <4>1, ZeroFlag DEF TestAmount
      <4>3. Shifted(op, x, 0) = x /\ n - n = 0
        BY <3>4, NotShifted
      <4>4. n # 0 => n \in 1..n
        BY <3>4
      <4> QED BY <3>1, <3>2, <3>5, <4>1, <4>2, <4>3, <4>4 DEF ShiftedSoFar
    <3>9. CASE ShiftLoop
      <4>1. amount \in 1..n /\ val = Shifted(op, x, n - amount)
        BY <2>3, <3>3, <3>9 DEF ShiftLoop, ShiftedSoFar
      <4>2. PICK k \in 1..n : k = amount
        BY <4>1
      <4>3. amount' = k - 1 /\ val' = Shifted(op, x, n - (k - 1))
        BY <3>3, <3>4, <3>9, <4>1, <4>2, Turn DEF ShiftLoop
      <4>4. pc' = (IF k # 1 THEN "loop" ELSE "done")
        BY <3>9, <4>2, ZeroFlag DEF ShiftLoop
      <4>5. k # 1 => k - 1 \in 1..n
        BY <4>2, <3>4
      <4>6. k = 1 => n - (k - 1) = n
        BY <3>4
      <4> QED BY <3>1, <3>2, <3>5, <4>3, <4>4, <4>5, <4>6 DEF ShiftedSoFar
    <3> QED BY <1>2, <3>6, <3>7, <3>8, <3>9
  <2> QED BY <2>2, <2>3
<1>3. CASE UNCHANGED vars
  BY <1>3 DEF vars, ShiftInv, ShiftedSoFar
<1> QED BY <1>1, <1>2, <1>3 DEF Next

(***************************************************************************)
(* Both expansions of a shift, LowerShifts for a constant and the loop of  *)
(* EmitShiftInstr for a variable, shift by the amount, whatever the width. *)
(***************************************************************************)
THEOREM ShiftsCorrect == Spec => []ShiftsHold
<1>1. ShiftInv /\ ShiftedSoFar => ShiftsHold
  BY DEF ShiftedSoFar, ShiftsHold
<1> QED BY <1>1, ShiftInit, ShiftNext, PTL DEF Spec

-------------------------------------------------------------------------------
(* Types *)

\* A comparison is not shifted.
LoweredInv ==
  node.op \in Compares =>
    node \in Comparison /\ pc \in {"lower", "compare", "use", "done"}

Flags == [c : {0, 1}, z : {0, 1}, n : {0, 1}, v : {0, 1}]

LEMMA FlagsTyped ==
  ASSUME NEW a, NEW b
  PROVE  CmpFlags(a, b) \in Flags /\ BitFlags(a) \in Flags
BY DEF CmpFlags, BitFlags, Bit, Flags

\* What EmitCMP makes are operands, also where the constant wraps.
LEMMA EmittedTypes ==
  ASSUME NEW n \in Comparison
  PROVE  LET c == EmitCMP(n.lhs, n.rhs, n.cc) IN c.lhs \in Operand /\ c.rhs \in Operand
<1>1. n.lhs \in Operand /\ n.rhs \in Operand
  BY DEF Comparison
<1>2. \A l, r \in Operand : \A tcc :
         LET c == EqualityCMP(l, r, tcc) IN c.lhs \in Operand /\ c.rhs \in Operand
  BY DEF EqualityCMP
<1>3. \A l, r \in Operand : \A cc :
         LET c == OrderCMP(l, r, cc) IN c.lhs \in Operand /\ c.rhs \in Operand
  <2> SUFFICES ASSUME NEW l \in Operand, NEW r \in Operand, NEW cc
               PROVE  OrderCMP(l, r, cc).lhs \in Operand /\ OrderCMP(l, r, cc).rhs \in Operand
    OBVIOUS
  <2>1. l.val \in Word
    BY DEF Operand
  <2>2. (l.val + 1) % M \in Word
    BY <2>1, Words DEF Word
  <2>3. Const(l.val + 1) \in Operand
    BY <2>2 DEF Const, Operand
  <2> QED BY <2>3 DEF OrderCMP
<1> QED BY <1>1, <1>2, <1>3 DEF EmitCMP

LEMMA Bits == 0 \in Word /\ 1 \in Word /\ 0 \in 0..(Width - 1)
BY Words, Powers DEF Word

\* A bit read off the status register is 0 or 1.
LEMMA BitRead ==
  ASSUME NEW f \in Flags, NEW n, NEW tcc, NEW and \in BOOLEAN, Convert(n, tcc)
  PROVE  FromSR(tcc, and, f) \in {0, 1}
<1>1. f.c \in {0, 1} /\ f.z \in {0, 1} /\ tcc \in {"HS", "LO", "NE", "E"}
  BY DEF Convert, Flags
<1>2. CASE tcc = "HS" BY <1>1, <1>2 DEF FromSR
<1>3. CASE tcc = "LO" BY <1>1, <1>3 DEF FromSR
<1>4. CASE tcc = "NE" BY <1>1, <1>4 DEF FromSR
<1>5. CASE tcc = "E" BY <1>1, <1>5 DEF FromSR
<1> QED BY <1>1, <1>2, <1>3, <1>4, <1>5

(***************************************************************************)
(* The variables have their types: the constants EmitCMP makes and all     *)
(* values on the way of a shift are words, the counter stays in the width. *)
(***************************************************************************)
THEOREM TypeCorrect == Spec => []TypeOK
<1> DEFINE Inv == ShiftInv /\ ShiftedSoFar /\ LoweredInv /\ TypeOK
<1>1. Init => Inv
  <2> SUFFICES ASSUME Init PROVE LoweredInv /\ TypeOK
    BY ShiftInit
  <2>1. cmp.lhs \in Operand /\ cmp.rhs \in Operand
    BY Constants, Bits DEF Init, Operand
  <2>2. sr \in Flags
    BY DEF Init, NoFlags, Flags
  <2>3. CASE InitCompare
    BY <2>1, <2>2, <2>3, Bits DEF InitCompare, LoweredInv, TypeOK, Flags
  <2>4. CASE InitShift
    BY <2>1, <2>2, <2>4, ShiftFields DEF InitShift, LoweredInv, TypeOK, Flags
  <2> QED BY <2>3, <2>4 DEF Init
<1>2. Inv /\ [Next]_vars => Inv'
  <2> SUFFICES ASSUME Inv, [Next]_vars PROVE LoweredInv' /\ TypeOK'
    BY ShiftNext
  <2>1. CASE LowerComparison
    <3>1. node \in Comparison
      BY <2>1 DEF LowerComparison, ShiftInv, LoweredInv
    <3>2. cmp'.lhs \in Operand /\ cmp'.rhs \in Operand
      BY <2>1, <3>1, EmittedTypes DEF LowerComparison
    <3> QED BY <2>1, <3>2 DEF LowerComparison, LoweredInv, TypeOK
  <2>2. CASE Compare
    <3>1. sr' \in Flags
      BY <2>2, FlagsTyped DEF Compare
    <3> QED BY <2>2, <3>1 DEF Compare, LoweredInv, TypeOK, Flags
  <2>3. CASE Jump
    <3>1. val' \in Word
      BY <2>3, Bits DEF Jump, Bit
    <3> QED BY <2>3, <3>1 DEF Jump, LoweredInv, TypeOK
  <2>4. CASE ReadSR
    <3>1. andCC(node) \in BOOLEAN /\ sr \in Flags
      BY DEF andCC, TypeOK, Flags
    <3>2. val' \in Word
      BY <2>4, <3>1, Bits, BitRead DEF ReadSR
    <3> QED BY <2>4, <3>2 DEF ReadSR, LoweredInv, TypeOK
  <2>5. CASE LowerShift
    <3>1. pc' \in {"ops", "test"} /\ node.op \notin Compares
      BY <2>5 DEF LowerShift, LoweredInv
    <3> QED BY <2>5, <3>1 DEF LowerShift, LoweredInv, TypeOK
  <2>6. CASE ExecuteOp
    <3>1. CASE ops = <<>>
      BY <2>6, <3>1 DEF ExecuteOp, LoweredInv, TypeOK
    <3>2. CASE ops # <<>>
      <4>1. node.op \in Shifts /\ node.op \notin Compares
        BY <2>6 DEF ExecuteOp, ShiftInv, LoweredInv
      <4>2. node \in Shift /\ HalfWay(node.op, node.val, node.amount, ops, val)
        BY <2>6, <4>1 DEF ExecuteOp, ShiftedSoFar
      <4>3. /\ val' = Executed(Head(ops), val) /\ ops' = Tail(ops)
            /\ UNCHANGED <<node, pc, cmp, sr, amount>>
        BY <2>6, <3>2 DEF ExecuteOp
      <4>4. HalfWay(node.op, node.val, node.amount, ops', val')
        BY <3>2, <4>2, <4>3, ShiftFields, ShiftGoesOn
      <4>5. val' \in Word
        BY <4>2, <4>4, ShiftFields, ShiftGoesOn
      <4> QED BY <4>1, <4>3, <4>5 DEF LoweredInv, TypeOK
    <3> QED BY <3>1, <3>2
  <2>7. CASE TestAmount
    <3>1. sr' \in Flags /\ pc' \in {"loop", "done"} /\ node.op \notin Compares
      BY <2>7, FlagsTyped DEF TestAmount, LoweredInv
    <3> QED BY <2>7, <3>1 DEF TestAmount, LoweredInv, TypeOK, Flags
  <2>8. CASE ShiftLoop
    <3>1. /\ node' = node /\ cmp' = cmp /\ sr' = CmpFlags(amount, 1) /\ pc' \in {"loop", "done"}
          /\ val' = LoopShift(node.op, val) /\ amount' = Minus(amount, 1)
      BY <2>8 DEF ShiftLoop
    <3>2. node.op \in Shifts /\ node.op \notin Compares
      BY <2>8 DEF ShiftLoop, ShiftInv, LoweredInv
    <3>3. /\ node \in Shift /\ amount \in 1..node.amount
          /\ val = Shifted(node.op, node.val, node.amount - amount)
      BY <2>8, <3>2 DEF ShiftLoop, ShiftedSoFar
    <3>4. PICK op, x, n, k : op = node.op /\ x = node.val /\ n = node.amount /\ k = amount
      OBVIOUS
    <3>5. op \in Shifts /\ x \in Word /\ n \in 0..(Width - 1) /\ k \in 1..n
      BY <3>3, <3>4, ShiftFields
    <3>6. amount' = k - 1 /\ val' = Shifted(op, x, n - (k - 1))
      BY <3>1, <3>3, <3>4, <3>5, Turn
    <3>7. n - (k - 1) \in 0..Width /\ k - 1 \in 0..(Width - 1)
      BY <3>5, Powers
    <3>8. val' \in Word /\ amount' \in 0..(Width - 1)
      BY <3>5, <3>6, <3>7, ShiftedWord
    <3>9. sr' \in Flags
      BY <3>1, FlagsTyped
    <3> QED BY <3>1, <3>2, <3>8, <3>9 DEF LoweredInv, TypeOK, Flags
  <2>9. CASE UNCHANGED vars
    BY <2>9 DEF vars, LoweredInv, TypeOK
  <2> QED BY <2>1, <2>2, <2>3, <2>4, <2>5, <2>6, <2>7, <2>8, <2>9 DEF Next
<1>3. Inv => TypeOK
  OBVIOUS
<1> QED BY <1>1, <1>2, <1>3, PTL DEF Spec
===============================================================================
