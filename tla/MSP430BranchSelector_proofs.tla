--------------------- MODULE MSP430BranchSelector_proofs ---------------------
(***************************************************************************)
(* Proofs about the branch selector, for every function and every reach:   *)
(* what it keeps and establishes, and in the last part that it implements  *)
(* branch relaxation and makes no branch long that could stay short.       *)
(***************************************************************************)
EXTENDS BranchSelectorRefines, WellFoundedInduction, TLAPS

\* No block falls off the end of the function: the last one branches or returns.
NoFallOff == \A b \in 1..n : num[b] = n => code[b].jmp # NoInstr

TypeInv == TypeOK /\ NoFallOff

-------------------------------------------------------------------------------
(* The numbering *)

\* BlockAt finds the one block that has a given number.
LEMMA BlockAtSpec ==
  ASSUME TypeOK, NEW i \in 1..n
  PROVE  BlockAt(i) \in 1..n /\ num[BlockAt(i)] = i
BY DEF TypeOK, Numbering, BlockAt

LEMMA BlockAtNum ==
  ASSUME TypeOK, NEW b \in 1..n
  PROVE  BlockAt(num[b]) = b
BY BlockAtSpec DEF TypeOK, Numbering

\* What TypeOK says of the numbers and of the offsets.
LEMMA Basics ==
  ASSUME TypeOK
  PROVE  /\ n \in Nat /\ at \in 1..(n+1) /\ total \in Nat /\ start \in Nat
         /\ off \in [1..n -> Nat] /\ code \in [1..n -> Block]
         /\ \A b \in 1..n : num[b] \in 1..n
<1>1. num \in [1..n -> 1..n]
  BY DEF TypeOK, Numbering
<1> QED BY <1>1 DEF TypeOK

\* The block being scanned or measured is a block, and its number is at.
LEMMA MBBSpec ==
  ASSUME TypeOK, at <= n
  PROVE  /\ at \in 1..n
         /\ MBB \in 1..n /\ num[MBB] = at
         /\ \A b \in 1..n : num[b] = at => b = MBB
<1>1. at \in 1..n
  BY Basics
<1>2. MBB \in 1..n /\ num[MBB] = at
  BY <1>1, BlockAtSpec DEF MBB
<1> QED
  BY <1>1, <1>2 DEF TypeOK, Numbering

-------------------------------------------------------------------------------
(* Instructions *)

LEMMA BlockSpec ==
  ASSUME TypeOK, NEW b \in 1..n
  PROVE  /\ code[b] \in Block
         /\ code[b].body \in Nat
         /\ code[b].jcc \in JCCs(n, BOOLEAN)
         /\ code[b].jmp \in JMPs(n, {"JMP", "Bi"})
BY DEF TypeOK, Block

LEMMA InstrSizes ==
  ASSUME NEW i PROVE InstSize(i) \in 0..4
BY DEF InstSize

LEMMA SizeNat ==
  ASSUME TypeOK, NEW b \in 1..n PROVE Size(b) \in Nat
BY BlockSpec, InstrSizes DEF Size

LEMMA JCCIn ==
  ASSUME NEW m, NEW negs, NEW d \in 1..m, NEW g \in negs
  PROVE  Instr("JCC", d, g) \in JCCs(m, negs)
BY DEF JCCs, Instr

LEMMA JMPIn ==
  ASSUME NEW m, NEW ops, NEW op \in ops, NEW d \in 1..m
  PROVE  Instr(op, d, FALSE) \in JMPs(m, ops)
BY DEF JMPs, Instr

LEMMA JCCCases ==
  ASSUME NEW m, NEW negs, NEW i \in JCCs(m, negs)
  PROVE  \/ i = NoInstr /\ i.op = "none"
         \/ i.op = "JCC" /\ i.dest \in 1..m /\ i.neg \in negs
BY DEF JCCs, Instr, NoInstr

LEMMA JMPCases ==
  ASSUME NEW m, NEW ops, NEW i \in JMPs(m, ops)
  PROVE  \/ i = NoInstr /\ i.op = "none"
         \/ i = Instr("RET", Exit, FALSE) /\ i.op = "RET"
         \/ i.op \in ops /\ i.dest \in 1..m
<1>1. i = NoInstr \/ i = Instr("RET", Exit, FALSE)
        \/ i \in [op : ops, dest : 1..m, neg : {FALSE}]
  BY DEF JMPs
<1>2. NoInstr.op = "none" /\ Instr("RET", Exit, FALSE).op = "RET"
  BY DEF NoInstr, Instr
<1> QED BY <1>1, <1>2

LEMMA BlockFields ==
  ASSUME NEW blk \in Block
  PROVE  /\ blk = [body |-> blk.body, jcc |-> blk.jcc, jmp |-> blk.jmp]
         /\ \A j : [blk EXCEPT !.jmp = j] = [body |-> blk.body, jcc |-> blk.jcc, jmp |-> j]
<1>1. blk = [body |-> blk.body, jcc |-> blk.jcc, jmp |-> blk.jmp]
  BY DEF Block
<1>2. ASSUME NEW j
      PROVE  [blk EXCEPT !.jmp = j] = [body |-> blk.body, jcc |-> blk.jcc, jmp |-> j]
  BY <1>1
<1> QED BY <1>1, <1>2

\* More blocks, more destinations.
LEMMA MoreBlocks ==
  ASSUME NEW m \in Nat, NEW ops, NEW negs
  PROVE  JCCs(m, negs) \subseteq JCCs(m + 1, negs) /\ JMPs(m, ops) \subseteq JMPs(m + 1, ops)
<1>1. \A d \in 1..m : d \in 1..(m+1)
  OBVIOUS
<1> QED BY <1>1 DEF JCCs, JMPs

\* The branch at mi, when it is one, is a conditional one or the last of MBB.
LEMMA CurrentSpec ==
  ASSUME TypeOK, at <= n, IsShort(Current)
  PROVE  /\ Current.dest \in 1..n
         /\ InstSize(Current) = 2
         /\ \/ mi = "jcc" /\ Current = code[MBB].jcc /\ Current.op = "JCC"
            \/ mi = "jmp" /\ Current = code[MBB].jmp /\ Current.op = "JMP"
<1>1. /\ MBB \in 1..n
      /\ code[MBB].jcc \in JCCs(n, BOOLEAN)
      /\ code[MBB].jmp \in JMPs(n, {"JMP", "Bi"})
  BY MBBSpec, BlockSpec
<1>2. CASE mi = "jcc"
  BY <1>1, <1>2, JCCCases DEF Current, IsShort, InstSize
<1>3. CASE mi = "jmp"
  <2>1. Current = code[MBB].jmp /\ Current.op \in {"JCC", "JMP"}
    BY <1>3 DEF Current, IsShort
  <2>2. \/ Current.op \in {"none", "RET"}
        \/ Current.op \in {"JMP", "Bi"} /\ Current.dest \in 1..n
    BY <1>1, <2>1, JMPCases
  <2> QED BY <1>3, <2>1, <2>2 DEF InstSize
<1>4. CASE mi \notin {"jcc", "jmp"}
  BY <1>4 DEF Current, IsShort, NoInstr, Instr
<1> QED BY <1>2, <1>3, <1>4

-------------------------------------------------------------------------------
(* Type correctness *)

\* The steps of measureFunction and those that skip leave the function alone.
LEMMA FunctionUnchangedType ==
  ASSUME TypeInv, UNCHANGED <<input, n, num, code, succ>>,
         off' \in [1..n -> Nat], pc' \in {"measure", "scan", "remeasure", "done"},
         at' \in 1..(n+1), mi' \in {"body", "jcc", "jmp", "end"},
         start' \in Nat, total' \in Nat, changed' \in BOOLEAN
  PROVE  TypeInv'
BY DEF TypeInv, TypeOK, NoFallOff, Numbering, Block

LEMMA MeasureType == TypeInv /\ (MeasureBlock \/ Measured) => TypeInv'
<1> SUFFICES ASSUME TypeInv, MeasureBlock \/ Measured PROVE TypeInv'
  OBVIOUS
<1> USE DEF TypeInv
<1>1. CASE MeasureBlock
  <2>1. Size(MBB) \in Nat
    BY <1>1, MBBSpec, SizeNat DEF MeasureBlock
  <2> QED
    BY <1>1, <2>1, FunctionUnchangedType, SMTT(20) DEF MeasureBlock, TypeOK
<1>2. CASE Measured
  <2>1. 1 \in 1..(n+1)
    BY DEF TypeOK
  <2>2. \/ BeginScan
        \/ pc' = "done" /\ UNCHANGED <<at, mi, start, changed>>
    BY <1>2 DEF Measured
  <2>3. UNCHANGED <<input, n, num, code, succ, off, total>>
    BY <1>2 DEF Measured
  <2>4. /\ off' \in [1..n -> Nat] /\ total' \in Nat
        /\ pc' \in {"measure", "scan", "remeasure", "done"} /\ at' \in 1..(n+1)
        /\ mi' \in {"body", "jcc", "jmp", "end"} /\ start' \in Nat
    BY <2>1, <2>2, <2>3 DEF BeginScan, TypeOK
  <2>5. changed' \in BOOLEAN
    BY <2>2, Zenon DEF BeginScan, TypeOK
  <2> QED
    BY <2>3, <2>4, <2>5, FunctionUnchangedType
<1> QED BY <1>1, <1>2

LEMMA SkipType == TypeInv /\ (SkipInstr \/ NextBlock \/ ScanEnd) => TypeInv'
<1> SUFFICES ASSUME TypeInv, SkipInstr \/ NextBlock \/ ScanEnd PROVE TypeInv'
  OBVIOUS
<1> USE DEF TypeInv
<1>1. CASE SkipInstr
  <2>1. SizeAtMI \in Nat
    BY <1>1, MBBSpec, BlockSpec, InstrSizes DEF SkipInstr, InBlock, SizeAtMI
  <2>2. mi' \in {"body", "jcc", "jmp", "end"}
    BY <1>1 DEF SkipInstr, NextSlot, TypeOK
  <2> QED
    BY <1>1, <2>1, <2>2, FunctionUnchangedType DEF SkipInstr, TypeOK
<1>2. CASE NextBlock
  BY <1>2, FunctionUnchangedType DEF NextBlock, InBlock, TypeOK
<1>3. CASE ScanEnd
  <2>1. 1 \in 1..(n+1)
    BY DEF TypeOK
  <2>2. \/ BeginScan
        \/ pc' = "done" /\ UNCHANGED <<at, mi, start, changed>>
    BY <1>3 DEF ScanEnd
  <2>3. UNCHANGED <<input, n, num, code, succ, off, total>>
    BY <1>3 DEF ScanEnd
  <2>4. /\ off' \in [1..n -> Nat] /\ total' \in Nat
        /\ pc' \in {"measure", "scan", "remeasure", "done"} /\ at' \in 1..(n+1)
        /\ mi' \in {"body", "jcc", "jmp", "end"} /\ start' \in Nat
    BY <2>1, <2>2, <2>3 DEF BeginScan, TypeOK
  <2>5. changed' \in BOOLEAN
    BY <2>2, Zenon DEF BeginScan, TypeOK
  <2> QED
    BY <2>3, <2>4, <2>5, FunctionUnchangedType
<1> QED BY <1>1, <1>2, <1>3

LEMMA SplitType == TypeInv /\ Split => TypeInv'
<1> SUFFICES ASSUME TypeInv, Split PROVE TypeInv'
  OBVIOUS
<1> USE DEF TypeInv
<1>1. /\ at \in 1..n /\ n \in Nat
      /\ MBB \in 1..n /\ num[MBB] = at
      /\ n' = n + 1
  BY MBBSpec DEF Split, InBlock, TypeOK
<1>2. Numbering'
  <2>1. num' = [b \in 1..n' |-> IF b = n + 1 THEN at + 1
                               ELSE IF num[b] > at THEN num[b] + 1 ELSE num[b]]
    BY <1>1 DEF Split, Renumbered
  <2>2. \A b \in 1..n' : b = n + 1 \/ (b \in 1..n /\ num[b] \in 1..n)
    <3>1. \A b \in 1..n : num[b] \in 1..n
      BY DEF TypeOK, Numbering
    <3> QED BY <1>1, <3>1
  <2>3. num' \in [1..n' -> 1..n']
    <3>1. ASSUME NEW b \in 1..n' PROVE num'[b] \in 1..n'
      BY <1>1, <2>1, <2>2
    <3> QED BY <2>1, <3>1
  <2>4. ASSUME NEW i \in 1..n' PROVE \E b \in 1..n' : num'[b] = i
    <3>1. CASE i <= at
      <4>1. i \in 1..n
        BY <1>1, <3>1
      <4>2. PICK b \in 1..n : num[b] = i
        BY <4>1 DEF TypeOK, Numbering
      <4>3. b \in 1..n' /\ num'[b] = i
        BY <1>1, <2>1, <3>1, <4>2
      <4> QED BY <4>3
    <3>2. CASE i = at + 1
      <4>1. n + 1 \in 1..n' /\ num'[n + 1] = i
        BY <1>1, <2>1, <3>2
      <4> QED BY <4>1
    <3>3. CASE i > at + 1
      <4>1. i - 1 \in 1..n
        BY <1>1, <3>3
      <4>2. PICK b \in 1..n : num[b] = i - 1
        BY <4>1 DEF TypeOK, Numbering
      <4>3. b \in 1..n' /\ num'[b] = i
        BY <1>1, <2>1, <3>3, <4>2
      <4> QED BY <4>3
    <3> QED BY <1>1, <3>1, <3>2, <3>3
  <2>5. ASSUME NEW b \in 1..n', NEW c \in 1..n', num'[b] = num'[c] PROVE b = c
    <3>1. CASE b = n + 1 \/ c = n + 1
      BY <1>1, <2>1, <2>2, <2>5, <3>1
    <3>2. CASE b \in 1..n /\ c \in 1..n
      <4>1. num[b] = num[c]
        BY <1>1, <2>1, <2>2, <2>5, <3>2
      <4> QED BY <3>2, <4>1 DEF TypeOK, Numbering
    <3> QED BY <2>2, <3>1, <3>2
  <2> QED BY <2>3, <2>4, <2>5 DEF Numbering
<1>3. code' \in [1..n' -> Block']
  <2>1. code' = Spliced
    BY DEF Split
  <2>2. Block' = [body : Nat, jcc : JCCs(n + 1, BOOLEAN), jmp : JMPs(n + 1, {"JMP", "Bi"})]
    BY <1>1 DEF Block
  <2>3. ASSUME NEW b \in 1..n
        PROVE  /\ code[b] \in Block' /\ [code[b] EXCEPT !.jmp = NoInstr] \in Block'
               /\ [body |-> 0, jcc |-> NoInstr, jmp |-> code[b].jmp] \in Block'
    <3>1. /\ code[b].jcc \in JCCs(n + 1, BOOLEAN)
          /\ code[b].jmp \in JMPs(n + 1, {"JMP", "Bi"})
      BY <1>1, BlockSpec, MoreBlocks
    <3>2. NoInstr \in JCCs(n + 1, BOOLEAN) /\ NoInstr \in JMPs(n + 1, {"JMP", "Bi"})
      BY DEF JCCs, JMPs
    <3> QED
      BY <2>2, <3>1, <3>2, BlockSpec DEF Block
  <2>4. ASSUME NEW b \in 1..n' PROVE code'[b] \in Block'
    <3>1. b = n + 1 \/ b \in 1..n
      BY <1>1
    <3>2. CASE b = n + 1
      <4>1. code'[b] = [body |-> 0, jcc |-> NoInstr, jmp |-> code[MBB].jmp]
        BY <1>1, <2>1, <3>2 DEF Spliced
      <4> QED BY <1>1, <2>3, <4>1
    <3>3. CASE b \in 1..n /\ b # n + 1
      <4>1. \/ code'[b] = [code[b] EXCEPT !.jmp = NoInstr]
            \/ code'[b] = code[b]
        BY <1>1, <2>1, <3>3 DEF Spliced
      <4> QED BY <2>3, <3>3, <4>1
    <3> QED BY <1>1, <3>1, <3>2, <3>3
  <2> QED
    BY <1>1, <2>1, <2>4 DEF Spliced
<1>4. succ' \in [1..n' -> SUBSET (1..n')]
  <2>1. \A b \in 1..n : succ[b] \subseteq 1..(n+1)
    BY <1>1 DEF TypeOK
  <2> QED
    BY <1>1, <2>1 DEF Split, SuccessorsSplit
<1>5. off' \in [1..n' -> Nat] /\ total' \in Nat
  BY <1>1 DEF Split, TypeOK
<1>6. NoFallOff'
  <2>1. SUFFICES ASSUME NEW b \in 1..n', num'[b] = n' PROVE code'[b].jmp # NoInstr
    BY DEF NoFallOff
  <2>2. CASE b = n + 1
    BY <1>1, <2>2 DEF Split, Spliced
  <2>3. CASE b # n + 1
    <3>1. b \in 1..n /\ num[b] \in 1..n
      <4>1. b \in 1..n
        BY <1>1, <2>3
      <4> QED BY <4>1 DEF TypeOK, Numbering
    <3>2. num[b] = n /\ b # MBB
      BY <1>1, <2>1, <2>3, <3>1 DEF Split, Renumbered
    <3> QED
      BY <1>1, <3>1, <3>2 DEF Split, Spliced, NoFallOff
  <2> QED BY <2>2, <2>3
<1>7. input' \in Inputs /\ n' \in Nat /\ n' >= N
  BY <1>1, NAssumption DEF Split, TypeOK
<1>8. /\ pc' = "remeasure" /\ at' \in 1..(n'+1)
      /\ UNCHANGED <<mi, start, changed>>
  BY <1>1 DEF Split
<1> QED
  BY <1>2, <1>3, <1>4, <1>5, <1>6, <1>7, <1>8 DEF TypeOK

\* MBB once its conditional branch, or its last branch, is long.
LongJCC == [body |-> code[MBB].body,
            jcc  |-> Instr("JCC", BlockAt(at + 1), ~code[MBB].jcc.neg),
            jmp  |-> Instr("Bi", code[MBB].jcc.dest, FALSE)]
LongJMP == [body |-> code[MBB].body,
            jcc  |-> code[MBB].jcc,
            jmp  |-> Instr("Bi", code[MBB].jmp.dest, FALSE)]

LEMMA ExpandJCCFacts ==
  ASSUME TypeInv, ExpandJCC
  PROVE  /\ at \in 1..n /\ at + 1 \in 1..n
         /\ MBB \in 1..n /\ num[MBB] = at /\ BlockAt(at + 1) \in 1..n
         /\ code[MBB].jcc.op = "JCC" /\ code[MBB].jcc.dest \in 1..n
         /\ code[MBB].jcc.neg \in BOOLEAN
         /\ code[MBB].jmp = NoInstr
         /\ LongJCC \in Block
         /\ Expand(LongJCC, 4) /\ InstSize(Current) = 2
<1> USE DEF TypeInv
<1>1. /\ at \in 1..n /\ MBB \in 1..n /\ num[MBB] = at
      /\ mi = "jcc" /\ IsShort(Current) /\ code[MBB].jmp = NoInstr
  BY MBBSpec DEF ExpandJCC, InBlock, TooFar, TypeOK
<1>2. /\ Current = code[MBB].jcc /\ Current.op = "JCC" /\ Current.dest \in 1..n
      /\ InstSize(Current) = 2
  BY <1>1, CurrentSpec
<1>3. at + 1 \in 1..n
  <2>1. at # n
    BY <1>1 DEF NoFallOff
  <2> QED BY <1>1, <2>1 DEF TypeOK
<1>4. BlockAt(at + 1) \in 1..n
  BY <1>3, BlockAtSpec
<1>5. code[MBB] \in Block /\ code[MBB].jcc \in JCCs(n, BOOLEAN)
  BY <1>1, BlockSpec
<1>6. code[MBB].jcc.neg \in BOOLEAN
  BY <1>2, <1>5 DEF JCCs, Instr, NoInstr
<1>7. LongJCC \in Block
  <2>1. Instr("JCC", BlockAt(at + 1), ~code[MBB].jcc.neg) \in JCCs(n, BOOLEAN)
    BY <1>4, <1>6, JCCIn
  <2>2. Instr("Bi", code[MBB].jcc.dest, FALSE) \in JMPs(n, {"JMP", "Bi"})
    BY <1>2, JMPIn
  <2> QED BY <1>5, <2>1, <2>2 DEF LongJCC, Block
<1>8. Expand(LongJCC, 4)
  <2>1. LongJCC = [body |-> code[MBB].body,
                   jcc  |-> Instr("JCC", BlockAt(at + 1), ~Current.neg),
                   jmp  |-> Instr("Bi", Current.dest, FALSE)]
    BY <1>2 DEF LongJCC
  <2>2. InstSize(Instr("JCC", BlockAt(at + 1), ~Current.neg))
          + InstSize(Instr("Bi", Current.dest, FALSE)) - InstSize(Current) = 4
    BY <1>2 DEF InstSize, Instr
  <2> QED BY <2>1, <2>2 DEF ExpandJCC
<1> QED BY <1>1, <1>2, <1>3, <1>4, <1>6, <1>7, <1>8

LEMMA ExpandJMPFacts ==
  ASSUME TypeInv, ExpandJMP
  PROVE  /\ at \in 1..n
         /\ MBB \in 1..n /\ num[MBB] = at
         /\ code[MBB].jmp.op = "JMP" /\ code[MBB].jmp.dest \in 1..n
         /\ LongJMP \in Block
         /\ Expand(LongJMP, 2) /\ InstSize(Current) = 2
<1> USE DEF TypeInv
<1>1. /\ at \in 1..n /\ MBB \in 1..n /\ num[MBB] = at
      /\ mi = "jmp" /\ IsShort(Current)
  BY MBBSpec DEF ExpandJMP, InBlock, TooFar, TypeOK
<1>2. /\ Current = code[MBB].jmp /\ Current.op = "JMP" /\ Current.dest \in 1..n
      /\ InstSize(Current) = 2
  BY <1>1, CurrentSpec
<1>3. code[MBB] \in Block /\ code[MBB].jcc \in JCCs(n, BOOLEAN)
  BY <1>1, BlockSpec
<1>4. LongJMP \in Block
  <2>1. Instr("Bi", code[MBB].jmp.dest, FALSE) \in JMPs(n, {"JMP", "Bi"})
    BY <1>2, JMPIn
  <2> QED BY <1>3, <2>1 DEF LongJMP, Block
<1>5. Expand(LongJMP, 2)
  <2>1. LongJMP = [code[MBB] EXCEPT !.jmp = Instr("Bi", Current.dest, FALSE)]
    BY <1>2, <1>3, BlockFields DEF LongJMP
  <2>2. InstSize(Instr("Bi", Current.dest, FALSE)) - InstSize(Current) = 2
    BY <1>2 DEF InstSize, Instr
  <2> QED BY <2>1, <2>2 DEF ExpandJMP
<1> QED BY <1>1, <1>2, <1>4, <1>5

LEMMA ExpandType ==
  ASSUME TypeInv, at \in 1..n, MBB \in 1..n, InstSize(Current) = 2,
         NEW long \in Block, long.jmp # NoInstr, NEW diff \in Nat, Expand(long, diff)
  PROVE  TypeInv'
<1> USE DEF TypeInv
<1>1. UNCHANGED <<input, n, num, succ, pc, at, total>>
  BY DEF Expand
<1>2. Block' = Block /\ Numbering' = Numbering
  BY <1>1 DEF Block, Numbering
<1>3. code' \in [1..n -> Block]
  BY DEF Expand, TypeOK
<1>4. off' \in [1..n -> Nat]
  <2>1. off' = OffsetsShifted(diff)
    BY DEF Expand
  <2>2. ASSUME NEW i \in 1..n PROVE off'[i] \in Nat
    BY <2>1 DEF OffsetsShifted, TypeOK
  <2> QED BY <2>1, <2>2 DEF OffsetsShifted
<1>5. start' \in Nat /\ mi' = "end" /\ changed' = TRUE
  BY DEF Expand, TypeOK
<1>6. NoFallOff'
  <2>1. SUFFICES ASSUME NEW b \in 1..n, num[b] = n PROVE code'[b].jmp # NoInstr
    BY <1>1 DEF NoFallOff
  <2> QED BY <2>1 DEF Expand, NoFallOff, TypeOK
<1>7. TypeOK'
  BY <1>1, <1>2, <1>3, <1>4, <1>5 DEF TypeOK
<1> QED BY <1>6, <1>7

LEMMA ExpandsType == TypeInv /\ (ExpandJCC \/ ExpandJMP) => TypeInv'
<1>1. ASSUME TypeInv, ExpandJCC PROVE TypeInv'
  <2>1. LongJCC.jmp # NoInstr
    BY DEF LongJCC, Instr, NoInstr
  <2> QED BY <1>1, <2>1, ExpandJCCFacts, ExpandType
<1>2. ASSUME TypeInv, ExpandJMP PROVE TypeInv'
  <2>1. LongJMP.jmp # NoInstr
    BY DEF LongJMP, Instr, NoInstr
  <2> QED BY <1>2, <2>1, ExpandJMPFacts, ExpandType
<1> QED BY <1>1, <1>2

LEMMA InitType == Init => TypeInv
<1> SUFFICES ASSUME Init PROVE TypeInv
  OBVIOUS
<1> USE NAssumption, BodiesAssumption
<1>1. n = N /\ n \in Nat /\ num = [b \in 1..n |-> b] /\ input \in Inputs /\ code = input
  BY DEF Init
<1>2. Numbering
  BY <1>1 DEF Numbering
<1>3. /\ input \in [1..n -> [body : Bodies, jcc : JCCs(n, {FALSE}), jmp : JMPs(n, {"JMP"})]]
      /\ \A b \in 1..n : Legal(b, input[b])
  BY <1>1 DEF Inputs
<1>4. ASSUME NEW b \in 1..n PROVE code[b] \in Block
  <2>1. /\ code[b] \in [body : Bodies, jcc : JCCs(n, {FALSE}), jmp : JMPs(n, {"JMP"})]
        /\ code[b].body \in Nat
    BY <1>1, <1>3
  <2>2. code[b].jcc \in JCCs(n, BOOLEAN)
    <3>1. code[b].jcc \in JCCs(n, {FALSE})
      BY <2>1
    <3> QED BY <3>1 DEF JCCs
  <2>3. code[b].jmp \in JMPs(n, {"JMP", "Bi"})
    <3>1. code[b].jmp \in JMPs(n, {"JMP"})
      BY <2>1
    <3> QED BY <3>1 DEF JMPs, Instr, NoInstr, Exit
  <2> QED BY <2>1, <2>2, <2>3 DEF Block
<1>5. code \in [1..n -> Block]
  BY <1>1, <1>3, <1>4
<1>6. succ \in [1..n -> SUBSET (1..n)]
  <2>1. ASSUME NEW b \in 1..n, NEW c \in BOOLEAN
        PROVE  Branch(input[b], c, b + 1) \in 1..n \cup {Exit}
    <3>1. /\ code[b].jcc \in JCCs(n, BOOLEAN) /\ code[b].jmp \in JMPs(n, {"JMP", "Bi"})
          /\ code[b] = input[b]
      BY <1>1, <1>4 DEF Block
    <3>2. code[b].jcc.op = "JCC" => code[b].jcc.dest \in 1..n
      BY <3>1 DEF JCCs, Instr, NoInstr
    <3>3. code[b].jmp.op \in {"JMP", "Bi"} => code[b].jmp.dest \in 1..n
      BY <3>1, JMPCases
    <3>4. code[b].jmp.op \notin {"JMP", "Bi", "RET"} => code[b].jmp = NoInstr
      <4> DEFINE j == code[b].jmp
      <4>1. j = NoInstr \/ j.op = "RET" \/ j.op \in {"JMP", "Bi"}
        BY <3>1, JMPCases
      <4> QED BY <4>1
    <3>5. code[b].jmp = NoInstr => b + 1 \in 1..n
      <4>1. b = N => code[b].jmp # NoInstr
        BY <1>3, <3>1 DEF Legal
      <4> QED BY <1>1, <4>1
    <3> QED BY <3>1, <3>2, <3>3, <3>4, <3>5 DEF Branch
  <2>2. succ = [b \in 1..n |-> {Branch(input[b], c, b + 1) : c \in BOOLEAN} \ {Exit}]
    BY <1>1 DEF Init
  <2> QED BY <2>1, <2>2
<1>7. off \in [1..n -> Nat] /\ at \in 1..(n+1)
  BY <1>1 DEF Init
<1>8. NoFallOff
  BY <1>1, <1>3 DEF NoFallOff, Legal
<1>9. n >= N
  BY <1>1
<1> QED BY <1>1, <1>2, <1>5, <1>6, <1>7, <1>8, <1>9 DEF Init, TypeInv, TypeOK

LEMMA NextType == TypeInv /\ [Next]_vars => TypeInv'
<1>1. TypeInv /\ UNCHANGED vars => TypeInv'
  BY DEF TypeInv, TypeOK, NoFallOff, Numbering, Block, vars
<1> QED
  BY <1>1, MeasureType, SkipType, SplitType, ExpandsType DEF Next

(***************************************************************************)
(* Type correctness of the branch selector: whatever the function, every   *)
(* branch it writes names a block, and the blocks stay densely numbered.   *)
(***************************************************************************)
THEOREM TypeCorrect == Spec => []TypeOK
<1>1. TypeInv => TypeOK
  BY DEF TypeInv
<1> QED
  BY <1>1, InitType, NextType, PTL DEF Spec

-------------------------------------------------------------------------------
(* Block offsets *)

\* What is measured next is what the blocks before it add up to.
TotalExact ==
  pc \in {"measure", "remeasure"} =>
    /\ at = 1 => total = 0
    /\ \A b \in 1..n : num[b] + 1 = at => total = off[num[b]] + Size(b)

OffInv == TypeInv /\ OffsetsExact /\ TotalExact

\* The steps that change neither the code nor the offsets.
LEMMA OffsetsUnchanged ==
  ASSUME OffInv, UNCHANGED <<n, num, code, off>>,
         pc' \in {"scan", "done"}, pc \in {"scan", "done"} \/ at = n + 1
  PROVE  OffsetsExact' /\ TotalExact'
<1>1. \A b \in 1..n : Size(b)' = Size(b)
  BY DEF Size
<1>2. n' = n /\ num' = num /\ off' = off
  OBVIOUS
<1> QED BY <1>1, <1>2 DEF OffInv, OffsetsExact, TotalExact

LEMMA MeasureBlockOffsets == OffInv /\ MeasureBlock => OffsetsExact' /\ TotalExact'
<1> SUFFICES ASSUME OffInv, MeasureBlock PROVE OffsetsExact' /\ TotalExact'
  OBVIOUS
<1>1. /\ n \in Nat /\ at \in 1..n /\ off \in [1..n -> Nat] /\ total \in Nat
      /\ MBB \in 1..n /\ num[MBB] = at
      /\ \A b \in 1..n : num[b] \in 1..n
      /\ \A b \in 1..n : num[b] = at => b = MBB
  BY Basics, MBBSpec DEF OffInv, TypeInv, MeasureBlock
<1>2. /\ UNCHANGED <<n, num, code, pc>>
      /\ off' = [off EXCEPT ![at] = total] /\ total' = total + Size(MBB) /\ at' = at + 1
      /\ pc \in {"measure", "remeasure"}
  BY DEF MeasureBlock
<1>3. /\ \A b \in 1..n : Size(b)' = Size(b) /\ Size(b) \in Nat
  BY <1>2, SizeNat DEF Size, OffInv, TypeInv
<1>4. /\ at = 1 => total = 0
      /\ \A b \in 1..n : num[b] + 1 = at => total = off[num[b]] + Size(b)
  BY <1>2 DEF OffInv, TotalExact
<1>5. /\ off[1] = 0
      /\ \A b, c \in 1..n : num[c] = num[b] + 1 /\ num[c] < at
                              => off[num[c]] = off[num[b]] + Size(b)
  BY <1>2 DEF OffInv, OffsetsExact
<1>6. \A i \in 1..n : off'[i] = IF i = at THEN total ELSE off[i]
  BY <1>1, <1>2
<1>7. OffsetsExact'
  <2>1. off'[1] = 0
    BY <1>1, <1>4, <1>5, <1>6
  <2>2. ASSUME NEW b \in 1..n, NEW c \in 1..n, num[c] = num[b] + 1, num[c] < at + 1
        PROVE  off'[num[c]] = off'[num[b]] + Size(b)
    <3>1. num[b] \in 1..n /\ num[c] \in 1..n
      BY <1>1
    <3>2. CASE num[c] = at
      <4>1. num[b] # at /\ total = off[num[b]] + Size(b)
        BY <1>1, <1>4, <2>2, <3>1, <3>2
      <4>2. off'[num[b]] = off[num[b]] /\ off'[num[c]] = total
        BY <1>6, <3>1, <3>2, <4>1
      <4> QED BY <4>1, <4>2
    <3>3. CASE num[c] < at
      <4>1. num[b] # at /\ off[num[c]] = off[num[b]] + Size(b)
        <5>1. off[num[c]] = off[num[b]] + Size(b)
          BY <1>5, <2>2, <3>3
        <5>2. num[b] # at
          BY <1>1, <2>2, <3>1, <3>3
        <5> QED BY <5>1, <5>2
      <4>2. num[c] # at
        BY <3>1, <3>3
      <4>3. off'[num[b]] = off[num[b]] /\ off'[num[c]] = off[num[c]]
        BY <1>6, <3>1, <4>1, <4>2
      <4> QED BY <4>1, <4>3
    <3> QED BY <1>1, <2>2, <3>1, <3>2, <3>3
  <2> QED BY <1>2, <1>3, <2>1, <2>2 DEF OffsetsExact
<1>8. TotalExact'
  <2>1. at' # 1
    BY <1>1, <1>2
  <2>2. ASSUME NEW b \in 1..n, num[b] + 1 = at + 1
        PROVE  total + Size(MBB) = off'[num[b]] + Size(b)
    BY <1>1, <1>6, <2>2, SMTT(20)
  <2> QED BY <1>2, <1>3, <2>1, <2>2 DEF TotalExact
<1> QED BY <1>7, <1>8

LEMMA SplitOffsets == OffInv /\ Split => OffsetsExact' /\ TotalExact'
<1> SUFFICES ASSUME OffInv, Split PROVE OffsetsExact' /\ TotalExact'
  OBVIOUS
<1>1. /\ n \in Nat /\ at \in 1..n /\ off \in [1..n -> Nat]
      /\ MBB \in 1..n /\ num[MBB] = at
      /\ \A b \in 1..n : num[b] \in 1..n
  BY Basics, MBBSpec DEF OffInv, TypeInv, Split, InBlock
<1>2. /\ n' = n + 1 /\ at' = at /\ total' = off[at] /\ pc' = "remeasure"
      /\ \A i \in 1..n : off'[i] = off[i]
  BY <1>1 DEF Split
<1>3. /\ off[1] = 0
      /\ \A b, c \in 1..n : num[c] = num[b] + 1 => off[num[c]] = off[num[b]] + Size(b)
  BY <1>1 DEF OffInv, OffsetsExact, Split, InBlock
\* The blocks before MBB are those they were.
<1>4. ASSUME NEW b \in 1..n', num'[b] < at
      PROVE  b \in 1..n /\ num'[b] = num[b] /\ Size(b)' = Size(b)
  <2>1. b \in 1..n
    BY <1>1, <1>2, <1>4 DEF Split, Renumbered
  <2>2. num'[b] = num[b] /\ b # MBB
    BY <1>1, <1>2, <1>4, <2>1 DEF Split, Renumbered
  <2>3. code'[b] = code[b]
    BY <1>1, <1>2, <2>1, <2>2 DEF Split, Spliced
  <2> QED BY <2>1, <2>2, <2>3 DEF Size
<1>5. \A b \in 1..n' : num'[b] \in 1..n'
  BY SplitType DEF OffInv, TypeInv, TypeOK, Numbering
<1>6. OffsetsExact'
  <2>1. off'[1] = 0
    BY <1>1, <1>2, <1>3
  <2>2. ASSUME NEW b \in 1..n', NEW c \in 1..n', num'[c] = num'[b] + 1, num'[c] < at
        PROVE  off'[num'[c]] = off'[num'[b]] + Size(b)'
    <3>1. num'[b] < at
      BY <1>1, <1>2, <1>5, <2>2
    <3>2. /\ b \in 1..n /\ num'[b] = num[b] /\ Size(b)' = Size(b)
          /\ c \in 1..n /\ num'[c] = num[c]
      BY <1>4, <2>2, <3>1
    <3>3. off[num[c]] = off[num[b]] + Size(b)
      BY <1>3, <2>2, <3>2
    <3>4. off'[num[b]] = off[num[b]] /\ off'[num[c]] = off[num[c]]
      BY <1>1, <1>2, <3>2
    <3> QED BY <3>2, <3>3, <3>4
  <2> QED BY <1>2, <2>1, <2>2 DEF OffsetsExact
<1>7. TotalExact'
  <2>1. at = 1 => off[at] = 0
    BY <1>3
  <2>2. ASSUME NEW b \in 1..n', num'[b] + 1 = at
        PROVE  off[at] = off'[num'[b]] + Size(b)'
    <3>1. num'[b] < at
      BY <1>1, <1>2, <1>5, <2>2
    <3>2. b \in 1..n /\ num'[b] = num[b] /\ Size(b)' = Size(b)
      BY <1>4, <3>1
    <3>3. num[MBB] = num[b] + 1 /\ MBB \in 1..n
      BY <1>1, <2>2, <3>2
    <3>4. off[num[MBB]] = off[num[b]] + Size(b)
      BY <1>3, <3>2, <3>3
    <3>5. off'[num[b]] = off[num[b]]
      BY <1>1, <1>2, <3>2
    <3> QED BY <1>1, <3>2, <3>4, <3>5
  <2> QED BY <1>2, <2>1, <2>2 DEF TotalExact
<1> QED BY <1>6, <1>7

\* MBB grows by diff, and so does the place of every later block.
LEMMA ExpandOffsets ==
  ASSUME OffInv, pc = "scan", at \in 1..n, MBB \in 1..n, num[MBB] = at,
         NEW long \in Block, NEW diff \in Nat, Expand(long, diff),
         long.body + InstSize(long.jcc) + InstSize(long.jmp) = Size(MBB) + diff
  PROVE  OffsetsExact' /\ TotalExact'
<1>1. /\ n \in Nat /\ off \in [1..n -> Nat] /\ code \in [1..n -> Block]
      /\ \A b \in 1..n : num[b] \in 1..n
      /\ \A b \in 1..n : num[b] = at => b = MBB
      /\ \A b \in 1..n : Size(b) \in Nat
  <2>1. TypeOK
    BY DEF OffInv, TypeInv
  <2>2. \A b \in 1..n : num[b] = at => b = MBB
    BY <2>1, MBBSpec
  <2> QED BY <2>1, <2>2, Basics, SizeNat
<1>2. /\ UNCHANGED <<n, num, pc>>
      /\ \A i \in 1..n : i > at => off'[i] = off[i] + diff
      /\ \A i \in 1..n : ~(i > at) => off'[i] = off[i]
      /\ \A b \in 1..n : code'[b] = IF b = MBB THEN long ELSE code[b]
  BY <1>1 DEF Expand, OffsetsShifted
<1>3. \A b \in 1..n : Size(b)' = IF b = MBB THEN Size(b) + diff ELSE Size(b)
  BY <1>2 DEF Size
<1>4. /\ off[1] = 0
      /\ \A b, c \in 1..n : num[c] = num[b] + 1 => off[num[c]] = off[num[b]] + Size(b)
  <2>1. n \in Nat /\ \A c \in 1..n : num[c] \in 1..n
    BY <1>1
  <2>2. \A c \in 1..n : num[c] < n + 1
    BY <2>1
  <2> QED BY <2>2 DEF OffInv, OffsetsExact
<1>5. off'[1] = 0
  BY <1>1, <1>2, <1>4
<1>6. ASSUME NEW b \in 1..n, NEW c \in 1..n, num[c] = num[b] + 1
      PROVE  off'[num[c]] = off'[num[b]] + Size(b)'
  <2>1. off[num[c]] = off[num[b]] + Size(b)
    BY <1>4, <1>6
  <2>2. num[b] \in 1..n /\ num[c] \in 1..n /\ off[num[b]] \in Nat /\ off[num[c]] \in Nat
    BY <1>1
  <2>3. CASE num[b] < at
    <3>1. Size(b)' = Size(b)
      BY <1>3, <2>3
    <3>2. ~(num[b] > at) /\ ~(num[c] > at)
      BY <1>6, <2>2, <2>3
    <3>3. off'[num[b]] = off[num[b]] /\ off'[num[c]] = off[num[c]]
      BY <1>2, <2>2, <3>2
    <3> QED BY <2>1, <3>1, <3>3
  <2>4. CASE num[b] = at
    <3>1. Size(b)' = Size(b) + diff /\ Size(b) \in Nat
      BY <1>1, <1>3, <2>4
    <3>2. ~(num[b] > at) /\ num[c] > at
      BY <1>6, <2>2, <2>4
    <3>3. off'[num[b]] = off[num[b]] /\ off'[num[c]] = off[num[c]] + diff
      BY <1>2, <2>2, <3>2
    <3> QED BY <2>1, <2>2, <3>1, <3>3
  <2>5. CASE num[b] > at
    <3>1. Size(b)' = Size(b) /\ Size(b) \in Nat
      BY <1>1, <1>3, <2>5
    <3>2. num[b] > at /\ num[c] > at
      BY <1>6, <2>2, <2>5
    <3>3. off'[num[b]] = off[num[b]] + diff /\ off'[num[c]] = off[num[c]] + diff
      BY <1>2, <2>2, <3>2
    <3> QED BY <2>1, <2>2, <3>1, <3>3
  <2> QED BY <2>2, <2>3, <2>4, <2>5
<1> QED BY <1>2, <1>5, <1>6 DEF OffsetsExact, TotalExact

LEMMA ExpandsOffsets == OffInv /\ (ExpandJCC \/ ExpandJMP) => OffsetsExact' /\ TotalExact'
<1>1. ASSUME OffInv, ExpandJCC PROVE OffsetsExact' /\ TotalExact'
  <2>1. LongJCC.body + InstSize(LongJCC.jcc) + InstSize(LongJCC.jmp) = Size(MBB) + 4
    BY <1>1, ExpandJCCFacts, BlockSpec DEF OffInv, TypeInv, LongJCC, Size, InstSize, Instr, NoInstr
  <2> QED BY <1>1, <2>1, ExpandJCCFacts, ExpandOffsets DEF OffInv, ExpandJCC, InBlock
<1>2. ASSUME OffInv, ExpandJMP PROVE OffsetsExact' /\ TotalExact'
  <2>1. LongJMP.body + InstSize(LongJMP.jcc) + InstSize(LongJMP.jmp) = Size(MBB) + 2
    BY <1>2, ExpandJMPFacts, BlockSpec, InstrSizes
       DEF OffInv, TypeInv, LongJMP, Size, InstSize, Instr
  <2> QED BY <1>2, <2>1, ExpandJMPFacts, ExpandOffsets DEF OffInv, ExpandJMP, InBlock
<1> QED BY <1>1, <1>2

LEMMA NextOffsets == OffInv /\ [Next]_vars => OffInv'
<1> SUFFICES ASSUME OffInv, [Next]_vars PROVE OffsetsExact' /\ TotalExact'
  BY NextType DEF OffInv
<1>1. CASE Measured \/ SkipInstr \/ NextBlock \/ ScanEnd
  BY <1>1, OffsetsUnchanged DEF Measured, SkipInstr, NextBlock, ScanEnd, BeginScan, InBlock
<1>2. CASE UNCHANGED vars
  <2>1. \A b \in 1..n : Size(b)' = Size(b)
    BY <1>2 DEF Size, vars
  <2> QED BY <1>2, <2>1 DEF OffInv, OffsetsExact, TotalExact, vars
<1> QED
  BY <1>1, <1>2, MeasureBlockOffsets, SplitOffsets, ExpandsOffsets DEF Next

LEMMA InitOffsets == Init => OffInv
<1> SUFFICES ASSUME Init PROVE OffsetsExact /\ TotalExact
  BY InitType DEF OffInv
<1>1. n \in Nat \ {0} /\ off[1] = 0 /\ at = 1 /\ total = 0 /\ pc = "measure"
      /\ \A b \in 1..n : num[b] = b
  BY NAssumption DEF Init
<1> QED BY <1>1 DEF OffsetsExact, TotalExact

(***************************************************************************)
(* The offsets expandBranches works with are always those of the layout,   *)
(* for functions of any size: patching them after each branch that grows   *)
(* and remeasuring from a split block loses nothing.                       *)
(***************************************************************************)
THEOREM OffsetsCorrect == Spec => []OffsetsExact
<1>1. OffInv => OffsetsExact
  BY DEF OffInv
<1> QED
  BY <1>1, InitOffsets, NextOffsets, PTL DEF Spec

-------------------------------------------------------------------------------
(* Reach of the short branches left *)

\* While a function is first measured, total bounds the blocks measured.
Extents ==
  pc = "measure" => \A b \in 1..n : num[b] < at => off[num[b]] + Size(b) <= total

\* Size of the instructions of b that stand before MI.
Before(b, m) == IF m = "body" THEN 0
                ELSE IF m = "jcc" THEN code[b].body
                ELSE IF m = "jmp" THEN code[b].body + InstSize(code[b].jcc)
                ELSE Size(b)

StartExact == pc = "scan" /\ at <= n => start = Before(MBB, mi)

\* A scan that has changed nothing has left only branches that reach.
ScannedReach ==
  pc = "scan" /\ changed = FALSE =>
    /\ \A b \in 1..n : num[b] < at => JccReaches(b) /\ JmpReaches(b)
    /\ at <= n /\ mi \in {"jmp", "end"} => JccReaches(MBB)
    /\ at <= n /\ mi = "end" => JmpReaches(MBB)

ReachInv == OffInv /\ Extents /\ StartExact /\ ScannedReach /\ ShortBranchesReach

\* What stays when a step leaves the function and its offsets alone.
LEMMA LayoutUnchanged ==
  ASSUME UNCHANGED <<n, num, code, off>>
  PROVE  /\ \A b : Size(b)' = Size(b) /\ JccReaches(b)' = JccReaches(b)
                 /\ JmpReaches(b)' = JmpReaches(b)
         /\ \A b, m : Before(b, m)' = Before(b, m)
         /\ at' = at => MBB' = MBB
BY DEF Size, JccReaches, JmpReaches, Reaches, Before, MBB, BlockAt

LEMMA MeasureBlockReach == ReachInv /\ MeasureBlock => ReachInv'
<1> SUFFICES ASSUME ReachInv, MeasureBlock PROVE ReachInv'
  OBVIOUS
<1>1. OffInv'
  BY NextOffsets DEF ReachInv, Next
<1>2. /\ UNCHANGED <<n, num, code, pc>> /\ pc \in {"measure", "remeasure"}
      /\ off' = [off EXCEPT ![at] = total] /\ total' = total + Size(MBB) /\ at' = at + 1
  BY DEF MeasureBlock
<1>3. /\ n \in Nat /\ at \in 1..n /\ off \in [1..n -> Nat] /\ total \in Nat
      /\ \A b \in 1..n : num[b] \in 1..n /\ Size(b) \in Nat
      /\ MBB \in 1..n /\ \A b \in 1..n : num[b] = at => b = MBB
  BY Basics, MBBSpec, SizeNat DEF ReachInv, OffInv, TypeInv, MeasureBlock
<1>4. \A b \in 1..n : Size(b)' = Size(b)
  BY <1>2 DEF Size
<1>5. Extents'
  <2>1. SUFFICES ASSUME pc = "measure", NEW b \in 1..n, num[b] < at + 1
                 PROVE  off'[num[b]] + Size(b) <= total + Size(MBB)
    BY <1>2, <1>4 DEF Extents
  <2>2. CASE num[b] = at
    <3>1. b = MBB /\ off'[num[b]] = total
      BY <1>2, <1>3, <2>2
    <3>2. Size(MBB) \in Nat /\ total \in Nat /\ Size(b) = Size(MBB)
      BY <1>3, <3>1
    <3> QED BY <3>1, <3>2
  <2>3. CASE num[b] < at
    <3>1. off'[num[b]] = off[num[b]]
      BY <1>2, <1>3, <2>3
    <3>2. off[num[b]] + Size(b) <= total
      BY <2>1, <2>3 DEF ReachInv, Extents
    <3>3. off[num[b]] \in Nat /\ Size(b) \in Nat /\ Size(MBB) \in Nat
      BY <1>3
    <3> QED BY <1>3, <3>1, <3>2, <3>3, SMTT(20)
  <2>4. num[b] \in Int /\ at \in Int
    BY <1>3, <2>1
  <2>5. num[b] = at \/ num[b] < at
    BY <2>1, <2>4
  <2> QED BY <2>2, <2>3, <2>5
<1> QED
  BY <1>1, <1>2, <1>5 DEF ReachInv, StartExact, ScannedReach, ShortBranchesReach

\* In a function smaller than the reach of a branch every branch reaches.
LEMMA SmallFunctionReaches ==
  ASSUME ReachInv, pc = "measure", at = n + 1, InRange(total), NEW b \in 1..n
  PROVE  JccReaches(b) /\ JmpReaches(b)
<1>1. /\ n \in Nat /\ off \in [1..n -> Nat] /\ total \in Nat
      /\ \A c \in 1..n : num[c] \in 1..n /\ Size(c) \in Nat
  BY Basics, SizeNat DEF ReachInv, OffInv, TypeInv
<1>2. \A c \in 1..n : off[num[c]] \in Nat /\ off[num[c]] + Size(c) <= total
  BY <1>1 DEF ReachInv, Extents
<1>3. ASSUME NEW d \in 1..n, NEW end \in Nat, end <= Size(b)
      PROVE  InRange(off[num[d]] - off[num[b]] - end)
  <2>1. /\ off[num[d]] \in Nat /\ off[num[b]] \in Nat
        /\ Size(d) \in Nat /\ Size(b) \in Nat /\ total \in Nat
        /\ off[num[d]] + Size(d) <= total /\ off[num[b]] + Size(b) <= total
    BY <1>1, <1>2
  <2> DEFINE x == off[num[d]]
             y == off[num[b]]
  <2>2. x - y - end <= total /\ x - y - end >= -total /\ x - y - end \in Int
    BY <1>3, <2>1
  <2>3. total < 2 * Reach /\ -2 * Reach <= -total
    BY <1>1, ReachAssumption DEF InRange
  <2> HIDE DEF x, y
  <2> QED BY <1>1, <2>2, <2>3, ReachAssumption, SMTT(20) DEF InRange, x, y
<1>4. /\ code[b].body \in Nat
      /\ code[b].jcc \in JCCs(n, BOOLEAN) /\ code[b].jmp \in JMPs(n, {"JMP", "Bi"})
  BY BlockSpec DEF ReachInv, OffInv, TypeInv
<1>5. InstSize(code[b].jcc) \in Nat /\ InstSize(code[b].jmp) \in Nat
  BY InstrSizes
<1>6. /\ IsShort(code[b].jcc) => code[b].jcc.dest \in 1..n
      /\ IsShort(code[b].jmp) => code[b].jmp.dest \in 1..n
  <2> DEFINE i == code[b].jcc
             j == code[b].jmp
  <2>1. i.op = "none" \/ i.dest \in 1..n
    BY <1>4, JCCCases
  <2>2. j.op \in {"none", "RET"} \/ j.dest \in 1..n
    BY <1>4, JMPCases
  <2> QED BY <2>1, <2>2 DEF IsShort
<1>7. /\ code[b].body + InstSize(code[b].jcc) \in Nat
      /\ code[b].body + InstSize(code[b].jcc) <= Size(b)
      /\ Size(b) \in Nat
  BY <1>4, <1>5 DEF Size
<1> QED BY <1>3, <1>6, <1>7 DEF JccReaches, JmpReaches, Reaches

LEMMA MeasuredReach == ReachInv /\ Measured => ReachInv'
<1> SUFFICES ASSUME ReachInv, Measured PROVE ReachInv'
  OBVIOUS
<1>1. OffInv'
  BY NextOffsets DEF ReachInv, Next
<1>2. /\ UNCHANGED <<n, num, code, off>> /\ at = n + 1 /\ pc \in {"measure", "remeasure"}
      /\ \/ pc = "measure" /\ InRange(total) /\ pc' = "done"
         \/ BeginScan
  BY DEF Measured
<1>3. /\ n \in Nat /\ \A b \in 1..n : num[b] \in 1..n
  BY Basics DEF ReachInv, OffInv, TypeInv
<1>4. CASE pc = "measure" /\ InRange(total) /\ pc' = "done"
  <2>1. \A b \in 1..n : JccReaches(b)' /\ JmpReaches(b)'
    BY <1>2, <1>4, SmallFunctionReaches, LayoutUnchanged
  <2> QED
    BY <1>1, <1>2, <1>4, <2>1
       DEF ReachInv, Extents, StartExact, ScannedReach, ShortBranchesReach
<1>5. CASE BeginScan
  <2>1. pc' = "scan" /\ at' = 1 /\ mi' = "body" /\ start' = 0 /\ n' = n /\ num' = num
    BY <1>2, <1>5 DEF BeginScan
  <2> QED
    BY <1>1, <1>3, <2>1
       DEF ReachInv, Extents, StartExact, Before, ScannedReach, ShortBranchesReach
<1> QED BY <1>2, <1>4, <1>5

LEMMA SkipReach == ReachInv /\ SkipInstr => ReachInv'
<1> SUFFICES ASSUME ReachInv, SkipInstr PROVE ReachInv'
  OBVIOUS
<1>1. OffInv'
  BY NextOffsets DEF ReachInv, Next
<1>2. /\ UNCHANGED <<n, num, code, off, pc, at, changed>> /\ pc = "scan" /\ at <= n
      /\ mi # "end" /\ ~TooFar
      /\ start' = start + SizeAtMI /\ mi' = NextSlot[mi]
  BY DEF SkipInstr, InBlock
<1>3. /\ n \in Nat /\ at \in 1..n /\ MBB \in 1..n /\ num[MBB] = at
      /\ mi \in {"body", "jcc", "jmp"}
      /\ start = Before(MBB, mi)
      /\ code[MBB].body \in Nat
      /\ InstSize(code[MBB].jcc) \in Nat /\ InstSize(code[MBB].jmp) \in Nat
  <2>1. TypeInv /\ OffInv
    BY DEF ReachInv, OffInv
  <2>2. n \in Nat /\ at \in 1..n
    BY <1>2, <2>1, Basics DEF TypeInv
  <2>3. MBB \in 1..n /\ num[MBB] = at
    BY <2>1, <2>2, MBBSpec DEF TypeInv
  <2>4. mi \in {"body", "jcc", "jmp"}
    BY <1>2, <2>1 DEF TypeInv, TypeOK
  <2>5. start = Before(MBB, mi)
    BY <1>2 DEF ReachInv, StartExact
  <2>6. code[MBB].body \in Nat
    BY <2>1, <2>3, BlockSpec DEF TypeInv
  <2> QED BY <2>2, <2>3, <2>4, <2>5, <2>6, InstrSizes
<1>4. /\ \A b : JccReaches(b)' = JccReaches(b) /\ JmpReaches(b)' = JmpReaches(b)
      /\ MBB' = MBB /\ Before(MBB, mi)' = Before(MBB, mi')
  BY <1>2, LayoutUnchanged
<1>5. start' = Before(MBB, mi')
  BY <1>2, <1>3 DEF Before, SizeAtMI, NextSlot, Current, Size
\* What the scan has just accepted reaches: BlockOffsets gave the distance.
<1>6. mi = "jcc" => JccReaches(MBB)
  BY <1>2, <1>3 DEF JccReaches, Reaches, TooFar, Distance, Current, Before
<1>7. mi = "jmp" => JmpReaches(MBB)
  BY <1>2, <1>3 DEF JmpReaches, Reaches, TooFar, Distance, Current, Before, Size
<1>8. /\ mi' \in {"jmp", "end"} => mi \in {"jcc", "jmp"}
      /\ mi' = "end" => mi = "jmp"
  BY <1>2, <1>3 DEF NextSlot
<1>9. ScannedReach'
  BY <1>2, <1>4, <1>6, <1>7, <1>8 DEF ReachInv, ScannedReach
<1> QED
  BY <1>1, <1>2, <1>4, <1>5, <1>9 DEF ReachInv, Extents, StartExact, ShortBranchesReach

LEMMA NextBlockReach == ReachInv /\ NextBlock => ReachInv'
<1> SUFFICES ASSUME ReachInv, NextBlock PROVE ReachInv'
  OBVIOUS
<1>1. OffInv'
  BY NextOffsets DEF ReachInv, Next
<1>2. /\ UNCHANGED <<n, num, code, off, pc, changed>> /\ pc = "scan" /\ at <= n
      /\ mi = "end" /\ mi' = "body" /\ start' = 0 /\ at' = at + 1
  BY DEF NextBlock, InBlock
<1>3. /\ n \in Nat /\ at \in 1..n /\ \A b \in 1..n : num[b] \in 1..n
      /\ \A b \in 1..n : num[b] = at => b = MBB
  BY <1>2, Basics, MBBSpec DEF ReachInv, OffInv, TypeInv
<1>4. \A b : JccReaches(b)' = JccReaches(b) /\ JmpReaches(b)' = JmpReaches(b)
  BY <1>2, LayoutUnchanged
<1>5. ScannedReach'
  <2>1. SUFFICES ASSUME changed = FALSE, NEW b \in 1..n, num[b] < at + 1
                 PROVE  JccReaches(b) /\ JmpReaches(b)
    BY <1>2, <1>4 DEF ScannedReach
  <2>2. num[b] < at \/ num[b] = at
    BY <1>3, <2>1
  <2> QED BY <1>2, <1>3, <2>1, <2>2 DEF ReachInv, ScannedReach
<1> QED
  BY <1>1, <1>2, <1>5 DEF ReachInv, Extents, StartExact, Before, ShortBranchesReach

LEMMA ScanEndReach == ReachInv /\ ScanEnd => ReachInv'
<1> SUFFICES ASSUME ReachInv, ScanEnd PROVE ReachInv'
  OBVIOUS
<1>1. OffInv'
  BY NextOffsets DEF ReachInv, Next
<1>2. /\ UNCHANGED <<n, num, code, off>> /\ at = n + 1 /\ pc = "scan"
      /\ \/ changed = FALSE /\ pc' = "done"
         \/ BeginScan
  <2>1. changed \in BOOLEAN
    BY DEF ReachInv, OffInv, TypeInv, TypeOK
  <2> QED BY <2>1 DEF ScanEnd
<1>3. /\ n \in Nat /\ \A b \in 1..n : num[b] \in 1..n
  BY Basics DEF ReachInv, OffInv, TypeInv
<1>4. CASE changed = FALSE /\ pc' = "done"
  <2>1. \A b \in 1..n : JccReaches(b) /\ JmpReaches(b)
    <3>1. \A b \in 1..n : num[b] < at
      BY <1>2, <1>3
    <3> QED BY <1>2, <1>4, <3>1 DEF ReachInv, ScannedReach
  <2>2. \A b \in 1..n' : JccReaches(b)' /\ JmpReaches(b)'
    BY <1>2, <2>1, LayoutUnchanged
  <2> QED
    BY <1>1, <1>4, <2>2 DEF ReachInv, Extents, StartExact, ScannedReach, ShortBranchesReach
<1>5. CASE BeginScan
  <2>1. pc' = "scan" /\ at' = 1 /\ mi' = "body" /\ start' = 0 /\ n' = n /\ num' = num
    BY <1>2, <1>5 DEF BeginScan
  <2> QED
    BY <1>1, <1>3, <2>1
       DEF ReachInv, Extents, StartExact, Before, ScannedReach, ShortBranchesReach
<1> QED BY <1>2, <1>4, <1>5

\* A scan that grew a branch claims nothing: it will be followed by another.
LEMMA ExpandReach ==
  ASSUME ReachInv, OffInv', pc = "scan", at \in 1..n, MBB \in 1..n,
         NEW long \in Block, NEW diff \in Nat, Expand(long, diff), InstSize(Current) = 2,
         long.body + InstSize(long.jcc) + InstSize(long.jmp) = start + 2 + diff
  PROVE  ReachInv'
<1>1. /\ UNCHANGED <<n, num, pc, at>> /\ mi' = "end" /\ changed' = TRUE
      /\ start' = start + 2 + diff
      /\ code' = [code EXCEPT ![MBB] = long] /\ code \in [1..n -> Block]
  BY Basics DEF Expand, ReachInv, OffInv, TypeInv
<1>2. MBB' = MBB
  BY <1>1 DEF MBB, BlockAt
<1>3. Before(MBB, mi)' = start'
  BY <1>1, <1>2 DEF Before, Size
<1> QED
  BY <1>1, <1>3 DEF ReachInv, Extents, StartExact, ScannedReach, ShortBranchesReach

LEMMA ExpandsReach == ReachInv /\ (ExpandJCC \/ ExpandJMP) => ReachInv'
<1>1. ASSUME ReachInv, ExpandJCC PROVE ReachInv'
  <2>1. OffInv' /\ TypeInv
    BY <1>1, NextOffsets DEF ReachInv, OffInv, Next
  <2>2. pc = "scan" /\ at <= n /\ mi = "jcc"
    BY <1>1 DEF ExpandJCC, InBlock
  <2>3. start = code[MBB].body /\ code[MBB].body \in Nat
    BY <1>1, <2>1, <2>2, ExpandJCCFacts, BlockSpec DEF ReachInv, StartExact, Before, TypeInv
  <2>4. LongJCC.body + InstSize(LongJCC.jcc) + InstSize(LongJCC.jmp) = start + 2 + 4
    BY <2>3 DEF LongJCC, InstSize, Instr
  <2> QED BY <1>1, <2>1, <2>2, <2>4, ExpandJCCFacts, ExpandReach
<1>2. ASSUME ReachInv, ExpandJMP PROVE ReachInv'
  <2>1. OffInv' /\ TypeInv
    BY <1>2, NextOffsets DEF ReachInv, OffInv, Next
  <2>2. pc = "scan" /\ at <= n /\ mi = "jmp"
    BY <1>2 DEF ExpandJMP, InBlock
  <2>3. /\ start = code[MBB].body + InstSize(code[MBB].jcc)
        /\ code[MBB].body \in Nat /\ InstSize(code[MBB].jcc) \in Nat
    BY <1>2, <2>1, <2>2, ExpandJMPFacts, BlockSpec, InstrSizes
       DEF ReachInv, StartExact, Before, TypeInv
  <2>4. LongJMP.body + InstSize(LongJMP.jcc) + InstSize(LongJMP.jmp) = start + 2 + 2
    <3>1. InstSize(LongJMP.jmp) = 4
      BY DEF LongJMP, InstSize, Instr
    <3>2. LongJMP.body = code[MBB].body /\ LongJMP.jcc = code[MBB].jcc
      <4>1. code[MBB] \in Block
        BY <1>2, <2>1, <2>2, ExpandJMPFacts, Basics DEF TypeInv
      <4> QED BY <4>1 DEF LongJMP, Block
    <3> QED BY <2>3, <3>1, <3>2
  <2> QED BY <1>2, <2>1, <2>2, <2>4, ExpandJMPFacts, ExpandReach
<1> QED BY <1>1, <1>2

LEMMA NextReach == ReachInv /\ [Next]_vars => ReachInv'
<1>1. ReachInv /\ Split => ReachInv'
  <2>1. ReachInv /\ Split => OffInv'
    BY NextOffsets DEF ReachInv, Next
  <2> QED
    BY <2>1 DEF Split, ReachInv, Extents, StartExact, ScannedReach, ShortBranchesReach
<1>2. ReachInv /\ UNCHANGED vars => ReachInv'
  <2>1. SUFFICES ASSUME ReachInv, UNCHANGED vars PROVE ReachInv'
    OBVIOUS
  <2>2. OffInv'
    BY <2>1, NextOffsets DEF ReachInv
  <2>3. UNCHANGED <<n, num, code, off, pc, at, mi, start, total, changed>>
    BY <2>1 DEF vars
  <2>4. /\ \A b : Size(b)' = Size(b) /\ JccReaches(b)' = JccReaches(b)
                 /\ JmpReaches(b)' = JmpReaches(b)
        /\ Before(MBB, mi)' = Before(MBB, mi) /\ MBB' = MBB
    BY <2>3, LayoutUnchanged
  <2> QED
    BY <2>1, <2>2, <2>3, <2>4
       DEF ReachInv, Extents, StartExact, ScannedReach, ShortBranchesReach
<1> QED
  BY <1>1, <1>2, MeasureBlockReach, MeasuredReach, SkipReach, NextBlockReach, ScanEndReach,
     ExpandsReach DEF Next

LEMMA InitReach == Init => ReachInv
<1> SUFFICES ASSUME Init PROVE ReachInv
  OBVIOUS
<1>1. OffInv
  BY InitOffsets
<1>2. at = 1 /\ pc = "measure"
  BY DEF Init
<1>3. \A b \in 1..n : num[b] \in 1..n
  BY <1>1, Basics DEF OffInv, TypeInv
<1> QED
  BY <1>1, <1>2, <1>3 DEF ReachInv, Extents, StartExact, ScannedReach, ShortBranchesReach

(***************************************************************************)
(* When the pass ends every short branch left reaches its block, whatever  *)
(* the function: the early exit for small functions, and stopping at the   *)
(* first scan that changes nothing, are right.                             *)
(***************************************************************************)
THEOREM ReachCorrect == Spec => []ShortBranchesReach
<1>1. ReachInv => ShortBranchesReach
  BY DEF ReachInv
<1> QED
  BY <1>1, InitReach, NextReach, PTL DEF Spec

-------------------------------------------------------------------------------
(* Control flow *)

LEMMA BranchEnds ==
  ASSUME NEW m, NEW blk, blk.jmp \in JMPs(m, {"JMP", "Bi"}), blk.jmp # NoInstr,
         NEW c, NEW x, NEW y
  PROVE  Branch(blk, c, x) = Branch(blk, c, y)
<1>1. blk.jmp.op \in {"RET", "JMP", "Bi"}
  BY JMPCases
<1> QED BY <1>1 DEF Branch

\* Where control goes from b when x stands behind it.
GoesOn ==
  \A b, x \in 1..n, c \in BOOLEAN : num[x] = num[b] + 1 => Step(b, c) = Branch(code[b], c, x)

LEMMA StepNext == TypeOK => GoesOn
<1> SUFFICES ASSUME TypeOK, NEW b \in 1..n, NEW x \in 1..n, NEW c \in BOOLEAN, num[x] = num[b] + 1
             PROVE  Step(b, c) = Branch(code[b], c, x)
  BY DEF GoesOn
<1>1. BlockAt(num[b] + 1) = x
  BY BlockAtNum
<1> QED BY <1>1 DEF Step

\* It does not matter what stands behind a block that ends in a branch.
BranchesOff ==
  \A b \in 1..n, c \in BOOLEAN :
    code[b].jmp # NoInstr => \A x : Step(b, c) = Branch(code[b], c, x)

LEMMA StepEnds == TypeOK => BranchesOff
<1> SUFFICES ASSUME TypeOK, NEW b \in 1..n, NEW c \in BOOLEAN, code[b].jmp # NoInstr, NEW x
             PROVE  Step(b, c) = Branch(code[b], c, x)
  BY DEF BranchesOff
<1> QED BY BlockSpec, BranchEnds DEF Step

LEMMA StepPrimed == TypeOK' => GoesOn' /\ BranchesOff'
BY StepNext, StepEnds, PTL

\* A block that does not end in a branch has another one behind it.
LEMMA NextOrEnd ==
  ASSUME TypeInv, NEW b \in 1..n
  PROVE  code[b].jmp # NoInstr \/ \E x \in 1..n : num[x] = num[b] + 1
<1>1. num[b] \in 1..n /\ n \in Nat
  BY Basics DEF TypeInv
<1>2. CASE num[b] = n
  BY <1>2 DEF TypeInv, NoFallOff
<1>3. CASE num[b] # n
  <2>1. num[b] + 1 \in 1..n
    BY <1>1, <1>3
  <2> QED BY <2>1 DEF TypeInv, TypeOK, Numbering
<1> QED BY <1>2, <1>3

LEMMA StepIn ==
  ASSUME TypeInv, NEW b \in 1..n, NEW c \in BOOLEAN
  PROVE  Step(b, c) \in 0..n
<1>1. /\ n \in Nat /\ code[b].jcc \in JCCs(n, BOOLEAN)
      /\ code[b].jmp \in JMPs(n, {"JMP", "Bi"})
  BY Basics, BlockSpec DEF TypeInv
<1>2. PICK x \in 1..n : Step(b, c) = Branch(code[b], c, x)
  <2>1. CASE code[b].jmp # NoInstr
    BY <2>1, StepEnds DEF TypeInv, BranchesOff
  <2>2. CASE \E x \in 1..n : num[x] = num[b] + 1
    BY <2>2, StepNext DEF TypeInv, GoesOn
  <2> QED BY <2>1, <2>2, NextOrEnd
<1>3. \/ code[b].jmp.op \in {"none", "RET"} \/ code[b].jmp.dest \in 1..n
  BY <1>1, JMPCases
<1>4. code[b].jcc.op = "JCC" => code[b].jcc.dest \in 1..n
  BY <1>1, JCCCases
<1>5. code[b].jmp.op \in {"JMP", "Bi"} => code[b].jmp.dest \in 1..n
  BY <1>3
<1> QED BY <1>1, <1>2, <1>4, <1>5 DEF Branch, Exit

\* Flow, one step at a time.
LEMMA FlowIs ==
  \A b, c, s, t : Step(b, c) = s /\ (IF s > N THEN Step(s, c) = t ELSE s = t) => Flow(b, c) = t
BY DEF Flow

LEMMA StepsUnchanged ==
  ASSUME UNCHANGED <<n, num, code>>
  PROVE  \A b \in 1..n, c \in BOOLEAN : Step(b, c)' = Step(b, c)
BY DEF Step, BlockAt

\* A reversed branch over a long one leads control where it led before.
LEMMA ExpandJCCSteps ==
  ASSUME TypeInv, ExpandJCC
  PROVE  /\ UNCHANGED <<input, n, num, succ>>
         /\ code' = [code EXCEPT ![MBB] = LongJCC]
         /\ \A b \in 1..n, c \in BOOLEAN : Step(b, c)' = Step(b, c)
<1>1. /\ UNCHANGED <<input, n, num, succ>> /\ code' = [code EXCEPT ![MBB] = LongJCC]
      /\ code \in [1..n -> Block]
      /\ MBB \in 1..n /\ at + 1 \in 1..n /\ num[MBB] = at
      /\ code[MBB].jcc.op = "JCC" /\ code[MBB].jmp = NoInstr /\ code[MBB].jcc.neg \in BOOLEAN
  BY ExpandJCCFacts, Basics DEF Expand, TypeInv
<1>2. TypeOK /\ TypeOK'
  BY ExpandsType DEF TypeInv
<1>3. ASSUME NEW b \in 1..n, NEW c \in BOOLEAN PROVE Step(b, c)' = Step(b, c)
  <2>1. CASE b # MBB
    BY <1>1, <2>1 DEF Step, BlockAt
  <2>2. CASE b = MBB
    <3>1. PICK x \in 1..n : x = BlockAt(at + 1) /\ num[x] = num[b] + 1
      BY <1>1, <1>2, <2>2, BlockAtSpec
    <3>2. Step(b, c) = Branch(code[b], c, x)
      BY <1>2, <3>1, StepNext DEF GoesOn
    <3>3. Step(b, c)' = Branch(LongJCC, c, x)
      <4>1. GoesOn'
        BY <1>2, StepPrimed
      <4>2. code'[b] = LongJCC
        BY <1>1, <2>2
      <4> QED BY <1>1, <3>1, <4>1, <4>2 DEF GoesOn
    <3>4. Branch(code[b], c, x) = IF c # code[b].jcc.neg THEN code[b].jcc.dest ELSE x
      BY <1>1, <2>2 DEF Branch, NoInstr, Instr
    <3>5. Branch(LongJCC, c, x) = IF c # ~code[b].jcc.neg THEN x ELSE code[b].jcc.dest
      BY <2>2, <3>1 DEF Branch, LongJCC, Instr
    <3>6. (c # code[b].jcc.neg) <=> ~(c # ~code[b].jcc.neg)
      BY <1>1, <2>2
    <3> QED BY <3>2, <3>3, <3>4, <3>5, <3>6
  <2> QED BY <2>1, <2>2
<1> QED BY <1>1, <1>3

LEMMA ExpandJMPSteps ==
  ASSUME TypeInv, ExpandJMP
  PROVE  /\ UNCHANGED <<input, n, num, succ>>
         /\ code' = [code EXCEPT ![MBB] = LongJMP]
         /\ \A b \in 1..n, c \in BOOLEAN : Step(b, c)' = Step(b, c)
<1>1. /\ UNCHANGED <<input, n, num, succ>> /\ code' = [code EXCEPT ![MBB] = LongJMP]
      /\ code \in [1..n -> Block] /\ MBB \in 1..n /\ code[MBB].jmp.op = "JMP"
  BY ExpandJMPFacts, Basics DEF Expand, TypeInv
<1>2. ASSUME NEW b \in 1..n, NEW c \in BOOLEAN PROVE Step(b, c)' = Step(b, c)
  <2>1. PICK x : x = BlockAt(num[b] + 1) /\ x = BlockAt(num[b] + 1)'
    BY <1>1 DEF BlockAt
  <2>2. Step(b, c) = Branch(code[b], c, x) /\ Step(b, c)' = Branch(code'[b], c, x)
    BY <2>1 DEF Step
  <2>3. CASE b = MBB
    <3>1. code'[b] = LongJMP
      BY <1>1, <2>3
    <3>2. Branch(LongJMP, c, x) = Branch(code[b], c, x)
      BY <1>1, <2>3 DEF Branch, LongJMP, Instr
    <3> QED BY <2>2, <3>1, <3>2
  <2>4. CASE b # MBB
    BY <1>1, <2>2, <2>4
  <2> QED BY <2>3, <2>4
<1> QED BY <1>1, <1>2

\* The split block w goes on to the new one, m, and that where w went itself.
SplitOff(w, m) ==
  /\ n' = m /\ n \in Nat /\ input' = input /\ succ' = SuccessorsSplit /\ num' = Renumbered
  /\ w \in 1..n /\ num[w] = at /\ mi = "jcc" /\ TooFar /\ Current = code[w].jcc
  /\ code[w].jcc.op = "JCC" /\ code[w].jcc.dest \in 1..n /\ code[w].jcc.neg \in BOOLEAN
  /\ code[w].jmp # NoInstr
  /\ \A b \in 1..n : b # w => code'[b] = code[b]
  /\ code'[w] = [body |-> code[w].body, jcc |-> code[w].jcc, jmp |-> NoInstr]
  /\ code'[m] = [body |-> 0, jcc |-> NoInstr, jmp |-> code[w].jmp]
  /\ \A b \in 1..n, c \in BOOLEAN : b # w => Step(b, c)' = Step(b, c)
  /\ \A c \in BOOLEAN :
       /\ c # code[w].jcc.neg => Step(w, c) = code[w].jcc.dest
       /\ c = code[w].jcc.neg => Step(w, c) = Branch(code'[m], c, 0)
       /\ Step(w, c)' = IF c # code[w].jcc.neg THEN code[w].jcc.dest ELSE m
       /\ Step(m, c)' = Step(w, code[w].jcc.neg)

LEMMA SplitSteps == TypeInv /\ Split => \A w, m : w = MBB /\ m = n + 1 => SplitOff(w, m)
<1> SUFFICES ASSUME TypeInv, Split, NEW w, w = MBB, NEW m, m = n + 1 PROVE SplitOff(w, m)
  OBVIOUS
<1>1. /\ n \in Nat /\ at \in 1..n /\ w \in 1..n /\ num[w] = at
      /\ \A b \in 1..n : num[b] \in 1..n /\ (num[b] = at => b = w)
      /\ code \in [1..n -> Block]
  BY Basics, MBBSpec DEF Split, InBlock, TypeInv
<1>2. /\ n' = m /\ input' = input /\ succ' = SuccessorsSplit /\ num' = Renumbered /\ code' = Spliced
      /\ mi = "jcc" /\ TooFar /\ IsShort(Current) /\ code[w].jmp # NoInstr
  BY DEF Split, TooFar
<1>3. Current = code[w].jcc /\ Current.op = "JCC" /\ Current.dest \in 1..n
  BY <1>1, <1>2, CurrentSpec DEF TypeInv
<1>4. code[w].jcc.neg \in BOOLEAN
  BY <1>1, <1>3, BlockSpec, JCCCases DEF TypeInv, NoInstr, Instr
<1>5. /\ \A b \in 1..n : b # w => code'[b] = code[b]
      /\ code'[w] = [code[w] EXCEPT !.jmp = NoInstr]
      /\ code'[m] = [body |-> 0, jcc |-> NoInstr, jmp |-> code[w].jmp]
  BY <1>1, <1>2 DEF Spliced
<1>6. code'[w] = [body |-> code[w].body, jcc |-> code[w].jcc, jmp |-> NoInstr]
  BY <1>1, <1>5, BlockFields
<1>7. /\ num'[m] = at + 1
      /\ \A b \in 1..n : num'[b] = IF num[b] > at THEN num[b] + 1 ELSE num[b]
  BY <1>1, <1>2 DEF Renumbered
<1>8. TypeOK /\ TypeOK'
  BY SplitType DEF TypeInv
<1>9. GoesOn' /\ BranchesOff'
  BY <1>8, StepPrimed
<1>10. ASSUME NEW b \in 1..n, NEW c \in BOOLEAN, b # w PROVE Step(b, c)' = Step(b, c)
  <2>0. b \in 1..n' /\ code'[b] = code[b]
    BY <1>1, <1>2, <1>5, <1>10
  <2>1. CASE code[b].jmp # NoInstr
    <3>1. Step(b, c) = Branch(code[b], c, 0)
      BY <1>8, <2>1, StepEnds DEF BranchesOff
    <3>2. Step(b, c)' = Branch(code'[b], c, 0)
      BY <1>9, <2>0, <2>1 DEF BranchesOff
    <3> QED BY <2>0, <3>1, <3>2
  <2>2. CASE \E x \in 1..n : num[x] = num[b] + 1
    <3>1. PICK x \in 1..n : num[x] = num[b] + 1
      BY <2>2
    <3>2. x \in 1..n' /\ num'[x] = num'[b] + 1
      BY <1>1, <1>2, <1>7, <1>10, <3>1
    <3>3. Step(b, c) = Branch(code[b], c, x)
      BY <1>8, <3>1, StepNext DEF GoesOn
    <3>4. Step(b, c)' = Branch(code'[b], c, x)
      BY <1>9, <2>0, <3>2 DEF GoesOn
    <3> QED BY <2>0, <3>3, <3>4
  <2> QED BY <2>1, <2>2, NextOrEnd
<1>11. ASSUME NEW c \in BOOLEAN
       PROVE  /\ c # code[w].jcc.neg => Step(w, c) = code[w].jcc.dest
              /\ c = code[w].jcc.neg => Step(w, c) = Branch(code'[m], c, 0)
              /\ Step(w, c)' = IF c # code[w].jcc.neg THEN code[w].jcc.dest ELSE m
              /\ Step(m, c)' = Step(w, code[w].jcc.neg)
  <2>1. \A e \in BOOLEAN : Step(w, e) = Branch(code[w], e, 0)
    BY <1>1, <1>2, <1>8, StepEnds DEF BranchesOff
  <2>2. m \in 1..n' /\ w \in 1..n' /\ num'[m] = num'[w] + 1
    BY <1>1, <1>2, <1>7
  <2>3. Step(w, c)' = Branch(code'[w], c, m)
    BY <1>9, <2>2 DEF GoesOn
  <2>4. Step(m, c)' = Branch(code'[m], c, 0)
    BY <1>2, <1>5, <1>9, <2>2 DEF BranchesOff
  <2>5. Branch(code'[w], c, m) = IF c # code[w].jcc.neg THEN code[w].jcc.dest ELSE m
    BY <1>3, <1>6 DEF Branch, NoInstr, Instr
  <2>6. c # code[w].jcc.neg => Branch(code[w], c, 0) = code[w].jcc.dest
    BY <1>3 DEF Branch
  <2>7. \A e \in BOOLEAN : Branch(code'[m], e, 0) = Branch(code[w], code[w].jcc.neg, 0)
    BY <1>3, <1>5 DEF Branch, NoInstr, Instr
  <2> QED BY <1>4, <2>1, <2>3, <2>4, <2>5, <2>6, <2>7
<1> QED BY <1>1, <1>2, <1>3, <1>4, <1>5, <1>6, <1>10, <1>11 DEF SplitOff

(***************************************************************************)
(* What the pass makes of a block.  Split-off blocks hold a last branch    *)
(* only.  Branches lead to blocks of the function, but a reversed branch,  *)
(* which leads to the block behind it, over its long branch.               *)
(***************************************************************************)
ShapeOf(b) ==
  /\ b > N => code[b].jcc = NoInstr
  /\ code[b].jmp.dest <= N
  /\ code[b].jcc.neg = FALSE => code[b].jcc.dest <= N
  /\ code[b].jcc.neg = TRUE => /\ code[b].jmp.op = "Bi"
                               /\ num[code[b].jcc.dest] = num[b] + 1
  /\ code[b].jcc # NoInstr => code[b].jmp.op # "RET"

Shape == \A b \in 1..n : ShapeOf(b)

FlowInv == ReachInv /\ Shape /\ FlowPreserved

\* A reversed branch jumps over four bytes: it is never split off or expanded again.
LEMMA OverReaches ==
  ASSUME ReachInv, Shape, InBlock, mi = "jcc", TooFar
  PROVE  code[MBB].jcc.neg # TRUE
<1> SUFFICES ASSUME NEW w, w = MBB, code[w].jcc.neg = TRUE PROVE FALSE
  OBVIOUS
<1> DEFINE d == code[w].jcc.dest
<1>1. TypeInv /\ TypeOK /\ OffsetsExact /\ pc = "scan" /\ at <= n
  BY DEF ReachInv, OffInv, TypeInv, InBlock
<1>2. /\ n \in Nat /\ at \in 1..n /\ off \in [1..n -> Nat]
      /\ w \in 1..n /\ num[w] = at
  BY <1>1, Basics, MBBSpec
<1>3. d \in 1..n /\ InstSize(Current) = 2 /\ Current = code[w].jcc /\ InstSize(code[w].jcc) = 2
  BY <1>1, CurrentSpec DEF TooFar
<1>4. num[d] = at + 1 /\ InstSize(code[w].jmp) = 4 /\ num[d] \in 1..n
  BY <1>1, <1>2, <1>3, Basics DEF Shape, ShapeOf, InstSize
<1>5. start = code[w].body /\ code[w].body \in Nat
  BY <1>1, <1>2, BlockSpec DEF ReachInv, StartExact, Before
<1>6. Size(w) = code[w].body + 6
  BY <1>3, <1>4, <1>5 DEF Size
<1>7. off[num[d]] = off[num[w]] + Size(w)
  <2>1. \A b, c \in 1..n :
          num[c] = num[b] + 1 /\ num[c] < n + 1 => off[num[c]] = off[num[b]] + Size(b)
    BY <1>1 DEF OffsetsExact
  <2>2. num[d] < n + 1 /\ num[d] = num[w] + 1
    BY <1>2, <1>4
  <2> QED BY <1>2, <1>3, <2>1, <2>2
<1>8. off[num[d]] = off[at] + (code[w].body + 6) /\ off[at] \in Nat
  BY <1>2, <1>6, <1>7
<1>9. Distance = off[num[d]] - off[at] - (code[w].body + 2)
  BY <1>3, <1>5 DEF Distance
<1>10. \A x, y, z \in Nat : x = y + (z + 6) => x - y - (z + 2) = 4
  OBVIOUS
<1>11. off[num[d]] \in Nat
  BY <1>2, <1>4
<1>12. Distance = 4
  BY <1>5, <1>8, <1>9, <1>10, <1>11
<1> QED BY <1>12, ReachAssumption DEF TooFar, InRange

\* The steps that change no block.
StillSteps == MeasureBlock \/ Measured \/ SkipInstr \/ NextBlock \/ ScanEnd \/ UNCHANGED vars

LEMMA StillUnchanged ==
  ASSUME StillSteps
  PROVE  UNCHANGED <<input, n, num, code, succ>>
BY DEF StillSteps, MeasureBlock, Measured, SkipInstr, NextBlock, ScanEnd, vars

LEMMA NextShape == ReachInv /\ Shape /\ [Next]_vars => Shape'
<1> SUFFICES ASSUME ReachInv, Shape, [Next]_vars, NEW b \in 1..n' PROVE ShapeOf(b)'
  BY DEF Shape
<1>0. TypeInv /\ n \in Nat /\ N \in Nat /\ code \in [1..n -> Block]
  BY Basics, NAssumption DEF ReachInv, OffInv, TypeInv
<1>1. CASE StillSteps
  BY <1>1, StillUnchanged DEF Shape, ShapeOf
<1>2. CASE ExpandJMP
  <2>1. /\ n' = n /\ num' = num /\ code' = [code EXCEPT ![MBB] = LongJMP]
        /\ MBB \in 1..n /\ code[MBB].jmp.op = "JMP"
    BY <1>0, <1>2, ExpandJMPSteps, ExpandJMPFacts
  <2>2. CASE b = MBB
    <3>1. code'[b] = LongJMP
      BY <1>0, <2>1, <2>2
    <3> QED BY <2>1, <2>2, <3>1 DEF Shape, ShapeOf, LongJMP, Instr
  <2>3. CASE b # MBB
    BY <1>0, <2>1, <2>3 DEF Shape, ShapeOf
  <2> QED BY <2>2, <2>3
<1>3. CASE ExpandJCC
  <2>1. /\ n' = n /\ num' = num /\ code' = [code EXCEPT ![MBB] = LongJCC]
        /\ MBB \in 1..n /\ num[MBB] = at /\ at + 1 \in 1..n
        /\ code[MBB].jcc.op = "JCC" /\ code[MBB].jcc.neg \in BOOLEAN /\ code[MBB].jmp = NoInstr
    BY <1>0, <1>3, ExpandJCCSteps, ExpandJCCFacts
  <2>2. CASE b = MBB
    <3>1. code'[b] = LongJCC
      BY <1>0, <2>1, <2>2
    <3>2. PICK x : x = BlockAt(at + 1) /\ num[x] = at + 1
      BY <1>0, <2>1, BlockAtSpec DEF TypeInv
    <3>3. ShapeOf(b) /\ code[b].jcc # NoInstr /\ code[b].jmp.op = "none"
      BY <2>1, <2>2 DEF Shape, NoInstr, Instr
    <3>4. code[b].jcc.neg = FALSE /\ code[b].jcc.dest <= N /\ ~(b > N)
      BY <2>1, <2>2, <3>3 DEF ShapeOf
    <3>5. /\ code'[b].jcc.neg = TRUE /\ code'[b].jcc.dest = x
          /\ code'[b].jmp.op = "Bi" /\ code'[b].jmp.dest <= N
      <4>1. code'[b] = [body |-> code[b].body, jcc |-> Instr("JCC", x, ~code[b].jcc.neg),
                        jmp |-> Instr("Bi", code[b].jcc.dest, FALSE)]
        BY <2>2, <3>1, <3>2 DEF LongJCC
      <4>2. (~code[b].jcc.neg) = TRUE
        BY <3>4
      <4>3. code'[b] = [body |-> code[b].body, jcc |-> Instr("JCC", x, TRUE),
                        jmp |-> Instr("Bi", code[b].jcc.dest, FALSE)]
        BY <4>1, <4>2
      <4>4. code'[b].jcc = Instr("JCC", x, TRUE) /\ code'[b].jmp = Instr("Bi", code[b].jcc.dest, FALSE)
        BY <4>3
      <4>5. /\ Instr("JCC", x, TRUE).neg = TRUE /\ Instr("JCC", x, TRUE).dest = x
            /\ Instr("Bi", code[b].jcc.dest, FALSE).op = "Bi"
            /\ Instr("Bi", code[b].jcc.dest, FALSE).dest = code[b].jcc.dest
        BY DEF Instr
      <4> QED BY <3>4, <4>4, <4>5, Zenon
    <3> QED BY <2>1, <2>2, <3>2, <3>4, <3>5 DEF ShapeOf
  <2>3. CASE b # MBB
    BY <1>0, <2>1, <2>3 DEF Shape, ShapeOf
  <2> QED BY <2>2, <2>3
<1>4. CASE Split
  <2>0. PICK w, m : w = MBB /\ m = n + 1
    OBVIOUS
  <2>1. w = MBB /\ m = n + 1 /\ SplitOff(w, m)
    BY <1>0, <1>4, <2>0, SplitSteps
  <2>2. /\ n' = m /\ num' = Renumbered /\ w \in 1..n /\ num[w] = at
        /\ code[w].jcc.op = "JCC" /\ code[w].jcc.dest \in 1..n /\ code[w].jcc.neg \in BOOLEAN
        /\ \A x \in 1..n : x # w => code'[x] = code[x]
        /\ code'[w] = [body |-> code[w].body, jcc |-> code[w].jcc, jmp |-> NoInstr]
        /\ code'[m] = [body |-> 0, jcc |-> NoInstr, jmp |-> code[w].jmp]
    BY <2>1 DEF SplitOff
  <2>3. ShapeOf(w) /\ code[w].jcc # NoInstr
    BY <2>2 DEF Shape, NoInstr, Instr
  <2>4. code[w].jcc.neg = FALSE
    BY <1>4, <2>1, <2>2, OverReaches DEF Split
  <2>5. CASE b = w
    <3>1. code'[b].jcc = code[w].jcc /\ code'[b].jmp = NoInstr
      BY <2>2, <2>5
    <3> QED BY <1>0, <2>3, <2>4, <2>5, <3>1 DEF ShapeOf, NoInstr, Instr
  <2>6. CASE b = m
    <3>1. code'[b].jcc = NoInstr /\ code'[b].jmp = code[w].jmp
      BY <2>2, <2>6
    <3> QED BY <1>0, <2>3, <3>1 DEF ShapeOf, NoInstr, Instr
  <2>7. CASE b # w /\ b # m
    <3>1. b \in 1..n /\ code'[b] = code[b] /\ ShapeOf(b)
      BY <1>0, <2>1, <2>2, <2>7 DEF Shape
    <3>2. code[b].jcc.neg = TRUE => code[b].jcc.dest \in 1..n
      BY <1>0, <3>1, BlockSpec, JCCCases DEF TypeInv, NoInstr, Instr
    <3>3. ASSUME NEW d \in 1..n, num[d] = num[b] + 1 PROVE num'[d] = num'[b] + 1
      <4>1. /\ num[b] \in 1..n /\ num[d] \in 1..n /\ num[b] # at /\ at \in 1..n
            /\ num'[d] = IF num[d] > at THEN num[d] + 1 ELSE num[d]
            /\ num'[b] = IF num[b] > at THEN num[b] + 1 ELSE num[b]
        <5>1. /\ num[b] \in 1..n /\ num[d] \in 1..n /\ num[b] # at /\ at \in 1..n
              /\ b # n + 1 /\ d # n + 1 /\ b \in 1..(n+1) /\ d \in 1..(n+1)
          <6>1. \A x, y \in 1..n : num[x] = num[y] => x = y
            BY <1>0 DEF TypeInv, TypeOK, Numbering
          <6>2. \A x \in 1..n : num[x] \in 1..n
            BY <1>0, Basics DEF TypeInv
          <6>3. \A x \in 1..n : x # n + 1 /\ x \in 1..(n+1)
            BY <1>0
          <6> QED BY <2>2, <2>7, <3>1, <6>1, <6>2, <6>3
        <5> QED BY <2>2, <5>1 DEF Renumbered
      <4> QED BY <3>3, <4>1
    <3> QED BY <3>1, <3>2, <3>3 DEF ShapeOf
  <2> QED BY <2>5, <2>6, <2>7
<1> QED BY <1>1, <1>2, <1>3, <1>4 DEF Next, StillSteps

LEMMA NextFlow == FlowInv /\ [Next]_vars => FlowPreserved'
<1> SUFFICES ASSUME FlowInv, [Next]_vars, NEW b \in 1..N, NEW c \in BOOLEAN
             PROVE  Flow(b, c)' = Branch(input'[b], c, b + 1)
  BY DEF FlowPreserved
<1>0. /\ TypeInv /\ n \in Nat /\ N \in Nat /\ N <= n /\ b \in 1..n
  <2>1. TypeInv /\ n \in Nat /\ N \in Nat /\ N <= n
    BY Basics, NAssumption DEF FlowInv, ReachInv, OffInv, TypeInv, TypeOK
  <2> QED BY <2>1
<1>1. PICK t : t = Branch(input[b], c, b + 1) /\ t = Flow(b, c)
  BY DEF FlowInv, FlowPreserved
<1>2. PICK s \in 0..n : s = Step(b, c)
  BY <1>0, StepIn
<1>3. s > N => s \in 1..n /\ Step(s, c) = t
  BY <1>0, <1>1, <1>2 DEF Flow
<1>4. s <= N => s = t
  BY <1>0, <1>1, <1>2 DEF Flow
<1>5. \A x, y : Step(b, c)' = x /\ (IF x > N THEN Step(x, c)' = y ELSE x = y) => Flow(b, c)' = y
  BY DEF Flow
<1>6. ASSUME input' = input, \A x \in 1..n, e \in BOOLEAN : Step(x, e)' = Step(x, e)
      PROVE  Flow(b, c)' = Branch(input'[b], c, b + 1)
  <2>1. Step(b, c)' = s /\ (s > N => Step(s, c)' = t)
    BY <1>0, <1>2, <1>3, <1>6
  <2>2. IF s > N THEN Step(s, c)' = t ELSE s = t
    BY <1>0, <1>4, <2>1
  <2>3. Flow(b, c)' = t
    BY <1>5, <2>1, <2>2
  <2> QED BY <1>1, <1>6, <2>3
<1>7. CASE StillSteps
  BY <1>6, <1>7, StillUnchanged, StepsUnchanged
<1>8. CASE ExpandJCC
  BY <1>0, <1>6, <1>8, ExpandJCCSteps
<1>9. CASE ExpandJMP
  BY <1>0, <1>6, <1>9, ExpandJMPSteps
<1>10. CASE Split
  <2>0. PICK w, m : w = MBB /\ m = n + 1
    OBVIOUS
  <2>1. w = MBB /\ m = n + 1 /\ SplitOff(w, m)
    BY <1>0, <1>10, <2>0, SplitSteps
  <2>2. /\ input' = input /\ w \in 1..n /\ code[w].jcc.op = "JCC"
        /\ code[w].jcc.dest \in 1..n /\ code[w].jcc.neg \in BOOLEAN
        /\ code'[m] = [body |-> 0, jcc |-> NoInstr, jmp |-> code[w].jmp] /\ code[w].jmp # NoInstr
        /\ \A x \in 1..n, e \in BOOLEAN : x # w => Step(x, e)' = Step(x, e)
        /\ \A e \in BOOLEAN :
             /\ e # code[w].jcc.neg => Step(w, e) = code[w].jcc.dest
             /\ e = code[w].jcc.neg => Step(w, e) = Branch(code'[m], e, 0)
             /\ Step(w, e)' = IF e # code[w].jcc.neg THEN code[w].jcc.dest ELSE m
             /\ Step(m, e)' = Step(w, code[w].jcc.neg)
    BY <2>1 DEF SplitOff
  <2>3. w <= N /\ code[w].jmp.dest <= N
    <3>1. ShapeOf(w) /\ code[w].jcc # NoInstr
      BY <2>2 DEF FlowInv, Shape, NoInstr, Instr
    <3> QED BY <1>0, <2>2, <3>1 DEF ShapeOf
  <2>4. s > N => Step(s, c)' = t
    BY <1>0, <1>3, <2>2, <2>3
  <2>5. CASE b # w \/ c # code[w].jcc.neg
    <3>1. Step(b, c)' = s
      BY <1>0, <1>2, <2>2, <2>5
    <3>2. IF s > N THEN Step(s, c)' = t ELSE s = t
      BY <1>0, <1>4, <2>4
    <3> QED BY <1>1, <1>5, <2>2, <3>1, <3>2
  <2>6. CASE b = w /\ c = code[w].jcc.neg
    <3>1. Step(b, c)' = m /\ Step(m, c)' = s
      BY <1>2, <2>2, <2>6
    <3>2. s <= N
      <4>1. s = Branch(code'[m], c, 0)
        BY <1>2, <2>2, <2>6
      <4>2. code[w].jmp.op \in {"RET", "JMP", "Bi"}
        <5>1. code[w].jmp \in JMPs(n, {"JMP", "Bi"})
          BY <1>0, <2>2, BlockSpec DEF TypeInv
        <5>2. \A i \in JMPs(n, {"JMP", "Bi"}) : i # NoInstr => i.op \in {"RET", "JMP", "Bi"}
          BY JMPCases
        <5>3. code[w].jmp # NoInstr
          BY <2>2
        <5> QED BY <5>1, <5>2, <5>3
      <4> QED BY <1>0, <2>2, <2>3, <4>1, <4>2 DEF Branch, NoInstr, Instr, Exit
    <3>3. m > N
      BY <1>0, <2>1
    <3> QED BY <1>1, <1>4, <1>5, <2>2, <3>1, <3>2, <3>3
  <2> QED BY <2>5, <2>6
<1> QED BY <1>7, <1>8, <1>9, <1>10 DEF Next, StillSteps

\* The pass begins with the control flow of its input.
LEMMA InitSteps ==
  ASSUME Init, NEW b \in 1..N, NEW c \in BOOLEAN
  PROVE  /\ n = N /\ code = input /\ TypeInv
         /\ Legal(b, code[b]) /\ code[b].jcc \in JCCs(N, {FALSE}) /\ code[b].jmp \in JMPs(N, {"JMP"})
         /\ Step(b, c) = Branch(input[b], c, b + 1)
         /\ Step(b, c) \in 0..N
<1>1. n = N /\ code = input /\ num = [x \in 1..N |-> x] /\ input \in Inputs
  BY DEF Init
<1>2. TypeInv
  BY InitType
<1>3. Legal(b, code[b]) /\ code[b].jcc \in JCCs(N, {FALSE}) /\ code[b].jmp \in JMPs(N, {"JMP"})
  BY <1>1 DEF Inputs
<1>4. Step(b, c) = Branch(input[b], c, b + 1)
  <2>1. CASE b = N
    BY <1>1, <1>2, <1>3, <2>1, StepEnds DEF Legal, TypeInv, BranchesOff
  <2>2. CASE b # N
    <3>1. b + 1 \in 1..N /\ num[b + 1] = num[b] + 1
      BY <1>1, <2>2, NAssumption
    <3> QED BY <1>1, <1>2, <3>1, StepNext DEF TypeInv, GoesOn
  <2> QED BY <2>1, <2>2
<1> QED BY <1>1, <1>2, <1>3, <1>4, StepIn

LEMMA InitFlow == Init => FlowInv
<1> SUFFICES ASSUME Init PROVE FlowInv
  OBVIOUS
<1>1. n = N /\ ReachInv /\ N \in Nat
  BY InitReach, NAssumption DEF Init
<1>2. Shape
  <2> SUFFICES ASSUME NEW b \in 1..N PROVE ShapeOf(b)
    BY <1>1 DEF Shape
  <2>1. /\ Legal(b, code[b]) /\ code[b].jcc \in JCCs(N, {FALSE}) /\ code[b].jmp \in JMPs(N, {"JMP"})
    BY TRUE \in BOOLEAN, InitSteps
  <2>2. code[b].jcc.neg = FALSE /\ code[b].jcc.dest <= N /\ code[b].jmp.dest <= N
    <3>1. NoInstr.neg = FALSE /\ NoInstr.dest = 0 /\ Instr("RET", Exit, FALSE).dest = 0
      BY DEF NoInstr, Instr, Exit
    <3>2. code[b].jcc = NoInstr \/ (code[b].jcc.dest \in 1..N /\ code[b].jcc.neg \in {FALSE})
      BY <2>1, JCCCases
    <3>3. \/ code[b].jmp = NoInstr \/ code[b].jmp = Instr("RET", Exit, FALSE)
          \/ code[b].jmp.dest \in 1..N
      BY <2>1, JMPCases
    <3>4. code[b].jcc.neg = FALSE
      BY <3>1, <3>2
    <3>5. code[b].jcc.dest \in 1..N \/ code[b].jcc.dest = 0
      BY <3>1, <3>2, Zenon
    <3>6. code[b].jmp.dest \in 1..N \/ code[b].jmp.dest = 0
      BY <3>1, <3>3, Zenon
    <3>7. code[b].jcc.dest <= N /\ code[b].jmp.dest <= N
      BY <1>1, <3>5, <3>6
    <3> QED BY <3>4, <3>7
  <2>3. ~(b > N)
    BY <1>1
  <2>4. code[b].jcc # NoInstr => code[b].jmp.op # "RET"
    BY <2>1 DEF Legal
  <2>5. TRUE # FALSE
    OBVIOUS
  <2> QED BY <2>2, <2>3, <2>4, <2>5, Zenon DEF ShapeOf
<1>3. FlowPreserved
  <2> SUFFICES ASSUME NEW b \in 1..N, NEW c \in BOOLEAN
               PROVE  Flow(b, c) = Branch(input[b], c, b + 1)
    BY DEF FlowPreserved
  <2>1. Step(b, c) = Branch(input[b], c, b + 1) /\ Step(b, c) \in 0..N
    BY InitSteps
  <2> QED BY <1>1, <2>1 DEF Flow
<1> QED BY <1>1, <1>2, <1>3 DEF FlowInv

LEMMA FlowInvariance == Spec => []FlowInv
<1>1. FlowInv /\ [Next]_vars => FlowInv'
  <2> SUFFICES ASSUME FlowInv, [Next]_vars PROVE ReachInv' /\ Shape' /\ FlowPreserved'
    BY DEF FlowInv
  <2> QED BY NextReach, NextShape, NextFlow DEF FlowInv
<1> QED BY <1>1, InitFlow, PTL DEF Spec

(***************************************************************************)
(* The branch selector changes the path of no function: from every block   *)
(* control goes where it went before the pass, whatever the condition, in  *)
(* the middle of a scan as well as at the end, with conditional branches   *)
(* of equal destinations too.                                              *)
(***************************************************************************)
THEOREM FlowCorrect == Spec => []FlowPreserved
<1>1. FlowInv => FlowPreserved
  BY DEF FlowInv
<1> QED BY <1>1, FlowInvariance, PTL

-------------------------------------------------------------------------------
(* Successor lists *)

\* Without degenerate branches no block has two ways to the same one.
Distinct ==
  \A b \in 1..n : code[b].jcc.op = "JCC" => Step(b, TRUE) # Step(b, FALSE)

SuccessorInv == FlowInv /\ (DegenerateJCC = FALSE => Distinct /\ SuccessorsMatch)

LEMMA NextSuccessors ==
  ASSUME FlowInv, DegenerateJCC = FALSE, Distinct, SuccessorsMatch, [Next]_vars
  PROVE  Distinct' /\ SuccessorsMatch'
<1>0. TypeInv /\ n \in Nat /\ code \in [1..n -> Block] /\ succ \in [1..n -> SUBSET (1..n)]
  BY Basics DEF FlowInv, ReachInv, OffInv, TypeInv, TypeOK
<1>1. ASSUME n' = n, succ' = succ, \A x \in 1..n, e \in BOOLEAN : Step(x, e)' = Step(x, e),
             \A x \in 1..n : code'[x].jcc.op = "JCC" => code[x].jcc.op = "JCC"
      PROVE  Distinct' /\ SuccessorsMatch'
  <2>1. Distinct'
    BY <1>1 DEF Distinct
  <2>2. SuccessorsMatch'
    BY <1>1 DEF SuccessorsMatch
  <2> QED BY <2>1, <2>2
<1>2. CASE StillSteps
  BY <1>1, <1>2, StillUnchanged, StepsUnchanged
<1>3. CASE ExpandJCC
  <2>1. \A x \in 1..n : code'[x].jcc.op = "JCC" => code[x].jcc.op = "JCC"
    BY <1>0, <1>3, ExpandJCCSteps, ExpandJCCFacts
  <2> QED BY <1>0, <1>1, <1>3, <2>1, ExpandJCCSteps
<1>4. CASE ExpandJMP
  <2>1. \A x \in 1..n : code'[x].jcc = code[x].jcc
    BY <1>0, <1>4, ExpandJMPSteps, ExpandJMPFacts DEF LongJMP
  <2> QED BY <1>0, <1>1, <1>4, <2>1, ExpandJMPSteps
<1>5. CASE Split
  <2>0. PICK w, m : w = MBB /\ m = n + 1
    OBVIOUS
  <2>1. w = MBB /\ m = n + 1 /\ SplitOff(w, m)
    BY <1>0, <1>5, <2>0, SplitSteps
  <2>2. /\ n' = m /\ succ' = SuccessorsSplit /\ w \in 1..n /\ Current = code[w].jcc
        /\ code[w].jcc.op = "JCC" /\ code[w].jcc.dest \in 1..n /\ code[w].jcc.neg \in BOOLEAN
        /\ code[w].jmp # NoInstr
        /\ \A b \in 1..n : b # w => code'[b] = code[b]
        /\ code'[m] = [body |-> 0, jcc |-> NoInstr, jmp |-> code[w].jmp]
    BY <2>1 DEF SplitOff
  <2>3. /\ \A x \in 1..n, e \in BOOLEAN : x # w => Step(x, e)' = Step(x, e)
        /\ \A e \in BOOLEAN :
             /\ e # code[w].jcc.neg => Step(w, e) = code[w].jcc.dest
             /\ e = code[w].jcc.neg => Step(w, e) = Branch(code'[m], e, 0)
             /\ Step(w, e)' = IF e # code[w].jcc.neg THEN code[w].jcc.dest ELSE m
             /\ Step(m, e)' = Step(w, code[w].jcc.neg)
    BY <2>1 DEF SplitOff
  <2>4. PICK g, d, t : /\ g \in BOOLEAN /\ g = code[w].jcc.neg /\ d = code[w].jcc.dest
                     /\ t = Step(w, g) /\ d = Step(w, ~g)
    BY <2>2, <2>3
  <2>5. d \in 1..n /\ t \in 1..n /\ d # t /\ m \notin 1..n
    <3>1. d # t
      BY <2>2, <2>4 DEF Distinct
    <3>2. t \in 1..n
      <4>1. code[w].jmp.op \in {"JMP", "Bi"} /\ code[w].jmp.dest \in 1..n
        <5>1. code[w].jmp.op # "RET"
          BY <2>2 DEF FlowInv, Shape, ShapeOf, NoInstr, Instr
        <5> QED BY <1>0, <2>2, <5>1, BlockSpec, JMPCases DEF TypeInv
      <4>2. t = Branch(code'[m], code[w].jcc.neg, 0)
        BY <2>2, <2>3, <2>4
      <4> QED BY <2>2, <4>1, <4>2 DEF Branch, NoInstr, Instr
    <3> QED BY <1>0, <2>1, <2>2, <2>4, <3>1, <3>2
  <2>6. succ[w] = {d, t}
    <3>1. {Step(w, e) : e \in BOOLEAN} = {d, t}
      BY <2>2, <2>4
    <3> QED BY <2>2, <2>5, <3>1 DEF SuccessorsMatch, Exit
  <2>7. /\ succ'[w] = {d, m} /\ succ'[m] = {t}
        /\ \A x \in 1..n : x # w => succ'[x] = succ[x]
    <3>1. succ[MBB] \ {Current.dest} = {t} /\ {t} # {}
      BY <2>1, <2>2, <2>4, <2>5, <2>6
    <3>2. succ' = [x \in 1..(n+1) |-> IF x = n + 1 THEN {t}
                                     ELSE IF x = w THEN (succ[x] \ {t}) \cup {n + 1}
                                     ELSE succ[x]]
      BY <2>1, <2>2, <3>1 DEF SuccessorsSplit
    <3> QED BY <1>0, <2>1, <2>2, <2>5, <2>6, <3>2
  <2>8. /\ {Step(w, e)' : e \in BOOLEAN} = {d, m}
        /\ {Step(m, e)' : e \in BOOLEAN} = {t}
    <3>1. /\ Step(w, g)' = m /\ Step(w, ~g)' = d
          /\ \A e \in BOOLEAN : Step(m, e)' = t
      BY <2>2, <2>3, <2>4
    <3> QED BY <2>4, <3>1
  <2>9. \A x \in 1..n' : x = m \/ x \in 1..n
    BY <1>0, <2>1, <2>2
  <2>10. Distinct'
    <3> SUFFICES ASSUME NEW x \in 1..n', code'[x].jcc.op = "JCC" PROVE Step(x, TRUE)' # Step(x, FALSE)'
      BY DEF Distinct
    <3>1. CASE x = m
      BY <2>2, <3>1 DEF NoInstr, Instr
    <3>2. CASE x = w
      <4>1. Step(w, g)' = m /\ Step(w, ~g)' = d
        BY <2>2, <2>3, <2>4
      <4>2. Step(w, TRUE)' # Step(w, FALSE)'
        BY <2>4, <2>5, <4>1
      <4> QED BY <3>2, <4>2
    <3>3. CASE x \in 1..n /\ x # w
      <4>1. Step(x, TRUE)' = Step(x, TRUE) /\ Step(x, FALSE)' = Step(x, FALSE)
        BY <2>3, <3>3
      <4>2. Step(x, TRUE) # Step(x, FALSE)
        BY <2>2, <3>3 DEF Distinct
      <4> QED BY <4>1, <4>2
    <3> QED BY <2>9, <3>1, <3>2, <3>3
  <2>11. SuccessorsMatch'
    <3> SUFFICES ASSUME NEW x \in 1..n' PROVE succ'[x] = {Step(x, e)' : e \in BOOLEAN} \ {Exit}
      BY DEF SuccessorsMatch
    <3>1. CASE x = m
      BY <2>5, <2>7, <2>8, <3>1 DEF Exit
    <3>2. CASE x = w
      <4>1. d # Exit /\ m # Exit
        BY <1>0, <2>1, <2>5 DEF Exit
      <4> QED BY <2>7, <2>8, <3>2, <4>1
    <3>3. CASE x \in 1..n /\ x # w
      BY <2>3, <2>7, <3>3 DEF SuccessorsMatch
    <3> QED BY <2>9, <3>1, <3>2, <3>3
  <2> QED BY <2>10, <2>11
<1> QED BY <1>2, <1>3, <1>4, <1>5 DEF Next, StillSteps

LEMMA InitSuccessors == Init /\ DegenerateJCC = FALSE => Distinct /\ SuccessorsMatch
<1> SUFFICES ASSUME Init, DegenerateJCC = FALSE PROVE Distinct /\ SuccessorsMatch
  OBVIOUS
<1>1. n = N /\ succ = [b \in 1..N |-> {Branch(input[b], c, b + 1) : c \in BOOLEAN} \ {Exit}]
  BY DEF Init
<1>2. ASSUME NEW b \in 1..N PROVE \A c \in BOOLEAN : Step(b, c) = Branch(input[b], c, b + 1)
  BY InitSteps
<1>3. Distinct
  <2> SUFFICES ASSUME NEW b \in 1..N, code[b].jcc.op = "JCC" PROVE Step(b, TRUE) # Step(b, FALSE)
    BY <1>1 DEF Distinct
  <2>1. Legal(b, code[b]) /\ code = input
    BY TRUE \in BOOLEAN, InitSteps
  <2>2. code[b].jcc # NoInstr
    BY DEF NoInstr, Instr
  <2> QED BY <1>2, <2>1, <2>2 DEF Legal
<1>4. SuccessorsMatch
  BY <1>1, <1>2 DEF SuccessorsMatch
<1> QED BY <1>3, <1>4

LEMMA SuccessorInvariance == Spec => []SuccessorInv
<1>1. Init => SuccessorInv
  BY InitFlow, InitSuccessors DEF SuccessorInv
<1>2. FlowInv /\ [Next]_vars => FlowInv'
  BY NextReach, NextShape, NextFlow DEF FlowInv
<1>3. SuccessorInv /\ [Next]_vars => SuccessorInv'
  BY <1>2, NextSuccessors DEF SuccessorInv
<1> QED BY <1>1, <1>3, PTL DEF Spec

(***************************************************************************)
(* The successor lists that expandBranches edits by hand are those of the  *)
(* code it makes, if no conditional branch has equal destinations (with    *)
(* one they are not, and the assertion at MSP430BranchSelector.cpp:185     *)
(* fails).                                                                 *)
(***************************************************************************)
THEOREM SuccessorsCorrect ==
  ASSUME DegenerateJCC = FALSE
  PROVE  Spec => []SuccessorsMatch
<1>1. SuccessorInv => SuccessorsMatch
  BY DEF SuccessorInv
<1> QED BY <1>1, SuccessorInvariance, PTL

\* That assertion holds, if no conditional branch has equal destinations.
THEOREM AssertionHolds ==
  ASSUME DegenerateJCC = FALSE
  PROVE  Spec => []LayoutSuccessorAsserted
<1>1. SuccessorInv => LayoutSuccessorAsserted
  <2> SUFFICES ASSUME SuccessorInv, InBlock, mi = "jcc", TooFar, code[MBB].jmp = NoInstr
               PROVE  BlockAt(at + 1) \in succ[MBB]
    BY DEF LayoutSuccessorAsserted
  <2>1. PICK w : w = MBB
    OBVIOUS
  <2>2. /\ TypeInv /\ at <= n
    BY DEF SuccessorInv, FlowInv, ReachInv, OffInv, InBlock
  <2>3. w \in 1..n /\ num[w] = at /\ n \in Nat
    BY <2>1, <2>2, MBBSpec, Basics DEF TypeInv
  <2>4. code[w].jcc.op = "JCC"
    BY <2>1, <2>2, CurrentSpec DEF TypeInv, TooFar
  <2>5. PICK x \in 1..n : num[x] = at + 1
    BY <2>1, <2>2, <2>3, NextOrEnd
  <2>6. BlockAt(at + 1) = x
    BY <2>2, <2>5, BlockAtNum DEF TypeInv
  <2>7. code[w].jcc.neg \in BOOLEAN
    BY <2>2, <2>3, <2>4, BlockSpec, JCCCases DEF TypeInv, NoInstr, Instr
  <2>8. Step(w, code[w].jcc.neg) = x
    <3>1. Step(w, code[w].jcc.neg) = Branch(code[w], code[w].jcc.neg, x)
      BY <2>2, <2>3, <2>5, <2>7, StepNext DEF TypeInv, GoesOn
    <3> QED BY <2>1, <3>1 DEF Branch, NoInstr, Instr
  <2>9. x # Exit
    BY DEF Exit
  <2> QED BY <2>1, <2>3, <2>6, <2>7, <2>8, <2>9 DEF SuccessorInv, SuccessorsMatch
<1> QED BY <1>1, SuccessorInvariance, PTL

-------------------------------------------------------------------------------
(* Branch relaxation: layouts as sets of long branches determine them, then  *)
(* how the blocks the pass keeps relate to them.                             *)

(* Induction: a set of numbers that is not empty has a least one *)

LEMMA Least ==
  ASSUME NEW T \in SUBSET Nat, T # {}
  PROVE  \E x \in T : \A y \in T : x <= y
<1> DEFINE R == {p \in Nat \X Nat : p[1] < p[2]}
<1>1. IsWellFoundedOn(R, Nat)
  BY NatLessThanWellFounded DEF OpToRel
<1>2. PICK x \in T : \A y \in T : ~(<<y, x>> \in R)
  <2> HIDE DEF R
  <2> QED BY <1>1, WFMin
<1>3. \A y \in T : ~(y < x)
  BY <1>2
<1> QED BY <1>3

\* A set of numbers that has 1 and is closed under successors below m.
LEMMA Induct ==
  ASSUME NEW m \in Nat, NEW S, 1 \in S, \A k \in 1..m : k \in S /\ k < m => k + 1 \in S
  PROVE  1..m \subseteq S
<1> SUFFICES ASSUME 1..m \ S # {} PROVE FALSE
  OBVIOUS
<1>1. PICK x \in 1..m \ S : \A y \in 1..m \ S : x <= y
  <2>1. 1..m \ S \in SUBSET Nat
    OBVIOUS
  <2> QED BY <2>1, Least
<1>2. x # 1 /\ x - 1 \in 1..m /\ x - 1 < m
  BY <1>1
<1>3. x - 1 \in S
  BY <1>1, <1>2
<1>4. (x - 1) + 1 = x
  BY <1>1
<1> QED BY <1>1, <1>2, <1>3, <1>4

-------------------------------------------------------------------------------
(* Layouts *)

\* The places of the blocks when the branches in L are long.
Layout(L) ==
  CHOOSE f : f = [i \in 1..N |-> IF i = 1 THEN 0
                                 ELSE f[i-1] + Relaxation!BlockBytes(L, i-1)]

LEMMA OffsetIs == \A L, b : Relaxation!BlockOffset(L, b) = Layout(L)[b]
BY DEF Relaxation!BlockOffset, Layout

\* Partial sums of a function of numbers exist.
Sums(k, w, g) == \A i \in 1..k : g[i] = IF i = 1 THEN 0 ELSE g[i-1] + w[i-1]

LEMMA SumsExist ==
  ASSUME NEW m \in Nat \ {0}, NEW w \in [1..m -> Nat]
  PROVE  \E g \in [1..m -> Nat] : Sums(m, w, g)
<1> DEFINE S == {k \in 1..m : \E g \in [1..k -> Nat] : Sums(k, w, g)}
<1>1. 1 \in S
  <2>1. [i \in 1..1 |-> 0] \in [1..1 -> Nat] /\ Sums(1, w, [i \in 1..1 |-> 0])
    BY DEF Sums
  <2> QED BY <2>1
<1>2. ASSUME NEW k \in 1..m, k \in S, k < m PROVE k + 1 \in S
  <2>1. PICK g \in [1..k -> Nat] : Sums(k, w, g)
    BY <1>2
  <2> DEFINE h == [i \in 1..(k+1) |-> IF i = k + 1 THEN g[k] + w[k] ELSE g[i]]
  <2>2. g[k] \in Nat /\ w[k] \in Nat
    OBVIOUS
  <2>3. h \in [1..(k+1) -> Nat]
    BY <2>2
  <2>4. ASSUME NEW i \in 1..(k+1) PROVE h[i] = IF i = 1 THEN 0 ELSE h[i-1] + w[i-1]
    <3>1. CASE i = k + 1
      <4>1. i # 1 /\ i - 1 = k /\ k \in 1..(k+1) /\ k # k + 1
        BY <3>1
      <4> QED BY <3>1, <4>1
    <3>2. CASE i # k + 1
      <4>1. i \in 1..k /\ h[i] = g[i]
        BY <3>2
      <4>2. i # 1 => i - 1 \in 1..(k+1) /\ i - 1 # k + 1
        BY <3>2
      <4> QED BY <2>1, <4>1, <4>2 DEF Sums
    <3> QED BY <3>1, <3>2
  <2>5. Sums(k + 1, w, h) /\ k + 1 \in 1..m
    <3> HIDE DEF h
    <3> QED BY <1>2, <2>4 DEF Sums
  <2> HIDE DEF h
  <2> QED BY <2>3, <2>5
<1>3. m \in S
  <2> HIDE DEF S
  <2>1. 1..m \subseteq S
    BY <1>1, <1>2, Induct
  <2> QED BY <2>1
<1> QED BY <1>3

\* The blocks the pass is given.
LEMMA InputIs ==
  ASSUME input \in Inputs, NEW b \in 1..N
  PROVE  /\ input[b].body \in Nat
         /\ input[b].jcc \in JCCs(N, {FALSE})
         /\ input[b].jmp \in JMPs(N, {"JMP"})
         /\ Legal(b, input[b])
BY BodiesAssumption DEF Inputs

LEMMA BytesNat ==
  ASSUME input \in Inputs, NEW b \in 1..N, NEW L
  PROVE  /\ \A slot : Relaxation!Bytes(L, b, slot) \in {0, 2, 4, 6}
         /\ Relaxation!BlockBytes(L, b) \in Nat
<1>1. \A slot : Relaxation!Bytes(L, b, slot) \in {0, 2, 4, 6}
  BY DEF Relaxation!Bytes
<1>2. input[b].body \in Nat
  BY InputIs
<1> QED BY <1>1, <1>2 DEF Relaxation!BlockBytes

\* The first block is at 0, each other one behind the one before it.
LEMMA LayoutIs ==
  ASSUME input \in Inputs, NEW L
  PROVE  /\ Layout(L) \in [1..N -> Nat]
         /\ Layout(L)[1] = 0
         /\ \A i \in 1..N : i + 1 <= N =>
              Layout(L)[i+1] = Layout(L)[i] + Relaxation!BlockBytes(L, i)
<1> DEFINE w == [i \in 1..N |-> Relaxation!BlockBytes(L, i)]
<1>1. w \in [1..N -> Nat] /\ N \in Nat \ {0}
  BY BytesNat, NAssumption
<1>2. PICK g \in [1..N -> Nat] : Sums(N, w, g)
  <2> HIDE DEF w
  <2> QED BY <1>1, SumsExist
<1>3. g = [i \in 1..N |-> IF i = 1 THEN 0 ELSE g[i-1] + Relaxation!BlockBytes(L, i-1)]
  <2>1. ASSUME NEW i \in 1..N
        PROVE  g[i] = IF i = 1 THEN 0 ELSE g[i-1] + Relaxation!BlockBytes(L, i-1)
    <3>1. i # 1 => w[i-1] = Relaxation!BlockBytes(L, i-1)
      BY NAssumption
    <3> HIDE DEF w
    <3>2. g[i] = IF i = 1 THEN 0 ELSE g[i-1] + w[i-1]
      BY <1>2 DEF Sums
    <3> QED BY <3>1, <3>2
  <2> QED BY <2>1
<1>4. Layout(L) = [i \in 1..N |-> IF i = 1 THEN 0
                                  ELSE Layout(L)[i-1] + Relaxation!BlockBytes(L, i-1)]
  BY <1>3, Zenon DEF Layout
<1>5. \A i \in 1..N : Layout(L)[i] = IF i = 1 THEN 0
                                    ELSE Layout(L)[i-1] + Relaxation!BlockBytes(L, i-1)
  BY <1>4, Zenon
<1> DEFINE f == Layout(L)
<1>6. f[1] = 0
  BY <1>1, <1>5
<1>7. \A i \in 1..N : i + 1 <= N => f[i+1] = f[i] + Relaxation!BlockBytes(L, i)
  <2> TAKE i \in 1..N
  <2> HAVE i + 1 <= N
  <2>1. i + 1 \in 1..N /\ i + 1 # 1 /\ (i + 1) - 1 = i
    BY <1>1
  <2> QED BY <1>5, <2>1
<1>8. \A i \in 1..N : f[i] \in Nat
  <2> DEFINE S == {i \in 1..N : f[i] \in Nat}
  <2>1. 1 \in S
    BY <1>1, <1>6
  <2>2. \A k \in 1..N : k \in S /\ k < N => k + 1 \in S
    <3> TAKE k \in 1..N
    <3> HAVE k \in S /\ k < N
    <3>1. k + 1 \in 1..N /\ f[k+1] = f[k] + Relaxation!BlockBytes(L, k)
      BY <1>1, <1>7
    <3>2. Relaxation!BlockBytes(L, k) \in Nat
      BY BytesNat
    <3> HIDE DEF f
    <3> QED BY <3>1, <3>2
  <2>3. 1..N \subseteq S
    <3> HIDE DEF S
    <3> QED BY <1>1, <2>1, <2>2, Induct
  <2> QED BY <2>3
<1>9. f \in [1..N -> Nat]
  <2>1. f = [i \in 1..N |-> f[i]]
    BY <1>4, <1>5, Zenon
  <2> HIDE DEF f
  <2> QED BY <1>8, <2>1
<1> QED BY <1>6, <1>7, <1>9

\* Long branches only make blocks bigger, and so put blocks farther apart.
LEMMA BytesGrow ==
  ASSUME input \in Inputs, NEW b \in 1..N, NEW L1, NEW L2, L1 \subseteq L2
  PROVE  /\ \A slot \in {"jcc", "jmp"} : Relaxation!Bytes(L1, b, slot) <= Relaxation!Bytes(L2, b, slot)
         /\ Relaxation!BlockBytes(L1, b) <= Relaxation!BlockBytes(L2, b)
<1>1. \A slot \in {"jcc", "jmp"} : Relaxation!Bytes(L1, b, slot) <= Relaxation!Bytes(L2, b, slot)
  BY DEF Relaxation!Bytes
<1>2. /\ \A slot : Relaxation!Bytes(L1, b, slot) \in Nat /\ Relaxation!Bytes(L2, b, slot) \in Nat
      /\ input[b].body \in Nat
  BY BytesNat, InputIs
<1> QED BY <1>1, <1>2 DEF Relaxation!BlockBytes

LEMMA DistancesGrow ==
  ASSUME input \in Inputs, NEW L1, NEW L2, L1 \subseteq L2,
         NEW i \in 1..N, NEW j \in 1..N, i <= j
  PROVE  /\ 0 <= Layout(L1)[j] - Layout(L1)[i]
         /\ Layout(L1)[j] - Layout(L1)[i] <= Layout(L2)[j] - Layout(L2)[i]
<1>0. N \in Nat \ {0}
  BY NAssumption
<1> PICK f, g : f = Layout(L1) /\ g = Layout(L2)
  OBVIOUS
<1>1. /\ f \in [1..N -> Nat] /\ g \in [1..N -> Nat]
      /\ \A k \in 1..N : k + 1 <= N => /\ f[k+1] = f[k] + Relaxation!BlockBytes(L1, k)
                                       /\ g[k+1] = g[k] + Relaxation!BlockBytes(L2, k)
  BY LayoutIs
<1> DEFINE Ok(k) == 0 <= f[k] - f[i] /\ f[k] - f[i] <= g[k] - g[i]
           S == {k \in 1..N : k < i \/ Ok(k)}
<1>2. 1 \in S
  BY <1>0, <1>1
<1>3. ASSUME NEW k \in 1..N, k \in S, k < N PROVE k + 1 \in S
  <2>1. PICK x, y : x = Relaxation!BlockBytes(L1, k) /\ y = Relaxation!BlockBytes(L2, k)
    OBVIOUS
  <2>2. x \in Nat /\ y \in Nat /\ x <= y
    BY <2>1, BytesNat, BytesGrow
  <2>3. f[k+1] = f[k] + x /\ g[k+1] = g[k] + y /\ k + 1 \in 1..N
    BY <1>0, <1>1, <1>3, <2>1
  <2>4. f[k] \in Nat /\ g[k] \in Nat /\ f[i] \in Nat /\ g[i] \in Nat
    BY <1>1
  <2>5. CASE k + 1 < i
    BY <2>3, <2>5
  <2>6. CASE k + 1 = i
    BY <1>1, <2>3, <2>6
  <2>7. CASE k >= i
    <3>1. Ok(k)
      BY <1>3, <2>7
    <3>2. Ok(k + 1)
      BY <2>2, <2>3, <2>4, <3>1
    <3> QED BY <2>3, <3>2
  <2> QED BY <1>0, <2>5, <2>6, <2>7
<1>4. j \in S
  <2> HIDE DEF S
  <2>1. 1..N \subseteq S
    BY <1>0, <1>2, <1>3, Induct
  <2> QED BY <2>1
<1> QED BY <1>4

\* A short branch and where it is, in the layout L gives.
LEMMA SpanIs ==
  ASSUME input \in Inputs, NEW L, NEW br \in Relaxation!Branches
  PROVE  /\ br = <<br[1], br[2]>> /\ br[1] \in 1..N /\ br[2] \in {"jcc", "jmp"}
         /\ input[br[1]][br[2]].op = (IF br[2] = "jcc" THEN "JCC" ELSE "JMP")
         /\ input[br[1]][br[2]].dest \in 1..N
         /\ Relaxation!Span(L, br)
              = Layout(L)[input[br[1]][br[2]].dest] - (Layout(L)[br[1]] + input[br[1]].body
                  + (IF br[2] = "jmp" THEN Relaxation!Bytes(L, br[1], "jcc") ELSE 0) + 2)
         /\ Relaxation!Span(L, br) \in Int
         /\ Relaxation!Fits(L, br) <=> /\ -2 * Reach <= Relaxation!Span(L, br)
                                       /\ Relaxation!Span(L, br) < 2 * Reach
<1>1. /\ br = <<br[1], br[2]>> /\ br[1] \in 1..N /\ br[2] \in {"jcc", "jmp"}
      /\ input[br[1]][br[2]].op \in {"JCC", "JMP"}
  BY DEF Relaxation!Branches
<1>2. PICK b : b = br[1]
  OBVIOUS
<1>3. /\ input[b].jcc \in JCCs(N, {FALSE}) /\ input[b].jmp \in JMPs(N, {"JMP"})
      /\ input[b].body \in Nat
  BY <1>1, <1>2, InputIs
<1>4. /\ input[b].jcc.op \in {"JCC", "JMP"} => input[b].jcc.op = "JCC" /\ input[b].jcc.dest \in 1..N
      /\ input[b].jmp.op \in {"JCC", "JMP"} => input[b].jmp.op = "JMP" /\ input[b].jmp.dest \in 1..N
  <2>1. input[b].jcc.op = "none" \/ (input[b].jcc.op = "JCC" /\ input[b].jcc.dest \in 1..N)
    BY <1>3, JCCCases
  <2>2. input[b].jmp.op \in {"none", "RET"} \/ (input[b].jmp.op = "JMP" /\ input[b].jmp.dest \in 1..N)
    <3>1. PICK j : j = input[b].jmp
      OBVIOUS
    <3>2. \/ j.op \in {"none", "RET"}
          \/ j.op \in {"JMP"} /\ j.dest \in 1..N
      BY <1>3, <3>1, JMPCases
    <3> QED BY <3>1, <3>2
  <2> QED BY <2>1, <2>2
<1>5. /\ input[b][br[2]].op = (IF br[2] = "jcc" THEN "JCC" ELSE "JMP")
      /\ input[b][br[2]].dest \in 1..N
  BY <1>1, <1>2, <1>4
<1>6. PICK d : d = input[b][br[2]].dest
  OBVIOUS
<1>7. Relaxation!Span(L, br) = Layout(L)[d] - (Layout(L)[b] + input[b].body
        + (IF br[2] = "jmp" THEN Relaxation!Bytes(L, b, "jcc") ELSE 0) + 2)
  BY <1>2, <1>6, OffsetIs DEF Relaxation!Span
<1>8. Relaxation!Span(L, br) \in Int
  <2>1. Layout(L) \in [1..N -> Nat]
    BY LayoutIs
  <2>2. Relaxation!Bytes(L, b, "jcc") \in Nat
    BY <1>1, <1>2, BytesNat
  <2>3. d \in 1..N /\ b \in 1..N
    BY <1>1, <1>2, <1>5, <1>6
  <2>4. Layout(L)[d] \in Nat /\ Layout(L)[b] \in Nat
    BY <2>1, <2>3
  <2> QED BY <1>3, <1>7, <2>2, <2>4
<1>9. Relaxation!Fits(L, br) <=> /\ -2 * Reach <= Relaxation!Span(L, br)
                                 /\ Relaxation!Span(L, br) < 2 * Reach
  <2>1. PICK s : s = Relaxation!Span(L, br)
    OBVIOUS
  <2>2. s \in Int /\ Reach \in Nat
    BY <1>8, <2>1, ReachAssumption
  <2>3. s \div 2 \in -Reach..(Reach-1) <=> -2 * Reach <= s /\ s < 2 * Reach
    BY <2>2
  <2> QED BY <2>1, <2>3 DEF Relaxation!Fits
<1> QED BY <1>1, <1>2, <1>5, <1>6, <1>7, <1>8, <1>9

\* A branch that does not reach, does not either when others have grown.
LEMMA TooFarStays ==
  ASSUME input \in Inputs, NEW L1, NEW L2, L1 \subseteq L2,
         NEW br \in Relaxation!Branches, br \notin L2, ~Relaxation!Fits(L1, br)
  PROVE  ~Relaxation!Fits(L2, br)
<1>0. N \in Nat /\ Reach \in Nat
  BY NAssumption, ReachAssumption
<1>1. PICK b, slot, d : br = <<b, slot>> /\ b = br[1] /\ slot = br[2] /\ d = input[b][slot].dest
  BY SpanIs
<1>2. /\ b \in 1..N /\ d \in 1..N /\ slot \in {"jcc", "jmp"}
      /\ input[b][slot].op = (IF slot = "jcc" THEN "JCC" ELSE "JMP")
      /\ input[b].body \in Nat
  BY <1>1, SpanIs, InputIs
<1>3. PICK f, g, x, y, u, v, h :
        /\ f = Layout(L1) /\ g = Layout(L2) /\ h = input[b].body
        /\ x = Relaxation!Bytes(L1, b, "jcc") /\ y = Relaxation!Bytes(L2, b, "jcc")
        /\ u = Relaxation!Bytes(L1, b, "jmp") /\ v = Relaxation!Bytes(L2, b, "jmp")
  OBVIOUS
<1>4. PICK s, t : s = Relaxation!Span(L1, br) /\ t = Relaxation!Span(L2, br)
  OBVIOUS
<1>5. /\ s = f[d] - (f[b] + h + (IF slot = "jmp" THEN x ELSE 0) + 2)
      /\ t = g[d] - (g[b] + h + (IF slot = "jmp" THEN y ELSE 0) + 2)
  BY <1>1, <1>3, <1>4, SpanIs
<1>6. /\ f[d] \in Nat /\ g[d] \in Nat /\ f[b] \in Nat /\ g[b] \in Nat /\ h \in Nat
      /\ x \in Nat /\ y \in Nat /\ u \in Nat /\ v \in Nat /\ x <= y /\ u <= v
  <2>1. f \in [1..N -> Nat] /\ g \in [1..N -> Nat]
    BY <1>3, LayoutIs
  <2>2. x \in Nat /\ y \in Nat /\ u \in Nat /\ v \in Nat
    BY <1>2, <1>3, BytesNat
  <2>3. x <= y /\ u <= v
    BY <1>2, <1>3, BytesGrow
  <2> QED BY <1>2, <1>3, <2>1, <2>2, <2>3
<1>7. /\ slot = "jcc" => x = 2 /\ y = 2
      /\ slot = "jmp" => u = 2 /\ v = 2
  BY <1>1, <1>2, <1>3 DEF Relaxation!Bytes
<1>8. CASE d <= b
  <2>1. 0 <= f[b] - f[d] /\ f[b] - f[d] <= g[b] - g[d]
    BY <1>2, <1>3, <1>8, DistancesGrow
  <2>2. t <= s /\ s < 0 /\ s \in Int /\ t \in Int
    BY <1>5, <1>6, <2>1
  <2>3. s < -2 * Reach \/ s >= 2 * Reach
    BY <1>0, <1>4, <2>2, SpanIs
  <2>4. t < -2 * Reach
    BY <1>0, <2>2, <2>3
  <2> QED BY <1>0, <1>4, <2>2, <2>4, SpanIs
<1>9. CASE d > b
  <2>1. b + 1 \in 1..N /\ b + 1 <= d
    BY <1>0, <1>2, <1>9
  <2>2. 0 <= f[d] - f[b+1] /\ f[d] - f[b+1] <= g[d] - g[b+1]
    BY <1>2, <1>3, <2>1, DistancesGrow
  <2>3. f[b+1] = f[b] + (h + x + u) /\ g[b+1] = g[b] + (h + y + v)
    <3>1. /\ f[b+1] = f[b] + Relaxation!BlockBytes(L1, b)
          /\ g[b+1] = g[b] + Relaxation!BlockBytes(L2, b)
      <4>1. b \in 1..N /\ b + 1 <= N
        BY <1>0, <1>2, <2>1
      <4>2. f[b+1] = f[b] + Relaxation!BlockBytes(L1, b)
        BY <1>3, <4>1, LayoutIs
      <4>3. g[b+1] = g[b] + Relaxation!BlockBytes(L2, b)
        BY <1>3, <4>1, LayoutIs
      <4> QED BY <4>2, <4>3
    <3> QED BY <1>3, <3>1 DEF Relaxation!BlockBytes
  <2>4. s <= t /\ s >= 0 /\ s \in Int /\ t \in Int
    BY <1>2, <1>5, <1>6, <1>7, <2>2, <2>3
  <2>5. s < -2 * Reach \/ s >= 2 * Reach
    BY <1>0, <1>4, <2>4, SpanIs
  <2>6. t >= 2 * Reach
    BY <1>0, <2>4, <2>5
  <2> QED BY <1>0, <1>4, <2>4, <2>6, SpanIs
<1> QED BY <1>0, <1>2, <1>8, <1>9

\* L0 is in every set of long branches with which the others reach.
Minimal(L0) ==
  \A L \in SUBSET Relaxation!Branches :
    (\A br \in Relaxation!Branches \ L : Relaxation!Fits(L, br)) => L0 \subseteq L

LEMMA LengthenMinimal ==
  ASSUME input \in Inputs, NEW L0, Minimal(L0),
         NEW br \in Relaxation!Branches, ~Relaxation!Fits(L0, br)
  PROVE  Minimal(L0 \cup {br})
<1> SUFFICES ASSUME NEW L \in SUBSET Relaxation!Branches,
                    \A c \in Relaxation!Branches \ L : Relaxation!Fits(L, c),
                    br \notin L
             PROVE  FALSE
  BY DEF Minimal
<1>1. L0 \subseteq L
  BY DEF Minimal
<1>2. Relaxation!Fits(L, br)
  OBVIOUS
<1> QED BY <1>1, <1>2, TooFarStays

-------------------------------------------------------------------------------
(* What the pass has made of each block it was given *)

SplitOffs == (N+1)..n

\* The last branch of b, short as it was or long.
LastOf(b, j) ==
  \/ j = input[b].jmp
  \/ input[b].jmp.op = "JMP" /\ j = Instr("Bi", input[b].jmp.dest, FALSE)

\* The conditional branch of b is reversed, and jumps over a long one.
Reversed(b) ==
  /\ input[b].jcc.op = "JCC"
  /\ code[b].jcc.op = "JCC" /\ code[b].jcc.neg = TRUE
  /\ code[b].jmp = Instr("Bi", input[b].jcc.dest, FALSE)

Whole(b) ==
  /\ code[b].body = input[b].body
  /\ \/ code[b].jcc = input[b].jcc /\ LastOf(b, code[b].jmp)
     \/ Reversed(b) /\ input[b].jmp = NoInstr

\* The last branch of b has moved to x.
Halves(b, x) ==
  /\ code[b].body = input[b].body /\ input[b].jcc.op = "JCC" /\ input[b].jmp # NoInstr
  /\ \/ code[b].jcc = input[b].jcc /\ code[b].jmp = NoInstr
     \/ Reversed(b)
  /\ code[x].body = 0 /\ code[x].jcc = NoInstr /\ LastOf(b, code[x].jmp)

Behind(b, x) == num[x] = num[b] + 1

(***************************************************************************)
(* The blocks of the function keep their order.  Each split-off block      *)
(* stands behind the one it was split off, which has been split once, and  *)
(* the two together hold the branches of the one, short or long.           *)
(***************************************************************************)
InOrder == \A b, c \in 1..N : b < c => num[b] < num[c]
HasOrigin == \A x \in SplitOffs : \E b \in 1..N : Behind(b, x)
BlockKept(b) ==
  /\ (\A x \in SplitOffs : ~Behind(b, x)) => Whole(b)
  /\ \A x \in SplitOffs : Behind(b, x) => Halves(b, x)
Kept == \A b \in 1..N : BlockKept(b)

Origin == InOrder /\ HasOrigin /\ Kept

WasSplit(b) == \E x \in SplitOffs : Behind(b, x)

LEMMA Places ==
  ASSUME TypeOK
  PROVE  /\ N \in Nat \ {0} /\ n \in Nat /\ N <= n /\ input \in Inputs
         /\ \A b \in 1..N : b \in 1..n
         /\ \A x \in SplitOffs : x \in 1..n /\ x \notin 1..N
         /\ \A b \in 1..n : num[b] \in 1..n /\ (b \in 1..N \/ b \in SplitOffs)
         /\ \A i \in 1..n : \E b \in 1..n : num[b] = i
         /\ \A b, c \in 1..n : num[b] = num[c] => b = c
<1>1. N \in Nat \ {0} /\ n \in Nat /\ N <= n /\ input \in Inputs
  BY NAssumption DEF TypeOK
<1>2. /\ \A i \in 1..n : \E b \in 1..n : num[b] = i
      /\ \A b, c \in 1..n : num[b] = num[c] => b = c
      /\ \A b \in 1..n : num[b] \in 1..n
  BY Basics DEF TypeOK, Numbering
<1>3. /\ \A b \in 1..N : b \in 1..n
      /\ \A x \in SplitOffs : x \in 1..n /\ x \notin 1..N
      /\ \A b \in 1..n : b \in 1..N \/ b \in SplitOffs
  BY <1>1 DEF SplitOffs
<1> QED BY <1>1, <1>2, <1>3

\* The block behind a split-off one, and the one behind a block that was not
\* split, is the next block of the function.
LEMMA NextOriginal ==
  ASSUME TypeOK, InOrder, HasOrigin
  PROVE  /\ num[1] = 1
         /\ \A b \in 1..N : b + 1 \in 1..N =>
              /\ ~WasSplit(b) => num[b+1] = num[b] + 1
              /\ \A x \in SplitOffs : Behind(b, x) => num[b+1] = num[x] + 1
<1>0. PICK nn : nn = n
  OBVIOUS
<1>1. /\ nn \in Nat /\ N \in Nat \ {0}
      /\ \A b \in 1..N : b \in 1..nn
      /\ \A x \in SplitOffs : x \in 1..nn /\ x \notin 1..N
      /\ \A b \in 1..nn : num[b] \in 1..nn /\ (b \in 1..N \/ b \in SplitOffs)
      /\ \A i \in 1..nn : \E b \in 1..nn : num[b] = i
      /\ \A b, c \in 1..nn : num[b] = num[c] => b = c
  BY <1>0, Places
<1>2. \A b, c \in 1..N : b < c => num[b] < num[c]
  BY DEF InOrder
<1>3. \A x \in SplitOffs : \E b \in 1..N : num[x] = num[b] + 1
  BY DEF HasOrigin, Behind
<1>4. num[1] = 1
  <2>1. PICK y \in 1..nn : num[y] = 1
    <3>1. 1 \in 1..nn
      BY <1>1
    <3> QED BY <1>1, <3>1
  <2>2. y \in 1..N
    <3>1. \A b \in 1..N : num[b] \in Nat /\ num[b] # 0
      BY <1>1
    <3> QED BY <1>1, <1>3, <2>1, <3>1
  <2>3. 1 \in 1..N /\ num[1] \in 1..nn
    BY <1>1
  <2>4. y = 1 \/ num[1] < num[y]
    BY <1>2, <2>2, <2>3
  <2> QED BY <2>1, <2>3, <2>4
<1>5. ASSUME NEW b \in 1..N, b + 1 \in 1..N, NEW i \in 1..nn, num[b] < i, i <= num[b+1],
             NEW y \in 1..N, num[y] = i
      PROVE  num[b+1] = i
  <2>1. num[b] \in Nat /\ num[b+1] \in Nat
    <3>1. b \in 1..nn /\ b + 1 \in 1..nn
      BY <1>1, <1>5
    <3>2. num[b] \in 1..nn /\ num[b+1] \in 1..nn
      BY <1>1, <3>1
    <3> QED BY <1>1, <3>2
  <2>2. ~(y <= b)
    <3>1. y < b => num[y] < num[b]
      BY <1>2
    <3>2. y \in Nat /\ b \in Nat
      BY <1>1
    <3>3. i \in Nat /\ num[b] < i /\ num[y] = i
      BY <1>1, <1>5
    <3>4. y # b /\ ~(y < b)
      BY <2>1, <3>1, <3>3
    <3> QED BY <3>2, <3>4
  <2>3. y = b + 1 \/ b + 1 < y
    BY <1>1, <2>2
  <2> QED BY <1>2, <1>5, <2>1, <2>3
<1>6. ASSUME NEW b \in 1..N, b + 1 \in 1..N
      PROVE  /\ ~WasSplit(b) => num[b+1] = num[b] + 1
             /\ \A x \in SplitOffs : Behind(b, x) => num[b+1] = num[x] + 1
  <2>1. num[b] \in 1..nn /\ num[b+1] \in 1..nn /\ num[b] < num[b+1]
    BY <1>1, <1>2, <1>6
  <2>2. ASSUME ~WasSplit(b) PROVE num[b+1] = num[b] + 1
    <3>1. num[b] + 1 \in 1..nn
      BY <1>1, <2>1
    <3>2. PICK y \in 1..nn : num[y] = num[b] + 1
      BY <1>1, <3>1
    <3>3. y \in 1..N
      BY <1>1, <2>2, <3>2 DEF WasSplit, Behind
    <3> QED BY <1>5, <1>6, <2>1, <3>1, <3>2, <3>3
  <2>3. ASSUME NEW x \in SplitOffs, Behind(b, x) PROVE num[b+1] = num[x] + 1
    <3>1. num[x] = num[b] + 1 /\ x \in 1..nn /\ x # b + 1
      BY <1>1, <1>6, <2>3 DEF Behind
    <3>2. num[b+1] # num[x]
      BY <1>1, <1>6, <3>1
    <3>3. num[x] + 1 \in 1..nn /\ num[x] + 1 <= num[b+1] /\ num[b] < num[x] + 1
      BY <1>1, <2>1, <3>1, <3>2
    <3>4. PICK y \in 1..nn : num[y] = num[x] + 1
      BY <1>1, <3>3
    <3>5. y \in 1..N
      <4>1. CASE y \in SplitOffs
        <5>1. PICK c \in 1..N : num[y] = num[c] + 1
          BY <1>3, <4>1
        <5>2. num[c] = num[x] /\ c \in 1..nn
          BY <1>1, <3>1, <3>4, <5>1
        <5>3. c = x
          BY <1>1, <3>1, <5>2
        <5> QED BY <1>1, <2>3, <5>3
      <4> QED BY <1>1, <4>1
    <3> QED BY <1>5, <1>6, <3>3, <3>4, <3>5
  <2> QED BY <2>2, <2>3
<1> QED BY <1>4, <1>6

LEMMA InputInstrs ==
  ASSUME input \in Inputs, NEW b \in 1..N
  PROVE  /\ input[b].body \in Nat /\ input[b].jcc.neg = FALSE
         /\ input[b].jcc.op \in {"none", "JCC"}
         /\ input[b].jcc.op = "none" => input[b].jcc = NoInstr
         /\ input[b].jmp.op \in {"none", "JMP", "RET"}
         /\ input[b].jmp.op = "none" <=> input[b].jmp = NoInstr
<1>1. /\ input[b].body \in Nat
      /\ input[b].jcc \in JCCs(N, {FALSE})
      /\ input[b].jmp \in JMPs(N, {"JMP"})
  BY InputIs
<1>2. PICK i, j : i = input[b].jcc /\ j = input[b].jmp
  OBVIOUS
<1>3. (i = NoInstr /\ i.op = "none") \/ (i.op = "JCC" /\ i.neg \in {FALSE})
  BY <1>1, <1>2, JCCCases
<1>4. \/ j = NoInstr /\ j.op = "none"
      \/ j.op = "RET"
      \/ j.op \in {"JMP"}
  BY <1>1, <1>2, JMPCases
<1>5. NoInstr.neg = FALSE /\ NoInstr.op = "none"
  BY DEF NoInstr, Instr
<1>6. i.neg = FALSE
  BY <1>3, <1>5
<1> QED BY <1>1, <1>2, <1>3, <1>4, <1>5, <1>6

LEMMA ReversedIs ==
  ASSUME NEW b, Reversed(b)
  PROVE  /\ input[b].jcc.op = "JCC" /\ code[b].jcc.op = "JCC" /\ code[b].jcc.neg = TRUE
         /\ code[b].jmp.op = "Bi" /\ code[b].jmp.dest = input[b].jcc.dest
         /\ code[b].jmp # NoInstr
BY DEF Reversed, Instr, NoInstr

LEMMA LastIs ==
  ASSUME input \in Inputs, NEW b \in 1..N, NEW j, LastOf(b, j)
  PROVE  /\ j.dest = input[b].jmp.dest
         /\ j.op = "Bi" => input[b].jmp.op = "JMP"
         /\ j.op # "Bi" => j = input[b].jmp
         /\ j = NoInstr <=> input[b].jmp = NoInstr
         /\ j.op = input[b].jmp.op \/ j.op = "Bi"
<1>1. /\ input[b].jmp.op \in {"none", "JMP", "RET"}
      /\ input[b].jmp.op = "none" <=> input[b].jmp = NoInstr
  BY InputInstrs
<1>2. \A d : Instr("Bi", d, FALSE).op = "Bi" /\ Instr("Bi", d, FALSE).dest = d
  BY DEF Instr
<1>3. NoInstr.op = "none"
  BY DEF NoInstr, Instr
<1>4. CASE j = input[b].jmp
  BY <1>1, <1>4
<1>5. CASE input[b].jmp.op = "JMP" /\ j = Instr("Bi", input[b].jmp.dest, FALSE)
  BY <1>1, <1>2, <1>3, <1>5
<1> QED BY <1>4, <1>5 DEF LastOf

\* Long branches are those the code shows: the conditional one in the block
\* itself, the last one there or in the block split off it.
JmpLong(b, x) ==
  <<b, "jmp">> \in LongBranches <=> input[b].jmp.op = "JMP" /\ code[x].jmp.op = "Bi"

LongAre ==
  /\ LongBranches \subseteq Relaxation!Branches
  /\ \A b \in 1..N :
       /\ <<b, "jcc">> \in LongBranches <=> code[b].jcc.neg = TRUE
       /\ ~WasSplit(b) => JmpLong(b, b)
       /\ \A x \in SplitOffs : Behind(b, x) => JmpLong(b, x)

\* What a block and the one split off it hold, whether it was split or not.
LEMMA KeptIs ==
  ASSUME TypeOK, Kept, NEW b \in 1..N
  PROVE  /\ code[b].body = input[b].body
         /\ \/ code[b].jcc = input[b].jcc /\ code[b].jcc.neg = FALSE
            \/ Reversed(b)
         /\ code[b].jcc.neg \in BOOLEAN
         /\ ~WasSplit(b) => Whole(b)
         /\ \A x \in SplitOffs : Behind(b, x) => Halves(b, x)
<1>1. BlockKept(b) /\ input[b].jcc.neg = FALSE
  BY InputInstrs DEF Kept, TypeOK
<1>2. /\ ~WasSplit(b) => Whole(b)
      /\ \A x \in SplitOffs : Behind(b, x) => Halves(b, x)
  BY <1>1 DEF BlockKept, WasSplit
<1>3. Whole(b) \/ \E x \in SplitOffs : Halves(b, x)
  BY <1>2 DEF WasSplit
<1>4. /\ code[b].body = input[b].body
      /\ code[b].jcc = input[b].jcc \/ Reversed(b)
  BY <1>3 DEF Whole, Halves
<1>5. Reversed(b) => code[b].jcc.neg = TRUE
  BY DEF Reversed
<1> QED BY <1>1, <1>2, <1>4, <1>5

LEMMA TailIs ==
  ASSUME TypeOK, Origin, NEW b \in 1..N
  PROVE  /\ ~WasSplit(b) => TailOf(b) = b
         /\ \A x \in SplitOffs : Behind(b, x) => TailOf(b) = x
<1>1. ASSUME ~WasSplit(b) PROVE TailOf(b) = b
  <2>1. CASE num[b] < n
    <3>1. num[b] + 1 \in 1..n
      BY <2>1, Places
    <3>2. PICK y : y = BlockAt(num[b] + 1)
      OBVIOUS
    <3>3. y \in 1..n /\ num[y] = num[b] + 1
      BY <3>1, <3>2, BlockAtSpec
    <3>4. y \notin SplitOffs
      BY <1>1, <3>3 DEF WasSplit, Behind
    <3>5. ~(y > N)
      BY <3>3, <3>4, Places DEF SplitOffs
    <3> QED BY <3>2, <3>5 DEF TailOf
  <2> QED BY <2>1 DEF TailOf
<1>2. ASSUME NEW x \in SplitOffs, Behind(b, x) PROVE TailOf(b) = x
  <2>1. Halves(b, x)
    BY <1>2, KeptIs DEF Origin
  <2>2. x \in 1..n /\ num[x] = num[b] + 1 /\ num[x] \in 1..n /\ num[b] \in 1..n /\ n \in Nat
        /\ N \in Nat
    BY <1>2, Places DEF Behind
  <2>3. BlockAt(num[b] + 1) = x
    BY <2>2, BlockAtNum
  <2>4. num[b] < n /\ x > N
    BY <2>2 DEF SplitOffs
  <2>5. input[b].jcc.op = "JCC" /\ input[b].jmp # NoInstr
    BY <2>1 DEF Halves
  <2>6. code[b].jmp # input[b].jmp
    <3>1. input[b].jmp.op # "Bi"
      BY Places, InputInstrs
    <3>2. code[b].jmp = NoInstr \/ code[b].jmp.op = "Bi"
      BY <2>1, ReversedIs DEF Halves
    <3> QED BY <2>5, <3>1, <3>2
  <2> QED BY <2>3, <2>4, <2>5, <2>6 DEF TailOf
<1> QED BY <1>1, <1>2

LEMMA LongIs == TypeOK /\ Origin => LongAre
<1> SUFFICES ASSUME TypeOK, Origin PROVE LongAre
  OBVIOUS
<1>1. input \in Inputs /\ Kept
  BY Places DEF Origin
<1>2. \A br \in LongBranches :
        \E b \in 1..N : \/ br = <<b, "jcc">> /\ code[b].jcc.neg
                        \/ /\ br = <<b, "jmp">> /\ input[b].jmp.op = "JMP"
                           /\ code[TailOf(b)].jmp.op = "Bi"
  BY DEF LongBranches
<1>3. \A b \in 1..N : /\ code[b].jcc.neg => <<b, "jcc">> \in LongBranches
                      /\ input[b].jmp.op = "JMP" /\ code[TailOf(b)].jmp.op = "Bi"
                           => <<b, "jmp">> \in LongBranches
  BY DEF LongBranches
<1>4. ASSUME NEW b \in 1..N
      PROVE  /\ <<b, "jcc">> \in LongBranches <=> code[b].jcc.neg = TRUE
             /\ <<b, "jmp">> \in LongBranches
                  <=> input[b].jmp.op = "JMP" /\ code[TailOf(b)].jmp.op = "Bi"
  <2>1. \A c : <<b, "jcc">> # <<c, "jmp">>
    OBVIOUS
  <2>2. \A c, s : <<b, s>> = <<c, s>> => b = c
    OBVIOUS
  <2>3. code[b].jcc.neg \in BOOLEAN
    BY <1>1, KeptIs
  <2>4. <<b, "jcc">> \in LongBranches => code[b].jcc.neg
    BY <1>2, <2>1, <2>2
  <2>5. <<b, "jmp">> \in LongBranches => input[b].jmp.op = "JMP" /\ code[TailOf(b)].jmp.op = "Bi"
    BY <1>2
  <2> QED BY <1>3, <2>3, <2>4, <2>5
<1>5. LongBranches \subseteq Relaxation!Branches
  <2> SUFFICES ASSUME NEW br \in LongBranches PROVE br \in Relaxation!Branches
    OBVIOUS
  <2>1. PICK b \in 1..N : \/ br = <<b, "jcc">> /\ code[b].jcc.neg
                          \/ br = <<b, "jmp">> /\ input[b].jmp.op = "JMP"
    BY <1>2
  <2>2. CASE br = <<b, "jcc">> /\ code[b].jcc.neg
    <3>1. code[b].jcc.neg # FALSE
      BY <2>2
    <3>2. Reversed(b)
      BY <1>1, <3>1, KeptIs
    <3>3. input[b].jcc.op = "JCC"
      BY <3>2, ReversedIs
    <3> QED BY <2>2, <3>3 DEF Relaxation!Branches
  <2>3. CASE br = <<b, "jmp">> /\ input[b].jmp.op = "JMP"
    BY <2>3 DEF Relaxation!Branches
  <2> QED BY <2>1, <2>2, <2>3
<1>6. ASSUME NEW b \in 1..N
      PROVE  /\ ~WasSplit(b) => JmpLong(b, b)
             /\ \A x \in SplitOffs : Behind(b, x) => JmpLong(b, x)
  BY <1>4, TailIs DEF JmpLong
<1> QED BY <1>4, <1>5, <1>6 DEF LongAre

-------------------------------------------------------------------------------
(* The offsets of the pass are those of the layout its long branches give *)

LEMMA LastSize ==
  ASSUME input \in Inputs, NEW b \in 1..N, NEW j, LastOf(b, j), NEW L,
         <<b, "jmp">> \in L <=> input[b].jmp.op = "JMP" /\ j.op = "Bi"
  PROVE  InstSize(j) = Relaxation!Bytes(L, b, "jmp")
<1>1. /\ input[b].jmp.op \in {"none", "JMP", "RET"}
      /\ j.op = "Bi" => input[b].jmp.op = "JMP"
      /\ j.op # "Bi" => j.op = input[b].jmp.op
  BY InputInstrs, LastIs
<1>2. CASE j.op = "Bi"
  BY <1>1, <1>2 DEF InstSize, Relaxation!Bytes
<1>3. CASE j.op # "Bi"
  BY <1>1, <1>3 DEF InstSize, Relaxation!Bytes
<1> QED BY <1>2, <1>3

LEMMA SizesAre ==
  ASSUME TypeOK, Origin, NEW b \in 1..N, NEW L, L = LongBranches
  PROVE  /\ code[b].jcc = input[b].jcc => InstSize(code[b].jcc) = Relaxation!Bytes(L, b, "jcc")
         /\ ~WasSplit(b) => Size(b) = Relaxation!BlockBytes(L, b)
         /\ \A x \in SplitOffs : Behind(b, x) =>
              /\ Size(b) = input[b].body + Relaxation!Bytes(L, b, "jcc")
              /\ Size(x) = Relaxation!Bytes(L, b, "jmp")
              /\ Size(b) + Size(x) = Relaxation!BlockBytes(L, b)
<1>1. /\ input \in Inputs /\ Kept /\ LongAre
  BY LongIs, Places DEF Origin
<1>2. /\ code[b].body = input[b].body /\ input[b].body \in Nat
      /\ input[b].jcc.op \in {"none", "JCC"} /\ input[b].jcc.neg = FALSE
      /\ input[b].jmp.op = "none" <=> input[b].jmp = NoInstr
      /\ <<b, "jcc">> \in L <=> code[b].jcc.neg = TRUE
      /\ ~WasSplit(b) => Whole(b)
      /\ \A x \in SplitOffs : Behind(b, x) => Halves(b, x)
  BY <1>1, InputInstrs, KeptIs DEF LongAre
<1>3. InstSize(NoInstr) = 0
  BY DEF InstSize, NoInstr, Instr
<1>4. ASSUME code[b].jcc = input[b].jcc
      PROVE  InstSize(code[b].jcc) = Relaxation!Bytes(L, b, "jcc")
  <2>1. <<b, "jcc">> \notin L
    BY <1>2, <1>4
  <2> QED BY <1>2, <1>4, <2>1 DEF InstSize, Relaxation!Bytes
<1>5. ASSUME Reversed(b)
      PROVE  InstSize(code[b].jcc) + InstSize(code[b].jmp) = Relaxation!Bytes(L, b, "jcc")
  <2>1. InstSize(code[b].jcc) = 2 /\ InstSize(code[b].jmp) = 4
    BY <1>5, ReversedIs DEF InstSize
  <2>2. <<b, "jcc">> \in L /\ input[b].jcc.op # "none"
    BY <1>2, <1>5, ReversedIs
  <2>3. Relaxation!Bytes(L, b, "jcc") = 6
    BY <2>2 DEF Relaxation!Bytes
  <2> QED BY <2>1, <2>3
<1>6. /\ Relaxation!Bytes(L, b, "jcc") \in Nat /\ Relaxation!Bytes(L, b, "jmp") \in Nat
      /\ InstSize(code[b].jcc) \in Nat /\ InstSize(code[b].jmp) \in Nat
      /\ Relaxation!BlockBytes(L, b) = input[b].body + Relaxation!Bytes(L, b, "jcc")
                                         + Relaxation!Bytes(L, b, "jmp")
      /\ Size(b) = input[b].body + InstSize(code[b].jcc) + InstSize(code[b].jmp)
  BY <1>1, <1>2, BytesNat, InstrSizes DEF Relaxation!BlockBytes, Size
<1>7. ASSUME ~WasSplit(b) PROVE Size(b) = Relaxation!BlockBytes(L, b)
  <2>1. CASE code[b].jcc = input[b].jcc /\ LastOf(b, code[b].jmp)
    <3>1. InstSize(code[b].jmp) = Relaxation!Bytes(L, b, "jmp")
      BY <1>1, <1>7, <2>1, LastSize DEF LongAre, JmpLong
    <3> QED BY <1>4, <1>6, <2>1, <3>1
  <2>2. CASE Reversed(b) /\ input[b].jmp = NoInstr
    <3>1. Relaxation!Bytes(L, b, "jmp") = 0
      BY <1>2, <2>2 DEF Relaxation!Bytes
    <3> QED BY <1>2, <1>5, <1>6, <2>2, <3>1
  <2> QED BY <1>2, <1>7, <2>1, <2>2 DEF Whole
<1>8. ASSUME NEW x \in SplitOffs, Behind(b, x)
      PROVE  /\ Size(b) = input[b].body + Relaxation!Bytes(L, b, "jcc")
             /\ Size(x) = Relaxation!Bytes(L, b, "jmp")
  <2>1. Halves(b, x)
    BY <1>2, <1>8
  <2>2. Size(b) = input[b].body + Relaxation!Bytes(L, b, "jcc")
    <3>1. CASE code[b].jcc = input[b].jcc /\ code[b].jmp = NoInstr
      BY <1>2, <1>3, <1>4, <1>6, <3>1
    <3>2. CASE Reversed(b)
      BY <1>2, <1>5, <1>6, <3>2
    <3> QED BY <2>1, <3>1, <3>2 DEF Halves
  <2>3. Size(x) = Relaxation!Bytes(L, b, "jmp")
    <3>1. code[x].body = 0 /\ code[x].jcc = NoInstr /\ LastOf(b, code[x].jmp)
      BY <2>1 DEF Halves
    <3>2. InstSize(code[x].jmp) = Relaxation!Bytes(L, b, "jmp")
      <4>1. <<b, "jmp">> \in L <=> input[b].jmp.op = "JMP" /\ code[x].jmp.op = "Bi"
        BY <1>1, <1>8 DEF LongAre, JmpLong
      <4> QED BY <1>1, <3>1, <4>1, LastSize
    <3> QED BY <1>3, <1>6, <3>1, <3>2 DEF Size
  <2> QED BY <2>2, <2>3
<1>9. \A x \in SplitOffs : Behind(b, x) =>
        /\ Size(b) = input[b].body + Relaxation!Bytes(L, b, "jcc")
        /\ Size(x) = Relaxation!Bytes(L, b, "jmp")
        /\ Size(b) + Size(x) = Relaxation!BlockBytes(L, b)
  BY <1>6, <1>8
<1> QED BY <1>4, <1>7, <1>9

\* All blocks have been measured since the last split.
Known == pc \in {"scan", "done"} \/ at = n + 1

LEMMA OffsetsAre ==
  ASSUME OffInv, Origin, Known, NEW L, L = LongBranches
  PROVE  \A b \in 1..N : off[num[b]] = Layout(L)[b]
<1>1. /\ TypeOK /\ input \in Inputs /\ N \in Nat \ {0} /\ n \in Nat
      /\ \A b \in 1..n : num[b] \in 1..n
      /\ \A b \in 1..N : b \in 1..n
      /\ \A x \in SplitOffs : x \in 1..n
  BY Places DEF OffInv, TypeInv
<1>2. /\ off[1] = 0
      /\ \A b, c \in 1..n : num[c] = num[b] + 1 => off[num[c]] = off[num[b]] + Size(b)
  <2>1. \A c \in 1..n : num[c] < n + 1
    BY <1>1
  <2> QED BY <2>1 DEF OffInv, OffsetsExact, Known
<1>3. PICK f : f = Layout(L)
  OBVIOUS
<1>4. /\ f[1] = 0 /\ f \in [1..N -> Nat]
      /\ \A b \in 1..N : b + 1 <= N => f[b+1] = f[b] + Relaxation!BlockBytes(L, b)
  BY <1>1, <1>3, LayoutIs
<1> DEFINE S == {b \in 1..N : off[num[b]] = f[b]}
<1>5. 1 \in S
  <2>1. num[1] = 1
    BY <1>1, NextOriginal DEF Origin
  <2> QED BY <1>1, <1>2, <1>4, <2>1
<1>6. ASSUME NEW b \in 1..N, b \in S, b < N PROVE b + 1 \in S
  <2>1. b + 1 \in 1..N /\ b + 1 \in 1..n /\ b \in 1..n
    BY <1>1, <1>6
  <2>2. f[b+1] = f[b] + Relaxation!BlockBytes(L, b) /\ off[num[b]] = f[b] /\ f[b] \in Nat
    BY <1>1, <1>4, <1>6
  <2>3. CASE ~WasSplit(b)
    <3>1. num[b+1] = num[b] + 1
      BY <1>1, <2>1, <2>3, NextOriginal DEF Origin
    <3>2. off[num[b+1]] = off[num[b]] + Size(b)
      BY <1>2, <2>1, <3>1
    <3>3. Size(b) = Relaxation!BlockBytes(L, b)
      BY <1>1, <2>3, SizesAre
    <3> QED BY <2>1, <2>2, <3>2, <3>3
  <2>4. CASE WasSplit(b)
    <3>1. PICK x \in SplitOffs : Behind(b, x)
      BY <2>4 DEF WasSplit
    <3>2. num[x] = num[b] + 1 /\ num[b+1] = num[x] + 1 /\ x \in 1..n
      BY <1>1, <2>1, <3>1, NextOriginal DEF Origin, Behind
    <3>3. off[num[x]] = off[num[b]] + Size(b) /\ off[num[b+1]] = off[num[x]] + Size(x)
      BY <1>2, <2>1, <3>2
    <3>4. Size(b) + Size(x) = Relaxation!BlockBytes(L, b)
      BY <1>1, <3>1, SizesAre
    <3>5. Size(b) \in Nat /\ Size(x) \in Nat
      BY <1>1, <2>1, <3>2, SizeNat
    <3> QED BY <2>1, <2>2, <3>3, <3>4, <3>5
  <2> QED BY <2>3, <2>4
<1>7. 1..N \subseteq S
  <2> HIDE DEF S
  <2> QED BY <1>1, <1>5, <1>6, Induct
<1> QED BY <1>3, <1>7

\* The distance expandBranches computes for a short branch is its span.
LEMMA JccSpan ==
  ASSUME OffInv, Origin, Known, NEW b \in 1..N, NEW L, L = LongBranches,
         input[b].jcc.op = "JCC", code[b].jcc = input[b].jcc
  PROVE  /\ <<b, "jcc">> \in Relaxation!Branches /\ <<b, "jcc">> \notin L
         /\ Relaxation!Fits(L, <<b, "jcc">>)
              <=> InRange(off[num[code[b].jcc.dest]] - off[num[b]] - (code[b].body + 2))
<1>1. TypeOK /\ input \in Inputs /\ Kept /\ LongAre
  BY LongIs, Places DEF OffInv, TypeInv, Origin
<1>2. PICK br : br = <<b, "jcc">>
  OBVIOUS
<1>3. br \in Relaxation!Branches
  BY <1>2 DEF Relaxation!Branches
<1>4. br \notin L
  BY <1>1, <1>2, InputInstrs DEF LongAre
<1>5. PICK d : d = input[b].jcc.dest
  OBVIOUS
<1>6. br[1] = b /\ br[2] = "jcc" /\ input[b][br[2]].dest = d
  BY <1>2, <1>5
<1>7. /\ d \in 1..N
      /\ Relaxation!Span(L, br) = Layout(L)[d] - (Layout(L)[b] + input[b].body + 0 + 2)
      /\ Relaxation!Fits(L, br) <=> /\ -2 * Reach <= Relaxation!Span(L, br)
                                    /\ Relaxation!Span(L, br) < 2 * Reach
  BY <1>1, <1>3, <1>6, SpanIs
<1>8. off[num[d]] = Layout(L)[d] /\ off[num[b]] = Layout(L)[b]
  BY <1>7, OffsetsAre
<1>9. code[b].jcc.dest = d /\ code[b].body = input[b].body /\ input[b].body \in Nat
  BY <1>1, <1>5, KeptIs, InputInstrs
<1>10. off[num[d]] \in Nat /\ off[num[b]] \in Nat
  BY <1>1, <1>7, <1>8, LayoutIs
<1>11. Relaxation!Span(L, br) = off[num[d]] - off[num[b]] - (code[b].body + 2)
  BY <1>7, <1>8, <1>9, <1>10
<1> QED BY <1>2, <1>3, <1>4, <1>7, <1>9, <1>11 DEF InRange

\* x is where the last branch of b is: b itself, or what was split off it.
Holds(b, x) ==
  \/ x = b /\ ~WasSplit(b)
  \/ x \in SplitOffs /\ Behind(b, x)

LEMMA JmpSpan ==
  ASSUME OffInv, Origin, Known, NEW b \in 1..N, NEW x, Holds(b, x), NEW L, L = LongBranches,
         code[x].jmp.op = "JMP"
  PROVE  /\ <<b, "jmp">> \in Relaxation!Branches /\ <<b, "jmp">> \notin L
         /\ code[x].jmp = input[b].jmp
         /\ Relaxation!Fits(L, <<b, "jmp">>)
              <=> InRange(off[num[code[x].jmp.dest]] - off[num[x]] - Size(x))
<1>1. /\ TypeOK /\ input \in Inputs /\ Kept /\ LongAre
      /\ input[b].body \in Nat /\ Relaxation!Bytes(L, b, "jcc") \in Nat
  <2>1. TypeOK /\ input \in Inputs /\ Kept /\ LongAre
    BY LongIs, Places DEF OffInv, TypeInv, Origin
  <2>2. Relaxation!Bytes(L, b, "jcc") \in Nat
    BY <2>1, BytesNat
  <2> QED BY <2>1, <2>2, InputInstrs
<1>2. PICK br, d : br = <<b, "jmp">> /\ d = input[b].jmp.dest
  OBVIOUS
<1>3. LastOf(b, code[x].jmp) /\ ~Reversed(x)
  <2>1. ~Reversed(x)
    BY ReversedIs
  <2>2. CASE x = b /\ ~WasSplit(b)
    BY <1>1, <2>1, <2>2, KeptIs DEF Whole
  <2>3. CASE x \in SplitOffs /\ Behind(b, x)
    BY <1>1, <2>1, <2>3, KeptIs DEF Halves
  <2> QED BY <2>1, <2>2, <2>3 DEF Holds
<1>4. code[x].jmp = input[b].jmp
  BY <1>1, <1>3, LastIs
<1>5. br \in Relaxation!Branches
  BY <1>2, <1>4 DEF Relaxation!Branches
<1>6. br \notin L /\ Relaxation!Bytes(L, b, "jmp") = 2
  <2>1. JmpLong(b, x)
    BY <1>1 DEF Holds, LongAre
  <2>2. br \notin L
    BY <1>2, <2>1 DEF JmpLong
  <2> QED BY <1>2, <1>4, <2>2 DEF Relaxation!Bytes
<1>7. br[1] = b /\ br[2] = "jmp" /\ input[b][br[2]].dest = d
  BY <1>2
<1>8. /\ d \in 1..N
      /\ Relaxation!Span(L, br) = Layout(L)[d] - (Layout(L)[b] + input[b].body
                                     + Relaxation!Bytes(L, b, "jcc") + 2)
      /\ Relaxation!Fits(L, br) <=> /\ -2 * Reach <= Relaxation!Span(L, br)
                                    /\ Relaxation!Span(L, br) < 2 * Reach
  BY <1>1, <1>5, <1>7, SpanIs
<1>9. off[num[d]] = Layout(L)[d] /\ off[num[b]] = Layout(L)[b]
  BY <1>8, OffsetsAre
<1>10. off[num[d]] \in Nat /\ off[num[b]] \in Nat
  BY <1>1, <1>8, <1>9, LayoutIs
<1>11. off[num[x]] + Size(x) = off[num[b]] + input[b].body + Relaxation!Bytes(L, b, "jcc") + 2
       /\ off[num[x]] \in Nat /\ Size(x) \in Nat
  <2>1. CASE x = b /\ ~WasSplit(b)
    <3>1. Size(x) = input[b].body + Relaxation!Bytes(L, b, "jcc") + 2
      BY <1>1, <1>6, <2>1, SizesAre DEF Relaxation!BlockBytes
    <3> QED BY <1>1, <1>10, <2>1, <3>1
  <2>2. CASE x \in SplitOffs /\ Behind(b, x)
    <3>1. Size(b) = input[b].body + Relaxation!Bytes(L, b, "jcc") /\ Size(x) = 2
      BY <1>1, <1>6, <2>2, SizesAre
    <3>2. num[x] = num[b] + 1 /\ x \in 1..n /\ b \in 1..n /\ n \in Nat /\ num[x] \in 1..n
      BY <1>1, <2>2, Places DEF Behind
    <3>3. off[num[x]] = off[num[b]] + Size(b)
      <4>1. num[x] < n + 1
        BY <3>2
      <4> QED BY <3>2, <4>1 DEF OffInv, OffsetsExact, Known
    <3> QED BY <1>1, <1>10, <3>1, <3>3
  <2> QED BY <2>1, <2>2 DEF Holds
<1>12. Relaxation!Span(L, br) = off[num[d]] - off[num[x]] - Size(x)
  BY <1>1, <1>8, <1>9, <1>10, <1>11
<1> QED BY <1>2, <1>4, <1>5, <1>6, <1>8, <1>12 DEF InRange

\* When the short branches of the code reach, those of the function do.
LEMMA AllFit ==
  ASSUME OffInv, Origin, Known, \A b \in 1..n : JccReaches(b) /\ JmpReaches(b),
         NEW L, L = LongBranches
  PROVE  \A br \in Relaxation!Branches \ L : Relaxation!Fits(L, br)
<1> SUFFICES ASSUME NEW br \in Relaxation!Branches, br \notin L PROVE Relaxation!Fits(L, br)
  OBVIOUS
<1>1. TypeOK /\ input \in Inputs /\ Kept /\ LongAre
  BY LongIs, Places DEF OffInv, TypeInv, Origin
<1>2. PICK b \in 1..N : \/ br = <<b, "jcc">> /\ input[b].jcc.op = "JCC"
                        \/ br = <<b, "jmp">> /\ input[b].jmp.op = "JMP"
  <2>1. /\ br = <<br[1], br[2]>> /\ br[1] \in 1..N /\ br[2] \in {"jcc", "jmp"}
        /\ input[br[1]][br[2]].op = (IF br[2] = "jcc" THEN "JCC" ELSE "JMP")
    BY <1>1, SpanIs
  <2> QED BY <2>1
<1>3. CASE br = <<b, "jcc">> /\ input[b].jcc.op = "JCC"
  <2>1. code[b].jcc = input[b].jcc
    BY <1>1, <1>3, KeptIs, ReversedIs DEF LongAre
  <2>2. JccReaches(b)
    BY <1>1, Places
  <2>3. InstSize(code[b].jcc) = 2 /\ IsShort(code[b].jcc)
    BY <1>3, <2>1 DEF InstSize, IsShort
  <2> QED BY <1>3, <2>1, <2>2, <2>3, JccSpan DEF JccReaches, Reaches
<1>4. CASE br = <<b, "jmp">> /\ input[b].jmp.op = "JMP"
  <2>1. PICK x : Holds(b, x)
    BY DEF Holds, WasSplit
  <2>2. JmpLong(b, x) /\ x \in 1..n
    <3>1. x \in 1..n
      BY <1>1, <2>1, Places DEF Holds
    <3>2. JmpLong(b, x)
      BY <1>1, <2>1 DEF Holds, LongAre
    <3> QED BY <3>1, <3>2
  <2>3. code[x].jmp.op # "Bi"
    BY <1>4, <2>2 DEF JmpLong
  <2>4. LastOf(b, code[x].jmp)
    <3>1. ~Reversed(x)
      BY <2>3, ReversedIs
    <3> QED BY <1>1, <2>1, <3>1, KeptIs DEF Holds, Whole, Halves
  <2>5. code[x].jmp = input[b].jmp
    BY <1>1, <2>3, <2>4, LastIs
  <2>6. JmpReaches(x) /\ IsShort(code[x].jmp)
    BY <1>4, <2>2, <2>5 DEF IsShort
  <2> QED BY <1>4, <2>1, <2>5, <2>6, JmpSpan DEF JmpReaches, Reaches
<1> QED BY <1>2, <1>3, <1>4

-------------------------------------------------------------------------------
(* How the steps change the long branches *)

LEMMA LongPrimed == TypeOK' /\ Origin' => LongAre'
BY LongIs, PTL

LEMMA HoldsIs ==
  ASSUME TypeOK, Origin, NEW b \in 1..N
  PROVE  /\ \E x : Holds(b, x)
         /\ \A x : Holds(b, x) => x \in 1..n /\ JmpLong(b, x)
<1>1. \E x : Holds(b, x)
  BY DEF Holds, WasSplit
<1>2. ASSUME NEW x, Holds(b, x) PROVE x \in 1..n /\ JmpLong(b, x)
  <2>1. x \in 1..n
    BY <1>2, Places DEF Holds
  <2>2. JmpLong(b, x)
    BY <1>2, LongIs DEF Holds, LongAre
  <2> QED BY <2>1, <2>2
<1> QED BY <1>1, <1>2

\* The branches in A, and no others, have become long.
BecameLong(A) ==
  /\ A \subseteq Relaxation!Branches
  /\ \A b \in 1..N : code'[b].jcc.neg = TRUE <=> code[b].jcc.neg = TRUE \/ <<b, "jcc">> \in A
  /\ \A b \in 1..N : \E x, y :
       /\ Holds(b, x) /\ Holds(b, y)'
       /\ input[b].jmp.op = "JMP" =>
            (code'[y].jmp.op = "Bi" <=> code[x].jmp.op = "Bi" \/ <<b, "jmp">> \in A)

LEMMA LongChanges ==
  ASSUME TypeOK, Origin, TypeOK', Origin', input' = input, NEW A, BecameLong(A)
  PROVE  LongBranches' = LongBranches \cup A
<1>1. LongAre /\ LongAre'
  BY LongIs, LongPrimed
<1>2. PICK B : B = LongBranches'
  OBVIOUS
<1>3. /\ B \subseteq Relaxation!Branches /\ LongBranches \cup A \subseteq Relaxation!Branches
      /\ \A b \in 1..N : <<b, "jcc">> \in B <=> code'[b].jcc.neg = TRUE
  <2>1. Relaxation!Branches' = Relaxation!Branches
    BY DEF Relaxation!Branches
  <2> QED BY <1>1, <1>2, <2>1 DEF LongAre, BecameLong
<1>4. ASSUME NEW b \in 1..N
      PROVE  /\ <<b, "jcc">> \in B <=> <<b, "jcc">> \in LongBranches \cup A
             /\ <<b, "jmp">> \in B <=> <<b, "jmp">> \in LongBranches \cup A
  <2>1. <<b, "jcc">> \in B <=> <<b, "jcc">> \in LongBranches \cup A
    BY <1>1, <1>3 DEF LongAre, BecameLong
  <2>2. PICK x, y :
          /\ Holds(b, x) /\ Holds(b, y)'
          /\ input[b].jmp.op = "JMP" =>
               (code'[y].jmp.op = "Bi" <=> code[x].jmp.op = "Bi" \/ <<b, "jmp">> \in A)
    BY DEF BecameLong
  <2>3. JmpLong(b, x)
    BY <2>2, HoldsIs
  <2>4. JmpLong(b, y)'
    BY <1>1, <2>2 DEF Holds, LongAre
  <2>5. <<b, "jmp">> \in A => input[b].jmp.op = "JMP"
    <3>1. SUFFICES ASSUME <<b, "jmp">> \in Relaxation!Branches PROVE input[b].jmp.op = "JMP"
      BY DEF BecameLong
    <3>2. PICK br : br = <<b, "jmp">>
      OBVIOUS
    <3>3. br[1] = b /\ br[2] = "jmp" /\ input \in Inputs
      BY <3>2, Places
    <3> QED BY <3>1, <3>2, <3>3, SpanIs
  <2>6. <<b, "jmp">> \in B <=> input[b].jmp.op = "JMP" /\ code'[y].jmp.op = "Bi"
    BY <1>2, <2>4 DEF JmpLong
  <2> QED BY <2>1, <2>2, <2>3, <2>5, <2>6 DEF JmpLong
<1>5. \A br \in Relaxation!Branches : \E b \in 1..N : br = <<b, "jcc">> \/ br = <<b, "jmp">>
  BY DEF Relaxation!Branches
<1>6. PICK C : C = LongBranches \cup A
  OBVIOUS
<1>7. \A br \in Relaxation!Branches : br \in B <=> br \in C
  BY <1>4, <1>5, <1>6
<1>8. B \subseteq C /\ C \subseteq B
  BY <1>3, <1>6, <1>7, Zenon
<1> QED BY <1>2, <1>6, <1>8

LEMMA StillOrigin ==
  ASSUME Origin, UNCHANGED <<input, n, num, code>>
  PROVE  Origin' /\ LongBranches' = LongBranches
<1>1. SplitOffs' = SplitOffs /\ \A b, x : Behind(b, x)' = Behind(b, x)
  BY DEF SplitOffs, Behind
<1>2. \A b, x : Whole(b)' = Whole(b) /\ Halves(b, x)' = Halves(b, x)
  BY DEF Whole, Halves, Reversed, LastOf
<1>3. LongBranches' = LongBranches
  BY DEF LongBranches, TailOf, BlockAt
<1> QED BY <1>1, <1>2, <1>3 DEF Origin, InOrder, HasOrigin, Kept, BlockKept

LEMMA InitOrigin == Init => Origin /\ LongBranches = {}
<1> SUFFICES ASSUME Init PROVE Origin /\ LongBranches = {}
  OBVIOUS
<1>1. /\ n = N /\ N \in Nat \ {0} /\ num = [b \in 1..N |-> b] /\ code = input /\ input \in Inputs
      /\ TypeOK
  BY NAssumption, InitType DEF Init, TypeInv
<1>2. SplitOffs = {}
  BY <1>1 DEF SplitOffs
<1>3. Kept
  BY <1>1, <1>2 DEF Kept, BlockKept, Whole, LastOf
<1>4. InOrder /\ HasOrigin
  BY <1>1, <1>2 DEF InOrder, HasOrigin
<1>5. LongAre
  BY <1>1, <1>3, <1>4, LongIs DEF Origin
<1>6. ASSUME NEW br \in LongBranches PROVE FALSE
  <2>1. br \in Relaxation!Branches
    BY <1>5 DEF LongAre
  <2>2. PICK b \in 1..N : br = <<b, "jcc">> \/ br = <<b, "jmp">>
    BY <2>1 DEF Relaxation!Branches
  <2>3. input[b].jcc.neg = FALSE /\ input[b].jmp.op # "Bi"
    BY <1>1, InputInstrs
  <2>4. ~WasSplit(b)
    BY <1>2 DEF WasSplit
  <2>5. JmpLong(b, b) /\ (<<b, "jcc">> \in LongBranches <=> code[b].jcc.neg = TRUE)
    BY <1>5, <2>4 DEF LongAre
  <2> QED BY <1>1, <1>6, <2>2, <2>3, <2>5 DEF JmpLong
<1> QED BY <1>3, <1>4, <1>6 DEF Origin

\* A long branch in place of a short one: places stay, other blocks too.
LEMMA ExpandOrigin ==
  ASSUME TypeOK, Origin, UNCHANGED <<input, n, num>>, NEW w \in 1..n,
         \A b \in 1..n : b # w => code'[b] = code[b],
         \A b \in 1..N : BlockKept(b)'
  PROVE  /\ Origin'
         /\ \A b, x : Holds(b, x)' = Holds(b, x)
<1>1. SplitOffs' = SplitOffs /\ \A b, x : Behind(b, x)' = Behind(b, x)
  BY DEF SplitOffs, Behind
<1>2. \A b, x : Holds(b, x)' = Holds(b, x)
  BY <1>1 DEF Holds, WasSplit
<1>3. InOrder' /\ HasOrigin'
  BY <1>1 DEF Origin, InOrder, HasOrigin
<1> QED BY <1>2, <1>3 DEF Origin, Kept

\* A block is kept if it and what was split off it stay.
LEMMA KeptUnchanged ==
  ASSUME TypeOK, Kept, UNCHANGED <<input, n, num>>, NEW b \in 1..N,
         code'[b] = code[b], \A x \in SplitOffs : Behind(b, x) => code'[x] = code[x]
  PROVE  BlockKept(b)'
<1>1. SplitOffs' = SplitOffs /\ \A x : Behind(b, x)' = Behind(b, x)
  BY DEF SplitOffs, Behind
<1>2. \A j : LastOf(b, j)' = LastOf(b, j)
  BY DEF LastOf
<1>3. Reversed(b)' = Reversed(b)
  BY DEF Reversed
<1>4. Whole(b)' = Whole(b)
  BY <1>2, <1>3 DEF Whole
<1>5. \A x \in SplitOffs : Behind(b, x) => Halves(b, x)' = Halves(b, x)
  BY <1>2, <1>3 DEF Halves
<1> QED BY <1>1, <1>4, <1>5 DEF Kept, BlockKept

LEMMA ExpandJCCLong ==
  ASSUME FlowInv, Origin, ExpandJCC, NEW w, w = MBB
  PROVE  /\ Origin' /\ <<w, "jcc">> \in Relaxation!Branches /\ <<w, "jcc">> \notin LongBranches
         /\ ~Relaxation!Fits(LongBranches, <<w, "jcc">>)
         /\ LongBranches' = LongBranches \cup {<<w, "jcc">>}
<1>1. TypeInv /\ TypeOK /\ OffInv /\ ReachInv /\ Shape /\ Kept
  BY DEF FlowInv, ReachInv, OffInv, TypeInv, Origin
<1>2. /\ UNCHANGED <<input, n, num>> /\ code' = [code EXCEPT ![w] = LongJCC]
      /\ w \in 1..n /\ num[w] = at
      /\ code[w].jcc.op = "JCC" /\ code[w].jmp = NoInstr
      /\ pc = "scan" /\ at <= n /\ mi = "jcc" /\ TooFar /\ InBlock
  BY <1>1, ExpandJCCSteps, ExpandJCCFacts DEF ExpandJCC, InBlock
<1>3. code[w].jcc.neg # TRUE
  BY <1>1, <1>2, OverReaches
<1>4. w \in 1..N /\ n \in Nat /\ N \in Nat
  <2>1. ShapeOf(w) /\ code[w].jcc # NoInstr
    BY <1>1, <1>2 DEF Shape, NoInstr, Instr
  <2>2. n \in Nat /\ N \in Nat /\ ~(w > N)
    BY <1>1, <2>1, Places DEF ShapeOf
  <2> QED BY <1>2, <2>2
<1>5. code[w].jcc = input[w].jcc /\ input[w].jcc.op = "JCC" /\ ~Reversed(w)
      /\ code[w].body = input[w].body
  BY <1>1, <1>2, <1>3, <1>4, KeptIs, ReversedIs
<1>6. /\ \A b \in 1..n : b # w => code'[b] = code[b]
      /\ code'[w] = [body |-> code[w].body, jcc |-> Instr("JCC", BlockAt(at + 1), TRUE),
                     jmp |-> Instr("Bi", code[w].jcc.dest, FALSE)]
  <2>1. code \in [1..n -> Block]
    BY <1>1, Basics
  <2>2. code'[w] = LongJCC
    BY <1>2, <2>1
  <2>3. (~code[w].jcc.neg) = TRUE
    BY <1>1, <1>3, <1>4, KeptIs
  <2>4. LongJCC = [body |-> code[w].body, jcc |-> Instr("JCC", BlockAt(at + 1), ~code[w].jcc.neg),
                   jmp |-> Instr("Bi", code[w].jcc.dest, FALSE)]
    BY DEF LongJCC
  <2> QED BY <1>2, <2>1, <2>2, <2>3, <2>4
<1>7. Reversed(w)' /\ code'[w].body = code[w].body
  <2>1. /\ code'[w].jcc = Instr("JCC", BlockAt(at + 1), TRUE)
        /\ code'[w].jmp = Instr("Bi", code[w].jcc.dest, FALSE)
    BY <1>6
  <2>2. code'[w].jcc.op = "JCC" /\ code'[w].jcc.neg = TRUE
    BY <2>1 DEF Instr
  <2>3. input' = input /\ input[w].jcc.op = "JCC"
    BY <1>2, <1>5
  <2>4. code'[w].jmp = Instr("Bi", input[w].jcc.dest, FALSE)
    BY <1>5, <2>1
  <2>5. Reversed(w)'
    BY <2>2, <2>3, <2>4 DEF Reversed
  <2> QED BY <1>6, <2>5
<1>8. ASSUME NEW b \in 1..N PROVE BlockKept(b)'
  <2>1. \A x \in SplitOffs : x # w /\ x \in 1..n /\ code'[x] = code[x]
    BY <1>1, <1>4, <1>6, Places
  <2>2. CASE b # w
    <3>1. code'[b] = code[b]
      BY <1>1, <1>6, <2>2, Places
    <3> QED BY <1>1, <1>2, <2>1, <3>1, KeptUnchanged
  <2>3. CASE b = w
    <3>1. SplitOffs' = SplitOffs /\ \A x : Behind(w, x)' = Behind(w, x)
      BY <1>2 DEF SplitOffs, Behind
    <3>2. ASSUME ~WasSplit(w) PROVE Whole(w)'
      <4>1. LastOf(w, NoInstr)
        BY <1>1, <1>2, <1>4, <1>5, <3>2, KeptIs DEF Whole
      <4>2. input[w].jmp = NoInstr
        BY <1>1, <1>4, <4>1, LastIs, Places
      <4> QED BY <1>2, <1>5, <1>7, <4>2 DEF Whole
    <3>3. ASSUME NEW x \in SplitOffs, Behind(w, x) PROVE Halves(w, x)'
      <4>1. Halves(w, x)
        BY <1>1, <1>4, <3>3, KeptIs
      <4>2. LastOf(w, code[x].jmp)' = LastOf(w, code[x].jmp)
        BY <1>2, <2>1 DEF LastOf
      <4> QED BY <1>2, <1>5, <1>7, <2>1, <4>1, <4>2 DEF Halves
    <3> QED BY <2>3, <3>1, <3>2, <3>3 DEF BlockKept, WasSplit
  <2> QED BY <2>2, <2>3
<1>9. Origin' /\ \A b, x : Holds(b, x)' = Holds(b, x)
  BY <1>1, <1>2, <1>6, <1>8, ExpandOrigin
<1>10. Known /\ start = code[w].body
  BY <1>1, <1>2 DEF Known, ReachInv, StartExact, Before
<1>11. /\ <<w, "jcc">> \in Relaxation!Branches /\ <<w, "jcc">> \notin LongBranches
       /\ ~Relaxation!Fits(LongBranches, <<w, "jcc">>)
  <2>1. Current = code[w].jcc /\ InstSize(Current) = 2
    BY <1>1, <1>2, CurrentSpec DEF TooFar
  <2>2. ~InRange(off[num[code[w].jcc.dest]] - off[num[w]] - (code[w].body + 2))
    BY <1>2, <1>10, <2>1 DEF TooFar, Distance
  <2> QED BY <1>1, <1>4, <1>5, <1>10, <2>2, JccSpan
<1>12. BecameLong({<<w, "jcc">>})
  <2>1. ASSUME NEW b \in 1..N
        PROVE  code'[b].jcc.neg = TRUE <=> code[b].jcc.neg = TRUE \/ <<b, "jcc">> \in {<<w, "jcc">>}
    <3>1. CASE b = w
      <4>1. code'[w].jcc.neg = TRUE
        BY <1>7 DEF Reversed
      <4> QED BY <3>1, <4>1
    <3>2. CASE b # w
      <4>1. b \in 1..n
        BY <1>1, Places
      <4> QED BY <1>6, <3>2, <4>1
    <3> QED BY <3>1, <3>2
  <2>2. ASSUME NEW b \in 1..N
        PROVE  \E x, y :
                 /\ Holds(b, x) /\ Holds(b, y)'
                 /\ input[b].jmp.op = "JMP" =>
                      (code'[y].jmp.op = "Bi"
                        <=> code[x].jmp.op = "Bi" \/ <<b, "jmp">> \in {<<w, "jcc">>})
    <3>1. PICK x : Holds(b, x) /\ x \in 1..n
      BY <1>1, HoldsIs
    <3>2. Holds(b, x)' /\ <<b, "jmp">> \notin {<<w, "jcc">>}
      BY <1>9, <3>1
    <3>3. CASE x # w
      <4>1. code'[x] = code[x]
        BY <1>6, <3>1, <3>3
      <4>2. code'[x].jmp.op = "Bi" <=> code[x].jmp.op = "Bi" \/ <<b, "jmp">> \in {<<w, "jcc">>}
        BY <3>2, <4>1
      <4> QED BY <3>1, <3>2, <4>2
    <3>4. CASE x = w
      <4>1. b = w /\ ~WasSplit(w)
        BY <1>1, <1>4, <3>1, <3>4, Places DEF Holds
      <4>2. LastOf(w, NoInstr)
        BY <1>1, <1>2, <1>4, <1>5, <4>1, KeptIs DEF Whole
      <4>3. input[w].jmp = NoInstr
        BY <1>1, <1>4, <4>2, LastIs, Places
      <4>4. input[b].jmp.op # "JMP"
        BY <4>1, <4>3 DEF NoInstr, Instr
      <4> QED BY <3>1, <3>2, <4>4
    <3> QED BY <3>3, <3>4
  <2> QED BY <1>11, <2>1, <2>2 DEF BecameLong
<1>13. TypeOK'
  BY <1>1, ExpandsType DEF TypeInv
<1>14. LongBranches' = LongBranches \cup {<<w, "jcc">>}
  BY <1>1, <1>2, <1>9, <1>12, <1>13, LongChanges
<1> QED BY <1>9, <1>11, <1>14

\* The branch ExpandJMP lengthens is the last one of some block of the function.
LEMMA HeldBranch ==
  ASSUME TypeOK, Origin, NEW w \in 1..n, code[w].jmp.op = "JMP"
  PROVE  \E b \in 1..N : Holds(b, w)
<1>1. CASE w \in 1..N
  <2>1. ASSUME NEW x \in SplitOffs, Behind(w, x) PROVE FALSE
    <3>1. Halves(w, x)
      BY <1>1, <2>1, KeptIs DEF Origin
    <3>2. code[w].jmp = NoInstr \/ code[w].jmp.op = "Bi"
      BY <3>1, ReversedIs DEF Halves
    <3> QED BY <3>2 DEF NoInstr, Instr
  <2> QED BY <1>1, <2>1 DEF Holds, WasSplit
<1>2. CASE w \in SplitOffs
  BY <1>2 DEF Holds, Origin, HasOrigin
<1> QED BY <1>1, <1>2, Places

\* A last branch that grows where it is leaves every block as Kept says.
LEMMA LongLastKept ==
  ASSUME TypeOK, Origin, UNCHANGED <<input, n, num>>, NEW w \in 1..n, NEW b \in 1..N, Holds(b, w),
         code[w].jmp.op = "JMP", code[w].jmp = input[b].jmp,
         \A c \in 1..n : c # w => code'[c] = code[c],
         code'[w] = [body |-> code[w].body, jcc |-> code[w].jcc,
                     jmp |-> Instr("Bi", code[w].jmp.dest, FALSE)]
  PROVE  \A c \in 1..N : BlockKept(c)'
<1>1. Kept
  BY DEF Origin
<1>2. code'[w].body = code[w].body /\ code'[w].jcc = code[w].jcc /\ LastOf(b, code[w].jmp)'
  <2>1. code'[w].body = code[w].body /\ code'[w].jcc = code[w].jcc
        /\ code'[w].jmp = Instr("Bi", input[b].jmp.dest, FALSE)
    OBVIOUS
  <2>2. input' = input /\ input[b].jmp.op = "JMP"
    OBVIOUS
  <2> QED BY <2>1, <2>2 DEF LastOf
<1>3. ~Reversed(w)
  BY ReversedIs
<1>4. SplitOffs' = SplitOffs /\ \A c, x : Behind(c, x)' = Behind(c, x)
  BY DEF SplitOffs, Behind
<1>5. ASSUME NEW c \in 1..N, c # b PROVE BlockKept(c)'
  <2>1. c # w
    BY <1>5, Places DEF Holds
  <2>2. ASSUME NEW x \in SplitOffs, Behind(c, x) PROVE code'[x] = code[x]
    <3>1. x \in 1..n /\ x \notin 1..N /\ c \in 1..n /\ b \in 1..n /\ num[c] \in 1..n /\ num[b] \in 1..n /\ n \in Nat
      BY Places
    <3>2. x # w
      <4>1. SUFFICES ASSUME x = w PROVE FALSE
        OBVIOUS
      <4>2. num[w] = num[b] + 1 /\ num[w] = num[c] + 1
        BY <2>2, <3>1, <4>1 DEF Holds, Behind
      <4>3. num[c] = num[b]
        BY <3>1, <4>2
      <4> QED BY <1>5, <3>1, <4>3, Places
    <3> QED BY <3>1, <3>2
  <2>3. code'[c] = code[c]
    BY <2>1, Places
  <2> QED BY <1>1, <2>2, <2>3, KeptUnchanged
<1>6. BlockKept(b)'
  <2>1. CASE w = b /\ ~WasSplit(b)
    <3>1. code[b].body = input[b].body /\ code[b].jcc = input[b].jcc
      BY <1>1, <1>3, <2>1, KeptIs DEF Whole
    <3>2. Whole(b)'
      BY <1>2, <2>1, <3>1 DEF Whole
    <3> QED BY <1>4, <2>1, <3>2 DEF BlockKept, WasSplit
  <2>2. CASE w \in SplitOffs /\ Behind(b, w)
    <3>1. WasSplit(b) /\ b # w /\ code'[b] = code[b]
      BY <2>2, Places DEF WasSplit
    <3>2. ASSUME NEW x \in SplitOffs, Behind(b, x) PROVE x = w
      BY <2>2, <3>2, Places DEF Behind
    <3>3. Halves(b, w)
      BY <1>1, <2>2, KeptIs
    <3>4. Reversed(b)' = Reversed(b)
      BY <3>1 DEF Reversed
    <3>5. Halves(b, w)'
      BY <1>2, <3>1, <3>3, <3>4 DEF Halves
    <3> QED BY <1>4, <3>1, <3>2, <3>5 DEF BlockKept, WasSplit
  <2> QED BY <2>1, <2>2 DEF Holds
<1> QED BY <1>5, <1>6

LEMMA ExpandJMPLong ==
  ASSUME FlowInv, Origin, ExpandJMP
  PROVE  \E br \in Relaxation!Branches :
           /\ Origin' /\ br \notin LongBranches /\ ~Relaxation!Fits(LongBranches, br)
           /\ LongBranches' = LongBranches \cup {br}
<1>1. TypeInv /\ TypeOK /\ OffInv /\ ReachInv /\ Kept
  BY DEF FlowInv, ReachInv, OffInv, TypeInv, Origin
<1>2. PICK w : w = MBB
  OBVIOUS
<1>3. /\ UNCHANGED <<input, n, num>> /\ code' = [code EXCEPT ![w] = LongJMP]
      /\ w \in 1..n /\ num[w] = at /\ code[w].jmp.op = "JMP"
      /\ pc = "scan" /\ at <= n /\ mi = "jmp" /\ TooFar
  BY <1>1, <1>2, ExpandJMPSteps, ExpandJMPFacts DEF ExpandJMP, InBlock
<1>4. PICK b \in 1..N : Holds(b, w)
  BY <1>1, <1>3, HeldBranch
<1>5. Known /\ start + 2 = Size(w) /\ Current = code[w].jmp /\ InstSize(Current) = 2
  <2>1. Current = code[w].jmp /\ InstSize(Current) = 2
    BY <1>1, <1>2, <1>3, CurrentSpec DEF TooFar
  <2>2. start = code[w].body + InstSize(code[w].jcc)
    BY <1>1, <1>2, <1>3 DEF ReachInv, StartExact, Before
  <2> QED BY <1>3, <2>1, <2>2 DEF Known, Size
<1>6. /\ <<b, "jmp">> \in Relaxation!Branches /\ <<b, "jmp">> \notin LongBranches
      /\ code[w].jmp = input[b].jmp
      /\ ~Relaxation!Fits(LongBranches, <<b, "jmp">>)
  <2>1. ~InRange(off[num[code[w].jmp.dest]] - off[num[w]] - Size(w))
    BY <1>3, <1>5 DEF TooFar, Distance
  <2> QED BY <1>1, <1>3, <1>4, <1>5, <2>1, JmpSpan
<1>7. /\ \A c \in 1..n : c # w => code'[c] = code[c]
      /\ code'[w] = [body |-> code[w].body, jcc |-> code[w].jcc,
                     jmp |-> Instr("Bi", code[w].jmp.dest, FALSE)]
  <2>1. code \in [1..n -> Block]
    BY <1>1, Basics
  <2> QED BY <1>2, <1>3, <2>1 DEF LongJMP
<1>8. \A c \in 1..N : BlockKept(c)'
  BY <1>1, <1>3, <1>4, <1>6, <1>7, LongLastKept
<1>9. Origin' /\ \A c, x : Holds(c, x)' = Holds(c, x)
  BY <1>1, <1>3, <1>7, <1>8, ExpandOrigin
<1>10. BecameLong({<<b, "jmp">>})
  <2>1. ASSUME NEW c \in 1..N
        PROVE  code'[c].jcc.neg = TRUE <=> code[c].jcc.neg = TRUE \/ <<c, "jcc">> \in {<<b, "jmp">>}
    <3>1. code'[c].jcc = code[c].jcc
      BY <1>1, <1>7, Places
    <3> QED BY <3>1
  <2>2. ASSUME NEW c \in 1..N
        PROVE  \E x, y :
                 /\ Holds(c, x) /\ Holds(c, y)'
                 /\ input[c].jmp.op = "JMP" =>
                      (code'[y].jmp.op = "Bi"
                        <=> code[x].jmp.op = "Bi" \/ <<c, "jmp">> \in {<<b, "jmp">>})
    <3>1. CASE c = b
      <4>1. code'[w].jmp.op = "Bi"
        BY <1>7 DEF Instr
      <4> QED BY <1>4, <1>9, <3>1, <4>1
    <3>2. CASE c # b
      <4>1. PICK x : Holds(c, x) /\ x \in 1..n
        BY <1>1, HoldsIs
      <4>2. x # w
        <5>1. SUFFICES ASSUME x = w PROVE FALSE
          OBVIOUS
        <5>2. c \in 1..n /\ b \in 1..n /\ num[c] \in 1..n /\ num[b] \in 1..n /\ n \in Nat
              /\ \A z \in SplitOffs : z \notin 1..N
          BY <1>1, Places
        <5>3. num[w] = num[b] + 1 /\ num[w] = num[c] + 1
          BY <1>4, <3>2, <4>1, <5>1, <5>2 DEF Holds, Behind
        <5>4. num[c] = num[b]
          BY <5>2, <5>3
        <5> QED BY <1>1, <3>2, <5>2, <5>4, Places
      <4>3. code'[x] = code[x] /\ Holds(c, x)' /\ <<c, "jmp">> \notin {<<b, "jmp">>}
        BY <1>7, <1>9, <3>2, <4>1, <4>2
      <4>4. code'[x].jmp.op = "Bi" <=> code[x].jmp.op = "Bi" \/ <<c, "jmp">> \in {<<b, "jmp">>}
        BY <4>3
      <4> QED BY <4>1, <4>3, <4>4
    <3> QED BY <3>1, <3>2
  <2> QED BY <1>6, <2>1, <2>2 DEF BecameLong
<1>11. TypeOK'
  BY <1>1, ExpandsType DEF TypeInv
<1>12. LongBranches' = LongBranches \cup {<<b, "jmp">>}
  BY <1>1, <1>3, <1>9, <1>10, <1>11, LongChanges
<1> QED BY <1>6, <1>9, <1>12

\* The new block stands behind the one it was split off, and no other block
\* gets another block behind it.
LEMMA SplitPlaces ==
  ASSUME TypeOK, Origin, NEW w \in 1..N, num[w] = at, ~WasSplit(w),
         NEW m, m = n + 1, n' = m, num' = Renumbered
  PROVE  /\ SplitOffs' = SplitOffs \cup {m} /\ InOrder' /\ HasOrigin'
         /\ \A b \in 1..N : /\ Behind(b, m)' <=> b = w
                            /\ \A x \in SplitOffs : Behind(b, x)' <=> Behind(b, x)
<1>1. /\ N \in Nat \ {0} /\ n \in Nat /\ N <= n /\ at \in Nat /\ w \in 1..n
      /\ \A b \in 1..N : b \in 1..n
      /\ \A x \in SplitOffs : x \in 1..n /\ x \notin 1..N
      /\ \A b \in 1..n : num[b] \in Nat
      /\ \A b, c \in 1..n : num[b] = num[c] => b = c
  <2>1. \A b \in 1..n : num[b] \in 1..n
    BY Places
  <2>2. at \in Nat /\ \A b \in 1..n : num[b] \in Nat
    BY <2>1, Places
  <2> QED BY <2>2, Places
<1>2. /\ num'[m] = at + 1
      /\ \A b \in 1..n : num'[b] = IF num[b] > at THEN num[b] + 1 ELSE num[b]
  <2>1. m \in 1..(n+1) /\ \A b \in 1..n : b \in 1..(n+1) /\ b # m
    BY <1>1
  <2> QED BY <2>1 DEF Renumbered
<1>3. SplitOffs' = SplitOffs \cup {m} /\ m \notin 1..n
  BY <1>1 DEF SplitOffs
<1>4. \A b \in 1..N : Behind(b, m)' <=> b = w
  <2> TAKE b \in 1..N
  <2>1. b \in 1..n /\ num[b] \in Nat /\ (num[b] = num[w] => b = w)
    BY <1>1
  <2> QED BY <1>1, <1>2, <2>1 DEF Behind
<1>5. \A b \in 1..N, x \in SplitOffs : Behind(b, x)' <=> Behind(b, x)
  <2> TAKE b \in 1..N, x \in SplitOffs
  <2>1. /\ b \in 1..n /\ num[b] \in Nat /\ (num[b] = num[w] => b = w)
        /\ x \in 1..n /\ num[x] \in Nat
        /\ num'[b] = (IF num[b] > at THEN num[b] + 1 ELSE num[b])
        /\ num'[x] = (IF num[x] > at THEN num[x] + 1 ELSE num[x])
    BY <1>1, <1>2
  <2>2. num[b] = at => ~Behind(b, x)
    BY <2>1 DEF WasSplit
  <2> QED BY <1>1, <2>1, <2>2 DEF Behind
<1>6. InOrder'
  <2> SUFFICES ASSUME NEW b \in 1..N, NEW c \in 1..N, b < c PROVE num'[b] < num'[c]
    BY DEF InOrder
  <2>1. num[b] < num[c] /\ num[b] \in Nat /\ num[c] \in Nat /\ b \in 1..n /\ c \in 1..n
    BY <1>1 DEF Origin, InOrder
  <2> QED BY <1>1, <1>2, <2>1
<1>7. HasOrigin'
  <2> SUFFICES ASSUME NEW x \in SplitOffs', TRUE PROVE \E b \in 1..N : Behind(b, x)'
    BY DEF HasOrigin
  <2>1. CASE x = m
    BY <1>4, <2>1
  <2>2. CASE x \in SplitOffs
    BY <1>5, <2>2 DEF Origin, HasOrigin
  <2> QED BY <1>3, <2>1, <2>2
<1> QED BY <1>3, <1>4, <1>5, <1>6, <1>7

LEMMA SplitOrigin ==
  ASSUME FlowInv, Origin, Split
  PROVE  Origin' /\ LongBranches' = LongBranches
<1>1. TypeInv /\ TypeOK /\ ReachInv /\ Kept /\ Shape
  BY DEF FlowInv, ReachInv, OffInv, TypeInv, Origin
<1>2. PICK w, m : w = MBB /\ m = n + 1
  OBVIOUS
<1>3. SplitOff(w, m) /\ m = n + 1
  BY <1>1, <1>2, SplitSteps
<1>4. /\ n' = m /\ input' = input /\ num' = Renumbered /\ w \in 1..n /\ num[w] = at
      /\ code[w].jcc.op = "JCC" /\ code[w].jmp # NoInstr /\ n \in Nat
      /\ \A b \in 1..n : b # w => code'[b] = code[b]
      /\ code'[w] = [body |-> code[w].body, jcc |-> code[w].jcc, jmp |-> NoInstr]
      /\ code'[m] = [body |-> 0, jcc |-> NoInstr, jmp |-> code[w].jmp]
  BY <1>3 DEF SplitOff
<1>5. w \in 1..N
  <2>1. ShapeOf(w) /\ code[w].jcc # NoInstr
    BY <1>1, <1>4 DEF Shape, NoInstr, Instr
  <2>2. n \in Nat /\ N \in Nat /\ ~(w > N)
    BY <1>1, <2>1, Places DEF ShapeOf
  <2> QED BY <1>4, <2>2
<1>6. ~Reversed(w)
  <2>1. InBlock /\ mi = "jcc" /\ TooFar
    BY DEF Split
  <2>2. code[w].jcc.neg # TRUE
    BY <1>1, <1>2, <2>1, OverReaches
  <2> QED BY <2>2 DEF Reversed
<1>7. ~WasSplit(w)
  <2> SUFFICES ASSUME NEW x \in SplitOffs, Behind(w, x) PROVE FALSE
    BY DEF WasSplit
  <2>1. Halves(w, x)
    BY <1>1, <1>5, KeptIs
  <2> QED BY <1>4, <1>6, <2>1 DEF Halves
<1>8. /\ code[w].body = input[w].body /\ code[w].jcc = input[w].jcc
      /\ LastOf(w, code[w].jmp) /\ input[w].jmp # NoInstr
  <2>1. Whole(w)
    BY <1>1, <1>5, <1>7, KeptIs
  <2>2. code[w].body = input[w].body /\ code[w].jcc = input[w].jcc /\ LastOf(w, code[w].jmp)
    BY <1>6, <2>1 DEF Whole
  <2> QED BY <1>1, <1>4, <1>5, <2>2, LastIs, Places
<1>9. /\ SplitOffs' = SplitOffs \cup {m} /\ InOrder' /\ HasOrigin'
      /\ \A b \in 1..N : /\ Behind(b, m)' <=> b = w
                         /\ \A x \in SplitOffs : Behind(b, x)' <=> Behind(b, x)
  BY <1>1, <1>3, <1>4, <1>5, <1>7, SplitPlaces
<1>10. \A b \in 1..N : b # w => code'[b] = code[b]
  BY <1>1, <1>4, Places
<1>11. \A x \in SplitOffs : x # w /\ code'[x] = code[x] /\ x # m
  <2>1. \A x \in SplitOffs : x \in 1..n /\ x \notin 1..N
    BY <1>1, Places
  <2> QED BY <1>3, <1>4, <1>5, <2>1
<1>12. Halves(w, m)'
  <2>1. /\ code'[w].body = input[w].body /\ code'[w].jcc = input[w].jcc
        /\ code'[w].jmp = NoInstr /\ input[w].jcc.op = "JCC"
        /\ code'[m].body = 0 /\ code'[m].jcc = NoInstr /\ code'[m].jmp = code[w].jmp
    BY <1>4, <1>8
  <2>2. LastOf(w, code[m].jmp)'
    BY <1>4, <1>8, <2>1 DEF LastOf
  <2> QED BY <1>4, <1>8, <2>1, <2>2 DEF Halves
<1>13. ASSUME NEW b \in 1..N PROVE BlockKept(b)'
  <2>1. CASE b = w
    <3>1. ASSUME NEW x \in SplitOffs', Behind(w, x)' PROVE x = m
      BY <1>5, <1>7, <1>9, <3>1 DEF WasSplit
    <3>2. m \in SplitOffs' /\ Behind(w, m)'
      BY <1>5, <1>9
    <3> QED BY <1>12, <2>1, <3>1, <3>2 DEF BlockKept
  <2>2. CASE b # w
    <3>1. \A x \in SplitOffs' : Behind(b, x)' => x \in SplitOffs /\ Behind(b, x)
      BY <1>9, <2>2
    <3>2. \A x \in SplitOffs : Behind(b, x) => x \in SplitOffs' /\ Behind(b, x)'
      BY <1>9
    <3>3. input' = input /\ code'[b] = code[b]
      BY <1>4, <1>10, <2>2
    <3>4. Reversed(b)' = Reversed(b) /\ \A j : LastOf(b, j)' = LastOf(b, j)
      BY <3>3 DEF Reversed, LastOf
    <3>5. Whole(b)' = Whole(b)
      BY <3>3, <3>4 DEF Whole
    <3>6. \A x \in SplitOffs : Halves(b, x)' = Halves(b, x)
      BY <1>11, <3>3, <3>4 DEF Halves
    <3>7. BlockKept(b)
      BY <1>1 DEF Kept
    <3> QED BY <3>1, <3>2, <3>5, <3>6, <3>7 DEF BlockKept
  <2> QED BY <2>1, <2>2
<1>14. Origin'
  BY <1>9, <1>13 DEF Origin, Kept
<1>15. TypeOK'
  BY <1>1, SplitType DEF TypeInv
<1>16. BecameLong({})
  <2>1. ASSUME NEW b \in 1..N PROVE code'[b].jcc.neg = code[b].jcc.neg
    BY <1>4, <1>10
  <2>2. ASSUME NEW b \in 1..N
        PROVE  \E x, y : Holds(b, x) /\ Holds(b, y)' /\ code'[y].jmp = code[x].jmp
    <3>1. CASE b = w
      <4>1. Holds(w, w) /\ Holds(w, m)'
        BY <1>5, <1>7, <1>9 DEF Holds
      <4>2. code'[m].jmp = code[w].jmp
        BY <1>4
      <4> QED BY <3>1, <4>1, <4>2
    <3>2. CASE b # w
      <4>1. PICK x : Holds(b, x)
        BY <1>1, HoldsIs
      <4>2. code'[x] = code[x]
        BY <1>10, <1>11, <3>2, <4>1 DEF Holds
      <4>3. WasSplit(b)' <=> WasSplit(b)
        BY <1>9, <3>2 DEF WasSplit
      <4>4. Holds(b, x)'
        BY <1>9, <4>1, <4>3 DEF Holds
      <4> QED BY <4>1, <4>2, <4>4
    <3> QED BY <3>1, <3>2
  <2>3. \A b \in 1..N : \E x, y :
          /\ Holds(b, x) /\ Holds(b, y)'
          /\ input[b].jmp.op = "JMP" =>
               (code'[y].jmp.op = "Bi" <=> code[x].jmp.op = "Bi" \/ <<b, "jmp">> \in {})
    <3> TAKE b \in 1..N
    <3>1. PICK x, y : Holds(b, x) /\ Holds(b, y)' /\ code'[y].jmp = code[x].jmp
      BY <2>2
    <3>2. code'[y].jmp.op = "Bi" <=> code[x].jmp.op = "Bi" \/ <<b, "jmp">> \in {}
      BY <3>1
    <3> QED BY <3>1, <3>2
  <2> QED BY <2>1, <2>3 DEF BecameLong
<1>17. LongBranches' = LongBranches \cup {}
  BY <1>1, <1>4, <1>14, <1>15, <1>16, LongChanges
<1> QED BY <1>14, <1>17

-------------------------------------------------------------------------------
(* Every step of the pass is a step of branch relaxation *)

\* The long branches are those nothing could do without, so far.
RelaxInv == FlowInv /\ Origin /\ Minimal(LongBranches)

LEMMA MinimalKept ==
  ASSUME input' = input, NEW L, Minimal(L), LongBranches' = L
  PROVE  Minimal(LongBranches)'
<1>1. Relaxation!Branches' = Relaxation!Branches
  BY DEF Relaxation!Branches
<1>2. \A M, br : Relaxation!Fits(M, br)' = Relaxation!Fits(M, br)
  BY DEF Relaxation!Fits, Relaxation!Span, Relaxation!BlockOffset, Relaxation!BlockBytes,
         Relaxation!Bytes
<1> QED BY <1>1, <1>2 DEF Minimal

\* Measuring, skipping and going on to the next scan lengthen nothing; the
\* pass ends only when the branches left short all reach.
LEMMA StillRelaxes ==
  ASSUME RelaxInv, StillSteps, FlowInv'
  PROVE  RelaxInv' /\ [Relaxation!Next]_(Relaxation!vars)
<1>1. UNCHANGED <<input, n, num, code>> /\ FlowInv /\ Origin /\ Minimal(LongBranches)
  BY StillUnchanged DEF RelaxInv
<1>2. Origin' /\ LongBranches' = LongBranches
  BY <1>1, StillOrigin
<1>3. RelaxInv'
  <2>1. Minimal(LongBranches)'
    <3>1. PICK L : L = LongBranches
      OBVIOUS
    <3>2. Minimal(L) /\ LongBranches' = L
      BY <1>1, <1>2, <3>1
    <3> QED BY <1>1, <3>2, MinimalKept
  <2> QED BY <1>2, <2>1 DEF RelaxInv
<1>4. CASE pc' = "done" <=> pc = "done"
  BY <1>1, <1>2, <1>3, <1>4 DEF Relaxation!vars
<1>5. CASE ~(pc' = "done" <=> pc = "done")
  <2>1. pc' = "done" /\ pc # "done" /\ at = n + 1 /\ UNCHANGED <<n, num, code, off>>
    BY <1>5 DEF StillSteps, MeasureBlock, Measured, SkipInstr, NextBlock, ScanEnd, BeginScan, vars
  <2>2. \A b \in 1..n : JccReaches(b) /\ JmpReaches(b)
    <3>1. \A b \in 1..n : JccReaches(b)' /\ JmpReaches(b)'
      BY <2>1 DEF FlowInv, ReachInv, ShortBranchesReach
    <3>2. \A b \in 1..n : JccReaches(b)' = JccReaches(b) /\ JmpReaches(b)' = JmpReaches(b)
      BY <2>1, LayoutUnchanged
    <3> QED BY <3>1, <3>2
  <2>3. \A br \in Relaxation!Branches \ LongBranches : Relaxation!Fits(LongBranches, br)
    <3>1. OffInv /\ Known
      BY <1>1, <2>1 DEF FlowInv, ReachInv, Known
    <3> QED BY <1>1, <2>2, <3>1, AllFit
  <2>4. Relaxation!Settle
    BY <1>1, <1>2, <2>1, <2>3 DEF Relaxation!Settle
  <2> QED BY <1>3, <2>1, <2>4 DEF Relaxation!Next
<1> QED BY <1>3, <1>4, <1>5

LEMMA ExpandRelaxes ==
  ASSUME RelaxInv, ExpandJCC \/ ExpandJMP, FlowInv'
  PROVE  RelaxInv' /\ [Relaxation!Next]_(Relaxation!vars)
<1>1. FlowInv /\ Origin /\ Minimal(LongBranches) /\ input \in Inputs
  BY Places DEF RelaxInv, FlowInv, ReachInv, OffInv, TypeInv
<1>2. PICK br \in Relaxation!Branches :
        /\ Origin' /\ br \notin LongBranches /\ ~Relaxation!Fits(LongBranches, br)
        /\ LongBranches' = LongBranches \cup {br}
  <2>1. CASE ExpandJCC
    <3>1. PICK w : w = MBB
      OBVIOUS
    <3> QED BY <1>1, <2>1, <3>1, ExpandJCCLong
  <2>2. CASE ExpandJMP
    BY <1>1, <2>2, ExpandJMPLong
  <2> QED BY <2>1, <2>2
<1>3. input' = input /\ pc = "scan" /\ pc' = pc
  BY DEF ExpandJCC, ExpandJMP, Expand, InBlock
<1>4. PICK L : L = LongBranches
  OBVIOUS
<1>5. Minimal(L \cup {br}) /\ LongBranches' = L \cup {br}
  BY <1>1, <1>2, <1>4, LengthenMinimal
<1>6. Minimal(LongBranches)'
  BY <1>3, <1>5, MinimalKept
<1>7. Relaxation!Lengthen /\ pc # "done"
  BY <1>2, <1>3 DEF Relaxation!Lengthen
<1> QED BY <1>2, <1>6, <1>7 DEF RelaxInv, Relaxation!Next

LEMMA SplitRelaxes ==
  ASSUME RelaxInv, Split, FlowInv'
  PROVE  RelaxInv' /\ [Relaxation!Next]_(Relaxation!vars)
<1>1. FlowInv /\ Origin /\ Minimal(LongBranches)
  BY DEF RelaxInv
<1>2. Origin' /\ LongBranches' = LongBranches
  BY <1>1, SplitOrigin
<1>3. input' = input /\ pc = "scan" /\ pc' = "remeasure"
  BY DEF Split, InBlock
<1>4. Minimal(LongBranches)'
  <2>1. PICK L : L = LongBranches
    OBVIOUS
  <2>2. Minimal(L) /\ LongBranches' = L
    BY <1>1, <1>2, <2>1
  <2> QED BY <1>3, <2>2, MinimalKept
<1>5. UNCHANGED Relaxation!vars
  BY <1>2, <1>3 DEF Relaxation!vars
<1> QED BY <1>2, <1>4, <1>5 DEF RelaxInv

LEMMA NextRelaxes == RelaxInv /\ [Next]_vars => RelaxInv' /\ [Relaxation!Next]_(Relaxation!vars)
<1> SUFFICES ASSUME RelaxInv, [Next]_vars
             PROVE  RelaxInv' /\ [Relaxation!Next]_(Relaxation!vars)
  OBVIOUS
<1>1. FlowInv'
  BY NextReach, NextShape, NextFlow DEF RelaxInv, FlowInv
<1>2. CASE StillSteps
  BY <1>1, <1>2, StillRelaxes
<1>3. CASE Split
  BY <1>1, <1>3, SplitRelaxes
<1>4. CASE ExpandJCC \/ ExpandJMP
  BY <1>1, <1>4, ExpandRelaxes
<1> QED BY <1>2, <1>3, <1>4 DEF Next, StillSteps

LEMMA InitRelaxes == Init => RelaxInv /\ Relaxation!Init
<1> SUFFICES ASSUME Init PROVE RelaxInv /\ Relaxation!Init
  OBVIOUS
<1>1. FlowInv /\ Origin /\ LongBranches = {}
  BY InitFlow, InitOrigin
<1>2. Minimal(LongBranches)
  BY <1>1 DEF Minimal
<1>3. pc # "done"
  BY DEF Init
<1> QED BY <1>1, <1>2, <1>3 DEF RelaxInv, Relaxation!Init

\* The pass does branch relaxation: it starts with no branch long, every step
\* leaves the long branches alone or lengthens one that does not reach in the
\* layout they give, and it ends only when the others reach.  For every
\* function, every reach, and however often a scan starts again.
THEOREM RefinesRelaxation == Spec => Relaxation!Init /\ [][Relaxation!Next]_(Relaxation!vars)
<1>1. Init => RelaxInv /\ Relaxation!Init
  BY InitRelaxes
<1>2. RelaxInv /\ [Next]_vars => RelaxInv' /\ [Relaxation!Next]_(Relaxation!vars)
  BY NextRelaxes
<1> QED BY <1>1, <1>2, PTL DEF Spec

\* All ImplementsRelaxation says follows as soon as the pass ends, which is
\* what Terminates says and TLC checks.
THEOREM ImplementsIfEnds == Spec /\ Terminates => ImplementsRelaxation
<1>1. Spec => Relaxation!Init /\ [][Relaxation!Next]_(Relaxation!vars)
  BY RefinesRelaxation
<1>2. Terminates => <>(pc = "done")
  BY DEF Terminates
<1>3. ImplementsRelaxation <=> Relaxation!Init /\ [][Relaxation!Next]_(Relaxation!vars) /\ <>(pc = "done")
  BY DEF ImplementsRelaxation, Relaxation!Spec
<1> QED BY <1>1, <1>2, <1>3, PTL

\* A branch the pass has made long is long in every assignment of lengths with
\* which the short branches reach: no branch is lengthened that could stay short,
\* although distances are measured while other branches are still to grow.
THEOREM NoneNeedlesslyLongCorrect == Spec => []NoneNeedlesslyLong
<1>1. Init => RelaxInv
  BY InitRelaxes
<1>2. RelaxInv /\ [Next]_vars => RelaxInv'
  BY NextRelaxes
<1>3. RelaxInv => NoneNeedlesslyLong
  BY DEF RelaxInv, Minimal, NoneNeedlesslyLong, Relaxation!NoneNeedlesslyLong
<1> QED BY <1>1, <1>2, <1>3, PTL DEF Spec
===============================================================================
