------------------------- MODULE BranchSelectorRefines -------------------------
(***************************************************************************)
(* The branch selector implements branch relaxation.  The long branches    *)
(* are read off the code: the last branch of a block became a Bi, in the   *)
(* block or in the one split off it, or the conditional branch was         *)
(* reversed.  Measuring, skipping and splitting are stuttering steps.      *)
(***************************************************************************)
EXTENDS MSP430BranchSelector

\* The block that holds the last branch of b: the next one if b was split.
TailOf(b) ==
  IF input[b].jcc.op = "JCC" /\ input[b].jmp # NoInstr /\ code[b].jmp # input[b].jmp
     /\ num[b] < n /\ BlockAt(num[b] + 1) > N
  THEN BlockAt(num[b] + 1) ELSE b

LongBranches ==
  {<<b, "jcc">> : b \in {x \in 1..N : code[x].jcc.neg}}
  \cup {<<b, "jmp">> : b \in {x \in 1..N : /\ input[x].jmp.op = "JMP"
                                           /\ code[TailOf(x)].jmp.op = "Bi"}}

Relaxation == INSTANCE BranchRelaxation WITH long <- LongBranches, settled <- pc = "done"

\* Every step of the pass is a step of branch relaxation, and the pass gets
\* as far as branch relaxation must.
ImplementsRelaxation == Relaxation!Spec

\* The pass lengthens no branch that could stay short, although it measures
\* distances while other branches are still to grow.
NoneNeedlesslyLong == Relaxation!NoneNeedlesslyLong
===============================================================================
