------------------------- MODULE MSP430BranchSelector -------------------------
(***************************************************************************)
(* The MSP430 branch selector, the last pass before the assembly printer   *)
(* (lib/Target/MSP430/MSP430BranchSelector.cpp).  It measures the blocks   *)
(* of a function, then scans them again and again, replacing each short    *)
(* branch (JCC, JMP: 2 bytes, a signed field of words) that cannot reach   *)
(* its block by a long one (Bi: 4 bytes, any address), splitting a block   *)
(* when the conditional branch is not its last instruction, until a whole  *)
(* scan changes nothing.                                                   *)
(*                                                                         *)
(* A block is its straight-line code, of which only the size matters, then *)
(* an optional conditional branch, then an optional last branch or return. *)
(* Blocks are named 1 .. n in the order of their creation; num[b] is the   *)
(* MachineBasicBlock number of b, its place in the layout, which is what   *)
(* RenumberBlocks makes of the list order.                                 *)
(***************************************************************************)
EXTENDS Integers

CONSTANTS
  N,              \* number of blocks of the function given to the pass
  Bodies,         \* sizes, in bytes, that the straight-line code may have
  Reach,          \* a short branch reaches -Reach .. Reach-1 words (512)
  DegenerateJCC   \* may a conditional branch have equal destinations?

ASSUME NAssumption == N \in Nat \ {0}
\* Every MSP430 instruction has an even size: isInRage asserts it.
ASSUME BodiesAssumption ==
  Bodies \subseteq Nat /\ \A s \in Bodies : s % 2 = 0
\* The reversed branch must at least jump over the Bi that follows it.
ASSUME ReachAssumption == Reach \in Nat /\ Reach >= 3
ASSUME DegenerateAssumption == DegenerateJCC \in BOOLEAN

VARIABLES
  input,    \* history: the function as the pass received it
  n,        \* number of blocks
  num,      \* block -> its number
  code,     \* block -> its instructions
  succ,     \* block -> its successor list, as a set
  off,      \* BlockOffsets: number -> bytes from the start of the function
  pc,       \* "measure" first, "scan", "remeasure" after a split, "done"
  at,       \* MBB iterator of the running loop: a number, n+1 is the end
  mi,       \* MI iterator of expandBranches
  start,    \* MBBStartOffset, before the instruction at mi is added
  total,    \* TotalSize of measureFunction
  changed   \* MadeChange of expandBranches

vars == <<input, n, num, code, succ, off, pc, at, mi, start, total, changed>>

-------------------------------------------------------------------------------
(* Instructions and blocks *)

Instr(op, dest, neg) == [op |-> op, dest |-> dest, neg |-> neg]
NoInstr == Instr("none", 0, FALSE)
Exit == 0

IsShort(i) == i.op \in {"JCC", "JMP"}

InstSize(i) == IF i.op = "none" THEN 0 ELSE IF i.op = "Bi" THEN 4 ELSE 2

Size(b) == code[b].body + InstSize(code[b].jcc) + InstSize(code[b].jmp)

\* Mistakes the properties exclude are written next to the definition they
\* would spoil, as Bug... : here a field one bit narrower, or an inclusive bound.
BugNarrowField(d) == -Reach <= d /\ d < Reach
BugInclusiveBound(d) == -2 * Reach <= d /\ d <= 2 * Reach

\* isInRage, for an even distance: the words fit the signed field.
InRange(d) == -2 * Reach <= d /\ d < 2 * Reach

BlockAt(i) == CHOOSE b \in 1..n : num[b] = i

MBB == BlockAt(at)

(***************************************************************************)
(* Where control goes from block b when its condition has value c: the    *)
(* taken conditional branch, else the last branch, else the next block.   *)
(***************************************************************************)
Branch(blk, c, next) ==
  IF blk.jcc.op = "JCC" /\ c # blk.jcc.neg THEN blk.jcc.dest
  ELSE IF blk.jmp.op \in {"JMP", "Bi"} THEN blk.jmp.dest
  ELSE IF blk.jmp.op = "RET" THEN Exit
  ELSE next

Step(b, c) == Branch(code[b], c, BlockAt(num[b] + 1))

\* The blocks a split creates only carry control on to an original block.
Flow(b, c) == LET s == Step(b, c) IN IF s > N THEN Step(s, c) ELSE s

-------------------------------------------------------------------------------
(* The functions instruction selection and the passes before this one make *)

JCCs(m, negs) == {NoInstr} \cup [op : {"JCC"}, dest : 1..m, neg : negs]
JMPs(m, ops)  == {NoInstr, Instr("RET", Exit, FALSE)}
                   \cup [op : ops, dest : 1..m, neg : {FALSE}]

\* The last block does not fall through; nothing returns on a condition.
Legal(b, blk) ==
  /\ b = N => blk.jmp # NoInstr
  /\ blk.jcc # NoInstr =>
       /\ blk.jmp.op # "RET"
       /\ DegenerateJCC \/ Branch(blk, TRUE, b + 1) # Branch(blk, FALSE, b + 1)

Inputs ==
  {f \in [1..N -> [body : Bodies, jcc : JCCs(N, {FALSE}), jmp : JMPs(N, {"JMP"})]] :
     \A b \in 1..N : Legal(b, f[b])}

Init ==
  /\ input \in Inputs
  /\ n = N
  /\ num = [b \in 1..N |-> b]
  /\ code = input
  /\ succ = [b \in 1..N |-> {Branch(input[b], c, b + 1) : c \in BOOLEAN} \ {Exit}]
  /\ off = [i \in 1..N |-> 0]
  /\ pc = "measure"
  /\ at = 1
  /\ mi = "body"
  /\ start = 0
  /\ total = 0
  /\ changed = FALSE

-------------------------------------------------------------------------------
(* measureFunction: one block per step *)

MeasureBlock ==
  /\ pc \in {"measure", "remeasure"}
  /\ at <= n
  /\ off' = [off EXCEPT ![at] = total]
  /\ total' = total + Size(MBB)
  /\ at' = at + 1
  /\ UNCHANGED <<input, n, num, code, succ, pc, mi, start, changed>>

\* MadeChange outlives the call of expandBranches.
BugChangeKept ==
  pc' = "scan" /\ at' = 1 /\ mi' = "body" /\ start' = 0 /\ UNCHANGED changed

\* expandBranches is called: MBB = MF->begin(), MadeChange = false.
BeginScan ==
  /\ pc' = "scan"
  /\ at' = 1
  /\ mi' = "body"
  /\ start' = 0
  /\ changed' = FALSE

\* A small function needs nothing, which is the common case.
Measured ==
  /\ pc \in {"measure", "remeasure"}
  /\ at = n + 1
  /\ IF pc = "measure" /\ InRange(total)
       THEN pc' = "done" /\ UNCHANGED <<at, mi, start, changed>>
       ELSE BeginScan
  /\ UNCHANGED <<input, n, num, code, succ, off, total>>

-------------------------------------------------------------------------------
(* expandBranches: one instruction per step *)

NextSlot == [body |-> "jcc", jcc |-> "jmp", jmp |-> "end"]

\* The branch at mi; the straight-line code holds none.
Current == IF mi = "jcc" THEN code[MBB].jcc
           ELSE IF mi = "jmp" THEN code[MBB].jmp ELSE NoInstr

SizeAtMI == IF mi = "body" THEN code[MBB].body ELSE InstSize(Current)

\* The distance from the branch, not from the instruction behind it.
BugDistanceFromBranch == off[num[Current.dest]] - off[at] - start

Distance == off[num[Current.dest]] - off[at] - (start + InstSize(Current))

TooFar == IsShort(Current) /\ ~InRange(Distance)

InBlock == pc = "scan" /\ at <= n

SkipInstr ==
  /\ InBlock
  /\ mi # "end"
  /\ ~TooFar
  /\ start' = start + SizeAtMI
  /\ mi' = NextSlot[mi]
  /\ UNCHANGED <<input, n, num, code, succ, off, pc, at, total, changed>>

NextBlock ==
  /\ InBlock
  /\ mi = "end"
  /\ at' = at + 1
  /\ mi' = "body"
  /\ start' = 0
  /\ UNCHANGED <<input, n, num, code, succ, off, pc, total, changed>>

\* The later blocks keep their numbers; the new block is put last.
BugNotRenumbered == [b \in 1..(n+1) |-> IF b = n + 1 THEN at + 1 ELSE num[b]]
BugNewBlockLast  == [b \in 1..(n+1) |-> IF b = n + 1 THEN n + 1 ELSE num[b]]

\* RenumberBlocks(MBB) once the new block stands behind MBB.
Renumbered ==
  [b \in 1..(n+1) |-> IF b = n + 1 THEN at + 1
                      ELSE IF num[b] > at THEN num[b] + 1 ELSE num[b]]

\* The instructions behind the branch are spliced over to the new block.
Spliced ==
  [b \in 1..(n+1) |->
     IF b = n + 1 THEN [body |-> 0, jcc |-> NoInstr, jmp |-> code[MBB].jmp]
     ELSE IF b = MBB THEN [code[b] EXCEPT !.jmp = NoInstr] ELSE code[b]]

\* The destination of the conditional branch moves too.
BugAllSuccessorsMoved ==
  [b \in 1..(n+1) |-> IF b = n + 1 THEN succ[MBB]
                      ELSE IF b = MBB THEN {n + 1} ELSE succ[b]]

\* Every successor of MBB but the destination becomes one of the new block,
\* which takes its place.
SuccessorsSplit ==
  LET moved == succ[MBB] \ {Current.dest}
  IN  [b \in 1..(n+1) |->
         IF b = n + 1 THEN moved
         ELSE IF b = MBB /\ moved # {} THEN (succ[b] \ moved) \cup {n + 1}
         ELSE succ[b]]

Split ==
  /\ InBlock
  /\ mi = "jcc"
  /\ TooFar
  /\ code[MBB].jmp # NoInstr
  /\ n' = n + 1
  /\ num' = Renumbered
  /\ code' = Spliced
  /\ succ' = SuccessorsSplit
  /\ off' = [i \in 1..(n+1) |-> IF i <= n THEN off[i] ELSE 0]
  /\ total' = off[at]
  /\ pc' = "remeasure"
  /\ UNCHANGED <<input, at, mi, start, changed>>

\* The next block is taken not to move.
BugNextBlockNotShifted(diff) ==
  [i \in 1..n |-> IF i > at + 1 THEN off[i] + diff ELSE off[i]]

\* A branch of MBB has grown: every later block moves.
OffsetsShifted(diff) == [i \in 1..n |-> IF i > at THEN off[i] + diff ELSE off[i]]

\* The MBB is code' : the long form is in place of the branch, diff bytes longer.
Expand(long, diff) ==
  /\ code' = [code EXCEPT ![MBB] = long]
  /\ off' = OffsetsShifted(diff)
  /\ start' = start + InstSize(Current) + diff
  /\ mi' = "end"
  /\ changed' = TRUE
  /\ UNCHANGED <<input, n, num, succ, pc, at, total>>

\* The opposite condition jumps over the long branch to the next block.
ExpandJCC ==
  /\ InBlock
  /\ mi = "jcc"
  /\ TooFar
  /\ code[MBB].jmp = NoInstr
  /\ LET over == Instr("JCC", BlockAt(at + 1), ~Current.neg)
         bi   == Instr("Bi", Current.dest, FALSE)
     IN  Expand([body |-> code[MBB].body, jcc |-> over, jmp |-> bi],
                InstSize(over) + InstSize(bi) - InstSize(Current))

ExpandJMP ==
  /\ InBlock
  /\ mi = "jmp"
  /\ TooFar
  /\ LET bi == Instr("Bi", Current.dest, FALSE)
     IN  Expand([code[MBB] EXCEPT !.jmp = bi], InstSize(bi) - InstSize(Current))

\* expandBranches returns MadeChange: runOnMachineFunction calls it again or stops.
ScanEnd ==
  /\ pc = "scan"
  /\ at = n + 1
  /\ IF changed THEN BeginScan
     ELSE pc' = "done" /\ UNCHANGED <<at, mi, start, changed>>
  /\ UNCHANGED <<input, n, num, code, succ, off, total>>

Next ==
  \/ MeasureBlock
  \/ Measured
  \/ SkipInstr
  \/ NextBlock
  \/ Split
  \/ ExpandJCC
  \/ ExpandJMP
  \/ ScanEnd

Spec == Init /\ [][Next]_vars

\* The pass is a sequential program: it keeps running.
FairSpec == Spec /\ WF_vars(Next)

-------------------------------------------------------------------------------
(* Properties *)

Block == [body : Nat, jcc : JCCs(n, BOOLEAN), jmp : JMPs(n, {"JMP", "Bi"})]

\* Each place of the layout holds one block.
Numbering ==
  /\ num \in [1..n -> 1..n]
  /\ \A i \in 1..n : \E b \in 1..n : num[b] = i
  /\ \A b, c \in 1..n : num[b] = num[c] => b = c

\* The types of the variables, and the numbering of the blocks.
TypeOK ==
  /\ input \in Inputs
  /\ n \in Nat /\ n >= N
  /\ Numbering
  /\ code \in [1..n -> Block]
  /\ succ \in [1..n -> SUBSET (1..n)]
  /\ off \in [1..n -> Nat]
  /\ pc \in {"measure", "scan", "remeasure", "done"}
  /\ at \in 1..(n+1)
  /\ mi \in {"body", "jcc", "jmp", "end"}
  /\ start \in Nat
  /\ total \in Nat
  /\ changed \in BOOLEAN

(***************************************************************************)
(* BlockOffsets is what a fresh measurement would give, up to the block    *)
(* being measured, although expandBranches only ever adds the growth of    *)
(* one branch to it and remeasures only from the block it split.           *)
(***************************************************************************)
OffsetsExact ==
  LET known == IF pc \in {"scan", "done"} THEN n + 1 ELSE at
  IN  /\ off[1] = 0
      /\ \A b, c \in 1..n :
           num[c] = num[b] + 1 /\ num[c] < known => off[num[c]] = off[num[b]] + Size(b)

Reaches(b, i, end) == IsShort(i) => InRange(off[num[i.dest]] - off[num[b]] - end)

JccReaches(b) == Reaches(b, code[b].jcc, code[b].body + InstSize(code[b].jcc))
JmpReaches(b) == Reaches(b, code[b].jmp, Size(b))

(***************************************************************************)
(* When the pass ends every short branch left, those that jump over a long *)
(* one included, fits its field: also the ones accepted in an early scan,  *)
(* before the code between them and their destination grew.                *)
(***************************************************************************)
ShortBranchesReach == pc = "done" => \A b \in 1..n : JccReaches(b) /\ JmpReaches(b)

(***************************************************************************)
(* Control leaves each block of the function for the block it left it for  *)
(* before the pass, whatever the condition: reversing a condition, jumping *)
(* over a long branch and splitting a block change no path.                *)
(***************************************************************************)
FlowPreserved ==
  \A b \in 1..N, c \in BOOLEAN : Flow(b, c) = Branch(input[b], c, b + 1)

(***************************************************************************)
(* The successor lists expandBranches edits by hand say where control      *)
(* goes: no edge is lost, and none is kept that the code no longer has.    *)
(***************************************************************************)
SuccessorsMatch ==
  \A b \in 1..n : succ[b] = {Step(b, c) : c \in BOOLEAN} \ {Exit}

(***************************************************************************)
(* The assertion of expandBranches (MSP430BranchSelector.cpp:185): a block *)
(* whose conditional branch is to jump over a long one has the next block  *)
(* for a successor.                                                        *)
(***************************************************************************)
LayoutSuccessorAsserted ==
  InBlock /\ mi = "jcc" /\ TooFar /\ code[MBB].jmp = NoInstr
    => BlockAt(at + 1) \in succ[MBB]

\* The pass ends: splitting and expanding cannot go on for ever.
Terminates == <>(pc = "done")
===============================================================================
