--------------------------- MODULE BranchRelaxation ---------------------------
(***************************************************************************)
(* What the branch selector promises: starting from a function all of      *)
(* whose branches are short, it only ever lengthens a branch that does not *)
(* reach its destination in the layout the branches lengthened so far      *)
(* give, and it stops when the others all reach.  No block is split here,  *)
(* no offset is kept: the layout is the one the set of long branches       *)
(* determines.                                                             *)
(***************************************************************************)
EXTENDS Integers

CONSTANTS N, Reach

VARIABLES
  input,    \* the function: block -> its code, conditional and last branch
  long,     \* the branches that are long, each a block and "jcc" or "jmp"
  settled   \* has the pass ended?

vars == <<input, long, settled>>

Branches == {br \in (1..N) \X {"jcc", "jmp"} :
               input[br[1]][br[2]].op \in {"JCC", "JMP"}}

\* A long conditional branch is a short one over an unconditional long one.
Bytes(L, b, slot) ==
  IF input[b][slot].op = "none" THEN 0
  ELSE IF <<b, slot>> \notin L THEN 2
  ELSE IF slot = "jcc" THEN 6 ELSE 4

BlockBytes(L, b) == input[b].body + Bytes(L, b, "jcc") + Bytes(L, b, "jmp")

BlockOffset(L, b) ==
  LET off[i \in 1..N] == IF i = 1 THEN 0 ELSE off[i-1] + BlockBytes(L, i-1)
  IN  off[b]

\* Bytes from the end of the short branch br to its destination.
Span(L, br) ==
  LET b    == br[1]
      here == BlockOffset(L, b) + input[b].body
                + (IF br[2] = "jmp" THEN Bytes(L, b, "jcc") ELSE 0) + 2
  IN  BlockOffset(L, input[b][br[2]].dest) - here

Fits(L, br) == Span(L, br) \div 2 \in -Reach..(Reach-1)

Init ==
  /\ long = {}
  /\ settled = FALSE

Lengthen ==
  /\ \E br \in Branches \ long : ~Fits(long, br) /\ long' = long \cup {br}
  /\ UNCHANGED <<input, settled>>

Settle ==
  /\ ~settled
  /\ \A br \in Branches \ long : Fits(long, br)
  /\ settled' = TRUE
  /\ UNCHANGED <<input, long>>

Next == ~settled /\ (Lengthen \/ Settle)

\* It ends: each step lengthens one of finitely many branches.
Spec == Init /\ [][Next]_vars /\ <>settled

(***************************************************************************)
(* No branch is lengthened that could have stayed short: any set of long   *)
(* branches with which the others reach contains the final one.  So the    *)
(* result is the smallest such set, in whatever order a scan meets the     *)
(* branches and however often it starts again.                             *)
(***************************************************************************)
NoneNeedlesslyLong ==
  settled =>
    \A L \in SUBSET Branches :
      (\A br \in Branches \ L : Fits(L, br)) => long \subseteq L
===============================================================================
