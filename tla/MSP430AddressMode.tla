--------------------------- MODULE MSP430AddressMode ---------------------------
(***************************************************************************)
(* Memory operands: the addressing mode MSP430ISelDAGToDAG.cpp matches for *)
(* the address of a load or store, frame index elimination, the change of  *)
(* 0(rn) to @rn by MSP430AddressModeTransformPass.cpp, and the access the  *)
(* instruction then makes; and operations on a load from *p++.             *)
(* An address is a sum of unknown values and a constant.                   *)
(***************************************************************************)
EXTENDS Integers, Sequences, FiniteSets, Bags

CONSTANTS
  Words,         \* the number of words, 2^16
  Dag,           \* the selection DAG nodes, with all their operands
  FrameOffsets,  \* where the frame object may be, from SP
  Addresses,     \* the addresses of instructions with one memory operand
  BothAddresses, \* those of instructions with two
  LoadFirst      \* the operations whose first operand may be the load

ASSUME WordsAssumption == Words \in Nat \ {0}
ASSUME FrameAssumption == FrameOffsets \subseteq 0..(Words - 1)
ASSUME AddressesAssumption == Addresses \subseteq Dag /\ BothAddresses \subseteq Dag
ASSUME LoadFirstAssumption == LoadFirst \subseteq {"add", "sub", "and", "or", "xor"}

VARIABLES
  access,  \* the node selected: an access or an indexed operation
  frame,   \* the offset of the frame object from SP
  pc,      \* "select", "frame", "transform", "run", "combine", "fold", "indexed", "done", "failed"
  inst,    \* the instruction, a form and its operands
  indexed, \* the load is a POST_INC one, and how it was selected
  out      \* what the instructions access or compute

vars == <<access, frame, pc, inst, indexed, out>>

-------------------------------------------------------------------------------
(* DAG nodes: constants, registers with a number of low bits known to be     *)
(* zero, wrapped symbols with an offset, the frame index, ADD and OR.        *)

Leaf(op, name, val) ==
  [op |-> op, name |-> name, val |-> val, args |-> <<>>, height |-> 0]

Const(c)       == Leaf("const", "-", c)
Register(r, z) == Leaf("reg", r, z)
Wrapper(s, c)  == Leaf("sym", s, c)
FrameIndex     == Leaf("fi", "-", 1)
None           == Leaf("none", "-", 0)
SP             == Register("SP", 1)

Least(a, b) == IF a < b THEN a ELSE b

Sum(op, x, y) == [op |-> op, name |-> "-", val |-> 0, args |-> <<x, y>>,
                  height |-> 1 + x.height + y.height]
Add(x, y)     == Sum("add", x, y)
Or(x, c)      == Sum("or", x, Const(c))

Nodes == Dag \cup {SP, FrameIndex}

\* A DAG has no cycles: every node is higher than its operands.
ASSUME NodesAssumption ==
  /\ {n.args : n \in {x \in Nodes : x.op \in {"add", "or"}}} \subseteq Nodes \X Nodes
  /\ \A n \in Nodes :
       /\ n.height \in Nat
       /\ \/ n.op \in {"const", "reg", "sym"} /\ n = Leaf(n.op, n.name, n.val) /\ n.val \in Nat
          \/ n = FrameIndex
          \/ n.op = "add" /\ n = Add(n.args[1], n.args[2])
          \/ n.op = "or" /\ n = Sum("or", n.args[1], n.args[2]) /\ n.args[2].op = "const"

\* How many low bits are known to be zero?
KnownZero[n \in Nodes] ==
  CASE n.op \in {"reg", "fi"} -> n.val
    [] n.op = "sym" -> 0
    [] n.op = "const" -> CHOOSE z \in 0..n.val : n.val % 2 ^ z = 0 /\ n.val % 2 ^ (z + 1) # 0
    [] n.op \in {"add", "or"} -> Least(KnownZero[n.args[1]], KnownZero[n.args[2]])

MaskedValueIsZero(n, c) == c < 2 ^ KnownZero[n]

Plus(v, w) == [atoms |-> v.atoms (+) w.atoms, disp |-> (v.disp + w.disp) % Words]

Exactly(c) == [atoms |-> EmptyBag, disp |-> c % Words]
Unknown(a) == [atoms |-> SetToBag({a}), disp |-> 0]

\* What a node is worth: an OR of disjoint operands is their sum.
NodeValue(val, n) ==
  CASE n.op = "const" -> Exactly(n.val)
    [] n.op = "reg" -> Unknown(n)
    [] n.op = "sym" -> Plus(Unknown(Wrapper(n.name, 0)), Exactly(n.val))
    [] n.op = "fi" -> Plus(Unknown(SP), Exactly(frame))
    [] n.op = "add" -> Plus(val[n.args[1]], val[n.args[2]])
    [] n.op = "or" -> IF MaskedValueIsZero(n.args[1], n.args[2].val)
                        THEN Plus(val[n.args[1]], val[n.args[2]])
                        ELSE Unknown(n)

Value[n \in Nodes] == NodeValue(Value, n)

-------------------------------------------------------------------------------
(* MatchAddress.  An addressing mode has a base and a displacement, a symbol *)
(* and a constant; a try that fails leaves the mode it got to.               *)

Modes == [base : Nodes \cup {None},
          sym  : {Wrapper(n.name, 0) : n \in {x \in Nodes : x.op = "sym"}} \cup {None},
          disp : 0..(Words - 1)]

EmptyMode == [base |-> None, sym |-> None, disp |-> 0]

Matched(am) == [ok |-> TRUE, am |-> am]
Failed(am)  == [ok |-> FALSE, am |-> am]

Displaced(am, c) == [am EXCEPT !.disp = (@ + c) % Words]

hasSymbolicDisplacement(am) == am.sym # None

MatchWrapper(n, am) == Displaced([am EXCEPT !.sym = Wrapper(n.name, 0)], n.val)

MatchAddressBase(n, am) ==
  IF am.base # None THEN Failed(am) ELSE Matched([am EXCEPT !.base = n])

\* The mode is not restored.
BugBackup(now, backup) == now

\* AM = Backup
Backup(now, backup) == backup

\* X | C is X + C only if C has only bits that are zero in X.
BugOrIsAdd(n, am) == am.sym = None

OrIsAdd(n, am) ==
  /\ am.sym.name # "GV"
  /\ MaskedValueIsZero(n.args[1], n.args[2].val)

\* MatchAddress of one operand, then of the other.
MatchInTurn(match, x, y, am) ==
  LET first == match[x][am]
  IN  IF first.ok THEN match[y][first.am] ELSE first

MatchNode(match, n, am) ==
  CASE n.op = "const" -> Matched(Displaced(am, n.val))
    [] n.op = "sym" /\ ~hasSymbolicDisplacement(am) -> Matched(MatchWrapper(n, am))
    [] n.op = "fi" /\ am.base = None -> Matched([am EXCEPT !.base = n])
    [] n.op = "add" ->
         LET one == MatchInTurn(match, n.args[1], n.args[2], am)
             two == MatchInTurn(match, n.args[2], n.args[1], Backup(one.am, am))
         IN  IF one.ok THEN one
             ELSE IF two.ok THEN two
             ELSE MatchAddressBase(n, Backup(two.am, am))
    [] n.op = "or" ->
         LET left == match[n.args[1]][am]
         IN  IF left.ok /\ OrIsAdd(n, left.am)
             THEN Matched(Displaced(left.am, n.args[2].val))
             ELSE MatchAddressBase(n, Backup(left.am, am))
    [] OTHER -> MatchAddressBase(n, am)

\* It calls itself on the operands of the node.
MatchAddress[n \in Nodes] == [am \in Modes |-> MatchNode(MatchAddress, n, am)]

-------------------------------------------------------------------------------
(* Machine operands *)

Operand(kind, node, val) == [kind |-> kind, node |-> node, val |-> val]

SR       == Operand("SR", None, 0)
GR(n)    == Operand("GR", n, 0)
Imm(c)   == Operand("imm", None, c)
Sym(s,c) == Operand("sym", s, c)

\* SelectAddr: SR stands for no base, and a jump table has no offset.
BaseOf(am) ==
  CASE am.base = None -> SR
    [] am.base.op = "fi" -> Operand("FI", FrameIndex, 0)
    [] OTHER -> GR(am.base)

DispOf(am) ==
  CASE am.sym = None -> Imm(am.disp)
    [] am.sym.name = "JT" -> Sym(am.sym, 0)
    [] OTHER -> Sym(am.sym, am.disp)

SelectAddr(n) ==
  LET r == MatchAddress[n][EmptyMode]
  IN  [ok |-> r.ok, operand |-> <<BaseOf(r.am), DispOf(r.am)>>]

\* The addresses AddressesAgree is about, see README: SelectAddr does not find
\* a symbol beside the frame index, a jump table with an offset, or no address.
Addressable(n) ==
  LET am == MatchAddress[n][EmptyMode].am
  IN  /\ ~(am.base.op = "fi" /\ hasSymbolicDisplacement(am))
      /\ am.sym.name = "JT" => am.disp = 0
      /\ am # EmptyMode

\* Loads, operations with a register, operations of a location with another
\* and operations on one location.
Forms == {"mov_rm", "op_rm", "cmp_rm", "bit_rm", "mov_mm", "op_mm", "cmp_mm", "op_m"}
MemoryToMemory == {"mov_mm", "op_mm", "cmp_mm"}

Access == [form : Forms \ MemoryToMemory, src : Addresses, dst : {None}]
            \cup [form : MemoryToMemory, src : BothAddresses, dst : BothAddresses]

Rd == GR(Register("rd", 0))

Operands(form, src, dst) ==
  CASE form \in {"mov_rm", "cmp_rm", "bit_rm"} -> <<Rd>> \o src
    [] form = "op_rm" -> <<Rd, Rd>> \o src
    [] form \in MemoryToMemory -> dst \o src
    [] form = "op_m" -> src

\* The position, from one, of the displacement of the source.
SrcDispIdx(form) ==
  CASE form = "op_m" -> 2
    [] form \in {"mov_rm", "cmp_rm", "bit_rm"} -> 3
    [] OTHER -> 4

\* BIT has no entry in getIndRegInstForm.
HasIndRegForm(form) == form # "bit_rm"

\* With the frame offset the displacement outgrows its 16 bits.
BugResolved(ops) ==
  [i \in DOMAIN ops |->
     CASE ops[i].kind = "FI" -> GR(SP)
       [] i > 1 /\ ops[i - 1].kind = "FI" -> Imm(ops[i].val + frame)
       [] OTHER -> ops[i]]

Resolved(ops) ==
  [i \in DOMAIN ops |->
     CASE ops[i].kind = "FI" -> GR(SP)
       [] i > 1 /\ ops[i - 1].kind = "FI" -> Imm((ops[i].val + frame) % Words)
       [] OTHER -> ops[i]]

\* What @rn and x(rn) address.  @SR is the constant 4, not an address.
Effective(base, disp) ==
  LET offset == IF disp.kind = "sym" THEN Plus(Unknown(disp.node), Exactly(disp.val))
                                     ELSE Exactly(disp.val)
  IN  IF base.kind = "SR" THEN offset ELSE Plus(Value[base.node], offset)

Nowhere == [atoms |-> EmptyBag, disp |-> -1]

Indirect(base) == IF base.kind = "SR" THEN Nowhere ELSE Value[base.node]

-------------------------------------------------------------------------------
(* Indexed operations: an operation of register x and the load from p, with  *)
(* p + inc computed as well.                                                 *)

Ops == {"load", "add", "sub", "and", "or", "xor"}

IndexedOp ==
  {n \in [form : Ops, load : 1..2, ext : BOOLEAN, bytes : 1..2, inc : {1, 2, 4}, oneUse : BOOLEAN] :
     n.load = 1 => n.form \in LoadFirst \cup {"load"}}

getPostIndexedAddressParts(n) == ~n.ext /\ n.inc = n.bytes

isValidIndexedLoad(n) == indexed.post /\ ~n.ext /\ n.inc = n.bytes

\* Which operand tryIndexedBinOp is given as the load: either, but the first of SUB.
TriedFirst(n) == n.form # "load" /\ n.load = 1
TriedNext(n)  == n.form \notin {"load", "sub"} /\ n.load = 2

\* A load with other uses is folded as well.
BugFolds(n) == (TriedFirst(n) \/ TriedNext(n)) /\ isValidIndexedLoad(n)

Folds(n) == (TriedFirst(n) \/ TriedNext(n)) /\ n.oneUse /\ isValidIndexedLoad(n)

-------------------------------------------------------------------------------

NoOut == [src |-> Nowhere, dst |-> Nowhere, args |-> <<>>, reads |-> 0, advance |-> 0]

Init ==
  /\ \/ access \in Access /\ pc = "select"
     \/ access \in IndexedOp /\ pc = "combine"
  /\ frame \in FrameOffsets
  /\ inst = [form |-> "none", ind |-> FALSE, ops |-> <<>>]
  /\ indexed = [post |-> FALSE, folded |-> FALSE]
  /\ out = NoOut

Select ==
  /\ pc = "select"
  /\ LET src == SelectAddr(access.src)
         dst == IF access.form \in MemoryToMemory THEN SelectAddr(access.dst)
                                                  ELSE [ok |-> TRUE, operand |-> <<>>]
     IN  IF src.ok /\ dst.ok
         THEN /\ inst' = [form |-> access.form, ind |-> FALSE,
                          ops  |-> Operands(access.form, src.operand, dst.operand)]
              /\ pc' = "frame"
         ELSE pc' = "failed" /\ UNCHANGED inst
  /\ UNCHANGED <<access, frame, indexed, out>>

EliminateFrameIndex ==
  /\ pc = "frame"
  /\ inst' = [inst EXCEPT !.ops = Resolved(@)]
  /\ pc' = "transform"
  /\ UNCHANGED <<access, frame, indexed, out>>

Transform ==
  /\ pc = "transform"
  /\ LET i == SrcDispIdx(inst.form)
     IN  inst' = IF HasIndRegForm(inst.form) /\ inst.ops[i] = Imm(0)
                 THEN [inst EXCEPT !.ind = TRUE,
                         !.ops = SubSeq(@, 1, i - 1) \o SubSeq(@, i + 1, Len(@))]
                 ELSE inst
  /\ pc' = "run"
  /\ UNCHANGED <<access, frame, indexed, out>>

\* The operands of the source are the last ones, the destination's the first.
Run ==
  /\ pc = "run"
  /\ LET k == Len(inst.ops)
     IN  out' = [out EXCEPT
           !.src = IF inst.ind THEN Indirect(inst.ops[k])
                               ELSE Effective(inst.ops[k - 1], inst.ops[k]),
           !.dst = IF inst.form \in MemoryToMemory
                   THEN Effective(inst.ops[1], inst.ops[2]) ELSE Nowhere]
  /\ pc' = "done"
  /\ UNCHANGED <<access, frame, inst, indexed>>

CombinePostIndexed ==
  /\ pc = "combine"
  /\ indexed' = [indexed EXCEPT !.post = getPostIndexedAddressParts(access)]
  /\ pc' = "fold"
  /\ UNCHANGED <<access, frame, inst, out>>

\* tryIndexedBinOp or tryIndexedLoad.  A POST_INC load has no other pattern.
FoldIndexed ==
  /\ pc = "fold"
  /\ IF indexed.post /\ ~isValidIndexedLoad(access)
     THEN pc' = "failed" /\ UNCHANGED indexed
     ELSE /\ indexed' = [indexed EXCEPT !.folded = Folds(access)]
          /\ pc' = "indexed"
  /\ UNCHANGED <<access, frame, inst, out>>

\* op @p+, x is x op *p; the load of a fold with other uses is made again.
RunIndexed ==
  /\ pc = "indexed"
  /\ out' = [out EXCEPT
       !.args = IF access.form = "load" THEN <<"*p">>
                ELSE IF indexed.folded \/ access.load = 2 THEN <<"x", "*p">>
                ELSE <<"*p", "x">>,
       !.reads = IF indexed.folded /\ ~access.oneUse THEN 2 ELSE 1,
       !.advance = IF indexed.post THEN access.bytes ELSE access.inc]
  /\ pc' = "done"
  /\ UNCHANGED <<access, frame, inst, indexed>>

Next ==
  \/ Select
  \/ EliminateFrameIndex
  \/ Transform
  \/ Run
  \/ CombinePostIndexed
  \/ FoldIndexed
  \/ RunIndexed

Spec == Init /\ [][Next]_vars

-------------------------------------------------------------------------------
(* Properties *)

\* The types of the variables: displacements are words, an instruction has up
\* to four operands.
TypeOK ==
  /\ access \in Access \cup IndexedOp
  /\ frame \in FrameOffsets
  /\ pc \in {"select", "frame", "transform", "run", "combine", "fold", "indexed",
             "done", "failed"}
  /\ Len(inst.ops) <= 4
  /\ \A i \in DOMAIN inst.ops :
       /\ inst.ops[i].kind \in {"GR", "SR", "FI", "imm", "sym"}
       /\ inst.ops[i].val \in 0..(Words - 1)
  /\ indexed \in [post : BOOLEAN, folded : BOOLEAN]
  /\ out.reads \in 0..2 /\ out.advance \in {0, 1, 2, 4}

(***************************************************************************)
(* Whatever order the operands of an address come in, MatchAddress finds a *)
(* mode for it, and every load made POST_INC by getPostIndexedAddressParts *)
(* is one that isValidIndexedLoad takes: there are no other patterns.      *)
(***************************************************************************)
AlwaysSelected == pc # "failed"

(***************************************************************************)
(* The operand of the last instruction, after backtracking, the frame      *)
(* layout and the change to @rn, is at the address the node named; so is   *)
(* the destination of a memory-to-memory operation.                        *)
(***************************************************************************)
AddressesAgree ==
  pc = "done" /\ access.form \in Forms =>
    /\ out.src = Value[access.src]
    /\ access.form \in MemoryToMemory => out.dst = Value[access.dst]

Meaning(n) ==
  CASE n.form = "load" -> <<"*p">>
    [] n.form # "load" /\ n.load = 1 -> <<"*p", "x">>
    [] n.form # "load" /\ n.load = 2 -> <<"x", "*p">>

Commuted(s) == [i \in DOMAIN s |-> s[Len(s) + 1 - i]]

(***************************************************************************)
(* An operation on *p++ computes what it would without the post-increment: *)
(* its operands are in their order, or it commutes; memory is read once;   *)
(* and the pointer advances as the addition it replaces said.              *)
(***************************************************************************)
ResultsAgree ==
  pc = "done" /\ access.form \in Ops =>
    /\ \/ out.args = Meaning(access)
       \/ access.form # "sub" /\ out.args = Commuted(Meaning(access))
    /\ out.reads = 1
    /\ out.advance = access.inc
===============================================================================
