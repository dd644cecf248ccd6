--------------------------- MODULE MSP430CallingConv ---------------------------
(***************************************************************************)
(* How arguments travel from a caller to a callee that was compiled apart  *)
(* (AnalyzeArguments, LowerCCCCallTo and LowerCCCArguments of              *)
(* MSP430ISelLowering.cpp): each side hands out registers and stack bytes  *)
(* to the pieces of its own argument list, one argument per step; then the *)
(* caller stores the pieces, the callee reads them, and the result comes   *)
(* back (LowerReturn, LowerCallResult).                                    *)
(*                                                                         *)
(* A piece is a byte (i8) or a word (i16), the register types of MSP430.   *)
(* A value is a sequence of bytes, and a byte is named by the argument and *)
(* the piece it belongs to, so that a byte that went astray is noticed.    *)
(***************************************************************************)
EXTENDS Integers, FiniteSets, Sequences

CONSTANT Signatures   \* the calls to be looked at, see Signature below

VARIABLES
  sig,    \* the call
  pc,     \* "caller", "callee": analysing; "store", "receive", "va_arg",
          \* "return", "result", "done"
  cc,     \* the CCState of either side
  stored, \* the caller's pieces whose stack stores are done
  stack,  \* the outgoing area, from SP up: none before the call is set up
  regs,   \* the argument registers
  va,     \* offset of the va_list of the callee
  got,    \* argument -> what the callee received, piece by piece
  result  \* what the caller read of the return value, piece by piece

vars == <<sig, pc, cc, stored, stack, regs, va, got, result>>

-------------------------------------------------------------------------------
(* Signatures *)

\* byval = 0: passed by its pieces, else the size of the object passed.
Argument == [pieces : Seq({"i8", "i16"}), ext : {"AExt", "SExt", "ZExt"},
             byval : Nat, align : Nat]

\* conv: the calling convention; ret: pieces of the return value; sret: is
\* the first argument a pointer to the structure returned?  The first fixed of
\* args have a formal in a variadic callee, the rest come by va_arg.
Signature == [conv : {"C", "builtin"}, vararg : BOOLEAN, ret : Seq({"i8", "i16"}),
              sret : BOOLEAN, args : Seq(Argument), fixed : Nat]

\* The pieces of one value are of one type, an object's is its address, and an
\* alignment is a power of two, of which evenness is all that matters.
IsArgument(arg) ==
  /\ arg.pieces # <<>>
  /\ \A j \in DOMAIN arg.pieces : arg.pieces[j] = arg.pieces[1]
  /\ arg.byval > 0 => Len(arg.pieces) = 1
  /\ arg.align > 1 => arg.align % 2 = 0

\* What follows the fixed arguments is promoted to words by the front end; a
\* function that writes its result through a pointer returns nothing else.
SignaturesAssumption ==
  /\ Signatures \subseteq Signature
  /\ \A c \in Signatures :
       /\ \A k \in DOMAIN c.args : IsArgument(c.args[k])
       /\ c.vararg =>
            /\ c.fixed <= Len(c.args)
            /\ \A k \in (c.fixed + 1)..Len(c.args) :
                 c.args[k].byval = 0 /\ c.args[k].pieces[1] = "i16"
       /\ c.sret =>
            /\ c.ret = <<>> /\ c.args # <<>> /\ (c.vararg => c.fixed > 0)
            /\ c.args[1].byval = 0 /\ c.args[1].pieces = <<"i16">>

ASSUME SignaturesAssumption

Pointer == [pieces |-> <<"i16">>, ext |-> "AExt", byval |-> 0, align |-> 0]

\* A return value that does not fit R12 .. R15 is written through a pointer,
\* put before the other arguments.
DemotedReturn == Len(sig.ret) > 4

Hidden == IF DemotedReturn THEN <<Pointer>> ELSE <<>>

Outs == Hidden \o sig.args

Ins == Hidden \o (IF sig.vararg THEN SubSeq(sig.args, 1, sig.fixed) ELSE sig.args)

Args == [caller |-> Outs, callee |-> Ins]

RegList == IF sig.conv = "builtin" THEN 8..15 ELSE 12..15

-------------------------------------------------------------------------------
(* AnalyzeArguments *)

\* regsLeft and usedStack are locals of AnalyzeArguments, used and offset the
\* registers and stack bytes CCState has allocated; locs: argument -> location
\* of each of its pieces.
Fresh == [regsLeft |-> Cardinality(RegList), usedStack |-> FALSE,
          used |-> {}, offset |-> 0, locs |-> <<>>]

NoRegister == 0

alignTo(x, a) == ((x + a - 1) \div a) * a

\* How a piece of type valVT becomes a word.
LocInfo(arg, valVT) == IF valVT = "i8" THEN arg.ext ELSE "Full"

InReg(reg, valVT, info) == [reg |-> reg, mem |-> -1, val |-> valVT, info |-> info]
InMem(off, valVT, info) == [reg |-> NoRegister, mem |-> off, val |-> valVT, info |-> info]

\* What n calls of CCState::AllocateReg return: the first takes the first free
\* register, so the n-th takes the n-th, or none if all are taken.
AllocateReg(s, n) ==
  LET free == RegList \ s.used
      IsNth(r) == Cardinality({q \in free : q <= r}) = n
  IN  IF \E r \in free : IsNth(r) THEN CHOOSE r \in free : IsNth(r) ELSE NoRegister

\* Where CC_MSP430_AssignStack puts the n-th of some words in a row.
AllocateStack(s, n) == alignTo(s.offset, 2) + 2 * (n - 1)

\* Outside variadic calls every piece is taken for one of the first's type.
FirstVT(arg) == arg.pieces[1]

Parts(arg) == Len(arg.pieces)

PieceInReg(s, n, arg) ==
  InReg(AllocateReg(s, n), FirstVT(arg), LocInfo(arg, FirstVT(arg)))

PieceOnStack(s, n, arg) ==
  InMem(AllocateStack(s, n), FirstVT(arg), LocInfo(arg, FirstVT(arg)))

PiecesInRegs(s, arg) ==
  [s EXCEPT !.used = @ \cup {AllocateReg(s, n) : n \in 1..Parts(arg)},
            !.regsLeft = @ - Parts(arg),
            !.locs = Append(@, [n \in 1..Parts(arg) |-> PieceInReg(s, n, arg)])]

PiecesOnStack(s, arg) ==
  [s EXCEPT !.usedStack = TRUE,
            !.offset = AllocateStack(s, Parts(arg) + 1),
            !.locs = Append(@, [n \in 1..Parts(arg) |-> PieceOnStack(s, n, arg)])]

\* CC_MSP430_AssignStack for each piece, by the type of its own.
VarArgPieces(s, arg) ==
  LET vt(n) == arg.pieces[n]
  IN  [s EXCEPT !.offset = AllocateStack(s, Parts(arg) + 1),
                !.locs = Append(@, [n \in 1..Parts(arg) |->
                                      InMem(AllocateStack(s, n), vt(n), LocInfo(arg, vt(n)))])]

\* An object takes a slot of one word, whatever its size.
BugByValSize(s, arg) ==
  [s EXCEPT !.offset = AllocateStack(s, 2),
            !.locs = Append(@, <<InMem(AllocateStack(s, 1), "i16", "Full")>>)]

\* CCState::HandleByVal, at least a word and aligned to a word.
ByVal(s, arg) ==
  LET atLeast(x) == IF x < 2 THEN 2 ELSE x
      off == alignTo(s.offset, atLeast(arg.align))
  IN  [s EXCEPT !.offset = off + alignTo(atLeast(arg.byval), 2),
                !.locs = Append(@, <<InMem(off, "i16", "Full")>>)]

\* The low half of a 32-bit argument takes the last register, which the
\* count of registers left does not notice.
BugSplitKeepsRegsLeft(s, arg) ==
  [s EXCEPT !.used = @ \cup {AllocateReg(s, 1)},
            !.usedStack = TRUE,
            !.offset = AllocateStack(s, 2),
            !.locs = Append(@, <<PieceInReg(s, 1, arg), PieceOnStack(s, 1, arg)>>)]

\* EABI section 3.3.3: the low half in the last register, the high half on the stack.
Split(s, arg) ==
  [s EXCEPT !.used = @ \cup {AllocateReg(s, 1)},
            !.regsLeft = @ - 1,
            !.usedStack = TRUE,
            !.offset = AllocateStack(s, 2),
            !.locs = Append(@, <<PieceInReg(s, 1, arg), PieceOnStack(s, 1, arg)>>)]

\* What AnalyzeArguments does with one argument.
Assigned(s, arg) ==
  IF arg.byval > 0 THEN ByVal(s, arg)
  ELSE IF sig.vararg THEN VarArgPieces(s, arg)
  ELSE IF ~s.usedStack /\ Parts(arg) = 2 /\ s.regsLeft = 1 THEN Split(s, arg)
  ELSE IF Parts(arg) <= s.regsLeft THEN PiecesInRegs(s, arg)
  ELSE PiecesOnStack(s, arg)

-------------------------------------------------------------------------------
(* Values *)

\* Byte half of piece j of argument k; the byte an extension makes of it.
Byte(k, j, half) == <<k, j, half>>
ExtByte(b) == <<b[1], b[2], 2>>
Unknown == <<0, 0, 0>>

ByValBytes(k) == [i \in 1..Outs[k].byval |-> Byte(k, i, 0)]

Passed(k, j) ==
  IF Outs[k].byval > 0 THEN ByValBytes(k)
  ELSE IF Outs[k].pieces[j] = "i8" THEN <<Byte(k, j, 0)>>
  ELSE <<Byte(k, j, 0), Byte(k, j, 1)>>

\* The promotion is forgotten.
BugNotExtended(v, info) == v

\* SIGN_EXTEND and ZERO_EXTEND; ANY_EXTEND promises nothing.  Extending a
\* word does nothing.
Extended(v, info) ==
  IF Len(v) = 1 /\ info \in {"SExt", "ZExt"} THEN <<v[1], ExtByte(v[1])>> ELSE v

Word(v) == IF Len(v) = 1 THEN <<v[1], Unknown>> ELSE v

\* TRUNCATE to the type of the location's value.
Truncated(v, valVT) == IF valVT = "i8" THEN <<v[1]>> ELSE v

\* getCopyFromParts: the value the callee's code uses, of the piece's own type.
AsPiece(v, vt) == IF vt = "i8" THEN <<v[1]>> ELSE Word(v)

Loc(side, k, j) == cc[side].locs[k][j]

\* The pieces of a side's arguments, each an argument and a number in it.
Pieces(side) ==
  UNION {{<<k, j>> : j \in DOMAIN cc[side].locs[k]} : k \in DOMAIN cc[side].locs}

OnStack == {x \in Pieces("caller") : Loc("caller", x[1], x[2]).mem >= 0}
InRegs  == {x \in Pieces("caller") : Loc("caller", x[1], x[2]).mem < 0}

Sent(k, j) == Extended(Passed(k, j), Loc("caller", k, j).info)

\* What lies above the outgoing area is the caller's own.
Load(a, size) ==
  [i \in 1..size |-> IF a + i - 1 \in DOMAIN stack THEN stack[a + i - 1] ELSE Unknown]

-------------------------------------------------------------------------------
(* The call *)

Init ==
  /\ sig \in Signatures
  /\ pc = "caller"
  /\ cc = [side \in {"caller", "callee"} |-> Fresh]
  /\ stored = {}
  /\ stack = <<>>
  /\ regs = [r \in 8..15 |-> <<Unknown, Unknown>>]
  /\ va = 0
  /\ got = <<>>
  /\ result = <<>>

AssignArgument ==
  /\ pc \in {"caller", "callee"}
  /\ LET s == cc[pc]
     IN  /\ Len(s.locs) < Len(Args[pc])
         /\ cc' = [cc EXCEPT ![pc] = Assigned(s, Args[pc][Len(s.locs) + 1])]
  /\ UNCHANGED <<sig, pc, stored, stack, regs, va, got, result>>

\* The caller makes room for its stack arguments (CALLSEQ_START).  The callee
\* of a builtin call is hand-written: LowerFormalArguments accepts no such
\* convention.
Analysed ==
  /\ pc \in {"caller", "callee"}
  /\ Len(cc[pc].locs) = Len(Args[pc])
  /\ pc' = IF pc = "caller" /\ sig.conv = "C" THEN "callee" ELSE "store"
  /\ stack' = IF pc = "caller" THEN [a \in 0..(cc.caller.offset - 1) |-> Unknown]
                               ELSE stack
  /\ UNCHANGED <<sig, cc, stored, regs, va, got, result>>

Overwritten(a, v) ==
  [x \in DOMAIN stack |-> IF x \in a..(a + Len(v) - 1) THEN v[x - a + 1] ELSE stack[x]]

\* The stores to the outgoing area, a memcpy for an object: a TokenFactor
\* joins them, so they come in any order.
StorePiece ==
  /\ pc = "store"
  /\ \E x \in OnStack \ stored :
       /\ stack' = Overwritten(Loc("caller", x[1], x[2]).mem, Sent(x[1], x[2]))
       /\ stored' = stored \cup {x}
  /\ UNCHANGED <<sig, pc, cc, regs, va, got, result>>

\* The copies to registers are glued together and to the call.
CallCallee ==
  /\ pc = "store"
  /\ stored = OnStack
  /\ regs' = [r \in DOMAIN regs |->
                LET here == {x \in InRegs : Loc("caller", x[1], x[2]).reg = r}
                IN  IF here = {} THEN regs[r]
                    ELSE LET x == CHOOSE y \in here : TRUE IN Word(Sent(x[1], x[2]))]
  /\ pc' = IF sig.conv = "C" THEN "receive" ELSE "done"
  /\ UNCHANGED <<sig, cc, stored, stack, va, got, result>>

\* LowerCCCArguments for one piece: a register is truncated to its value's
\* type, an object stays where it is, a word is loaded.
InVal(k, j) ==
  LET loc == Loc("callee", k, j)
  IN  IF loc.mem < 0
        THEN IF loc.info = "Full" THEN regs[loc.reg] ELSE Truncated(regs[loc.reg], loc.val)
        ELSE Load(loc.mem, IF Ins[k].byval > 0 THEN Ins[k].byval ELSE 2)

Received(k, j) ==
  IF Ins[k].byval > 0 THEN InVal(k, j) ELSE AsPiece(InVal(k, j), Ins[k].pieces[j])

\* The first anonymous argument is taken to be the first on the stack.
BugVarArgsFrameIndex == 0

\* What LowerVASTART stores: where the formals end.
VarArgsFrameIndex == cc.callee.offset

ReceiveFormals ==
  /\ pc = "receive"
  /\ got' = [k \in DOMAIN Ins |-> [j \in DOMAIN cc.callee.locs[k] |-> Received(k, j)]]
  /\ IF sig.vararg THEN pc' = "va_arg" /\ va' = VarArgsFrameIndex
                   ELSE pc' = "return" /\ UNCHANGED va
  /\ UNCHANGED <<sig, cc, stored, stack, regs, result>>

\* expandVAArg, for an argument of words: no more than the alignment of the
\* stack, so the list is not rounded up.
VaArg ==
  /\ pc = "va_arg"
  /\ Len(got) < Len(Outs)
  /\ LET k == Len(got) + 1
     IN  /\ got' = Append(got, [j \in 1..Parts(Outs[k]) |-> Load(va + 2 * (j - 1), 2)])
         /\ va' = va + 2 * Parts(Outs[k])
  /\ UNCHANGED <<sig, pc, cc, stored, stack, regs, result>>

VaEnd ==
  /\ pc = "va_arg"
  /\ Len(got) = Len(Outs)
  /\ pc' = "return"
  /\ UNCHANGED <<sig, cc, stored, stack, regs, va, got, result>>

\* The register of each piece of the return value: RetCC_MSP430 takes the
\* next of R12 .. R15 for a byte as for a word.
ReturnRegs == [j \in DOMAIN sig.ret |-> 11 + j]

ReturnPiece(j) ==
  IF sig.ret[j] = "i8" THEN <<Byte(0, j, 0)>> ELSE <<Byte(0, j, 0), Byte(0, j, 1)>>

\* The pointer to the structure, kept since the entry, goes back in R12.
SRetReturn == [r \in (IF sig.sret THEN {12} ELSE {}) |-> got[1][1]]

\* The registers of the result; the callee used the others as it liked.
LowerReturn ==
  /\ pc = "return"
  /\ regs' = [r \in DOMAIN regs |->
                IF r \in DOMAIN SRetReturn THEN SRetReturn[r]
                ELSE IF ~DemotedReturn /\ \E j \in DOMAIN sig.ret : ReturnRegs[j] = r
                  THEN Word(ReturnPiece(CHOOSE j \in DOMAIN sig.ret : ReturnRegs[j] = r))
                ELSE IF r \in 11..15 THEN <<Unknown, Unknown>> ELSE regs[r]]
  /\ pc' = "result"
  /\ UNCHANGED <<sig, cc, stored, stack, va, got, result>>

LowerCallResult ==
  /\ pc = "result"
  /\ result' = IF DemotedReturn THEN <<>>
               ELSE [j \in DOMAIN sig.ret |-> AsPiece(regs[ReturnRegs[j]], sig.ret[j])]
  /\ pc' = "done"
  /\ UNCHANGED <<sig, cc, stored, stack, regs, va, got>>

Next ==
  \/ AssignArgument
  \/ Analysed
  \/ StorePiece
  \/ CallCallee
  \/ ReceiveFormals
  \/ VaArg
  \/ VaEnd
  \/ LowerReturn
  \/ LowerCallResult

Spec == Init /\ [][Next]_vars

-------------------------------------------------------------------------------
(* Properties *)

\* The types of the variables; CCState never runs out of registers.
TypeOK ==
  /\ pc \in {"caller", "callee", "store", "receive", "va_arg", "return",
             "result", "done"}
  /\ \A side \in {"caller", "callee"} :
       /\ cc[side].regsLeft \in 0..Cardinality(RegList)
       /\ cc[side].offset \in Nat
       /\ cc[side].used \subseteq RegList
       /\ Len(cc[side].locs) <= Len(Args[side])
  /\ stored \subseteq OnStack
  /\ DOMAIN stack = IF pc = "caller" THEN {} ELSE 0..(cc.caller.offset - 1)
  /\ DOMAIN regs = 8..15
  /\ va \in Nat
  /\ Len(got) <= Len(Outs)
  /\ Len(result) <= 4

\* The bytes of the outgoing area and the registers, negated, of a piece.
Places(side, x) ==
  LET loc  == Loc(side, x[1], x[2])
      arg  == Args[side][x[1]]
      size == IF arg.byval > 0 THEN arg.byval ELSE 2
  IN  IF loc.mem >= 0 THEN loc.mem..(loc.mem + size - 1) ELSE {-loc.reg}

(***************************************************************************)
(* Each piece has a place of its own, in a register of the convention or   *)
(* within the bytes of stack the call sequence makes room for.             *)
(***************************************************************************)
LocationsDisjoint ==
  pc \in {"callee", "store"} /\ stored = {} =>
    \A side \in {"caller", "callee"} : \A x \in Pieces(side) :
      /\ Places(side, x) \subseteq 0..(cc[side].offset - 1) \cup {-r : r \in RegList}
      /\ \A y \in Pieces(side) \ {x} : Places(side, x) \cap Places(side, y) = {}

(***************************************************************************)
(* What the callee uses is what the caller passed, for its formals and for *)
(* what it reads with va_arg, and what the caller reads is what the callee *)
(* returned: the two sides never see each other's list (docs/LangRef.rst:  *)
(* 9680: "a specified function, with its incoming arguments bound to the   *)
(* specified values").  A function that returns a structure gives its      *)
(* pointer back ("returning the value of the returned struct in a          *)
(* register", MSP430MachineFunctionInfo.h).                                *)
(***************************************************************************)
ValuesArrive ==
  /\ pc \in {"va_arg", "return", "result", "done"} =>
       \A k \in DOMAIN got : \A j \in DOMAIN got[k] : got[k][j] = Passed(k, j)
  /\ pc = "done" /\ sig.conv = "C" =>
       /\ ~DemotedReturn => result = [j \in DOMAIN sig.ret |-> ReturnPiece(j)]
       /\ sig.sret => regs[12] = Passed(1, 1)

(***************************************************************************)
(* The callee tells the optimizer that a byte in a register came extended  *)
(* (AssertSext, AssertZext): the caller has extended it.                   *)
(***************************************************************************)
AssertedExtensions ==
  pc = "receive" =>
    \A x \in Pieces("callee") :
      LET loc == Loc("callee", x[1], x[2])
      IN  loc.mem < 0 /\ loc.info \in {"SExt", "ZExt"} =>
            regs[loc.reg][2] = ExtByte(regs[loc.reg][1])
===============================================================================
