------------------------------ MODULE MSP430Frame ------------------------------
(***************************************************************************)
(* The stack frame of an MSP430 function: how prologue/epilogue insertion  *)
(* lays it out with the hooks of MSP430FrameLowering.cpp, and what the     *)
(* code so made does when it runs, other functions and interrupts          *)
(* included.                                                               *)
(*                                                                         *)
(* Addresses are bytes relative to the stack pointer at entry, which       *)
(* points at the return address.  Memory is an array of bytes that hold    *)
(* tagged values; the stack grows down.                                    *)
(***************************************************************************)
EXTENDS Integers, Sequences, FiniteSets

CONSTANTS
  Functions,   \* the functions that may be compiled, see Function below
  Values,      \* what the body may write to a variable
  Depth,       \* bytes of stack below the return address that exist
  MaxAllocas   \* dynamic allocas the body executes at most

VARIABLES
  f,          \* the function
  pc,         \* the phase of prologue/epilogue insertion, then of the run
  offset,     \* Offset of calculateFrameObjectOffsets
  placed,     \* objects placed so far: callee-saved slots, then locals
  objOff,     \* offsets of the locals placed
  stackSize,  \* MachineFrameInfo's StackSize
  csSize,     \* CalleeSavedFrameSize of MSP430MachineFunctionInfo
  prologue,   \* the instructions before the body
  epilogue,   \* and after it
  ip,         \* index of the next instruction of prologue or epilogue
  sp,         \* R1
  regs,       \* R4 .. R15
  mem,        \* the stack
  dyn,        \* addresses of the dynamic allocas
  callseq,    \* "none", or how far a call sequence is: "down", "stored", "up"
  amount,     \* bytes of outgoing arguments of the call sequence
  val         \* history: what the body wrote last to each variable

layout  == <<offset, placed, objOff, stackSize, csSize>>
emitted == <<prologue, epilogue>>
machine == <<ip, sp, regs, mem, dyn, callseq, amount, val>>
vars    == <<f, pc, layout, emitted, machine>>

FP == 4
Regs == 4..15

-------------------------------------------------------------------------------
(* Functions *)

(***************************************************************************)
(* intr: it is an interrupt handler; keepFP: its frame address is taken,   *)
(* or frame pointer elimination is disabled; var: it has variable-sized    *)
(* objects; enabled: interrupts occur while it runs; uses: the registers   *)
(* its body writes; args: offsets of its stack arguments; locals: their    *)
(* sizes and alignments; calls: the bytes of stack arguments of its calls; *)
(* base: the address of its return address, modulo the largest alignment.  *)
(***************************************************************************)
Function ==
  [intr : BOOLEAN, keepFP : BOOLEAN, var : BOOLEAN, enabled : BOOLEAN,
   uses : SUBSET Regs, args : SUBSET Nat, locals : Seq([size : Nat, align : Nat \ {0}]),
   calls : SUBSET Nat, base : Nat]

\* The frame pointer is reserved: no code of the body writes it.
ASSUME FunctionsAssumption ==
  \A g \in Functions : /\ g \in Function /\ IsFiniteSet(g.calls)
                       /\ g.keepFP \/ g.var => FP \notin g.uses

ASSUME BoundsAssumption == Depth \in Nat /\ MaxAllocas \in Nat

hasFP == f.keepFP \/ f.var

\* Mistakes the properties exclude are written next to the definition they
\* would spoil, as Bug... : here room for arguments above the variable-sized objects.
BugAlwaysReserved == TRUE

hasReservedCallFrame == ~f.var

\* The registers a CALL defines are not counted.
BugCallsIgnored == f.uses

\* A CALL defines R11 .. R15.
Modified == f.uses \cup (IF f.calls # {} THEN 11..15 ELSE {})

\* The lists of getCalleeSavedRegs, which go by number: R5 .. R10, for an
\* interrupt handler .. R15, and FP unless it is the frame pointer.
CalleeSavedRegs ==
  5..10 \cup (IF f.intr THEN 11..15 ELSE {}) \cup (IF hasFP THEN {} ELSE {FP})

IfSaved(r) == IF r \in CalleeSavedRegs \cap Modified THEN <<r>> ELSE <<>>

CSI ==
  IfSaved(4) \o IfSaved(5) \o IfSaved(6) \o IfSaved(7) \o IfSaved(8) \o IfSaved(9)
    \o IfSaved(10) \o IfSaved(11) \o IfSaved(12) \o IfSaved(13) \o IfSaved(14) \o IfSaved(15)

BugSmallestCallFrame == CHOOSE m \in f.calls \cup {0} : \A c \in f.calls : m <= c

MaxCallFrameSize == CHOOSE m \in f.calls \cup {0} : \A c \in f.calls : c <= m

MaxAlign == LET as == {f.locals[i].align : i \in DOMAIN f.locals}
            IN  CHOOSE m \in as \cup {2} : \A a \in as : a <= m

alignTo(x, a) == ((x + a - 1) \div a) * a

-------------------------------------------------------------------------------
(* Values, instructions, memory *)

Junk     == [tag |-> "junk",  n |-> 0]
Return   == [tag |-> "ret",   n |-> 0]
Entry(r) == [tag |-> "entry", n |-> r]   \* what the caller had in r
Addr(a)  == [tag |-> "addr",  n |-> a]
Data(v)  == [tag |-> "data",  n |-> v]
Arg(i)   == [tag |-> "arg",   n |-> i]   \* byte i of an outgoing argument

Push(r)  == [op |-> "push",  n |-> r]
Pop(r)   == [op |-> "pop",   n |-> r]
SetFP    == [op |-> "setfp", n |-> 0]    \* mov r1, r4
SetSP    == [op |-> "setsp", n |-> 0]    \* mov r4, r1
AddSP(k) == [op |-> "addsp", n |-> k]    \* sub #-k, r1 when k is negative

Bytes(a, size) == a..(a + size - 1)

Filled(a, size, v) == [x \in DOMAIN mem |-> IF x \in Bytes(a, size) THEN v ELSE mem[x]]

\* What interrupts and calls leave below a stack pointer: anything.
Trashed(limit) == [x \in DOMAIN mem |-> IF x < limit THEN Junk ELSE mem[x]]

Load16(a) == IF mem[a] = mem[a+1] THEN mem[a] ELSE Junk

LocalIds == DOMAIN f.locals
DynId(k) == Len(f.locals) + k
Variables == 1..(Len(f.locals) + MaxAllocas)

Init ==
  /\ f \in Functions
  /\ pc = "spill"
  /\ offset = 0 /\ placed = 0 /\ objOff = <<>> /\ stackSize = 0 /\ csSize = 0
  /\ prologue = <<>> /\ epilogue = <<>>
  /\ ip = 1 /\ sp = 0
  /\ regs = [r \in Regs |-> Entry(r)]
  /\ mem = [a \in (-Depth)..7 |-> IF a < 0 THEN Junk ELSE Return]
  /\ dyn = <<>> /\ callseq = "none" /\ amount = 0
  /\ val = [o \in Variables |-> Junk]

-------------------------------------------------------------------------------
(* Prologue/epilogue insertion *)

\* spillCalleeSavedRegisters, restoreCalleeSavedRegisters: the last register
\* of CSI is pushed first.
SpillCalleeSaved ==
  /\ pc = "spill"
  /\ csSize' = 2 * Len(CSI)
  /\ prologue' = [i \in DOMAIN CSI |-> Push(CSI[Len(CSI) + 1 - i])]
  /\ epilogue' = [i \in DOMAIN CSI |-> Pop(CSI[i])]
  /\ pc' = "fixed"
  /\ UNCHANGED <<f, offset, placed, objOff, stackSize, machine>>

\* The return address is given to the first object.
BugReturnAddressNotSkipped ==
  /\ pc = "fixed"
  /\ offset' = IF hasFP THEN 2 ELSE 0
  /\ pc' = "place"
  /\ UNCHANGED <<f, placed, objOff, stackSize, csSize, emitted, machine>>

\* The frame starts below the return address, and below the slot that
\* processFunctionBeforeFrameFinalized fixes for FP.
PlaceFixed ==
  /\ pc = "fixed"
  /\ offset' = IF hasFP THEN 4 ELSE 2
  /\ pc' = "place"
  /\ UNCHANGED <<f, placed, objOff, stackSize, csSize, emitted, machine>>

PlaceCalleeSaved ==
  /\ pc = "place"
  /\ placed < Len(CSI)
  /\ offset' = alignTo(offset + 2, 2)
  /\ placed' = placed + 1
  /\ UNCHANGED <<f, pc, objOff, stackSize, csSize, emitted, machine>>

\* AdjustStackOffset
PlaceLocal ==
  /\ pc = "place"
  /\ placed \in Len(CSI)..(Len(CSI) + Len(f.locals) - 1)
  /\ LET obj == f.locals[placed + 1 - Len(CSI)]
     IN  offset' = alignTo(offset + obj.size, obj.align)
  /\ objOff' = Append(objOff, -offset')
  /\ placed' = placed + 1
  /\ UNCHANGED <<f, pc, stackSize, csSize, emitted, machine>>

\* The outgoing arguments come last, when their room is reserved.
FinishLayout ==
  /\ pc = "place"
  /\ placed = Len(CSI) + Len(f.locals)
  /\ offset' = alignTo(offset + (IF hasReservedCallFrame THEN MaxCallFrameSize ELSE 0),
                       MaxAlign)
  /\ stackSize' = offset' - 2
  /\ pc' = "emit"
  /\ UNCHANGED <<f, placed, objOff, csSize, emitted, machine>>

\* What is left to allocate once FP and the callee-saved registers are pushed.
NumBytes == stackSize - csSize - (IF hasFP THEN 2 ELSE 0)

Adjust(k) == IF k = 0 THEN <<>> ELSE <<AddSP(k)>>

emitPrologue ==
  (IF hasFP THEN <<Push(FP), SetFP>> ELSE <<>>) \o prologue \o Adjust(-NumBytes)

\* SP is left at FP, above the callee-saved registers.
BugNoSubFromFP ==
  (IF f.var THEN <<SetSP>> ELSE Adjust(NumBytes))
    \o epilogue \o (IF hasFP THEN <<Pop(FP)>> ELSE <<>>)

emitEpilogue ==
  (IF f.var THEN <<SetSP>> \o Adjust(-csSize) ELSE Adjust(NumBytes))
    \o epilogue
    \o (IF hasFP THEN <<Pop(FP)>> ELSE <<>>)

EmitPrologueEpilogue ==
  /\ pc = "emit"
  /\ prologue' = emitPrologue
  /\ epilogue' = emitEpilogue
  /\ pc' = "prologue"
  /\ UNCHANGED <<f, layout, machine>>

-------------------------------------------------------------------------------
(* The function runs *)

Execute(ins) ==
  CASE ins.op = "push"  -> /\ sp' = sp - 2
                           /\ mem' = Filled(sp - 2, 2, regs[ins.n])
                           /\ UNCHANGED regs
    [] ins.op = "pop"   -> /\ sp' = sp + 2
                           /\ regs' = [regs EXCEPT ![ins.n] = Load16(sp)]
                           /\ UNCHANGED mem
    [] ins.op = "setfp" -> regs' = [regs EXCEPT ![FP] = Addr(sp)] /\ UNCHANGED <<sp, mem>>
    [] ins.op = "setsp" -> sp' = regs[FP].n /\ UNCHANGED <<regs, mem>>
    [] ins.op = "addsp" -> sp' = sp + ins.n /\ UNCHANGED <<regs, mem>>

RunPrologue ==
  /\ pc = "prologue"
  /\ IF ip <= Len(prologue)
       THEN Execute(prologue[ip]) /\ ip' = ip + 1 /\ UNCHANGED pc
       ELSE pc' = "body" /\ UNCHANGED <<ip, sp, regs, mem>>
  /\ UNCHANGED <<f, layout, emitted, dyn, callseq, amount, val>>

\* The saved FP is not skipped.
BugSavedFPNotSkipped(off) ==
  IF hasFP THEN regs[FP].n + off + 2 ELSE sp + off + 2 + stackSize

(***************************************************************************)
(* eliminateFrameIndex: the address the code computes for the object at    *)
(* offset off, from FP if there is one, else from SP.                      *)
(***************************************************************************)
FrameIndex(off) ==
  IF hasFP THEN regs[FP].n + off + 4 ELSE sp + off + 2 + stackSize

VariableAddr(o) == IF o \in LocalIds THEN FrameIndex(objOff[o]) ELSE dyn[o - Len(f.locals)]

VariableSize(o) == IF o \in LocalIds THEN f.locals[o].size ELSE 2

Allocated == LocalIds \cup {DynId(k) : k \in DOMAIN dyn}

WriteVariable ==
  /\ pc = "body"
  /\ \E o \in Allocated, v \in Values :
       /\ mem' = Filled(VariableAddr(o), VariableSize(o), Data(v))
       /\ val' = [val EXCEPT ![o] = Data(v)]
  /\ UNCHANGED <<f, pc, layout, emitted, ip, sp, regs, dyn, callseq, amount>>

WriteRegister ==
  /\ pc = "body"
  /\ \E r \in f.uses : regs' = [regs EXCEPT ![r] = Junk]
  /\ UNCHANGED <<f, pc, layout, emitted, ip, sp, mem, dyn, callseq, amount, val>>

\* A call sequence of its own: no call's arguments are on the stack.
DynamicAlloca ==
  /\ pc = "body"
  /\ f.var
  /\ callseq = "none"
  /\ Len(dyn) < MaxAllocas
  /\ sp' = sp - 2
  /\ dyn' = Append(dyn, sp')
  /\ UNCHANGED <<f, pc, layout, emitted, ip, regs, mem, callseq, amount, val>>

\* eliminateCallFramePseudoInstr: the stack adjustment of a call sequence.
CallFrameAdjustment(k) == IF hasReservedCallFrame THEN 0 ELSE alignTo(k, 2)

CallFrameSetup ==
  /\ pc = "body"
  /\ callseq = "none"
  /\ \E k \in f.calls : amount' = k /\ sp' = sp - CallFrameAdjustment(k)
  /\ callseq' = "down"
  /\ UNCHANGED <<f, pc, layout, emitted, ip, regs, mem, dyn, val>>

\* LowerCCCCallTo stores the arguments upwards from SP.
StoreArguments ==
  /\ callseq = "down"
  /\ mem' = [x \in DOMAIN mem |-> IF x \in Bytes(sp, amount) THEN Arg(x - sp) ELSE mem[x]]
  /\ callseq' = "stored"
  /\ UNCHANGED <<f, pc, layout, emitted, ip, sp, regs, dyn, amount, val>>

\* The callee owns its arguments and what lies below, and R11 .. R15.
Call ==
  /\ callseq = "stored"
  /\ mem' = Trashed(sp + amount)
  /\ regs' = [r \in Regs |-> IF r \in 11..15 THEN Junk ELSE regs[r]]
  /\ callseq' = "up"
  /\ UNCHANGED <<f, pc, layout, emitted, ip, sp, dyn, amount, val>>

CallFrameDestroy ==
  /\ callseq = "up"
  /\ sp' = sp + CallFrameAdjustment(amount)
  /\ callseq' = "none"
  /\ amount' = 0
  /\ UNCHANGED <<f, pc, layout, emitted, ip, regs, mem, dyn, val>>

LeaveBody ==
  /\ pc = "body"
  /\ callseq = "none"
  /\ pc' = "epilogue"
  /\ ip' = 1
  /\ UNCHANGED <<f, layout, emitted, sp, regs, mem, dyn, callseq, amount, val>>

\* RET pops the return address, RETI the status register and the return address.
RunEpilogue ==
  /\ pc = "epilogue"
  /\ IF ip <= Len(epilogue)
       THEN Execute(epilogue[ip]) /\ ip' = ip + 1 /\ UNCHANGED pc
       ELSE pc' = "returned" /\ UNCHANGED <<ip, sp, regs, mem>>
  /\ UNCHANGED <<f, layout, emitted, dyn, callseq, amount, val>>

Running == pc \in {"prologue", "body", "epilogue"}

\* An interrupt between two instructions: its handler, whose own registers
\* are restored, uses the stack below SP.
Interrupt ==
  /\ Running
  /\ f.enabled
  /\ mem' = Trashed(sp)
  /\ UNCHANGED <<f, pc, layout, emitted, ip, sp, regs, dyn, callseq, amount, val>>

Next ==
  \/ SpillCalleeSaved
  \/ PlaceFixed
  \/ PlaceCalleeSaved
  \/ PlaceLocal
  \/ FinishLayout
  \/ EmitPrologueEpilogue
  \/ RunPrologue
  \/ WriteVariable
  \/ WriteRegister
  \/ DynamicAlloca
  \/ CallFrameSetup
  \/ StoreArguments
  \/ Call
  \/ CallFrameDestroy
  \/ LeaveBody
  \/ RunEpilogue
  \/ Interrupt

Spec == Init /\ [][Next]_vars

-------------------------------------------------------------------------------
(* Properties *)

\* The types of the variables, and that the stack is deep enough for the run.
TypeOK ==
  /\ f \in Functions
  /\ pc \in {"spill", "fixed", "place", "emit", "prologue", "body", "epilogue", "returned"}
  /\ offset \in Nat /\ placed \in Nat /\ stackSize \in Nat /\ csSize \in Nat
  /\ objOff \in Seq(Int) /\ DOMAIN objOff \subseteq LocalIds
  /\ ip \in Nat
  /\ sp \in (-Depth)..0
  /\ DOMAIN regs = Regs
  /\ DOMAIN mem = (-Depth)..7
  /\ dyn \in Seq((-Depth)..0) /\ Len(dyn) <= MaxAllocas
  /\ callseq \in {"none", "down", "stored", "up"}
  /\ amount \in f.calls \cup {0}
  /\ DOMAIN val = Variables

(***************************************************************************)
(* The address the code computes for a frame index is that of the object,  *)
(* in every state of the body: also where a call sequence or a dynamic     *)
(* alloca has moved SP.                                                    *)
(***************************************************************************)
FrameIndexesResolve ==
  pc = "body" =>
    /\ \A o \in LocalIds : FrameIndex(objOff[o]) = objOff[o] + 2
    /\ \A off \in f.args : FrameIndex(off) = off + 2

(***************************************************************************)
(* Every variable holds what the body last wrote to it, whatever other     *)
(* variables, outgoing arguments, calls and interrupts write.              *)
(***************************************************************************)
VariablesIntact ==
  pc = "body" =>
    \A o \in Allocated : val[o] # Junk =>
      \A x \in Bytes(VariableAddr(o), VariableSize(o)) : mem[x] = val[o]

\* The callee finds its stack arguments where LowerCCCArguments looks for
\* them: just above its return address.
ArgumentsInPlace ==
  callseq = "stored" => \A i \in 0..(amount - 1) : mem[sp + i] = Arg(i)

(***************************************************************************)
(* The function returns with SP at its return address, which is what it    *)
(* was, and with every register its caller relies on as it found it: R4 to *)
(* R10 (test/CodeGen/MSP430/callee-saved.ll), for an interrupt handler all *)
(* of them (interrupt.ll).                                                 *)
(***************************************************************************)
CallerPreserved ==
  pc = "returned" =>
    /\ sp = 0
    /\ mem[0] = Return /\ mem[1] = Return
    /\ \A r \in IF f.intr THEN Regs ELSE 4..10 : regs[r] = Entry(r)

\* No step writes the caller's frame: the bytes from the return address up.
CallerFrameUntouched ==
  [][\A x \in DOMAIN mem : x >= 0 => mem'[x] = mem[x]]_mem

(***************************************************************************)
(* A local has the alignment its alloca asks for (docs/LangRef.rst:8010:   *)
(* "the value result of the allocation is guaranteed to be aligned to at   *)
(* least that boundary").                                                  *)
(***************************************************************************)
LocalsAligned ==
  pc = "body" =>
    \A o \in LocalIds : (f.base + FrameIndex(objOff[o])) % f.locals[o].align = 0
===============================================================================
