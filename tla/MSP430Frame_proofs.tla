--------------------------- MODULE MSP430Frame_proofs ---------------------------
(***************************************************************************)
(* Proofs about the stack frame, for functions with any locals, arguments, *)
(* calls and used registers: frame indexes resolve, nothing clobbers a     *)
(* variable or an outgoing argument, and the caller gets its registers,    *)
(* its stack pointer and its frame back.                                   *)
(***************************************************************************)
EXTENDS MSP430Frame, SequenceTheorems, FiniteSetTheorems, FunctionTheorems, WellFoundedInduction, TLAPS

-------------------------------------------------------------------------------
(* The layout *)

\* SP once FP is pushed, the number of registers saved below it, and where.
Base == IF hasFP THEN -2 ELSE 0

Saved == Len(CSI)

Slot(j) == Base - 2 * (Saved + 1 - j)

\* The room for outgoing arguments at the bottom of the frame.
Reserve == IF hasReservedCallFrame THEN MaxCallFrameSize ELSE 0

Size(o) == f.locals[o].size

\* The locals placed lie below the registers, each below those before it.
Stacked ==
  \A o \in DOMAIN objOff :
    /\ objOff[o] + 2 + Size(o) <= Base - 2 * Saved
    /\ \A u \in DOMAIN objOff : u < o => objOff[o] + Size(o) <= objOff[u]

Placing ==
  /\ placed \in 0..(Saved + Len(f.locals))
  /\ Len(objOff) = IF placed <= Saved THEN 0 ELSE placed - Saved
  /\ offset >= 2 - Base + 2 * (IF placed <= Saved THEN placed ELSE Saved)
  /\ \A o \in DOMAIN objOff : -objOff[o] <= offset

\* The frame ends below its parts.
LaidOut ==
  /\ DOMAIN objOff = LocalIds
  /\ \A o \in LocalIds : Reserve - stackSize <= objOff[o] + 2
  /\ csSize + Reserve <= stackSize + Base

Pushes == [i \in 1..Saved |-> Push(CSI[Saved + 1 - i])]
Pops == [i \in 1..Saved |-> Pop(CSI[i])]

PrologueCode == (IF hasFP THEN <<Push(FP), SetFP>> ELSE <<>>) \o Pushes \o Adjust(-NumBytes)
EpilogueCode ==
  (IF f.var THEN <<SetSP>> \o Adjust(-csSize) ELSE Adjust(NumBytes)) \o Pops
    \o (IF hasFP THEN <<Pop(FP)>> ELSE <<>>)

Compiling == {"spill", "fixed", "place", "emit"}
Executing == {"prologue", "body", "epilogue", "returned"}

LayoutInv ==
  /\ f \in Functions /\ pc \in Compiling \cup Executing
  /\ offset \in Nat /\ placed \in Nat /\ stackSize \in Nat /\ csSize \in Nat
  /\ objOff \in Seq(Int) /\ Stacked
  /\ pc \in {"spill", "fixed"} => placed = 0 /\ objOff = <<>>
  /\ pc # "spill" => csSize = 2 * Saved
  /\ pc \in {"fixed", "place", "emit"} => prologue = Pushes /\ epilogue = Pops
  /\ pc = "place" => Placing
  /\ pc \in {"emit"} \cup Executing => LaidOut
  /\ pc \in Executing => prologue = PrologueCode /\ epilogue = EpilogueCode

-------------------------------------------------------------------------------
(* The run *)

\* Interrupts leave the saved registers alone.
Safe == f.var => ~f.enabled

SavedAt(a, r) == mem[a] = Entry(r) /\ mem[a + 1] = Entry(r)

FPSaved == hasFP => SavedAt(-2, FP)

\* The first k registers pushed, the last of CSI, are in their slots.
Pushed(k) == \A j \in 1..Saved : Saved - j < k => SavedAt(Slot(j), CSI[j])

FPSet == hasFP => regs[FP] = Addr(-2)

\* FP is not looked at when it is the frame pointer.
Others == IF hasFP THEN Regs \ {FP} ELSE Regs

Untouched == \A r \in Others \ Modified : regs[r] = Entry(r)

Restored(k) == \A j \in 1..k : regs[CSI[j]] = Entry(CSI[j])

\* The instructions before the first push of CSI, and before the first pop.
Head0 == IF hasFP THEN 2 ELSE 0

Lead == IF f.var THEN (IF csSize = 0 THEN 1 ELSE 2) ELSE (IF NumBytes = 0 THEN 0 ELSE 1)

BeforePrologue(i) ==
  IF i <= Head0
    THEN /\ i = 1 => sp = 0
         /\ i = 2 => sp = -2 /\ FPSaved
         /\ \A r \in Regs : regs[r] = Entry(r)
    ELSE /\ FPSaved /\ FPSet /\ \A r \in Others : regs[r] = Entry(r)
         /\ LET k == i - 1 - Head0
            IN IF k <= Saved THEN sp = Base - 2 * k /\ Pushed(k)
                             ELSE sp = -stackSize /\ Pushed(Saved)

PrologueInv ==
  pc = "prologue" => ip \in 1..(Len(prologue) + 1) /\ BeforePrologue(ip)

BeforeEpilogue(i) ==
  /\ Untouched
  /\ IF i <= Lead
       THEN /\ i = 1 => f.var \/ sp = -stackSize
            /\ i = 2 => sp = -2
            /\ FPSet /\ (Safe => FPSaved /\ Pushed(Saved))
       ELSE LET k == i - 1 - Lead
            IN IF k <= Saved
                 THEN /\ sp = Base - 2 * (Saved - k)
                      /\ Safe => FPSaved /\ Pushed(Saved - k) /\ Restored(k)
                 ELSE sp = 0 /\ (Safe => Restored(Saved) /\ regs[FP] = Entry(FP))

EpilogueInv ==
  pc = "epilogue" => ip \in 1..(Len(epilogue) + 1) /\ BeforeEpilogue(ip)

ReturnedInv ==
  pc = "returned" => /\ sp = 0 /\ Untouched
                     /\ Safe => Restored(Saved) /\ (hasFP => regs[FP] = Entry(FP))

\* Calls and dynamic allocas are in the body only.
IdleInv ==
  /\ pc # "body" => callseq = "none"
  /\ callseq = "none" => amount = 0
  /\ callseq # "none" => amount \in f.calls
  /\ pc \in Compiling => ip = 1 /\ sp = 0 /\ \A r \in Regs : regs[r] = Entry(r)
  /\ pc \in Compiling \cup {"prologue"} => dyn = <<>> /\ \A o \in Variables : val[o] = Junk

DynInv ==
  /\ Len(dyn) <= MaxAllocas /\ (dyn # <<>> => f.var)
  /\ \A k \in DOMAIN dyn : dyn[k] = -stackSize - 2 * k

BodyInv ==
  pc = "body" =>
    /\ sp = -stackSize - 2 * Len(dyn) - (IF callseq = "none" THEN 0 ELSE CallFrameAdjustment(amount))
    /\ FPSaved /\ Pushed(Saved) /\ FPSet /\ Untouched

\* The variables, by their addresses.
Place(o) == IF o \in LocalIds THEN objOff[o] + 2 ELSE dyn[o - Len(f.locals)]

Holds(o) == val[o] # Junk => \A x \in Bytes(Place(o), VariableSize(o)) : mem[x] = val[o]

ValuesInv ==
  pc = "body" => /\ \A o \in Allocated : Holds(o)
                 /\ \A o \in Variables \ Allocated : val[o] = Junk

MachineTypes ==
  /\ ip \in Nat /\ sp \in Int /\ sp <= 0
  /\ DOMAIN regs = Regs
  /\ DOMAIN mem = (-Depth)..7 /\ \A x \in 0..7 : mem[x] = Return
  /\ dyn \in Seq((-Depth)..0)
  /\ callseq \in {"none", "down", "stored", "up"}
  /\ DOMAIN val = Variables

Inv == /\ LayoutInv /\ MachineTypes /\ IdleInv /\ DynInv
       /\ PrologueInv /\ BodyInv /\ EpilogueInv /\ ReturnedInv
       /\ ValuesInv /\ ArgumentsInPlace
-------------------------------------------------------------------------------
(* Numbers *)

LEMMA AlignToBound ==
  ASSUME NEW x \in Nat, NEW a \in Nat \ {0}
  PROVE  alignTo(x, a) \in Nat /\ alignTo(x, a) >= x
<1> DEFINE y == x + a - 1
           q == y \div a
<1>1. y \in Nat /\ a > 0
  OBVIOUS
<1>2. q \in Nat /\ y < a * (q + 1) /\ a * q \in Nat
  BY <1>1
<1>3. a * (q + 1) = a * q + a /\ q * a = a * q
  BY <1>2
<1> HIDE DEF q
<1>4. q * a \in Nat /\ q * a >= x
  BY <1>2, <1>3
<1> QED BY <1>4 DEF alignTo, q

\* A finite set of numbers has a largest one.
LEMMA Largest ==
  ASSUME NEW S \in SUBSET Nat, IsFiniteSet(S), S # {}
  PROVE  \E m \in S : \A x \in S : x <= m
<1> DEFINE From(m) == {x \in S : x >= m}
           T == {From(m) : m \in S}
<1>1. IsWellFoundedOn(StrictSubsetOrdering(S), SUBSET S)
  BY FS_StrictSubsetOrderingWellFounded, FS_FiniteSubsetsOfFinite
<1>2. T \subseteq SUBSET S /\ T # {}
  OBVIOUS
<1>3. PICK A \in T : \A B \in T : ~(<<B, A>> \in StrictSubsetOrdering(S))
  <2> HIDE DEF T
  <2> QED BY <1>1, <1>2, WFMin
<1>4. PICK m \in S : A = From(m)
  BY <1>3
<1>5. ASSUME NEW x \in S, x > m PROVE FALSE
  <2>0. \A y \in S : y >= x => y >= m
    BY <1>5
  <2>1. From(x) \in T /\ From(x) \subseteq A
    BY <1>4, <2>0
  <2>3. m \in A /\ m \notin From(x)
    BY <1>4, <1>5
  <2>2. <<From(x), A>> \in StrictSubsetOrdering(S)
    BY <2>1, <2>3, <1>2, <1>3 DEF StrictSubsetOrdering
  <2> QED BY <2>2, <1>3
<1> QED BY <1>5

-------------------------------------------------------------------------------
(* The registers saved *)

Worth == CalleeSavedRegs \cap Modified

\* A sequence of registers to be saved in rising order, all below n.
Rising(s, n) ==
  /\ s \in Seq(Worth)
  /\ \A i \in 1..Len(s) : s[i] < n
  /\ \A i, j \in 1..Len(s) : i < j => s[i] < s[j]

\* It has all of them.
All(s, n) == \A r \in Worth : r < n => \E i \in 1..Len(s) : s[i] = r

LEMMA WorthRegs == Worth \subseteq 4..15
BY DEF Worth, CalleeSavedRegs, FP

LEMMA RisingAppended ==
  ASSUME NEW s, NEW n \in 4..15, Rising(s, n), All(s, n)
  PROVE  Rising(s \o IfSaved(n), n + 1) /\ All(s \o IfSaved(n), n + 1)
<1> DEFINE t == IfSaved(n)
<1>1. s \in Seq(Worth) /\ Worth \subseteq Int /\ n \in Int
  BY WorthRegs DEF Rising
<1>2. Len(s) \in Nat /\ \A i \in 1..Len(s) : s[i] \in Worth
  BY <1>1, LenProperties
<1>3. \A i \in 1..Len(s) : s[i] < n
  BY DEF Rising
<1>4. \A i, j \in 1..Len(s) : i < j => s[i] < s[j]
  BY DEF Rising
<1>5. \A r \in Worth : r < n => \E i \in 1..Len(s) : s[i] = r
  BY DEF All
<1>6. CASE n \in Worth
  <2>1. t = <<n>> /\ t \in Seq(Worth) /\ Len(t) = 1 /\ t[1] = n
    BY <1>6 DEF IfSaved, Worth
  <2>2. /\ s \o t \in Seq(Worth) /\ Len(s \o t) = Len(s) + 1
        /\ \A i \in 1..(Len(s) + 1) : (s \o t)[i] = IF i <= Len(s) THEN s[i] ELSE t[i - Len(s)]
    BY <1>1, <2>1, ConcatProperties
  <2> HIDE DEF t
  <2>3. PICK u : u = s \o t
    OBVIOUS
  <2>4. /\ \A i \in 1..Len(s) : i \in 1..(Len(s) + 1) /\ u[i] = s[i] /\ u[i] \in Int
        /\ Len(s) + 1 \in 1..(Len(s) + 1) /\ u[Len(s) + 1] = n
    <3>1. \A i \in 1..Len(s) : i \in 1..(Len(s) + 1) /\ i <= Len(s)
      BY <1>2
    <3>2. Len(s) + 1 \in 1..(Len(s) + 1) /\ ~(Len(s) + 1 <= Len(s)) /\ (Len(s) + 1) - Len(s) = 1
      BY <1>2
    <3>3. u[Len(s) + 1] = t[1]
      BY <2>2, <2>3, <3>2
    <3>4. \A i \in 1..Len(s) : u[i] = s[i]
      BY <2>2, <2>3, <3>1
    <3> QED BY <1>1, <1>2, <2>1, <3>1, <3>2, <3>3, <3>4
  <2>5. \A i \in 1..(Len(s) + 1) : i \in 1..Len(s) \/ i = Len(s) + 1
    BY <1>2
  <2>6. \A i \in 1..Len(s) : u[i] < n + 1
    BY <1>1, <1>3, <2>4
  <2>7. \A i \in 1..(Len(s) + 1) : u[i] < n + 1
    BY <1>1, <2>4, <2>5, <2>6
  <2>8. \A i, j \in 1..(Len(s) + 1) : i < j => u[i] < u[j]
    <3> SUFFICES ASSUME NEW i \in 1..(Len(s) + 1), NEW j \in 1..(Len(s) + 1), i < j
                 PROVE  u[i] < u[j]
      OBVIOUS
    <3>1. i \in 1..Len(s)
      BY <1>2
    <3>2. CASE j \in 1..Len(s)
      BY <1>4, <2>4, <3>1, <3>2
    <3>3. CASE j = Len(s) + 1
      BY <1>3, <2>4, <3>1, <3>3
    <3> QED BY <2>5, <3>2, <3>3
  <2>9. \A r \in Worth : r < n + 1 => \E i \in 1..(Len(s) + 1) : u[i] = r
    <3> SUFFICES ASSUME NEW r \in Worth, r < n + 1 PROVE \E i \in 1..(Len(s) + 1) : u[i] = r
      OBVIOUS
    <3>1. CASE r < n
      BY <1>5, <2>4, <3>1
    <3>2. CASE r = n
      BY <2>4, <3>2
    <3> QED BY <1>1, <3>1, <3>2
  <2>10. Rising(u, n + 1) /\ All(u, n + 1)
    BY <2>2, <2>3, <2>7, <2>8, <2>9 DEF Rising, All
  <2> QED BY <2>3, <2>10 DEF t
<1>7. CASE n \notin Worth
  <2>1. t = <<>> /\ s \o t = s
    BY <1>1, <1>7, ConcatEmptySeq DEF IfSaved, Worth
  <2>2. Rising(s, n + 1)
    <3>1. \A i \in 1..Len(s) : s[i] \in Int /\ s[i] < n
      BY <1>1, <1>2, <1>3
    <3>2. \A i \in 1..Len(s) : s[i] < n + 1
      BY <1>1, <3>1
    <3> QED BY <1>1, <1>4, <3>2 DEF Rising
  <2>3. All(s, n + 1)
    BY <1>1, <1>7 DEF All
  <2> QED BY <2>1, <2>2, <2>3
<1> QED BY <1>6, <1>7

\* The list has every register to be saved, once.
LEMMA SavedRegisters ==
  /\ CSI \in Seq(Worth) /\ Saved \in Nat /\ CSI \in [1..Saved -> Worth]
  /\ DOMAIN CSI = 1..Saved
  /\ \A i, j \in 1..Saved : CSI[i] = CSI[j] => i = j
  /\ \A r \in Worth : \E i \in 1..Saved : CSI[i] = r
<1> DEFINE Good(s, n) == Rising(s, n) /\ All(s, n)
<1>1. Good(<<>>, 4)
  BY WorthRegs DEF Rising, All
<1>2. \A s : \A n \in 4..15 : Good(s, n) => Good(s \o IfSaved(n), n + 1)
  BY RisingAppended
<1>3. <<>> \o IfSaved(4) = IfSaved(4)
  BY ConcatEmptySeq DEF IfSaved
<1> DEFINE s5 == IfSaved(4)
           s6 == s5 \o IfSaved(5)
           s7 == s6 \o IfSaved(6)
           s8 == s7 \o IfSaved(7)
           s9 == s8 \o IfSaved(8)
           s10 == s9 \o IfSaved(9)
           s11 == s10 \o IfSaved(10)
           s12 == s11 \o IfSaved(11)
           s13 == s12 \o IfSaved(12)
           s14 == s13 \o IfSaved(13)
           s15 == s14 \o IfSaved(14)
<1> HIDE DEF Good
<1>4. 4 \in 4..15 /\ 4 + 1 = 5
  OBVIOUS
<1>5. Good(s5, 5)
  BY <1>1, <1>2, <1>3, <1>4
<1>6. Good(s6, 6)
  BY <1>2, <1>5
<1>7. Good(s7, 7)
  BY <1>2, <1>6
<1>8. Good(s8, 8)
  BY <1>2, <1>7
<1>9. Good(s9, 9)
  BY <1>2, <1>8
<1>10. Good(s10, 10)
  BY <1>2, <1>9
<1>11. Good(s11, 11)
  BY <1>2, <1>10
<1>12. Good(s12, 12)
  BY <1>2, <1>11
<1>13. Good(s13, 13)
  BY <1>2, <1>12
<1>14. Good(s14, 14)
  BY <1>2, <1>13
<1>15. Good(s15, 15)
  BY <1>2, <1>14
<1>16. Good(s15 \o IfSaved(15), 16)
  BY <1>2, <1>15
<1>17. Rising(CSI, 16) /\ All(CSI, 16)
  BY <1>16 DEF Good, CSI
<1>18. /\ CSI \in Seq(Worth) /\ Saved \in Nat /\ CSI \in [1..Saved -> Worth]
       /\ DOMAIN CSI = 1..Saved
  BY <1>17, LenProperties DEF Rising, Saved
<1>19. \A i, j \in 1..Saved : i < j => CSI[i] < CSI[j]
  BY <1>17 DEF Rising, Saved
<1>20. ASSUME NEW i \in 1..Saved, NEW j \in 1..Saved, CSI[i] = CSI[j] PROVE i = j
  <2>0. CSI[i] \in 4..15
    BY <1>18, WorthRegs
  <2>1. ~(CSI[i] < CSI[j]) /\ ~(CSI[j] < CSI[i])
    BY <1>20, <2>0
  <2>2. ~(i < j) /\ ~(j < i)
    BY <1>19, <2>1
  <2> QED BY <1>18, <2>2
<1>21. \A r \in Worth : \E i \in 1..Saved : CSI[i] = r
  BY <1>17, WorthRegs DEF All, Saved
<1> QED BY <1>18, <1>20, <1>21

-------------------------------------------------------------------------------
(* The function *)

LEMMA FunctionTypes ==
  ASSUME f \in Functions
  PROVE  /\ f.locals \in Seq([size : Nat, align : Nat \ {0}])
         /\ f.calls \in SUBSET Nat /\ IsFiniteSet(f.calls)
         /\ f.uses \in SUBSET Regs /\ f.args \in SUBSET Nat
         /\ f.var \in BOOLEAN /\ f.intr \in BOOLEAN /\ f.enabled \in BOOLEAN
         /\ hasFP \in BOOLEAN /\ (hasFP => FP \notin f.uses)
BY FunctionsAssumption DEF Function, hasFP

LEMMA LocalTypes ==
  ASSUME f \in Functions
  PROVE  /\ Len(f.locals) \in Nat /\ LocalIds = 1..Len(f.locals)
         /\ \A o \in LocalIds : /\ Size(o) \in Nat /\ f.locals[o].size \in Nat
                                /\ f.locals[o].align \in Nat \ {0}
<1>1. f.locals \in Seq([size : Nat, align : Nat \ {0}])
  BY FunctionTypes
<1>2. /\ Len(f.locals) \in Nat /\ DOMAIN f.locals = 1..Len(f.locals)
      /\ f.locals \in [1..Len(f.locals) -> [size : Nat, align : Nat \ {0}]]
  BY <1>1, LenProperties
<1>3. ASSUME NEW o \in 1..Len(f.locals)
      PROVE  f.locals[o].size \in Nat /\ f.locals[o].align \in Nat \ {0}
  BY <1>2
<1> QED BY <1>2, <1>3 DEF LocalIds, Size

LEMMA MaxCallFrameType ==
  ASSUME f \in Functions
  PROVE  MaxCallFrameSize \in Nat /\ \A c \in f.calls : c <= MaxCallFrameSize
<1> DEFINE S == f.calls \cup {0}
<1>1. S \in SUBSET Nat /\ IsFiniteSet(S) /\ S # {}
  <2>1. f.calls \in SUBSET Nat /\ IsFiniteSet(f.calls)
    BY FunctionTypes
  <2>2. IsFiniteSet(f.calls \cup {0})
    BY <2>1, FS_AddElement, Zenon
  <2> QED BY <2>1, <2>2
<1>2. \E m \in S : \A c \in S : c <= m
  BY <1>1, Largest
<1>3. \E m \in f.calls \cup {0} : \A c \in f.calls : c <= m
  BY <1>2
<1>4. MaxCallFrameSize \in S /\ \A c \in f.calls : c <= MaxCallFrameSize
  BY <1>3 DEF MaxCallFrameSize
<1> QED BY <1>1, <1>4

LEMMA MaxAlignType == ASSUME f \in Functions PROVE MaxAlign \in Nat \ {0}
<1> DEFINE aligns == {f.locals[i].align : i \in DOMAIN f.locals}
           g == [i \in LocalIds |-> f.locals[i].align]
<1>1. LocalIds = DOMAIN f.locals /\ IsFiniteSet(LocalIds)
  BY LocalTypes, FS_Interval DEF LocalIds
<1>2. g \in Surjection(LocalIds, aligns)
  <2>1. g \in [LocalIds -> aligns] /\ \A t \in aligns : \E i \in LocalIds : g[i] = t
    BY <1>1
  <2> HIDE DEF g, aligns
  <2> QED BY <2>1, Fun_IsSurj
<1>3. IsFiniteSet(aligns)
  <2> HIDE DEF g, aligns
  <2> QED BY <1>1, <1>2, FS_Surjection
<1> HIDE DEF aligns
<1>4. aligns \cup {2} \subseteq Nat \ {0}
  <2>1. aligns \subseteq Nat \ {0}
    BY <1>1, LocalTypes DEF aligns
  <2>2. 2 \in Nat \ {0}
    OBVIOUS
  <2> QED BY <2>1, <2>2, Zenon
<1> DEFINE S == aligns \cup {2}
<1>5. S \in SUBSET Nat /\ IsFiniteSet(S) /\ S # {}
  <2>1. IsFiniteSet(aligns \cup {2})
    BY <1>3, FS_AddElement, Zenon
  <2> QED BY <1>4, <2>1, Zenon
<1>6. \E m \in S : \A a \in S : a <= m
  BY <1>5, Largest
<1>7. \E m \in aligns \cup {2} : \A a \in aligns : a <= m
  BY <1>6
<1>8. MaxAlign = CHOOSE m \in aligns \cup {2} : \A a \in aligns : a <= m
  BY DEF MaxAlign, aligns
<1>9. MaxAlign \in aligns \cup {2}
  BY <1>7, <1>8, Zenon
<1> QED BY <1>4, <1>9, Zenon

LEMMA FrameTypes ==
  ASSUME f \in Functions
  PROVE  /\ Base \in Int /\ (hasFP => Base = -2) /\ (~hasFP => Base = 0)
         /\ Reserve \in Nat /\ Saved \in Nat
         /\ (f.var => hasFP /\ Reserve = 0) /\ (~f.var => Reserve = MaxCallFrameSize)
BY FunctionTypes, MaxCallFrameType, SavedRegisters DEF Base, Reserve, hasFP, hasReservedCallFrame

\* What depends on the function alone.
LEMMA FunctionSame ==
  ASSUME f' = f
  PROVE  /\ Base' = Base /\ CSI' = CSI /\ Saved' = Saved /\ Reserve' = Reserve /\ hasFP' = hasFP
         /\ Pushes' = Pushes /\ Pops' = Pops /\ LocalIds' = LocalIds /\ Variables' = Variables
         /\ Modified' = Modified /\ Others' = Others /\ Head0' = Head0
         /\ (hasReservedCallFrame' <=> hasReservedCallFrame)
         /\ \A o : Size(o)' = Size(o)
<1>1. hasFP' = hasFP /\ Modified' = Modified /\ hasReservedCallFrame' = hasReservedCallFrame
  BY DEF hasFP, Modified, hasReservedCallFrame
<1>2. CalleeSavedRegs' = CalleeSavedRegs
  BY <1>1 DEF CalleeSavedRegs, FP
<1>3. \A r : IfSaved(r)' = IfSaved(r)
  BY <1>1, <1>2 DEF IfSaved
<1>4. CSI' = CSI
  BY <1>3 DEF CSI
<1>5. Saved' = Saved /\ Base' = Base /\ Pushes' = Pushes /\ Pops' = Pops
  BY <1>1, <1>4 DEF Saved, Base, Pushes, Pops, Push, Pop
<1>6. Reserve' = Reserve
  BY <1>1 DEF Reserve, MaxCallFrameSize
<1> QED BY <1>1, <1>4, <1>5, <1>6 DEF LocalIds, Variables, Others, Head0, Size, FP, Regs

LEMMA LayoutSame ==
  ASSUME f' = f, UNCHANGED layout
  PROVE  /\ PrologueCode' = PrologueCode /\ EpilogueCode' = EpilogueCode
         /\ Lead' = Lead /\ (LaidOut' <=> LaidOut) /\ (Stacked' <=> Stacked)
         /\ NumBytes' = NumBytes
<1>1. /\ Base' = Base /\ Saved' = Saved /\ Reserve' = Reserve /\ hasFP' = hasFP
      /\ Pushes' = Pushes /\ Pops' = Pops /\ LocalIds' = LocalIds /\ \A o : Size(o)' = Size(o)
  BY FunctionSame
<1>2. UNCHANGED <<offset, placed, objOff, stackSize, csSize>>
  BY DEF layout
<1>3. NumBytes' = NumBytes
  BY <1>1, <1>2 DEF NumBytes
<1>4. PrologueCode' = PrologueCode
  BY <1>1, <1>3 DEF PrologueCode, Push, SetFP, Adjust, AddSP, FP
<1>5. EpilogueCode' = EpilogueCode /\ Lead' = Lead
  BY <1>1, <1>2, <1>3 DEF EpilogueCode, Lead, Pop, SetSP, Adjust, AddSP, FP
<1>6. (Stacked' <=> Stacked) /\ (LaidOut' <=> LaidOut)
  BY <1>1, <1>2 DEF Stacked, LaidOut
<1> QED BY <1>3, <1>4, <1>5, <1>6

-------------------------------------------------------------------------------
(* The layout is laid out *)

LEMMA InitLayout == Init => LayoutInv
<1> SUFFICES ASSUME Init PROVE LayoutInv
  OBVIOUS
<1>1. objOff = <<>> /\ objOff \in Seq(Int) /\ DOMAIN objOff = {}
  BY DEF Init
<1>2. Stacked
  BY <1>1 DEF Stacked
<1> QED BY <1>1, <1>2 DEF Init, LayoutInv, Compiling, Executing

LEMMA SpillLayout ==
  ASSUME LayoutInv, SpillCalleeSaved
  PROVE  LayoutInv'
<1>1. /\ pc = "spill" /\ pc' = "fixed" /\ csSize' = 2 * Len(CSI)
      /\ prologue' = [i \in DOMAIN CSI |-> Push(CSI[Len(CSI) + 1 - i])]
      /\ epilogue' = [i \in DOMAIN CSI |-> Pop(CSI[i])]
      /\ f' = f /\ offset' = offset /\ placed' = placed /\ objOff' = objOff /\ stackSize' = stackSize
  BY DEF SpillCalleeSaved
<1>2. DOMAIN CSI = 1..Saved /\ Saved \in Nat /\ Len(CSI) = Saved
  BY SavedRegisters DEF Saved
<1>3. prologue' = Pushes /\ epilogue' = Pops
  BY <1>1, <1>2 DEF Pushes, Pops
<1>4. /\ Saved' = Saved /\ Pushes' = Pushes /\ Pops' = Pops /\ Base' = Base
      /\ \A o : Size(o)' = Size(o)
  BY <1>1, FunctionSame
<1>5. Stacked'
  BY <1>1, <1>4 DEF LayoutInv, Stacked
<1> QED BY <1>1, <1>2, <1>3, <1>4, <1>5 DEF LayoutInv, Compiling, Executing

\* Steps that change no layout: what they must do with pc.
LEMMA StillLayout ==
  ASSUME LayoutInv, f' = f, UNCHANGED layout, UNCHANGED emitted,
         \/ pc' = pc
         \/ pc \in Executing /\ pc' \in Executing
  PROVE  LayoutInv'
<1>1. /\ UNCHANGED <<offset, placed, objOff, stackSize, csSize>> /\ UNCHANGED <<prologue, epilogue>>
  BY DEF layout, emitted
<1>2. /\ Base' = Base /\ Saved' = Saved /\ Pushes' = Pushes /\ Pops' = Pops
      /\ PrologueCode' = PrologueCode /\ EpilogueCode' = EpilogueCode
      /\ (LaidOut' <=> LaidOut) /\ (Stacked' <=> Stacked)
  BY FunctionSame, LayoutSame
<1>3. pc' = "place" /\ Placing => Placing'
  BY <1>1, <1>2 DEF Placing
<1>4. /\ pc' \in Compiling \cup Executing
      /\ pc' \in {"spill", "fixed"} => pc = pc'
      /\ pc' = "place" => pc = pc'
      /\ pc' \in {"fixed", "place", "emit"} => pc = pc'
      /\ pc' \in Executing => pc \in Executing
      /\ pc' # "spill" => pc # "spill"
      /\ pc' \in {"emit"} \cup Executing => pc \in {"emit"} \cup Executing
  BY DEF LayoutInv, Compiling, Executing
<1> QED BY <1>1, <1>2, <1>3, <1>4 DEF LayoutInv

LEMMA PlaceFixedLayout ==
  ASSUME LayoutInv, PlaceFixed
  PROVE  LayoutInv'
<1>1. /\ pc = "fixed" /\ pc' = "place" /\ offset' = IF hasFP THEN 4 ELSE 2
      /\ UNCHANGED <<f, placed, objOff, stackSize, csSize, prologue, epilogue>>
  BY DEF PlaceFixed, emitted
<1>2. /\ Saved' = Saved /\ Pushes' = Pushes /\ Pops' = Pops /\ Base' = Base /\ hasFP' = hasFP
      /\ \A o : Size(o)' = Size(o)
  BY <1>1, FunctionSame
<1>3. Stacked'
  BY <1>1, <1>2 DEF LayoutInv, Stacked
<1>4. placed = 0 /\ objOff = <<>> /\ Len(objOff) = 0 /\ DOMAIN objOff = {} /\ f \in Functions
  BY <1>1 DEF LayoutInv
<1>5. Len(f.locals) \in Nat /\ Saved \in Nat /\ offset' = 2 - Base /\ offset' \in Nat
  BY <1>1, <1>4, LocalTypes, FrameTypes
<1>6. Placing'
  <2>1. placed' = 0 /\ Len(objOff') = 0 /\ DOMAIN objOff' = {} /\ f'.locals = f.locals
    BY <1>1, <1>4
  <2>2. 0 \in 0..(Saved + Len(f.locals)) /\ 0 <= Saved
    BY <1>5
  <2> QED BY <1>2, <1>5, <2>1, <2>2 DEF Placing
<1> QED BY <1>1, <1>2, <1>3, <1>5, <1>6 DEF LayoutInv, Compiling, Executing

LEMMA PlaceCalleeSavedLayout ==
  ASSUME LayoutInv, PlaceCalleeSaved
  PROVE  LayoutInv'
<1>1. /\ pc = "place" /\ pc' = "place" /\ placed < Saved /\ placed' = placed + 1
      /\ offset' = alignTo(offset + 2, 2)
      /\ UNCHANGED <<f, objOff, stackSize, csSize, prologue, epilogue>>
  BY DEF PlaceCalleeSaved, emitted, Saved
<1>2. /\ Saved' = Saved /\ Pushes' = Pushes /\ Pops' = Pops /\ Base' = Base
      /\ \A o : Size(o)' = Size(o)
  BY <1>1, FunctionSame
<1>3. Stacked'
  BY <1>1, <1>2 DEF LayoutInv, Stacked
<1>4. Placing /\ offset \in Nat /\ f \in Functions /\ placed \in Nat
  BY <1>1 DEF LayoutInv
<1>5. Len(f.locals) \in Nat /\ Saved \in Nat /\ Base \in Int
  BY <1>4, LocalTypes, FrameTypes
<1>6. offset' \in Nat /\ offset' >= offset + 2
  BY <1>1, <1>4, AlignToBound
<1>7. Placing'
  <2>1. placed' \in 0..(Saved + Len(f.locals)) /\ placed' <= Saved /\ f'.locals = f.locals
    BY <1>1, <1>4, <1>5
  <2>2. Len(objOff') = 0 /\ offset' >= 2 - Base + 2 * placed'
    BY <1>1, <1>4, <1>5, <1>6 DEF Placing
  <2>3. objOff \in Seq(Int) /\ Len(objOff) = 0
    BY <1>1, <2>2 DEF LayoutInv
  <2>4. DOMAIN objOff' = {}
    BY <1>1, <2>3, LenProperties
  <2> QED BY <1>2, <2>1, <2>2, <2>4 DEF Placing
<1>8. placed' \in Nat
  BY <1>1, <1>4
<1> QED BY <1>1, <1>2, <1>3, <1>6, <1>7, <1>8 DEF LayoutInv, Compiling, Executing

LEMMA PlaceLocalLayout ==
  ASSUME LayoutInv, PlaceLocal
  PROVE  LayoutInv'
<1> DEFINE o == placed + 1 - Saved
<1>1. /\ pc = "place" /\ pc' = "place" /\ placed \in Saved..(Saved + Len(f.locals) - 1)
      /\ placed' = placed + 1 /\ objOff' = Append(objOff, -offset')
      /\ offset' = alignTo(offset + Size(o), f.locals[o].align)
      /\ UNCHANGED <<f, stackSize, csSize, prologue, epilogue>>
  BY DEF PlaceLocal, emitted, Saved, Size
<1>2. /\ Saved' = Saved /\ Pushes' = Pushes /\ Pops' = Pops /\ Base' = Base
      /\ \A u : Size(u)' = Size(u)
  BY <1>1, FunctionSame
<1>3. Placing /\ offset \in Nat /\ f \in Functions /\ placed \in Nat /\ objOff \in Seq(Int) /\ Stacked
  BY <1>1 DEF LayoutInv
<1>4. Len(f.locals) \in Nat /\ Saved \in Nat /\ Base \in Int /\ LocalIds = 1..Len(f.locals)
  BY <1>3, LocalTypes, FrameTypes
<1>5. o \in LocalIds /\ o \in Nat
  BY <1>1, <1>3, <1>4
<1>6. Size(o) \in Nat /\ f.locals[o].align \in Nat \ {0}
  BY <1>3, <1>5, LocalTypes
<1> HIDE DEF o
<1>7. offset' \in Nat /\ offset' >= offset + Size(o)
  <2>1. offset + Size(o) \in Nat
    BY <1>3, <1>6
  <2>2. /\ alignTo(offset + Size(o), f.locals[o].align) \in Nat
        /\ alignTo(offset + Size(o), f.locals[o].align) >= offset + Size(o)
    BY <1>6, <2>1, AlignToBound
  <2> QED BY <1>1, <2>2
<1>8. /\ objOff' \in Seq(Int) /\ Len(objOff') = Len(objOff) + 1 /\ objOff'[Len(objOff) + 1] = -offset'
      /\ \A u \in 1..Len(objOff) : objOff'[u] = objOff[u]
  BY <1>1, <1>3, <1>7, AppendProperties
<1>9. Len(objOff) + 1 = o /\ placed >= Saved
  <2>1. Len(objOff) = placed - Saved
    BY <1>1, <1>3, <1>4 DEF Placing
  <2> QED BY <1>1, <1>3, <1>4, <2>1 DEF o
<1>10. /\ DOMAIN objOff = 1..(o - 1) /\ DOMAIN objOff' = 1..o /\ objOff'[o] = -offset'
       /\ \A u \in DOMAIN objOff : objOff'[u] = objOff[u] /\ objOff[u] \in Int
  <2>1. Len(objOff) = o - 1 /\ Len(objOff') = o
    BY <1>5, <1>8, <1>9, <1>3, LenProperties
  <2> QED BY <1>3, <1>8, <1>9, <2>1, LenProperties
<1>11. /\ \A u \in DOMAIN objOff : -objOff[u] <= offset
       /\ offset >= 2 - Base + 2 * Saved
  BY <1>1, <1>3, <1>4 DEF Placing
<1>12. \A u \in DOMAIN objOff' : u = o \/ u \in DOMAIN objOff
  BY <1>5, <1>10
<1>13. Stacked'
  <2>1. -offset' + 2 + Size(o) <= Base - 2 * Saved
    BY <1>3, <1>4, <1>6, <1>7, <1>11
  <2>2. \A u \in DOMAIN objOff : -offset' + Size(o) <= objOff[u]
    BY <1>3, <1>6, <1>7, <1>10, <1>11
  <2>3. ~(o < o) /\ \A u \in DOMAIN objOff : u < o /\ ~(o < u)
    BY <1>5, <1>10
  <2> SUFFICES ASSUME NEW v \in DOMAIN objOff'
               PROVE  /\ objOff'[v] + 2 + Size(v) <= Base - 2 * Saved
                      /\ \A u \in DOMAIN objOff' : u < v => objOff'[v] + Size(v) <= objOff'[u]
    BY <1>2 DEF Stacked
  <2>4. CASE v = o
    BY <1>10, <1>12, <2>1, <2>2, <2>3, <2>4
  <2>5. CASE v \in DOMAIN objOff
    BY <1>3, <1>10, <1>12, <2>3, <2>5 DEF Stacked
  <2> QED BY <1>12, <2>4, <2>5
<1>14. Placing'
  <2>1. placed' \in 0..(Saved + Len(f.locals)) /\ placed' > Saved /\ f'.locals = f.locals
    BY <1>1, <1>3, <1>4
  <2>2. Len(objOff') = placed' - Saved
    BY <1>1, <1>3, <1>4, <1>5, <1>8, <1>9 DEF o
  <2>3. offset' >= 2 - Base + 2 * Saved
    BY <1>3, <1>4, <1>6, <1>7, <1>11
  <2>4. \A u \in DOMAIN objOff' : -objOff'[u] <= offset'
    BY <1>3, <1>6, <1>7, <1>10, <1>11, <1>12
  <2>5. ~(placed' <= Saved)
    BY <1>4, <2>1
  <2> QED BY <1>2, <2>1, <2>2, <2>3, <2>4, <2>5 DEF Placing
<1>15. placed' \in Nat
  BY <1>1, <1>3
<1> QED BY <1>1, <1>2, <1>7, <1>8, <1>13, <1>14, <1>15 DEF LayoutInv, Compiling, Executing

LEMMA FinishLayoutLayout ==
  ASSUME LayoutInv, FinishLayout
  PROVE  LayoutInv'
<1>1. /\ pc = "place" /\ pc' = "emit" /\ placed = Saved + Len(f.locals)
      /\ offset' = alignTo(offset + Reserve, MaxAlign) /\ stackSize' = offset' - 2
      /\ UNCHANGED <<f, placed, objOff, csSize, prologue, epilogue>>
  BY DEF FinishLayout, emitted, Saved, Reserve
<1>2. /\ Saved' = Saved /\ Pushes' = Pushes /\ Pops' = Pops /\ Base' = Base /\ Reserve' = Reserve
      /\ LocalIds' = LocalIds /\ \A u : Size(u)' = Size(u)
  BY <1>1, FunctionSame
<1>3. /\ Placing /\ offset \in Nat /\ f \in Functions /\ objOff \in Seq(Int) /\ Stacked
      /\ csSize = 2 * Saved
  BY <1>1 DEF LayoutInv
<1>4. Len(f.locals) \in Nat /\ Saved \in Nat /\ LocalIds = 1..Len(f.locals)
  BY <1>3, LocalTypes, FrameTypes
<1>5. Reserve \in Nat /\ MaxAlign \in Nat \ {0} /\ Base \in {-2, 0}
  BY <1>3, FrameTypes, FunctionTypes, MaxAlignType
<1>6. offset' \in Nat /\ offset' >= offset + Reserve
  <2>1. offset + Reserve \in Nat
    BY <1>3, <1>5
  <2>2. /\ alignTo(offset + Reserve, MaxAlign) \in Nat
        /\ alignTo(offset + Reserve, MaxAlign) >= offset + Reserve
    BY <1>5, <2>1, AlignToBound
  <2> QED BY <1>1, <2>2
<1>7. DOMAIN objOff = LocalIds
  <2>1. Len(objOff) = Len(f.locals)
    BY <1>1, <1>3, <1>4 DEF Placing
  <2> QED BY <1>3, <1>4, <2>1, LenProperties
<1>8. /\ \A u \in LocalIds : -objOff[u] <= offset /\ objOff[u] \in Int
      /\ offset >= 2 - Base + 2 * Saved
  <2>1. offset >= 2 - Base + 2 * Saved
    BY <1>1, <1>3, <1>4 DEF Placing
  <2> QED BY <1>3, <1>4, <1>7, <2>1, LenProperties DEF Placing
<1>9. stackSize' \in Nat /\ csSize + Reserve <= stackSize' + Base
  BY <1>1, <1>3, <1>4, <1>5, <1>6, <1>8
<1>10. ASSUME NEW u \in LocalIds PROVE Reserve - stackSize' <= objOff[u] + 2
  <2>1. objOff[u] \in Int /\ -objOff[u] <= offset /\ offset \in Nat
    BY <1>3, <1>8
  <2>2. offset' \in Int /\ Reserve \in Int /\ offset' >= offset + Reserve
    BY <1>5, <1>6
  <2>3. \A x, r, m, n \in Int : -x <= m /\ n >= m + r => r - (n - 2) <= x + 2
    OBVIOUS
  <2> QED BY <1>1, <2>1, <2>2, <2>3
<1>11. Stacked' /\ LaidOut'
  BY <1>1, <1>2, <1>3, <1>7, <1>9, <1>10 DEF Stacked, LaidOut
<1> QED BY <1>1, <1>2, <1>6, <1>9, <1>11 DEF LayoutInv, Compiling, Executing

LEMMA EmitLayout ==
  ASSUME LayoutInv, EmitPrologueEpilogue
  PROVE  LayoutInv'
<1>1. /\ pc = "emit" /\ pc' = "prologue" /\ prologue' = emitPrologue /\ epilogue' = emitEpilogue
      /\ f' = f /\ UNCHANGED layout
  BY DEF EmitPrologueEpilogue
<1>2. prologue = Pushes /\ epilogue = Pops
  BY <1>1 DEF LayoutInv
<1>3. prologue' = PrologueCode /\ epilogue' = EpilogueCode
  BY <1>1, <1>2 DEF emitPrologue, emitEpilogue, PrologueCode, EpilogueCode
<1>4. /\ Saved' = Saved /\ PrologueCode' = PrologueCode /\ EpilogueCode' = EpilogueCode
      /\ (LaidOut' <=> LaidOut) /\ (Stacked' <=> Stacked)
  BY <1>1, FunctionSame, LayoutSame
<1>5. UNCHANGED <<offset, placed, objOff, stackSize, csSize>>
  BY <1>1 DEF layout
<1> QED BY <1>1, <1>3, <1>4, <1>5 DEF LayoutInv, Compiling, Executing

\* The steps of the run do nothing to the layout.
RunStep ==
  \/ RunPrologue \/ WriteVariable \/ WriteRegister \/ DynamicAlloca \/ CallFrameSetup
  \/ StoreArguments \/ Call \/ CallFrameDestroy \/ LeaveBody \/ RunEpilogue \/ Interrupt

LEMMA RunStepLayout ==
  ASSUME LayoutInv, RunStep
  PROVE  f' = f /\ UNCHANGED layout /\ UNCHANGED emitted /\ LayoutInv'
<1>1. f' = f /\ UNCHANGED layout /\ UNCHANGED emitted
  BY DEF RunStep, RunPrologue, WriteVariable, WriteRegister, DynamicAlloca, CallFrameSetup,
         StoreArguments, Call, CallFrameDestroy, LeaveBody, RunEpilogue, Interrupt
<1>2. pc' = pc \/ (pc \in Executing /\ pc' \in Executing)
  BY DEF RunStep, RunPrologue, WriteVariable, WriteRegister, DynamicAlloca, CallFrameSetup,
         StoreArguments, Call, CallFrameDestroy, LeaveBody, RunEpilogue, Interrupt, Executing
<1> QED BY <1>1, <1>2, StillLayout

-------------------------------------------------------------------------------
(* The code *)

Instrs == [op : {"push", "pop", "setfp", "setsp", "addsp"}, n : Int]

LEMMA InstrTypes ==
  /\ SetFP \in Instrs /\ SetSP \in Instrs
  /\ \A k \in Int : Push(k) \in Instrs /\ Pop(k) \in Instrs /\ AddSP(k) \in Instrs
BY DEF Instrs, SetFP, SetSP, Push, Pop, AddSP

LEMMA SavedTypes ==
  /\ Saved \in Nat
  /\ \A i \in 1..Saved : /\ CSI[i] \in Worth /\ CSI[i] \in 4..15 /\ CSI[i] \in Int
                        /\ Saved + 1 - i \in 1..Saved
<1>1. Saved \in Nat /\ CSI \in [1..Saved -> Worth]
  BY SavedRegisters
<1>2. \A i \in 1..Saved : CSI[i] \in Worth
  BY <1>1
<1>3. \A i \in 1..Saved : CSI[i] \in 4..15
  BY <1>2, WorthRegs
<1> QED BY <1>1, <1>2, <1>3

LEMMA Concat3 ==
  ASSUME NEW S, NEW a \in Seq(S), NEW b \in Seq(S), NEW c \in Seq(S), NEW d, d = a \o b \o c
  PROVE  /\ d \in Seq(S) /\ Len(d) = Len(a) + Len(b) + Len(c)
         /\ Len(a) \in Nat /\ Len(b) \in Nat /\ Len(c) \in Nat
         /\ \A i \in 1..Len(a) : d[i] = a[i]
         /\ \A i \in 1..Len(b) : d[Len(a) + i] = b[i]
         /\ \A i \in 1..Len(c) : d[Len(a) + Len(b) + i] = c[i]
<1>1. Len(a) \in Nat /\ Len(b) \in Nat /\ Len(c) \in Nat
  BY LenProperties
<1>2. PICK e : e = a \o b
  OBVIOUS
<1>3. /\ e \in Seq(S) /\ Len(e) = Len(a) + Len(b)
      /\ \A i \in 1..(Len(a) + Len(b)) : e[i] = IF i <= Len(a) THEN a[i] ELSE b[i - Len(a)]
  BY <1>2, ConcatProperties
<1>4. /\ d \in Seq(S) /\ Len(d) = Len(e) + Len(c)
      /\ \A i \in 1..(Len(e) + Len(c)) : d[i] = IF i <= Len(e) THEN e[i] ELSE c[i - Len(e)]
  BY <1>2, <1>3, ConcatProperties
<1>5. ASSUME NEW i \in 1..Len(a) PROVE d[i] = a[i]
  BY <1>1, <1>3, <1>4
<1>6. ASSUME NEW i \in 1..Len(b) PROVE d[Len(a) + i] = b[i]
  <2>1. /\ Len(a) + i \in 1..(Len(a) + Len(b)) /\ ~(Len(a) + i <= Len(a)) /\ (Len(a) + i) - Len(a) = i
        /\ Len(a) + i \in 1..(Len(e) + Len(c)) /\ Len(a) + i <= Len(e)
    BY <1>1, <1>3
  <2> QED BY <1>3, <1>4, <2>1
<1>7. ASSUME NEW i \in 1..Len(c) PROVE d[Len(a) + Len(b) + i] = c[i]
  <2>1. /\ Len(e) + i \in 1..(Len(e) + Len(c)) /\ ~(Len(e) + i <= Len(e)) /\ (Len(e) + i) - Len(e) = i
    BY <1>1, <1>3
  <2>2. d[Len(e) + i] = c[i]
    BY <1>4, <2>1
  <2> QED BY <1>3, <2>2
<1> QED BY <1>1, <1>3, <1>4, <1>5, <1>6, <1>7

LEMMA Parts ==
  \A a, b, c \in Seq(Instrs) : \A d :
    d = a \o b \o c =>
      /\ Len(d) = Len(a) + Len(b) + Len(c)
      /\ \A i \in 1..Len(a) : d[i] = a[i]
      /\ \A i \in 1..Len(b) : d[Len(a) + i] = b[i]
      /\ \A i \in 1..Len(c) : d[Len(a) + Len(b) + i] = c[i]
<1> SUFFICES ASSUME NEW a \in Seq(Instrs), NEW b \in Seq(Instrs), NEW c \in Seq(Instrs),
                    NEW d, d = a \o b \o c
             PROVE  /\ Len(d) = Len(a) + Len(b) + Len(c)
                    /\ \A i \in 1..Len(a) : d[i] = a[i]
                    /\ \A i \in 1..Len(b) : d[Len(a) + i] = b[i]
                    /\ \A i \in 1..Len(c) : d[Len(a) + Len(b) + i] = c[i]
  OBVIOUS
<1>1. Len(d) = Len(a) + Len(b) + Len(c)
  BY Concat3
<1>2. \A i \in 1..Len(a) : d[i] = a[i]
  BY Concat3
<1>3. \A i \in 1..Len(b) : d[Len(a) + i] = b[i]
  BY Concat3
<1>4. \A i \in 1..Len(c) : d[Len(a) + Len(b) + i] = c[i]
  BY Concat3
<1> QED BY <1>1, <1>2, <1>3, <1>4

LEMMA NumBytesType ==
  ASSUME LayoutInv, pc \in Executing
  PROVE  /\ NumBytes \in Nat /\ csSize = 2 * Saved /\ Saved \in Nat /\ Base \in {-2, 0}
         /\ stackSize \in Nat /\ stackSize = NumBytes + 2 * Saved - Base
         /\ Base - 2 * Saved <= 0 /\ -stackSize <= Base - 2 * Saved - Reserve /\ Reserve \in Nat
<1>1. /\ f \in Functions /\ LaidOut /\ stackSize \in Nat /\ csSize = 2 * Saved
  BY DEF LayoutInv, Executing
<1>2. Reserve \in Nat /\ Saved \in Nat /\ hasFP \in BOOLEAN /\ Base = IF hasFP THEN -2 ELSE 0
  BY <1>1, FrameTypes, FunctionTypes
<1>3. csSize + Reserve <= stackSize + Base
  BY <1>1 DEF LaidOut
<1>4. NumBytes = stackSize - csSize + Base /\ Base \in {-2, 0}
  BY <1>1, <1>2 DEF NumBytes
<1> QED BY <1>1, <1>2, <1>3, <1>4

PrologueAt ==
  pc \in Executing =>
    /\ Len(prologue) = Head0 + Saved + (IF NumBytes = 0 THEN 0 ELSE 1)
    /\ hasFP => prologue[1] = Push(FP) /\ prologue[2] = SetFP
    /\ \A i \in 1..Saved : prologue[Head0 + i] = Push(CSI[Saved + 1 - i])
    /\ NumBytes # 0 => prologue[Head0 + Saved + 1] = AddSP(-NumBytes)

LEMMA PrologueFacts == LayoutInv => PrologueAt
<1> SUFFICES ASSUME LayoutInv, pc \in Executing
             PROVE  /\ Len(prologue) = Head0 + Saved + (IF NumBytes = 0 THEN 0 ELSE 1)
                    /\ hasFP => prologue[1] = Push(FP) /\ prologue[2] = SetFP
                    /\ \A i \in 1..Saved : prologue[Head0 + i] = Push(CSI[Saved + 1 - i])
                    /\ NumBytes # 0 => prologue[Head0 + Saved + 1] = AddSP(-NumBytes)
  BY DEF PrologueAt
<1> DEFINE a == IF hasFP THEN <<Push(FP), SetFP>> ELSE <<>>
           c == Adjust(-NumBytes)
<1>1. prologue = a \o Pushes \o c
  BY DEF LayoutInv, PrologueCode, Executing
<1>2. NumBytes \in Nat /\ Saved \in Nat /\ Head0 \in Nat
  BY NumBytesType DEF Head0
<1>3. a \in Seq(Instrs) /\ Len(a) = Head0 /\ (hasFP => a[1] = Push(FP) /\ a[2] = SetFP /\ Head0 = 2)
  BY InstrTypes DEF FP, Head0
<1>4. Pushes \in Seq(Instrs) /\ Len(Pushes) = Saved
  <2>1. \A i \in 1..Saved : Push(CSI[Saved + 1 - i]) \in Instrs
    BY SavedTypes, InstrTypes
  <2>2. Pushes \in [1..Saved -> Instrs]
    BY <2>1 DEF Pushes
  <2> QED BY <1>2, <2>2 DEF Pushes
<1>5. /\ c \in Seq(Instrs) /\ Len(c) = (IF NumBytes = 0 THEN 0 ELSE 1)
      /\ NumBytes # 0 => c[1] = AddSP(-NumBytes)
  <2>1. -NumBytes = 0 <=> NumBytes = 0
    BY <1>2
  <2>2. AddSP(-NumBytes) \in Instrs
    BY <1>2, InstrTypes
  <2> QED BY <2>1, <2>2 DEF Adjust
<1> HIDE DEF a, c
<1>6. /\ Len(prologue) = Len(a) + Len(Pushes) + Len(c)
      /\ \A i \in 1..Len(a) : prologue[i] = a[i]
      /\ \A i \in 1..Len(Pushes) : prologue[Len(a) + i] = Pushes[i]
      /\ \A i \in 1..Len(c) : prologue[Len(a) + Len(Pushes) + i] = c[i]
  <2>1. PICK A, B, C, D : A = a /\ B = Pushes /\ C = c /\ D = prologue
    OBVIOUS
  <2>2. A \in Seq(Instrs) /\ B \in Seq(Instrs) /\ C \in Seq(Instrs) /\ D = A \o B \o C
    BY <1>1, <1>3, <1>4, <1>5, <2>1, Zenon
  <2>3. /\ Len(D) = Len(A) + Len(B) + Len(C)
        /\ \A i \in 1..Len(A) : D[i] = A[i]
        /\ \A i \in 1..Len(B) : D[Len(A) + i] = B[i]
        /\ \A i \in 1..Len(C) : D[Len(A) + Len(B) + i] = C[i]
    BY <2>2, Parts
  <2> QED BY <2>1, <2>3, Zenon
<1>7. Len(prologue) = Head0 + Saved + (IF NumBytes = 0 THEN 0 ELSE 1)
  BY <1>3, <1>4, <1>5, <1>6
<1>8. hasFP => prologue[1] = Push(FP) /\ prologue[2] = SetFP
  BY <1>3, <1>6
<1>9. \A i \in 1..Saved : prologue[Head0 + i] = Push(CSI[Saved + 1 - i])
  BY <1>3, <1>4, <1>6 DEF Pushes
<1>10. NumBytes # 0 => prologue[Head0 + Saved + 1] = AddSP(-NumBytes)
  BY <1>3, <1>4, <1>5, <1>6
<1> QED BY <1>7, <1>8, <1>9, <1>10

EpilogueAt ==
  pc \in Executing =>
    /\ Len(epilogue) = Lead + Saved + (IF hasFP THEN 1 ELSE 0)
    /\ f.var => epilogue[1] = SetSP /\ (csSize # 0 => epilogue[2] = AddSP(-csSize))
    /\ ~f.var /\ NumBytes # 0 => epilogue[1] = AddSP(NumBytes)
    /\ \A i \in 1..Saved : epilogue[Lead + i] = Pop(CSI[i])
    /\ hasFP => epilogue[Lead + Saved + 1] = Pop(FP)

LEMMA EpilogueFacts == LayoutInv => EpilogueAt
<1> SUFFICES ASSUME LayoutInv, pc \in Executing
             PROVE  /\ Len(epilogue) = Lead + Saved + (IF hasFP THEN 1 ELSE 0)
                    /\ f.var => epilogue[1] = SetSP /\ (csSize # 0 => epilogue[2] = AddSP(-csSize))
                    /\ ~f.var /\ NumBytes # 0 => epilogue[1] = AddSP(NumBytes)
                    /\ \A i \in 1..Saved : epilogue[Lead + i] = Pop(CSI[i])
                    /\ hasFP => epilogue[Lead + Saved + 1] = Pop(FP)
  BY DEF EpilogueAt
<1> DEFINE a == IF f.var THEN <<SetSP>> \o Adjust(-csSize) ELSE Adjust(NumBytes)
           c == IF hasFP THEN <<Pop(FP)>> ELSE <<>>
<1>1. epilogue = a \o Pops \o c
  BY DEF LayoutInv, EpilogueCode, Executing
<1>2. NumBytes \in Nat /\ Saved \in Nat /\ Lead \in Nat /\ csSize \in Nat /\ SetSP \in Instrs
  BY NumBytesType, InstrTypes DEF Lead
<1>3. /\ a \in Seq(Instrs) /\ Len(a) = Lead
      /\ f.var => a[1] = SetSP /\ (csSize # 0 => a[2] = AddSP(-csSize))
      /\ ~f.var /\ NumBytes # 0 => a[1] = AddSP(NumBytes)
  <2>1. CASE ~f.var
    <3>1. AddSP(NumBytes) \in Instrs
      BY <1>2, InstrTypes
    <3> QED BY <2>1, <3>1 DEF Adjust, Lead
  <2>2. CASE f.var /\ csSize = 0
    <3>0. -csSize = 0
      <4>1. csSize = 0
        BY <2>2
      <4>2. \A n \in Int : n = 0 <=> -n = 0
        OBVIOUS
      <4>3. csSize \in Int
        BY <1>2
      <4> QED BY <4>1, <4>2, <4>3, Zenon
    <3>1. a = <<SetSP>> \o <<>>
      BY <2>2, <3>0 DEF Adjust
    <3>2. a = <<SetSP>>
      BY <1>2, <3>1, ConcatEmptySeq
    <3> HIDE DEF a
    <3> QED BY <1>2, <2>2, <3>2 DEF Lead
  <2>3. CASE f.var /\ csSize # 0
    <3>1. -csSize # 0 /\ AddSP(-csSize) \in Instrs
      BY <1>2, <2>3, InstrTypes
    <3>2. a = <<SetSP>> \o <<AddSP(-csSize)>>
      BY <2>3, <3>1 DEF Adjust
    <3> HIDE DEF a
    <3>3. /\ <<SetSP>> \in Seq(Instrs) /\ Len(<<SetSP>>) = 1 /\ <<SetSP>>[1] = SetSP
          /\ <<AddSP(-csSize)>> \in Seq(Instrs) /\ Len(<<AddSP(-csSize)>>) = 1
          /\ <<AddSP(-csSize)>>[1] = AddSP(-csSize)
      BY <1>2, <3>1
    <3>4. \A s, t \in Seq(Instrs) :
            Len(s) = 1 /\ Len(t) = 1 =>
              s \o t \in Seq(Instrs) /\ Len(s \o t) = 2 /\ (s \o t)[1] = s[1] /\ (s \o t)[2] = t[1]
      <4> SUFFICES ASSUME NEW s \in Seq(Instrs), NEW t \in Seq(Instrs), Len(s) = 1, Len(t) = 1
                   PROVE  s \o t \in Seq(Instrs) /\ Len(s \o t) = 2 /\ (s \o t)[1] = s[1]
                          /\ (s \o t)[2] = t[1]
        OBVIOUS
      <4>1. /\ s \o t \in Seq(Instrs) /\ Len(s \o t) = Len(s) + Len(t)
            /\ \A i \in 1..(Len(s) + Len(t)) :
                 (s \o t)[i] = IF i <= Len(s) THEN s[i] ELSE t[i - Len(s)]
        BY ConcatProperties
      <4>2. 1 \in 1..(Len(s) + Len(t)) /\ 2 \in 1..(Len(s) + Len(t)) /\ 1 <= Len(s)
            /\ ~(2 <= Len(s)) /\ 2 - Len(s) = 1 /\ Len(s) + Len(t) = 2
        OBVIOUS
      <4> QED BY <4>1, <4>2
    <3>5. a \in Seq(Instrs) /\ Len(a) = 2 /\ a[1] = SetSP /\ a[2] = AddSP(-csSize)
      BY <3>2, <3>3, <3>4, Zenon
    <3> QED BY <2>3, <3>5 DEF Lead
  <2> QED BY <2>1, <2>2, <2>3
<1>4. Pops \in Seq(Instrs) /\ Len(Pops) = Saved
  <2>1. \A i \in 1..Saved : Pop(CSI[i]) \in Instrs
    BY SavedTypes, InstrTypes
  <2>2. Pops \in [1..Saved -> Instrs]
    BY <2>1 DEF Pops
  <2> QED BY <1>2, <2>2 DEF Pops
<1>5. /\ c \in Seq(Instrs) /\ Len(c) = (IF hasFP THEN 1 ELSE 0)
      /\ hasFP => c[1] = Pop(FP)
  BY InstrTypes DEF FP
<1> HIDE DEF a, c
<1>6. /\ Len(epilogue) = Len(a) + Len(Pops) + Len(c)
      /\ \A i \in 1..Len(a) : epilogue[i] = a[i]
      /\ \A i \in 1..Len(Pops) : epilogue[Len(a) + i] = Pops[i]
      /\ \A i \in 1..Len(c) : epilogue[Len(a) + Len(Pops) + i] = c[i]
  <2>1. PICK A, B, C, D : A = a /\ B = Pops /\ C = c /\ D = epilogue
    OBVIOUS
  <2>2. A \in Seq(Instrs) /\ B \in Seq(Instrs) /\ C \in Seq(Instrs) /\ D = A \o B \o C
    BY <1>1, <1>3, <1>4, <1>5, <2>1, Zenon
  <2>3. /\ Len(D) = Len(A) + Len(B) + Len(C)
        /\ \A i \in 1..Len(A) : D[i] = A[i]
        /\ \A i \in 1..Len(B) : D[Len(A) + i] = B[i]
        /\ \A i \in 1..Len(C) : D[Len(A) + Len(B) + i] = C[i]
    BY <2>2, Parts
  <2> QED BY <2>1, <2>3, Zenon
<1>7. Len(epilogue) = Lead + Saved + (IF hasFP THEN 1 ELSE 0)
  BY <1>3, <1>4, <1>5, <1>6
<1>8. /\ f.var => epilogue[1] = SetSP /\ (csSize # 0 => epilogue[2] = AddSP(-csSize))
      /\ ~f.var /\ NumBytes # 0 => epilogue[1] = AddSP(NumBytes)
  <2>1. /\ f.var => 1 \in 1..Len(a) /\ (csSize # 0 => 2 \in 1..Len(a))
        /\ ~f.var /\ NumBytes # 0 => 1 \in 1..Len(a)
    BY <1>3 DEF Lead
  <2> QED BY <1>3, <1>6, <2>1
<1>9. \A i \in 1..Saved : epilogue[Lead + i] = Pop(CSI[i])
  BY <1>3, <1>4, <1>6 DEF Pops
<1>10. hasFP => epilogue[Lead + Saved + 1] = Pop(FP)
  BY <1>3, <1>4, <1>5, <1>6
<1> QED BY <1>7, <1>8, <1>9, <1>10

PrologueLength == pc \in Executing => Len(prologue) \in Nat

LEMMA PrologueLengthFact == LayoutInv => PrologueLength
<1> SUFFICES ASSUME LayoutInv, pc \in Executing PROVE Len(prologue) \in Nat
  BY DEF PrologueLength
<1>1. Len(prologue) = Head0 + Saved + (IF NumBytes = 0 THEN 0 ELSE 1)
  BY PrologueFacts DEF PrologueAt
<1>2. Head0 \in Nat /\ Saved \in Nat
  BY SavedTypes DEF Head0
<1> QED BY <1>1, <1>2

EpilogueLength == pc \in Executing => Len(epilogue) \in Nat

LEMMA EpilogueLengthFact == LayoutInv => EpilogueLength
<1> SUFFICES ASSUME LayoutInv, pc \in Executing PROVE Len(epilogue) \in Nat
  BY DEF EpilogueLength
<1>1. Len(epilogue) = Lead + Saved + (IF hasFP THEN 1 ELSE 0)
  BY EpilogueFacts DEF EpilogueAt
<1>2. Lead \in Nat /\ Saved \in Nat
  BY SavedTypes DEF Lead
<1> QED BY <1>1, <1>2

-------------------------------------------------------------------------------
(* The registers saved stay saved *)

\* SP stays within the stack there is.
StackSuffices == sp >= -Depth

LEMMA SlotRange ==
  ASSUME f \in Functions, NEW j \in 1..Saved, NEW k \in 0..Saved, Saved - j < k
  PROVE  Slot(j) \in Int /\ Slot(j) >= Base - 2 * k /\ Slot(j) + 1 <= -1
<1>1. Saved \in Nat /\ Base \in Int /\ Base <= 0
  BY FrameTypes
<1> QED BY <1>1 DEF Slot

\* A step that writes below low only keeps what is saved above.
LEMMA KeepsSaved ==
  ASSUME LayoutInv, f' = f, DOMAIN mem = (-Depth)..7, NEW low \in Int, low >= -Depth,
         \A x \in DOMAIN mem : x >= low => mem'[x] = mem[x]
  PROVE  /\ FPSaved /\ (hasFP => low <= -2) => FPSaved'
         /\ \A k \in 0..Saved : low <= Base - 2 * k /\ Pushed(k) => Pushed(k)'
<1>1. Depth \in Nat /\ f \in Functions /\ hasFP' = hasFP /\ Saved' = Saved /\ CSI' = CSI /\ Base' = Base
  BY BoundsAssumption, FunctionSame DEF LayoutInv
<1>2. \A x \in Int : x >= low /\ x + 1 <= 7 =>
        \A r : SavedAt(x, r) => mem'[x] = Entry(r) /\ mem'[x + 1] = Entry(r)
  BY <1>1 DEF SavedAt
<1>3. ASSUME FPSaved, hasFP => low <= -2 PROVE FPSaved'
  <2>1. hasFP => SavedAt(-2, FP)
    BY <1>3 DEF FPSaved
  <2>2. hasFP => mem'[-2] = Entry(FP) /\ mem'[-2 + 1] = Entry(FP)
    BY <1>2, <1>3, <2>1
  <2> QED BY <1>1, <2>2 DEF FPSaved, SavedAt, Entry, FP
<1>4. ASSUME NEW k \in 0..Saved, low <= Base - 2 * k, Pushed(k) PROVE Pushed(k)'
  <2>1. ASSUME NEW j \in 1..Saved, Saved - j < k
        PROVE  mem'[Slot(j)] = Entry(CSI[j]) /\ mem'[Slot(j) + 1] = Entry(CSI[j])
    <3>1. SavedAt(Slot(j), CSI[j])
      BY <1>4, <2>1 DEF Pushed
    <3>2. Slot(j) \in Int /\ Slot(j) >= low /\ Slot(j) + 1 <= 7
      <4>1. Base \in Int
        BY <1>1, FrameTypes
      <4> QED BY <1>1, <1>4, <2>1, <4>1, SlotRange
    <3> QED BY <1>2, <3>1, <3>2
  <2>2. \A j \in 1..Saved : Slot(j)' = Slot(j)
    BY <1>1 DEF Slot
  <2> QED BY <1>1, <2>1, <2>2 DEF Pushed, SavedAt, Entry
<1> QED BY <1>3, <1>4

LEMMA WorthFacts ==
  /\ Worth \subseteq Others /\ Worth \subseteq Modified /\ Others \subseteq Regs
  /\ FP \in Regs /\ (hasFP => FP \notin Worth /\ FP \notin Others)
BY DEF Worth, CalleeSavedRegs, Others, Regs, FP

-------------------------------------------------------------------------------
(* Compiling: the machine waits *)

CompileStep ==
  \/ SpillCalleeSaved \/ PlaceFixed \/ PlaceCalleeSaved \/ PlaceLocal \/ FinishLayout

LEMMA InitInv == Init => Inv
<1> SUFFICES ASSUME Init PROVE Inv
  OBVIOUS
<1>1. LayoutInv
  BY InitLayout
<1>2. /\ pc = "spill" /\ ip = 1 /\ sp = 0 /\ regs = [r \in Regs |-> Entry(r)]
      /\ mem = [a \in (-Depth)..7 |-> IF a < 0 THEN Junk ELSE Return]
      /\ dyn = <<>> /\ callseq = "none" /\ amount = 0 /\ val = [o \in Variables |-> Junk]
  BY DEF Init
<1>3. /\ dyn \in Seq((-Depth)..0) /\ Len(dyn) = 0 /\ DOMAIN dyn = {} /\ MaxAllocas \in Nat
      /\ Depth \in Nat
  BY <1>2, BoundsAssumption
<1>4. DOMAIN mem = (-Depth)..7 /\ \A x \in 0..7 : mem[x] = Return
  BY <1>2, <1>3
<1>5. MachineTypes
  BY <1>2, <1>3, <1>4 DEF MachineTypes
<1>6. IdleInv
  BY <1>2 DEF IdleInv, Compiling
<1>7. DynInv
  BY <1>2, <1>3 DEF DynInv
<1> QED BY <1>1, <1>2, <1>5, <1>6, <1>7
        DEF Inv, PrologueInv, BodyInv, EpilogueInv, ReturnedInv, ValuesInv, ArgumentsInPlace

LEMMA CompileInv ==
  ASSUME Inv, CompileStep
  PROVE  Inv'
<1>1. /\ UNCHANGED machine /\ f' = f /\ pc \in Compiling /\ pc' \in Compiling
  BY DEF CompileStep, SpillCalleeSaved, PlaceFixed, PlaceCalleeSaved, PlaceLocal, FinishLayout,
         Compiling
<1>2. LayoutInv'
  BY SpillLayout, PlaceFixedLayout, PlaceCalleeSavedLayout, PlaceLocalLayout, FinishLayoutLayout
  DEF Inv, CompileStep
<1>3. UNCHANGED <<ip, sp, regs, mem, dyn, callseq, amount, val>> /\ Variables' = Variables
  BY <1>1, FunctionSame DEF machine
<1>4. MachineTypes'
  BY <1>3 DEF Inv, MachineTypes
<1>5. pc # "body" /\ pc' \notin {"prologue", "body", "epilogue", "returned"}
  BY <1>1 DEF Compiling
<1>6. IdleInv'
  BY <1>1, <1>3, <1>5 DEF Inv, IdleInv, Entry, Junk
<1>7. dyn = <<>> /\ callseq = "none" /\ DOMAIN dyn = {}
  BY <1>1, <1>5 DEF Inv, IdleInv
<1>8. DynInv'
  BY <1>3, <1>7 DEF Inv, DynInv
<1> QED BY <1>2, <1>3, <1>4, <1>5, <1>6, <1>7, <1>8
        DEF Inv, PrologueInv, BodyInv, EpilogueInv, ReturnedInv, ValuesInv, ArgumentsInPlace

LEMMA EmitInv ==
  ASSUME Inv, EmitPrologueEpilogue
  PROVE  Inv'
<1>1. UNCHANGED machine /\ f' = f /\ pc = "emit" /\ pc' = "prologue"
  BY DEF EmitPrologueEpilogue
<1>2. LayoutInv'
  BY EmitLayout DEF Inv
<1>3. UNCHANGED <<ip, sp, regs, mem, dyn, callseq, amount, val>> /\ Variables' = Variables
  BY <1>1, FunctionSame DEF machine
<1>4. MachineTypes'
  BY <1>3 DEF Inv, MachineTypes
<1>5. /\ ip = 1 /\ sp = 0 /\ (\A r \in Regs : regs[r] = Entry(r)) /\ callseq = "none"
      /\ dyn = <<>> /\ DOMAIN dyn = {} /\ amount = 0 /\ \A o \in Variables : val[o] = Junk
  BY <1>1 DEF Inv, IdleInv, Compiling
<1>6. IdleInv'
  BY <1>1, <1>3, <1>5 DEF IdleInv, Compiling, Junk
<1>7. DynInv'
  BY <1>3, <1>5 DEF Inv, DynInv
<1>8. PrologueInv'
  <2>1. Len(prologue') + 1 \in Nat /\ Len(prologue') + 1 >= 1
    <3>1. PrologueLength' /\ pc' \in Executing
      <4>1. LayoutInv' => PrologueLength'
        BY PrologueLengthFact, PTL
      <4> QED BY <1>1, <1>2, <4>1 DEF Executing
    <3>2. Len(prologue') \in Nat
      BY <3>1 DEF PrologueLength
    <3> QED BY <3>2
  <2>2. ip' \in 1..(Len(prologue') + 1)
    BY <1>3, <1>5, <2>1
  <2>3. /\ Head0' = Head0 /\ Base' = Base /\ Saved' = Saved /\ Saved \in Nat /\ hasFP' = hasFP
        /\ Others' = Others /\ Others \subseteq Regs
    BY <1>1, FunctionSame, SavedTypes, WorthFacts
  <2>4. CASE hasFP
    <3>1. Head0 = 2 /\ 1 <= Head0
      BY <2>4 DEF Head0
    <3> QED BY <1>3, <1>5, <2>2, <2>3, <3>1 DEF PrologueInv, BeforePrologue, Entry
  <2>5. CASE ~hasFP
    <3>1. Head0 = 0 /\ Base = 0 /\ ~(1 <= Head0) /\ 1 - 1 - Head0 = 0 /\ 0 <= Saved /\ Base - 2 * 0 = 0
      <4>1. Head0 = 0 /\ Base = 0
        BY <2>5 DEF Head0, Base
      <4>2. ~(1 <= Head0) /\ 1 - 1 - Head0 = 0 /\ 0 <= Saved
        BY <2>3, <4>1
      <4>3. Base - 2 * 0 = 0
        BY <4>1
      <4> QED BY <4>1, <4>2, <4>3
    <3>2. Pushed(0)'
      <4>1. \A j \in 1..Saved : ~(Saved - j < 0)
        BY <2>3
      <4> QED BY <2>3, <4>1 DEF Pushed
    <3> QED BY <1>3, <1>5, <2>2, <2>3, <2>5, <3>1, <3>2
            DEF PrologueInv, BeforePrologue, Entry, FPSaved, FPSet
  <2> QED BY <2>4, <2>5
<1> QED BY <1>1, <1>2, <1>3, <1>4, <1>5, <1>6, <1>7, <1>8
        DEF Inv, BodyInv, EpilogueInv, ReturnedInv, ValuesInv, ArgumentsInPlace

-------------------------------------------------------------------------------
(* The prologue runs *)

LEMMA RunFrame ==
  ASSUME LayoutInv, RunStep
  PROVE  /\ Base' = Base /\ CSI' = CSI /\ Saved' = Saved /\ Reserve' = Reserve /\ hasFP' = hasFP
         /\ LocalIds' = LocalIds /\ Variables' = Variables /\ Modified' = Modified
         /\ Others' = Others /\ Head0' = Head0 /\ Lead' = Lead /\ NumBytes' = NumBytes
         /\ f' = f /\ UNCHANGED <<offset, placed, objOff, stackSize, csSize, prologue, epilogue>>
<1>1. f' = f /\ UNCHANGED layout /\ UNCHANGED emitted
  BY RunStepLayout
<1> QED BY <1>1, FunctionSame, LayoutSame DEF layout, emitted

LEMMA PushWrites ==
  ASSUME MachineTypes, NEW v, sp - 2 >= -Depth, mem' = Filled(sp - 2, 2, v)
  PROVE  /\ DOMAIN mem' = (-Depth)..7 /\ mem'[sp - 2] = v /\ mem'[sp - 1] = v
         /\ \A x \in DOMAIN mem : x >= sp => mem'[x] = mem[x]
         /\ \A x \in 0..7 : mem'[x] = Return
<1>1. DOMAIN mem = (-Depth)..7 /\ sp \in Int /\ sp <= 0 /\ Depth \in Nat
      /\ \A x \in 0..7 : mem[x] = Return
  BY BoundsAssumption DEF MachineTypes
<1>2. DOMAIN mem' = (-Depth)..7
  BY <1>1 DEF Filled
<1>3. ASSUME NEW x \in DOMAIN mem
      PROVE  mem'[x] = IF x \in Bytes(sp - 2, 2) THEN v ELSE mem[x]
  BY <1>1 DEF Filled
<1>4. /\ sp - 2 \in DOMAIN mem /\ sp - 1 \in DOMAIN mem
      /\ sp - 2 \in Bytes(sp - 2, 2) /\ sp - 1 \in Bytes(sp - 2, 2)
  BY <1>1 DEF Bytes
<1>5. \A x \in DOMAIN mem : x >= sp => x \notin Bytes(sp - 2, 2)
  BY <1>1 DEF Bytes
<1>6. \A x \in 0..7 : x \in DOMAIN mem /\ x >= sp
  BY <1>1
<1> QED BY <1>1, <1>2, <1>3, <1>4, <1>5, <1>6

LEMMA PrologueEnd ==
  ASSUME LayoutInv, PrologueInv, pc = "prologue", ip > Len(prologue)
  PROVE  /\ sp = -stackSize /\ FPSaved /\ FPSet /\ Pushed(Saved)
         /\ \A r \in Others : regs[r] = Entry(r)
<1>1. /\ NumBytes \in Nat /\ Saved \in Nat /\ stackSize \in Nat /\ Base \in Int
      /\ stackSize = NumBytes + 2 * Saved - Base
  BY NumBytesType DEF Executing
<1>2. Len(prologue) = Head0 + Saved + (IF NumBytes = 0 THEN 0 ELSE 1) /\ Head0 \in Nat
  BY PrologueFacts DEF PrologueAt, Executing, Head0
<1>3. ip = Len(prologue) + 1 /\ BeforePrologue(ip)
  BY <1>1, <1>2 DEF PrologueInv
<1>4. ~(ip <= Head0)
  BY <1>1, <1>2, <1>3
<1>5. CASE NumBytes = 0
  <2>1. ip - 1 - Head0 = Saved
    BY <1>1, <1>2, <1>3, <1>5
  <2>2. FPSaved /\ FPSet /\ (\A r \in Others : regs[r] = Entry(r)) /\ sp = Base - 2 * Saved /\ Pushed(Saved)
    BY <1>1, <1>3, <1>4, <2>1 DEF BeforePrologue
  <2> QED BY <1>1, <1>5, <2>2
<1>6. CASE NumBytes # 0
  <2>1. ~(ip - 1 - Head0 <= Saved)
    BY <1>1, <1>2, <1>3, <1>6
  <2> QED BY <1>3, <1>4, <2>1 DEF BeforePrologue
<1> QED BY <1>5, <1>6

\* Where the prologue is: pushing FP, setting it, pushing register k + 1 from
\* the end of CSI, or allocating the rest of the frame.
LEMMA PrologueWhere ==
  ASSUME LayoutInv, pc = "prologue", NEW i \in 1..Len(prologue)
  PROVE  \/ hasFP /\ i = 1 /\ prologue[i] = Push(FP) /\ Head0 = 2
         \/ hasFP /\ i = 2 /\ prologue[i] = SetFP /\ Head0 = 2
         \/ \E k \in 0..(Saved - 1) : i = Head0 + k + 1 /\ prologue[i] = Push(CSI[Saved - k])
         \/ i = Head0 + Saved + 1 /\ NumBytes # 0 /\ prologue[i] = AddSP(-NumBytes)
<1>1. /\ Len(prologue) = Head0 + Saved + (IF NumBytes = 0 THEN 0 ELSE 1)
      /\ hasFP => prologue[1] = Push(FP) /\ prologue[2] = SetFP
      /\ \A n \in 1..Saved : prologue[Head0 + n] = Push(CSI[Saved + 1 - n])
      /\ NumBytes # 0 => prologue[Head0 + Saved + 1] = AddSP(-NumBytes)
  BY PrologueFacts DEF PrologueAt, Executing
<1>2. Saved \in Nat /\ Head0 \in Nat /\ (hasFP => Head0 = 2) /\ (~hasFP => Head0 = 0)
  BY SavedTypes DEF Head0
<1>3. CASE i <= Head0
  <2>1. hasFP /\ Head0 = 2 /\ (i = 1 \/ i = 2)
    BY <1>2, <1>3
  <2> QED BY <1>1, <2>1
<1>4. CASE i > Head0 /\ i <= Head0 + Saved
  <2>1. PICK n \in 1..Saved : i = Head0 + n
    <3>1. i - Head0 \in 1..Saved /\ i = Head0 + (i - Head0)
      BY <1>2, <1>4
    <3> QED BY <3>1
  <2>2. n - 1 \in 0..(Saved - 1) /\ i = Head0 + (n - 1) + 1 /\ Saved - (n - 1) = Saved + 1 - n
    BY <1>2, <2>1
  <2>3. prologue[i] = Push(CSI[Saved + 1 - n])
    BY <1>1, <2>1
  <2> QED BY <2>2, <2>3
<1>5. CASE i > Head0 + Saved
  <2>1. i = Head0 + Saved + 1 /\ NumBytes # 0
    BY <1>1, <1>2, <1>5
  <2> QED BY <1>1, <2>1
<1> QED BY <1>2, <1>3, <1>4, <1>5

\* One instruction of the prologue takes the state before it to that before the next.
LEMMA PrologueStep ==
  ASSUME LayoutInv, MachineTypes, pc = "prologue", RunPrologue, ip \in 1..Len(prologue),
         BeforePrologue(ip), sp' >= -Depth
  PROVE  MachineTypes' /\ ip' = ip + 1 /\ pc' = "prologue" /\ BeforePrologue(ip)'
<1>1. PICK i \in 1..Len(prologue) : i = ip
  OBVIOUS
<1>2. /\ Execute(prologue[i]) /\ ip' = i + 1 /\ pc' = pc
      /\ UNCHANGED <<f, dyn, callseq, amount, val>>
  BY <1>1 DEF RunPrologue
<1>3. BeforePrologue(i)
  BY <1>1
<1>4. RunStep
  BY DEF RunStep
<1>5. /\ Base' = Base /\ CSI' = CSI /\ Saved' = Saved /\ hasFP' = hasFP /\ Head0' = Head0
      /\ Others' = Others /\ stackSize' = stackSize /\ Variables' = Variables
  BY <1>4, RunFrame
<1>6. /\ Saved \in Nat /\ Base \in Int /\ (hasFP => Base = -2) /\ (~hasFP => Base = 0) /\ Depth \in Nat
      /\ NumBytes \in Nat /\ stackSize = NumBytes + 2 * Saved - Base /\ i \in Nat /\ stackSize \in Nat
      /\ f \in Functions
  BY <1>1, NumBytesType, FrameTypes, BoundsAssumption DEF Executing, LayoutInv
<1>7. /\ sp \in Int /\ sp <= 0 /\ DOMAIN regs = Regs /\ DOMAIN mem = (-Depth)..7
      /\ \A x \in 0..7 : mem[x] = Return
  BY DEF MachineTypes
<1>8. i = 1 => ip' = 2
  BY <1>2
<1>9. ASSUME sp' \in Int, sp' <= 0, DOMAIN regs' = Regs, DOMAIN mem' = (-Depth)..7,
             \A x \in 0..7 : mem'[x] = Return
      PROVE  MachineTypes'
  BY <1>2, <1>5, <1>6, <1>9 DEF MachineTypes
<1>10. CASE hasFP /\ i = 1 /\ prologue[i] = Push(FP) /\ Head0 = 2
  <2>1. sp' = sp - 2 /\ mem' = Filled(sp - 2, 2, regs[FP]) /\ regs' = regs
    BY <1>2, <1>10 DEF Execute, Push
  <2>2. sp = 0 /\ \A r \in Regs : regs[r] = Entry(r)
    BY <1>3, <1>10 DEF BeforePrologue
  <2>3. sp' = -2 /\ regs[FP] = Entry(FP)
    BY <2>1, <2>2, WorthFacts
  <2>4. /\ DOMAIN mem' = (-Depth)..7 /\ mem'[sp - 2] = regs[FP] /\ mem'[sp - 1] = regs[FP]
        /\ \A x \in 0..7 : mem'[x] = Return
    BY <1>7, <2>1, PushWrites
  <2>5. MachineTypes'
    BY <1>7, <1>9, <2>1, <2>3, <2>4
  <2>6. sp - 2 = -2 /\ sp - 1 = -2 + 1
    BY <2>2
  <2>7. FPSaved'
    BY <2>3, <2>4, <2>6 DEF FPSaved, SavedAt, Entry, FP
  <2>8. BeforePrologue(2)'
    BY <1>5, <1>10, <2>1, <2>2, <2>3, <2>7 DEF BeforePrologue, Entry
  <2> QED BY <1>1, <1>2, <1>8, <1>10, <2>5, <2>8 DEF BeforePrologue
<1>11. CASE hasFP /\ i = 2 /\ prologue[i] = SetFP /\ Head0 = 2
  <2>1. regs' = [regs EXCEPT ![FP] = Addr(sp)] /\ sp' = sp /\ mem' = mem
    BY <1>2, <1>11 DEF Execute, SetFP
  <2>2. sp = -2 /\ FPSaved /\ \A r \in Regs : regs[r] = Entry(r)
    BY <1>3, <1>11 DEF BeforePrologue
  <2>3. /\ DOMAIN regs' = Regs /\ regs'[FP] = Addr(-2) /\ \A r \in Others : regs'[r] = Entry(r)
    BY <1>7, <1>11, <2>1, <2>2, WorthFacts
  <2>4. MachineTypes'
    BY <1>7, <1>9, <2>1, <2>3
  <2>5. FPSaved' /\ FPSet'
    BY <1>5, <2>1, <2>2, <2>3 DEF FPSaved, FPSet, SavedAt, Entry, Addr, FP
  <2>6. Pushed(0)'
    <3>1. \A j \in 1..Saved : ~(Saved - j < 0)
      BY <1>6
    <3> QED BY <1>5, <3>1 DEF Pushed
  <2>7. ip' = 3 /\ ~(3 <= Head0) /\ 3 - 1 - Head0 = 0 /\ 0 <= Saved
    BY <1>2, <1>6, <1>11
  <2>8. sp' = Base - 2 * 0
    BY <1>6, <1>11, <2>1, <2>2
  <2>9. \A r \in Others' : regs'[r] = Entry(r)
    BY <1>5, <2>3
  <2>10. BeforePrologue(3)'
    BY <1>5, <2>5, <2>6, <2>7, <2>8, <2>9 DEF BeforePrologue
  <2> QED BY <1>1, <1>2, <2>4, <2>7, <2>10 DEF BeforePrologue
<1>12. ASSUME NEW k \in 0..(Saved - 1), i = Head0 + k + 1, prologue[i] = Push(CSI[Saved - k])
       PROVE  MachineTypes' /\ ip' = ip + 1 /\ pc' = "prologue" /\ BeforePrologue(ip)'
  <2>1. ~(i <= Head0) /\ i - 1 - Head0 = k /\ k <= Saved /\ Head0 \in Nat /\ k \in 0..Saved
    BY <1>6, <1>12 DEF Head0
  <2>2. /\ FPSaved /\ FPSet /\ (\A r \in Others : regs[r] = Entry(r)) /\ sp = Base - 2 * k /\ Pushed(k)
    BY <1>3, <2>1 DEF BeforePrologue
  <2>3. PICK q \in 1..Saved : q = Saved - k
    BY <1>6, <1>12
  <2>4. PICK r \in Worth : r = CSI[q]
    BY SavedTypes
  <2>5. sp' = sp - 2 /\ mem' = Filled(sp - 2, 2, regs[r]) /\ regs' = regs
    BY <1>2, <1>12, <2>3, <2>4 DEF Execute, Push
  <2>6. regs[r] = Entry(r)
    BY <2>2, WorthFacts
  <2>7. /\ DOMAIN mem' = (-Depth)..7 /\ mem'[sp - 2] = Entry(r) /\ mem'[sp - 1] = Entry(r)
        /\ \A x \in DOMAIN mem : x >= sp => mem'[x] = mem[x]
        /\ \A x \in 0..7 : mem'[x] = Return
    BY <1>7, <2>5, <2>6, PushWrites
  <2>8. MachineTypes'
    BY <1>7, <1>9, <2>5, <2>7
  <2>9. FPSaved' /\ Pushed(k)'
    <3>1. sp \in Int /\ sp >= -Depth /\ (hasFP => sp <= -2) /\ sp <= Base - 2 * k
      BY <1>6, <1>7, <2>1, <2>2, <2>5
    <3> QED BY <1>2, <1>7, <2>1, <2>2, <2>7, <3>1, KeepsSaved
  <2>10. FPSet' /\ \A o \in Others' : regs'[o] = Entry(o)
    BY <1>5, <2>2, <2>5 DEF FPSet, Addr, FP
  <2>11. sp' = Base - 2 * (k + 1) /\ Slot(q) = sp - 2 /\ Slot(q) + 1 = sp - 1
    BY <1>6, <1>12, <2>2, <2>3, <2>5 DEF Slot
  <2>12. Pushed(k + 1)'
    <3> SUFFICES ASSUME NEW j \in 1..Saved, Saved - j < k + 1
                 PROVE  SavedAt(Slot(j), CSI[j])'
      BY <1>5 DEF Pushed
    <3>1. CASE j = q
      <4>1. mem'[Slot(q)] = Entry(CSI[q]) /\ mem'[Slot(q) + 1] = Entry(CSI[q])
        BY <2>4, <2>7, <2>11
      <4>2. Slot(q)' = Slot(q)
        BY <1>5 DEF Slot
      <4> QED BY <1>5, <3>1, <4>1, <4>2 DEF SavedAt, Entry
    <3>2. CASE j # q
      <4>1. Saved - j < k
        BY <1>6, <1>12, <2>3, <3>2
      <4> QED BY <1>5, <2>9, <4>1 DEF Pushed
    <3> QED BY <3>1, <3>2
  <2>13. ip' = i + 1 /\ ~(i + 1 <= Head0) /\ (i + 1) - 1 - Head0 = k + 1 /\ k + 1 <= Saved
    BY <1>2, <1>6, <1>12, <2>1
  <2>14. BeforePrologue(i + 1)'
    BY <1>5, <2>9, <2>10, <2>11, <2>12, <2>13 DEF BeforePrologue
  <2> QED BY <1>1, <1>2, <2>8, <2>14 DEF BeforePrologue
<1>13. CASE i = Head0 + Saved + 1 /\ NumBytes # 0 /\ prologue[i] = AddSP(-NumBytes)
  <2>1. sp' = sp + -NumBytes /\ mem' = mem /\ regs' = regs
    BY <1>2, <1>13 DEF Execute, AddSP
  <2>2. ~(i <= Head0) /\ i - 1 - Head0 = Saved /\ Saved <= Saved /\ Head0 \in Nat
    BY <1>6, <1>13 DEF Head0
  <2>3. /\ FPSaved /\ FPSet /\ (\A r \in Others : regs[r] = Entry(r)) /\ sp = Base - 2 * Saved
        /\ Pushed(Saved)
    BY <1>3, <2>2 DEF BeforePrologue
  <2>4. sp' = -stackSize /\ sp' \in Int /\ sp' <= 0
    BY <1>6, <2>1, <2>3
  <2>5. MachineTypes'
    BY <1>7, <1>9, <2>1, <2>4
  <2>6. FPSaved' /\ FPSet' /\ (\A o \in Others' : regs'[o] = Entry(o))
    BY <1>5, <2>1, <2>3 DEF FPSaved, FPSet, SavedAt, Entry, Addr, FP
  <2>7. \A j \in 1..Saved : Slot(j)' = Slot(j)
    BY <1>5 DEF Slot
  <2>8. Pushed(Saved)'
    BY <1>5, <2>1, <2>3, <2>7 DEF Pushed, SavedAt, Entry
  <2>9. ip' = i + 1 /\ ~(i + 1 <= Head0) /\ ~((i + 1) - 1 - Head0 <= Saved)
    BY <1>2, <1>6, <1>13, <2>2
  <2>10. BeforePrologue(i + 1)'
    BY <1>5, <2>4, <2>6, <2>8, <2>9 DEF BeforePrologue
  <2> QED BY <1>1, <1>2, <2>5, <2>10 DEF BeforePrologue
<1> QED BY <1>10, <1>11, <1>12, <1>13, PrologueWhere

LEMMA RunPrologueInv ==
  ASSUME Inv, RunPrologue, sp' >= -Depth
  PROVE  Inv'
<1>1. RunStep /\ pc = "prologue" /\ UNCHANGED <<dyn, callseq, amount, val>>
  BY DEF RunStep, RunPrologue
<1>2. LayoutInv' /\ Variables' = Variables /\ stackSize' = stackSize /\ prologue' = prologue
      /\ f' = f /\ Others' = Others /\ Modified' = Modified /\ LocalIds' = LocalIds
  BY <1>1, RunStepLayout, RunFrame DEF Inv
<1>3. /\ callseq = "none" /\ amount = 0 /\ dyn = <<>> /\ DOMAIN dyn = {}
      /\ \A o \in Variables : val[o] = Junk
  BY <1>1 DEF Inv, IdleInv
<1>4. DynInv'
  BY <1>1, <1>2, <1>3 DEF Inv, DynInv
<1>5. PICK n : n = Len(prologue)
  OBVIOUS
<1>6. n \in Nat /\ ip \in 1..(n + 1) /\ BeforePrologue(ip)
  BY <1>1, <1>5, PrologueLengthFact DEF Inv, PrologueInv, PrologueLength, Executing
<1>7. CASE ip <= n
  <2>1. MachineTypes' /\ ip' = ip + 1 /\ pc' = "prologue" /\ BeforePrologue(ip)'
    BY <1>1, <1>5, <1>6, <1>7, PrologueStep DEF Inv
  <2>2. PrologueInv'
    BY <1>2, <1>5, <1>6, <1>7, <2>1 DEF PrologueInv
  <2>3. IdleInv'
    BY <1>1, <1>2, <1>3, <2>1 DEF IdleInv, Compiling, Junk
  <2> QED BY <1>1, <1>2, <1>3, <1>4, <2>1, <2>2, <2>3
          DEF Inv, BodyInv, EpilogueInv, ReturnedInv, ValuesInv, ArgumentsInPlace
<1>8. CASE ~(ip <= n)
  <2>1. pc' = "body" /\ UNCHANGED <<ip, sp, regs, mem>>
    BY <1>5, <1>8 DEF RunPrologue
  <2>2. MachineTypes'
    BY <1>1, <1>2, <2>1 DEF Inv, MachineTypes, Return
  <2>3. IdleInv'
    BY <1>1, <1>3, <2>1 DEF IdleInv, Compiling
  <2>4. /\ sp = -stackSize /\ FPSaved /\ FPSet /\ Pushed(Saved)
        /\ \A r \in Others : regs[r] = Entry(r)
    BY <1>1, <1>5, <1>6, <1>8, PrologueEnd DEF Inv
  <2>5. BodyInv'
    <3>1. /\ Base' = Base /\ CSI' = CSI /\ Saved' = Saved /\ hasFP' = hasFP
          /\ \A j \in 1..Saved : Slot(j)' = Slot(j)
      BY <1>1, RunFrame DEF Inv, Slot
    <3>2. FPSaved' /\ FPSet' /\ Pushed(Saved)'
      BY <2>1, <2>4, <3>1 DEF FPSaved, FPSet, Pushed, SavedAt, Entry, Addr, FP
    <3>3. Untouched'
      BY <1>2, <2>1, <2>4 DEF Untouched, Entry
    <3>4. Len(dyn) = 0 /\ stackSize \in Nat /\ -stackSize = -stackSize - 2 * Len(dyn) - 0
      BY <1>3 DEF Inv, LayoutInv
    <3> QED BY <1>1, <1>2, <1>3, <2>1, <2>4, <3>2, <3>3, <3>4 DEF BodyInv
  <2>6. ValuesInv'
    <3>1. Allocated \subseteq Variables
      BY <1>3, LocalTypes, BoundsAssumption DEF Allocated, Variables, Inv, LayoutInv
    <3>2. Allocated' = Allocated
      BY <1>1, <1>2 DEF Allocated, DynId
    <3> QED BY <1>1, <1>2, <1>3, <3>1, <3>2 DEF ValuesInv, Holds, Junk
  <2> QED BY <1>1, <1>2, <1>3, <1>4, <2>1, <2>2, <2>3, <2>5, <2>6
          DEF Inv, PrologueInv, EpilogueInv, ReturnedInv, ArgumentsInPlace
<1> QED BY <1>7, <1>8

-------------------------------------------------------------------------------
(* The body: where its variables are *)

\* SP, and the outgoing arguments, are below the dynamic allocas, or else
\* in the room reserved.
LEMMA BodySP ==
  ASSUME LayoutInv, MachineTypes, IdleInv, DynInv, BodyInv, pc = "body"
  PROVE  /\ amount \in Nat /\ (callseq = "none" => amount = 0) /\ stackSize \in Nat
         /\ Len(dyn) \in Nat /\ DOMAIN dyn = 1..Len(dyn) /\ sp <= -stackSize /\ Reserve \in Nat
         /\ f.var => sp + amount <= -stackSize - 2 * Len(dyn) /\ Reserve = 0
         /\ ~f.var => sp = -stackSize /\ dyn = <<>> /\ amount <= Reserve
<1>1. f \in Functions /\ stackSize \in Nat
  BY DEF LayoutInv
<1>2. Reserve \in Nat /\ (f.var => Reserve = 0) /\ (~f.var => Reserve = MaxCallFrameSize)
  BY <1>1, FrameTypes
<1>3. /\ amount \in Nat /\ (callseq = "none" => amount = 0)
      /\ (~f.var => amount <= Reserve)
  <2>1. f.calls \in SUBSET Nat /\ \A c \in f.calls : c <= MaxCallFrameSize
    BY <1>1, FunctionTypes, MaxCallFrameType
  <2>2. callseq = "none" \/ amount \in f.calls
    BY DEF IdleInv
  <2> QED BY <1>2, <2>1, <2>2 DEF IdleInv
<1>4. dyn \in Seq((-Depth)..0) /\ Len(dyn) \in Nat /\ DOMAIN dyn = 1..Len(dyn)
  BY LenProperties DEF MachineTypes
<1>5. CASE f.var
  <2>1. alignTo(amount, 2) \in Nat /\ alignTo(amount, 2) >= amount
    BY <1>3, AlignToBound
  <2>2. PICK c \in Int : c = alignTo(amount, 2) /\ c >= amount /\ c >= 0
    BY <2>1
  <2>3. /\ callseq = "none" => sp = -stackSize - 2 * Len(dyn) - 0
        /\ callseq # "none" => sp = -stackSize - 2 * Len(dyn) - c
    BY <1>5, <2>2 DEF BodyInv, CallFrameAdjustment, hasReservedCallFrame
  <2>4. \A s, n, a, k \in Int :
          (n >= 0 /\ a >= 0 /\ k >= a) =>
            /\ s - 2 * n - k <= s /\ s - 2 * n - k + a <= s - 2 * n
            /\ s - 2 * n - 0 <= s /\ s - 2 * n - 0 + 0 <= s - 2 * n
    OBVIOUS
  <2>5. -stackSize \in Int /\ Len(dyn) \in Int /\ Len(dyn) >= 0 /\ amount \in Int /\ amount >= 0
    BY <1>1, <1>3, <1>4
  <2>6. sp <= -stackSize /\ sp + amount <= -stackSize - 2 * Len(dyn)
    BY <1>3, <2>2, <2>3, <2>4, <2>5
  <2> QED BY <1>1, <1>2, <1>3, <1>4, <1>5, <2>6
<1>6. CASE ~f.var
  <2>1. dyn = <<>>
    BY <1>6 DEF DynInv
  <2>2. Len(dyn) = 0
    BY <2>1
  <2>3. sp = -stackSize - 2 * Len(dyn) - 0
    BY <1>6 DEF BodyInv, CallFrameAdjustment, hasReservedCallFrame
  <2>4. sp = -stackSize
    BY <1>1, <2>2, <2>3
  <2>5. -stackSize <= -stackSize
    BY <1>1
  <2> QED BY <1>1, <1>2, <1>3, <1>4, <1>6, <2>1, <2>4, <2>5
<1> QED BY <1>5, <1>6

\* The variables are above SP and the outgoing arguments, below the saved
\* registers, and apart from each other.
LEMMA BodyBounds ==
  ASSUME LayoutInv, MachineTypes, IdleInv, DynInv, BodyInv, pc = "body"
  PROVE  /\ Saved \in Nat /\ Base \in Int /\ Base <= 0 /\ Base - 2 * Saved <= 0
         /\ sp + amount <= Base - 2 * Saved /\ sp <= Base - 2 * Saved
         /\ \A o \in Allocated : /\ Place(o) \in Int /\ VariableSize(o) \in Nat
                                 /\ sp + amount <= Place(o)
                                 /\ Place(o) + VariableSize(o) <= Base - 2 * Saved
         /\ \A o, u \in Allocated : o # u => \/ Place(o) + VariableSize(o) <= Place(u)
                                             \/ Place(u) + VariableSize(u) <= Place(o)
<1>1. /\ f \in Functions /\ LaidOut /\ stackSize \in Nat /\ csSize = 2 * Saved /\ Stacked
      /\ objOff \in Seq(Int)
  BY DEF LayoutInv, Executing
<1>2. Saved \in Nat /\ Base \in Int /\ Base <= 0 /\ Reserve \in Nat
  BY <1>1, FrameTypes
<1>3. -stackSize <= Base - 2 * Saved - Reserve
  BY <1>1, <1>2 DEF LaidOut
<1>4. /\ amount \in Nat /\ Len(dyn) \in Nat /\ DOMAIN dyn = 1..Len(dyn) /\ sp <= -stackSize
      /\ f.var => sp + amount <= -stackSize - 2 * Len(dyn) /\ Reserve = 0
      /\ ~f.var => sp = -stackSize /\ dyn = <<>> /\ amount <= Reserve
  BY BodySP
<1>5. sp \in Int
  BY DEF MachineTypes
<1>6. sp + amount <= Reserve - stackSize
  BY <1>1, <1>2, <1>4, <1>5
<1>7. Base - 2 * Saved <= 0 /\ sp + amount <= Base - 2 * Saved /\ sp <= Base - 2 * Saved
  BY <1>1, <1>2, <1>3, <1>4, <1>5, <1>6
<1>8. Len(f.locals) \in Nat /\ LocalIds = 1..Len(f.locals) /\ DOMAIN objOff = LocalIds
  BY <1>1, LocalTypes DEF LaidOut
<1>9. ASSUME NEW o \in LocalIds
      PROVE  /\ Place(o) = objOff[o] + 2 /\ VariableSize(o) = Size(o)
             /\ Place(o) \in Int /\ VariableSize(o) \in Nat
             /\ sp + amount <= Place(o) /\ Reserve - stackSize <= Place(o)
             /\ Place(o) + VariableSize(o) <= Base - 2 * Saved
  <2>1. Place(o) = objOff[o] + 2 /\ VariableSize(o) = Size(o) /\ Size(o) \in Nat /\ objOff[o] \in Int
    BY <1>1, <1>8, LocalTypes DEF Place, VariableSize, Size
  <2>2. Reserve - stackSize <= objOff[o] + 2 /\ objOff[o] + 2 + Size(o) <= Base - 2 * Saved
    BY <1>1, <1>8 DEF LaidOut, Stacked
  <2> QED BY <1>1, <1>2, <1>4, <1>5, <1>6, <2>1, <2>2, SMTT(20)
<1>10. ASSUME NEW k \in DOMAIN dyn
       PROVE  /\ DynId(k) \notin LocalIds /\ VariableSize(DynId(k)) = 2
              /\ Place(DynId(k)) = -stackSize - 2 * k /\ f.var /\ k \in 1..Len(dyn)
              /\ Place(DynId(k)) \in Int /\ sp + amount <= Place(DynId(k))
              /\ Place(DynId(k)) + 2 <= -stackSize
  <2>1. k \in 1..Len(dyn) /\ dyn # <<>> /\ f.var /\ dyn[k] = -stackSize - 2 * k
    BY <1>4 DEF DynInv
  <2>2. DynId(k) \notin LocalIds /\ DynId(k) - Len(f.locals) = k
    BY <1>4, <1>8 DEF DynId
  <2>3. VariableSize(DynId(k)) = 2 /\ Place(DynId(k)) = -stackSize - 2 * k
    BY <2>1, <2>2 DEF VariableSize, Place
  <2>4. sp + amount <= -stackSize - 2 * Len(dyn)
    BY <1>4, <2>1
  <2>5. -stackSize - 2 * Len(dyn) <= -stackSize - 2 * k /\ -stackSize - 2 * k + 2 <= -stackSize
    BY <1>1, <1>4, <2>1
  <2> QED BY <1>1, <1>4, <1>5, <2>1, <2>2, <2>3, <2>4, <2>5
<1>11. \A o \in Allocated : o \in LocalIds \/ \E k \in DOMAIN dyn : o = DynId(k)
  BY DEF Allocated
<1>12. ASSUME NEW o \in Allocated
       PROVE  /\ Place(o) \in Int /\ VariableSize(o) \in Nat /\ sp + amount <= Place(o)
              /\ Place(o) + VariableSize(o) <= Base - 2 * Saved
  <2>1. CASE o \in LocalIds
    BY <1>9, <2>1
  <2>2. ASSUME NEW k \in DOMAIN dyn, o = DynId(k)
        PROVE  /\ Place(o) \in Int /\ VariableSize(o) \in Nat /\ sp + amount <= Place(o)
               /\ Place(o) + VariableSize(o) <= Base - 2 * Saved
    <3>1. Place(o) \in Int /\ VariableSize(o) = 2 /\ sp + amount <= Place(o) /\ Place(o) + 2 <= -stackSize
      BY <1>10, <2>2
    <3> QED BY <1>1, <1>2, <1>3, <3>1
  <2> QED BY <1>11, <2>1, <2>2
<1>13. ASSUME NEW o \in LocalIds, NEW u \in LocalIds, u < o
       PROVE  Place(o) + VariableSize(o) <= Place(u)
  <2>1. objOff[o] + Size(o) <= objOff[u] /\ objOff[o] \in Int /\ objOff[u] \in Int /\ Size(o) \in Nat
    <3>1. Size(o) \in Nat /\ objOff[o] \in Int /\ objOff[u] \in Int
      BY <1>1, <1>8, LocalTypes
    <3>2. o \in DOMAIN objOff /\ u \in DOMAIN objOff
      BY <1>8
    <3>3. objOff[o] + Size(o) <= objOff[u]
      BY <1>1, <1>13, <3>2 DEF Stacked
    <3> QED BY <3>1, <3>3
  <2> QED BY <1>9, <2>1
<1>14. ASSUME NEW o \in LocalIds, NEW k \in DOMAIN dyn
       PROVE  Place(DynId(k)) + VariableSize(DynId(k)) <= Place(o)
  <2>1. Place(DynId(k)) \in Int /\ Place(DynId(k)) + 2 <= -stackSize /\ VariableSize(DynId(k)) = 2
    BY <1>10
  <2>2. Place(o) \in Int /\ Reserve - stackSize <= Place(o)
    BY <1>9
  <2> QED BY <1>1, <1>2, <2>1, <2>2
<1>15. ASSUME NEW k \in DOMAIN dyn, NEW l \in DOMAIN dyn, l < k
       PROVE  Place(DynId(k)) + VariableSize(DynId(k)) <= Place(DynId(l))
  <2>1. /\ Place(DynId(k)) = -stackSize - 2 * k /\ Place(DynId(l)) = -stackSize - 2 * l
        /\ VariableSize(DynId(k)) = 2 /\ k \in 1..Len(dyn) /\ l \in 1..Len(dyn)
    BY <1>10
  <2> QED BY <1>1, <1>4, <1>15, <2>1
<1>16. ASSUME NEW o \in Allocated, NEW u \in Allocated, o # u
       PROVE  \/ Place(o) + VariableSize(o) <= Place(u)
              \/ Place(u) + VariableSize(u) <= Place(o)
  <2>1. CASE o \in LocalIds /\ u \in LocalIds
    <3>1. o < u \/ u < o
      BY <1>8, <1>16, <2>1
    <3> QED BY <1>13, <2>1, <3>1
  <2>2. ASSUME NEW k \in DOMAIN dyn, o = DynId(k), u \in LocalIds
        PROVE  Place(o) + VariableSize(o) <= Place(u)
    BY <1>14, <2>2
  <2>3. ASSUME NEW k \in DOMAIN dyn, u = DynId(k), o \in LocalIds
        PROVE  Place(u) + VariableSize(u) <= Place(o)
    BY <1>14, <2>3
  <2>4. ASSUME NEW k \in DOMAIN dyn, NEW l \in DOMAIN dyn, o = DynId(k), u = DynId(l)
        PROVE  \/ Place(o) + VariableSize(o) <= Place(u)
               \/ Place(u) + VariableSize(u) <= Place(o)
    <3>1. k < l \/ l < k
      BY <1>4, <1>16, <2>4
    <3> QED BY <1>15, <2>4, <3>1
  <2> QED BY <1>11, <2>1, <2>2, <2>3, <2>4
<1> QED BY <1>2, <1>7, <1>12, <1>16

-------------------------------------------------------------------------------
(* The body runs *)

\* The address computed for an offset, from FP or from SP, is the right one.
LEMMA FrameIndexIs ==
  ASSUME LayoutInv, MachineTypes, IdleInv, DynInv, BodyInv, pc = "body", NEW off \in Int
  PROVE  FrameIndex(off) = off + 2
<1>1. CASE hasFP
  <2>1. regs[FP] = Addr(-2)
    BY <1>1 DEF BodyInv, FPSet
  <2>2. regs[FP].n = -2
    BY <2>1 DEF Addr
  <2>3. \A n \in Int : n = -2 => n + off + 4 = off + 2
    OBVIOUS
  <2>4. FrameIndex(off) = regs[FP].n + off + 4 /\ -2 \in Int
    BY <1>1 DEF FrameIndex
  <2> QED BY <2>2, <2>3, <2>4
<1>2. CASE ~hasFP
  <2>1. sp = -stackSize /\ stackSize \in Nat
    BY <1>2, BodySP DEF hasFP
  <2> QED BY <1>2, <2>1 DEF FrameIndex
<1> QED BY <1>1, <1>2

LEMMA VariableAddrIs ==
  ASSUME LayoutInv, MachineTypes, IdleInv, DynInv, BodyInv, pc = "body", NEW o \in Allocated
  PROVE  VariableAddr(o) = Place(o)
<1>1. CASE o \in LocalIds
  <2>1. objOff[o] \in Int
    BY <1>1, LenProperties DEF LayoutInv, LaidOut, Executing
  <2> QED BY <1>1, <2>1, FrameIndexIs DEF VariableAddr, Place
<1>2. CASE o \notin LocalIds
  BY <1>2 DEF VariableAddr, Place
<1> QED BY <1>1, <1>2

LEMMA AllocatedVariables ==
  ASSUME LayoutInv, MachineTypes, DynInv
  PROVE  Allocated \subseteq Variables
<1>1. Len(f.locals) \in Nat /\ LocalIds = 1..Len(f.locals) /\ MaxAllocas \in Nat
  BY LocalTypes, BoundsAssumption DEF LayoutInv
<1>2. Len(dyn) \in Nat /\ DOMAIN dyn = 1..Len(dyn) /\ Len(dyn) <= MaxAllocas
  BY LenProperties DEF MachineTypes, DynInv
<1> QED BY <1>1, <1>2 DEF Allocated, Variables, DynId

\* In the body it is enough to look at what the step changes.
BodyParts == /\ LayoutInv /\ MachineTypes /\ IdleInv /\ DynInv /\ BodyInv
             /\ ValuesInv /\ ArgumentsInPlace /\ pc = "body"

LEMMA BodyEnough == BodyParts => Inv
BY DEF BodyParts, Inv, PrologueInv, EpilogueInv, ReturnedInv

BodyStep ==
  \/ WriteVariable \/ WriteRegister \/ DynamicAlloca \/ CallFrameSetup \/ StoreArguments
  \/ Call \/ CallFrameDestroy

LEMMA BodyFrame ==
  ASSUME Inv, BodyStep
  PROVE  /\ pc = "body" /\ pc' = "body" /\ LayoutInv' /\ RunStep
         /\ Base' = Base /\ CSI' = CSI /\ Saved' = Saved /\ hasFP' = hasFP /\ LocalIds' = LocalIds
         /\ Variables' = Variables /\ Modified' = Modified /\ Others' = Others
         /\ f' = f /\ stackSize' = stackSize /\ objOff' = objOff /\ ip' = ip
<1>1. RunStep
  BY DEF RunStep, BodyStep
<1>2. pc = "body"
  BY DEF Inv, IdleInv, BodyStep, WriteVariable, WriteRegister, DynamicAlloca, CallFrameSetup,
         StoreArguments, Call, CallFrameDestroy
<1>3. pc' = pc /\ ip' = ip
  BY DEF BodyStep, WriteVariable, WriteRegister, DynamicAlloca, CallFrameSetup,
         StoreArguments, Call, CallFrameDestroy
<1> QED BY <1>1, <1>2, <1>3, RunStepLayout, RunFrame DEF Inv

\* A step of the body that keeps what is saved, FP and the registers not modified.
LEMMA BodyKeeps ==
  ASSUME Inv, BodyStep, sp >= -Depth,
         \A x \in DOMAIN mem : x >= Base - 2 * Saved => mem'[x] = mem[x],
         \A r \in Regs : (r = FP /\ hasFP) \/ r \in Others \ Modified => regs'[r] = regs[r],
         sp' = -stackSize - 2 * Len(dyn')
                 - (IF callseq' = "none" THEN 0 ELSE CallFrameAdjustment(amount)')
  PROVE  BodyInv'
<1>1. pc = "body" /\ pc' = "body" /\ stackSize' = stackSize /\ f' = f /\ hasFP' = hasFP
      /\ Modified' = Modified /\ Others' = Others /\ Saved' = Saved
  BY BodyFrame
<1>2. FPSaved /\ Pushed(Saved) /\ FPSet /\ Untouched /\ DOMAIN mem = (-Depth)..7 /\ sp \in Int
  BY <1>1 DEF Inv, BodyInv, MachineTypes
<1>3. Saved \in Nat /\ Base \in Int /\ Base - 2 * Saved <= 0 /\ sp <= Base - 2 * Saved
  BY <1>1, BodyBounds DEF Inv
<1>4. Depth \in Nat /\ (hasFP => Base = -2)
  BY BoundsAssumption DEF Base
<1>5. PICK low \in Int : low = Base - 2 * Saved /\ low >= -Depth /\ (hasFP => low <= -2)
  BY <1>2, <1>3, <1>4
<1>6. FPSaved' /\ Pushed(Saved)'
  <2>1. Saved \in 0..Saved /\ low <= Base - 2 * Saved
    BY <1>3, <1>5
  <2>2. PICK k \in 0..Saved : k = Saved
    BY <2>1
  <2>3. FPSaved' /\ Pushed(k)'
    BY <1>1, <1>2, <1>5, <2>1, <2>2, KeepsSaved DEF Inv
  <2> QED BY <1>1, <2>2, <2>3 DEF Pushed
<1>7. FPSet'
  BY <1>1, <1>2, WorthFacts DEF FPSet, Addr, FP
<1>8. Untouched'
  BY <1>1, <1>2, WorthFacts DEF Untouched, Entry
<1> QED BY <1>1, <1>6, <1>7, <1>8 DEF BodyInv

\* Variables keep their values where memory does and nothing is allocated.
LEMMA BodyKeepsValues ==
  ASSUME Inv, BodyStep, sp >= -Depth, dyn' = dyn, val' = val,
         \A x \in DOMAIN mem : x >= sp + amount => mem'[x] = mem[x]
  PROVE  ValuesInv'
<1>1. /\ pc = "body" /\ pc' = "body" /\ f' = f /\ objOff' = objOff /\ LocalIds' = LocalIds
      /\ Variables' = Variables
  BY BodyFrame
<1>2. Allocated' = Allocated
  BY <1>1 DEF Allocated, DynId
<1>3. /\ \A o \in Allocated : Holds(o)
      /\ \A o \in Variables \ Allocated : val[o] = Junk
  BY <1>1 DEF Inv, ValuesInv
<1>4. \A o : Place(o)' = Place(o) /\ VariableSize(o)' = VariableSize(o)
  BY <1>1 DEF Place, VariableSize
<1>5. DOMAIN mem = (-Depth)..7 /\ Depth \in Nat /\ sp \in Int
  BY BoundsAssumption DEF Inv, MachineTypes
<1>6. ASSUME NEW o \in Allocated PROVE Holds(o)'
  <2>1. /\ Place(o) \in Int /\ VariableSize(o) \in Nat /\ sp + amount <= Place(o) /\ amount \in Nat
        /\ Place(o) + VariableSize(o) <= 0
    <3>1. /\ Base - 2 * Saved <= 0 /\ Place(o) \in Int /\ VariableSize(o) \in Nat
          /\ sp + amount <= Place(o) /\ Place(o) + VariableSize(o) <= Base - 2 * Saved
          /\ Base \in Int /\ Saved \in Nat
      BY <1>1, BodyBounds DEF Inv
    <3>2. amount \in Nat
      BY <1>1, BodySP DEF Inv
    <3> QED BY <3>1, <3>2
  <2>2. \A x \in Bytes(Place(o), VariableSize(o)) : x \in DOMAIN mem /\ x >= sp + amount
    BY <1>5, <2>1 DEF Bytes
  <2>3. \A x \in Bytes(Place(o), VariableSize(o)) : mem'[x] = mem[x]
    BY <2>2
  <2>4. Bytes(Place(o), VariableSize(o))' = Bytes(Place(o), VariableSize(o))
    BY <1>4 DEF Bytes
  <2>5. val[o] # Junk => \A x \in Bytes(Place(o), VariableSize(o)) : mem[x] = val[o]
    BY <1>3 DEF Holds
  <2> QED BY <2>3, <2>4, <2>5 DEF Holds, Junk
<1> QED BY <1>1, <1>2, <1>3, <1>6 DEF ValuesInv, Junk

LEMMA WriteVariableInv ==
  ASSUME Inv, WriteVariable, sp >= -Depth
  PROVE  Inv'
<1>1. /\ BodyStep /\ UNCHANGED <<sp, regs, dyn, callseq, amount>>
      /\ \E o \in Allocated, v \in Values :
           /\ mem' = Filled(VariableAddr(o), VariableSize(o), Data(v))
           /\ val' = [val EXCEPT ![o] = Data(v)]
  BY DEF BodyStep, WriteVariable
<1>2. /\ pc = "body" /\ pc' = "body" /\ LayoutInv' /\ f' = f /\ stackSize' = stackSize
      /\ objOff' = objOff /\ LocalIds' = LocalIds /\ Variables' = Variables /\ ip' = ip
  BY <1>1, BodyFrame
<1>3. PICK o \in Allocated, v \in Values :
        /\ mem' = Filled(VariableAddr(o), VariableSize(o), Data(v))
        /\ val' = [val EXCEPT ![o] = Data(v)]
  BY <1>1
<1>4. /\ DOMAIN mem = (-Depth)..7 /\ Depth \in Nat /\ sp \in Int /\ DOMAIN val = Variables
      /\ \A x \in 0..7 : mem[x] = Return
  BY BoundsAssumption DEF Inv, MachineTypes
<1>5. Allocated \subseteq Variables
  BY AllocatedVariables DEF Inv
<1>6. PICK a, n : a = Place(o) /\ n = VariableSize(o)
  OBVIOUS
<1>7. /\ a \in Int /\ n \in Nat /\ amount \in Nat /\ sp + amount <= a /\ a + n <= Base - 2 * Saved
      /\ Base - 2 * Saved <= 0 /\ Base \in Int /\ Saved \in Nat
  BY <1>2, <1>6, BodyBounds, BodySP DEF Inv
<1>8. mem' = Filled(a, n, Data(v))
  BY <1>2, <1>3, <1>6, VariableAddrIs DEF Inv
<1>9. /\ DOMAIN mem' = (-Depth)..7
      /\ \A x \in DOMAIN mem : mem'[x] = IF x \in a..(a + n - 1) THEN Data(v) ELSE mem[x]
  BY <1>4, <1>8 DEF Filled, Bytes
<1>10. /\ \A x \in DOMAIN mem : x >= Base - 2 * Saved => mem'[x] = mem[x]
       /\ \A x \in 0..7 : mem'[x] = mem[x]
  BY <1>4, <1>7, <1>9
<1>11. MachineTypes'
  BY <1>1, <1>2, <1>3, <1>4, <1>9, <1>10 DEF Inv, MachineTypes, Return
<1>12. IdleInv'
  BY <1>1, <1>2 DEF Inv, IdleInv, Compiling
<1>13. DynInv'
  BY <1>1, <1>2 DEF Inv, DynInv
<1>14. BodyInv'
  <2>1. sp' = -stackSize - 2 * Len(dyn')
                - (IF callseq' = "none" THEN 0 ELSE CallFrameAdjustment(amount)')
    BY <1>1, <1>2 DEF Inv, BodyInv, CallFrameAdjustment, hasReservedCallFrame, alignTo
  <2> QED BY <1>1, <1>10, <2>1, BodyKeeps
<1>15. ValuesInv'
  <2>1. /\ \A u \in Allocated : Holds(u)
        /\ \A u \in Variables \ Allocated : val[u] = Junk
    BY <1>2 DEF Inv, ValuesInv
  <2>2. Allocated' = Allocated
    BY <1>1, <1>2 DEF Allocated, DynId
  <2>3. \A u : Place(u)' = Place(u) /\ VariableSize(u)' = VariableSize(u)
    BY <1>1, <1>2 DEF Place, VariableSize
  <2>4. ASSUME NEW u \in Allocated PROVE Holds(u)'
    <3>1. Bytes(Place(u), VariableSize(u))' = Bytes(Place(u), VariableSize(u))
      BY <2>3 DEF Bytes
    <3>2. CASE u = o
      <4>1. val'[u] = Data(v)
        BY <1>3, <1>4, <1>5, <3>2
      <4>2. \A x \in a..(a + n - 1) : mem'[x] = Data(v)
        <5>1. \A x \in a..(a + n - 1) : x \in DOMAIN mem
          BY <1>4, <1>7
        <5> QED BY <1>9, <5>1
      <4>3. \A x \in Bytes(Place(u), VariableSize(u)) : mem'[x] = val'[u]
        BY <1>6, <3>2, <4>1, <4>2 DEF Bytes
      <4> QED BY <3>1, <4>3 DEF Holds
    <3>3. CASE u # o
      <4>1. val'[u] = val[u]
        BY <1>3, <1>4, <1>5, <3>3
      <4>2. PICK b, m : b = Place(u) /\ m = VariableSize(u)
        OBVIOUS
      <4>3. /\ b \in Int /\ m \in Nat /\ sp + amount <= b /\ b + m <= Base - 2 * Saved
            /\ a + n <= b \/ b + m <= a
        BY <1>2, <1>6, <3>3, <4>2, BodyBounds DEF Inv
      <4>4. \A x \in b..(b + m - 1) : x \in DOMAIN mem /\ x \notin a..(a + n - 1)
        BY <1>4, <1>7, <4>3
      <4>5. \A x \in b..(b + m - 1) : mem'[x] = mem[x]
        BY <1>9, <4>4
      <4>6. val[u] # Junk => \A x \in b..(b + m - 1) : mem[x] = val[u]
        BY <2>1, <4>2 DEF Holds, Bytes
      <4>7. val'[u] # Junk => \A x \in Bytes(Place(u), VariableSize(u)) : mem'[x] = val'[u]
        BY <4>1, <4>2, <4>5, <4>6 DEF Bytes
      <4> QED BY <3>1, <4>7 DEF Holds, Junk
    <3> QED BY <3>2, <3>3
  <2>5. \A u \in Variables \ Allocated : val'[u] = Junk
    BY <1>3, <2>1
  <2> QED BY <1>2, <2>2, <2>4, <2>5 DEF ValuesInv, Junk
<1>16. ArgumentsInPlace'
  <2> SUFFICES ASSUME callseq = "stored", NEW i \in 0..(amount - 1) PROVE mem'[sp + i] = Arg(i)
    BY <1>1 DEF ArgumentsInPlace, Arg
  <2>1. mem[sp + i] = Arg(i)
    BY DEF Inv, ArgumentsInPlace
  <2>2. sp + i \in DOMAIN mem /\ sp + i \notin a..(a + n - 1)
    BY <1>4, <1>7
  <2> QED BY <1>9, <2>1, <2>2
<1>17. BodyParts'
  BY <1>2, <1>11, <1>12, <1>13, <1>14, <1>15, <1>16 DEF BodyParts
<1> QED BY <1>17, BodyEnough, PTL

LEMMA WriteRegisterInv ==
  ASSUME Inv, WriteRegister, sp >= -Depth
  PROVE  Inv'
<1>1. /\ BodyStep /\ UNCHANGED <<sp, mem, dyn, callseq, amount, val>>
      /\ \E r \in f.uses : regs' = [regs EXCEPT ![r] = Junk]
  BY DEF BodyStep, WriteRegister
<1>2. /\ pc = "body" /\ pc' = "body" /\ LayoutInv' /\ f' = f /\ stackSize' = stackSize
      /\ Variables' = Variables /\ ip' = ip
  BY <1>1, BodyFrame
<1>3. PICK r \in f.uses : regs' = [regs EXCEPT ![r] = Junk]
  BY <1>1
<1>4. MachineTypes'
  BY <1>1, <1>2, <1>3 DEF Inv, MachineTypes, Return
<1>5. IdleInv'
  BY <1>1, <1>2 DEF Inv, IdleInv, Compiling
<1>6. DynInv'
  BY <1>1, <1>2 DEF Inv, DynInv
<1>7. BodyInv'
  <2>1. sp' = -stackSize - 2 * Len(dyn')
                - (IF callseq' = "none" THEN 0 ELSE CallFrameAdjustment(amount)')
    BY <1>1, <1>2 DEF Inv, BodyInv, CallFrameAdjustment, hasReservedCallFrame, alignTo
  <2>2. r \in Modified /\ (hasFP => r # FP)
    BY <1>2, FunctionTypes DEF Inv, LayoutInv, Modified
  <2>3. \A q \in Regs : q # r => regs'[q] = regs[q]
    BY <1>3 DEF Inv, MachineTypes
  <2> QED BY <1>1, <2>1, <2>2, <2>3, BodyKeeps
<1>8. ValuesInv'
  BY <1>1, BodyKeepsValues
<1>9. ArgumentsInPlace'
  BY <1>1 DEF Inv, ArgumentsInPlace, Arg
<1>10. BodyParts'
  BY <1>2, <1>4, <1>5, <1>6, <1>7, <1>8, <1>9 DEF BodyParts
<1> QED BY <1>10, BodyEnough, PTL

LEMMA DynamicAllocaInv ==
  ASSUME Inv, DynamicAlloca, sp >= -Depth, sp' >= -Depth
  PROVE  Inv'
<1>1. /\ BodyStep /\ UNCHANGED <<regs, mem, callseq, amount, val>>
      /\ f.var /\ callseq = "none" /\ Len(dyn) < MaxAllocas
      /\ sp' = sp - 2 /\ dyn' = Append(dyn, sp')
  BY DEF BodyStep, DynamicAlloca
<1>2. /\ pc = "body" /\ pc' = "body" /\ LayoutInv' /\ f' = f /\ stackSize' = stackSize
      /\ objOff' = objOff /\ LocalIds' = LocalIds /\ Variables' = Variables /\ ip' = ip
  BY <1>1, BodyFrame
<1>3. /\ sp \in Int /\ sp <= 0 /\ dyn \in Seq((-Depth)..0) /\ Depth \in Nat /\ MaxAllocas \in Nat
  BY BoundsAssumption DEF Inv, MachineTypes
<1>4. PICK t : t = sp'
  OBVIOUS
<1>5. t \in (-Depth)..0 /\ dyn' = Append(dyn, t)
  BY <1>1, <1>3, <1>4
<1>6. /\ dyn' \in Seq((-Depth)..0) /\ Len(dyn') = Len(dyn) + 1 /\ dyn'[Len(dyn) + 1] = t
      /\ \A k \in 1..Len(dyn) : dyn'[k] = dyn[k]
      /\ Len(dyn) \in Nat /\ DOMAIN dyn = 1..Len(dyn) /\ DOMAIN dyn' = 1..(Len(dyn) + 1)
  BY <1>3, <1>5, AppendProperties, LenProperties
<1>7. stackSize \in Nat /\ sp = -stackSize - 2 * Len(dyn) - 0
  BY <1>1, <1>2 DEF Inv, BodyInv, LayoutInv
<1>8. t = -stackSize - 2 * (Len(dyn) + 1)
  BY <1>1, <1>4, <1>6, <1>7
<1>9. MachineTypes'
  BY <1>1, <1>2, <1>3, <1>4, <1>5, <1>6 DEF Inv, MachineTypes, Return
<1>10. IdleInv'
  BY <1>1, <1>2 DEF Inv, IdleInv, Compiling
<1>11. DynInv'
  <2>1. Len(dyn') <= MaxAllocas
    BY <1>1, <1>3, <1>6
  <2>2. ASSUME NEW k \in DOMAIN dyn' PROVE dyn'[k] = -stackSize - 2 * k
    <3>1. CASE k = Len(dyn) + 1
      BY <1>6, <1>8, <3>1
    <3>2. CASE k \in 1..Len(dyn)
      BY <1>6, <3>2 DEF Inv, DynInv
    <3> QED BY <1>6, <3>1, <3>2
  <2> QED BY <1>1, <1>2, <2>1, <2>2 DEF DynInv
<1>12. BodyInv'
  <2>1. sp' = -stackSize - 2 * Len(dyn')
                - (IF callseq' = "none" THEN 0 ELSE CallFrameAdjustment(amount)')
    BY <1>1, <1>4, <1>6, <1>7, <1>8
  <2> QED BY <1>1, <2>1, BodyKeeps
<1>13. ValuesInv'
  <2>1. /\ \A u \in Allocated : Holds(u)
        /\ \A u \in Variables \ Allocated : val[u] = Junk
        /\ Allocated \subseteq Variables
    BY <1>2, AllocatedVariables DEF Inv, ValuesInv
  <2>2. Len(f.locals) \in Nat /\ LocalIds = 1..Len(f.locals)
    BY LocalTypes DEF Inv, LayoutInv
  <2>3. PICK w : w = DynId(Len(dyn) + 1)
    OBVIOUS
  <2>6. Allocated' = Allocated \cup {w} /\ w \notin Allocated /\ w \in Variables
    <3>1. \A k : DynId(k)' = DynId(k)
      BY <1>2 DEF DynId
    <3>2. DOMAIN dyn' = DOMAIN dyn \cup {Len(dyn) + 1}
      BY <1>6
    <3>3. Allocated' = Allocated \cup {w}
      BY <1>2, <2>3, <3>1, <3>2 DEF Allocated
    <3>4. w = Len(f.locals) + Len(dyn) + 1 /\ w \notin LocalIds /\ w \in Variables
      <4>1. w = Len(f.locals) + (Len(dyn) + 1)
        BY <2>3 DEF DynId
      <4>2. Len(dyn) < MaxAllocas /\ Len(dyn) \in Nat /\ MaxAllocas \in Nat /\ Len(f.locals) \in Nat
        BY <1>1, <1>3, <1>6, <2>2
      <4>3. w = Len(f.locals) + Len(dyn) + 1 /\ w \notin 1..Len(f.locals)
            /\ w \in 1..(Len(f.locals) + MaxAllocas)
        <5>1. \A l, n, m \in Nat : n < m =>
                /\ l + (n + 1) = l + n + 1 /\ l + (n + 1) \notin 1..l
                /\ l + (n + 1) \in 1..(l + m)
          OBVIOUS
        <5> QED BY <4>1, <4>2, <5>1
      <4> QED BY <2>2, <4>3 DEF Variables
    <3>5. \A k \in DOMAIN dyn : DynId(k) # w
      BY <1>6, <2>2, <3>4 DEF DynId
    <3> QED BY <3>3, <3>4, <3>5 DEF Allocated
  <2>4. ASSUME NEW u \in Allocated PROVE Holds(u)'
    <3>1. Place(u)' = Place(u)
      <4>1. CASE u \in LocalIds
        BY <1>2, <4>1 DEF Place
      <4>2. ASSUME NEW k \in DOMAIN dyn, u = DynId(k), u \notin LocalIds
            PROVE  Place(u)' = Place(u)
        <5>1. u - Len(f.locals) = k
          BY <1>6, <2>2, <4>2 DEF DynId
        <5> QED BY <1>2, <1>6, <4>2, <5>1 DEF Place
      <4> QED BY <4>1, <4>2 DEF Allocated
    <3>2. Bytes(Place(u), VariableSize(u))' = Bytes(Place(u), VariableSize(u))
      BY <1>2, <3>1 DEF Bytes, VariableSize
    <3>3. Holds(u)
      BY <2>1
    <3> QED BY <1>1, <3>2, <3>3 DEF Holds, Junk
  <2>5. Holds(w)'
    <3>1. val'[w] = Junk
      BY <1>1, <2>1, <2>6
    <3> QED BY <3>1 DEF Holds, Junk
  <2>7. \A u \in Allocated' : u \in Allocated \/ u = w
    BY <2>6
  <2>8. \A u \in Allocated' : Holds(u)'
    BY <2>4, <2>5, <2>7
  <2>9. \A u \in Variables \ Allocated' : val'[u] = Junk
    BY <1>1, <2>1, <2>6
  <2> QED BY <1>2, <2>8, <2>9 DEF ValuesInv, Junk
<1>14. ArgumentsInPlace'
  BY <1>1 DEF ArgumentsInPlace
<1>15. BodyParts'
  BY <1>2, <1>9, <1>10, <1>11, <1>12, <1>13, <1>14 DEF BodyParts
<1> QED BY <1>15, BodyEnough, PTL

LEMMA CallFrameSetupInv ==
  ASSUME Inv, CallFrameSetup, sp >= -Depth
  PROVE  Inv'
<1>1. /\ BodyStep /\ UNCHANGED <<regs, mem, dyn, val>> /\ callseq = "none" /\ callseq' = "down"
      /\ \E k \in f.calls : amount' = k /\ sp' = sp - CallFrameAdjustment(k)
  BY DEF BodyStep, CallFrameSetup
<1>2. /\ pc = "body" /\ pc' = "body" /\ LayoutInv' /\ f' = f /\ stackSize' = stackSize
      /\ Variables' = Variables /\ ip' = ip
  BY <1>1, BodyFrame
<1>3. PICK k \in f.calls : amount' = k /\ sp' = sp - CallFrameAdjustment(k)
  BY <1>1
<1>4. k \in Nat
  BY <1>2, FunctionTypes DEF Inv, LayoutInv
<1>5. CallFrameAdjustment(k) \in Nat
  BY <1>4, AlignToBound DEF CallFrameAdjustment
<1>6. sp \in Int /\ sp <= 0
  BY DEF Inv, MachineTypes
<1>7. MachineTypes'
  <2>1. sp' \in Int /\ sp' <= 0
    BY <1>3, <1>5, <1>6
  <2> QED BY <1>1, <1>2, <2>1 DEF Inv, MachineTypes, Return
<1>8. IdleInv'
  BY <1>1, <1>2, <1>3 DEF Inv, IdleInv, Compiling
<1>9. DynInv'
  BY <1>1, <1>2 DEF Inv, DynInv
<1>10. BodyInv'
  <2>1. CallFrameAdjustment(amount)' = CallFrameAdjustment(k)
    BY <1>2, <1>3 DEF CallFrameAdjustment, hasReservedCallFrame, alignTo
  <2>2. sp = -stackSize - 2 * Len(dyn) - 0 /\ stackSize \in Nat /\ Len(dyn) \in Nat
    BY <1>1, <1>2, BodySP DEF Inv, BodyInv
  <2>3. sp' = -stackSize - 2 * Len(dyn')
                - (IF callseq' = "none" THEN 0 ELSE CallFrameAdjustment(amount)')
    BY <1>1, <1>3, <1>5, <2>1, <2>2
  <2> QED BY <1>1, <2>3, BodyKeeps
<1>11. ValuesInv'
  BY <1>1, BodyKeepsValues
<1>12. ArgumentsInPlace'
  BY <1>1 DEF ArgumentsInPlace
<1>13. BodyParts'
  BY <1>2, <1>7, <1>8, <1>9, <1>10, <1>11, <1>12 DEF BodyParts
<1> QED BY <1>13, BodyEnough, PTL

LEMMA StoreArgumentsInv ==
  ASSUME Inv, StoreArguments, sp >= -Depth
  PROVE  Inv'
<1>1. /\ BodyStep /\ UNCHANGED <<sp, regs, dyn, amount, val>> /\ callseq = "down"
      /\ callseq' = "stored"
      /\ mem' = [x \in DOMAIN mem |-> IF x \in Bytes(sp, amount) THEN Arg(x - sp) ELSE mem[x]]
  BY DEF BodyStep, StoreArguments
<1>2. /\ pc = "body" /\ pc' = "body" /\ LayoutInv' /\ f' = f /\ stackSize' = stackSize
      /\ Variables' = Variables /\ ip' = ip
  BY <1>1, BodyFrame
<1>3. /\ sp \in Int /\ sp <= 0 /\ DOMAIN mem = (-Depth)..7 /\ Depth \in Nat
      /\ \A x \in 0..7 : mem[x] = Return
  BY BoundsAssumption DEF Inv, MachineTypes
<1>4. /\ amount \in Nat /\ sp + amount <= Base - 2 * Saved /\ Base - 2 * Saved <= 0
      /\ Base \in Int /\ Saved \in Nat
  BY <1>2, BodySP, BodyBounds DEF Inv
<1>5. /\ DOMAIN mem' = (-Depth)..7
      /\ \A x \in DOMAIN mem : mem'[x] = IF x \in sp..(sp + amount - 1) THEN Arg(x - sp) ELSE mem[x]
  BY <1>1, <1>3 DEF Bytes
<1>6. \A x \in DOMAIN mem : x >= sp + amount => mem'[x] = mem[x]
  BY <1>3, <1>4, <1>5
<1>7. /\ \A x \in DOMAIN mem : x >= Base - 2 * Saved => mem'[x] = mem[x]
      /\ \A x \in 0..7 : mem'[x] = mem[x]
  BY <1>3, <1>4, <1>6
<1>8. MachineTypes'
  BY <1>1, <1>2, <1>3, <1>5, <1>7 DEF Inv, MachineTypes, Return
<1>9. IdleInv'
  BY <1>1, <1>2 DEF Inv, IdleInv, Compiling
<1>10. DynInv'
  BY <1>1, <1>2 DEF Inv, DynInv
<1>11. BodyInv'
  <2>1. sp' = -stackSize - 2 * Len(dyn')
                - (IF callseq' = "none" THEN 0 ELSE CallFrameAdjustment(amount)')
    BY <1>1, <1>2 DEF Inv, BodyInv, CallFrameAdjustment, hasReservedCallFrame, alignTo
  <2> QED BY <1>1, <1>7, <2>1, BodyKeeps
<1>12. ValuesInv'
  BY <1>1, <1>6, BodyKeepsValues
<1>13. ArgumentsInPlace'
  <2>1. ASSUME NEW i \in 0..(amount - 1) PROVE mem'[sp + i] = Arg(i)
    <3>1. sp + i \in DOMAIN mem /\ sp + i \in sp..(sp + amount - 1) /\ (sp + i) - sp = i
      BY <1>3, <1>4
    <3> QED BY <1>5, <3>1
  <2> QED BY <1>1, <2>1 DEF ArgumentsInPlace, Arg
<1>14. BodyParts'
  BY <1>2, <1>8, <1>9, <1>10, <1>11, <1>12, <1>13 DEF BodyParts
<1> QED BY <1>14, BodyEnough, PTL

LEMMA CallInv ==
  ASSUME Inv, Call, sp >= -Depth
  PROVE  Inv'
<1>1. /\ BodyStep /\ UNCHANGED <<sp, dyn, amount, val>> /\ callseq = "stored" /\ callseq' = "up"
      /\ mem' = Trashed(sp + amount)
      /\ regs' = [r \in Regs |-> IF r \in 11..15 THEN Junk ELSE regs[r]]
  BY DEF BodyStep, Call
<1>2. /\ pc = "body" /\ pc' = "body" /\ LayoutInv' /\ f' = f /\ stackSize' = stackSize
      /\ Variables' = Variables /\ ip' = ip
  BY <1>1, BodyFrame
<1>3. /\ sp \in Int /\ sp <= 0 /\ DOMAIN mem = (-Depth)..7 /\ Depth \in Nat
      /\ \A x \in 0..7 : mem[x] = Return
  BY BoundsAssumption DEF Inv, MachineTypes
<1>4. /\ amount \in Nat /\ sp + amount <= Base - 2 * Saved /\ Base - 2 * Saved <= 0
      /\ Base \in Int /\ Saved \in Nat
  BY <1>2, BodySP, BodyBounds DEF Inv
<1>5. /\ DOMAIN mem' = (-Depth)..7
      /\ \A x \in DOMAIN mem : x >= sp + amount => mem'[x] = mem[x]
  BY <1>1, <1>3, <1>4 DEF Trashed
<1>6. /\ \A x \in DOMAIN mem : x >= Base - 2 * Saved => mem'[x] = mem[x]
      /\ \A x \in 0..7 : mem'[x] = mem[x]
  BY <1>3, <1>4, <1>5
<1>7. MachineTypes'
  BY <1>1, <1>2, <1>3, <1>5, <1>6 DEF Inv, MachineTypes, Return
<1>8. IdleInv'
  BY <1>1, <1>2 DEF Inv, IdleInv, Compiling
<1>9. DynInv'
  BY <1>1, <1>2 DEF Inv, DynInv
<1>10. BodyInv'
  <2>1. sp' = -stackSize - 2 * Len(dyn')
                - (IF callseq' = "none" THEN 0 ELSE CallFrameAdjustment(amount)')
    BY <1>1, <1>2 DEF Inv, BodyInv, CallFrameAdjustment, hasReservedCallFrame, alignTo
  <2>2. 11..15 \subseteq Modified /\ FP \notin 11..15
    <3>1. amount \in f.calls
      BY <1>1 DEF Inv, IdleInv
    <3> QED BY <3>1 DEF Modified, FP
  <2>3. \A r \in Regs : r \notin 11..15 => regs'[r] = regs[r]
    BY <1>1
  <2> QED BY <1>1, <1>6, <2>1, <2>2, <2>3, BodyKeeps
<1>11. ValuesInv'
  BY <1>1, <1>5, BodyKeepsValues
<1>12. ArgumentsInPlace'
  BY <1>1 DEF ArgumentsInPlace
<1>13. BodyParts'
  BY <1>2, <1>7, <1>8, <1>9, <1>10, <1>11, <1>12 DEF BodyParts
<1> QED BY <1>13, BodyEnough, PTL

LEMMA CallFrameDestroyInv ==
  ASSUME Inv, CallFrameDestroy, sp >= -Depth
  PROVE  Inv'
<1>1. /\ BodyStep /\ UNCHANGED <<regs, mem, dyn, val>> /\ callseq = "up" /\ callseq' = "none"
      /\ amount' = 0 /\ sp' = sp + CallFrameAdjustment(amount)
  BY DEF BodyStep, CallFrameDestroy
<1>2. /\ pc = "body" /\ pc' = "body" /\ LayoutInv' /\ f' = f /\ stackSize' = stackSize
      /\ Variables' = Variables /\ ip' = ip
  BY <1>1, BodyFrame
<1>3. amount \in Nat /\ stackSize \in Nat /\ Len(dyn) \in Nat
  BY <1>2, BodySP DEF Inv
<1>4. CallFrameAdjustment(amount) \in Nat
  BY <1>3, AlignToBound DEF CallFrameAdjustment
<1>5. sp = -stackSize - 2 * Len(dyn) - CallFrameAdjustment(amount)
  BY <1>1, <1>2 DEF Inv, BodyInv
<1>6. sp' = -stackSize - 2 * Len(dyn) /\ sp' \in Int /\ sp' <= 0
  BY <1>1, <1>3, <1>4, <1>5
<1>7. MachineTypes'
  BY <1>1, <1>2, <1>6 DEF Inv, MachineTypes, Return
<1>8. IdleInv'
  BY <1>1, <1>2 DEF Inv, IdleInv, Compiling
<1>9. DynInv'
  BY <1>1, <1>2 DEF Inv, DynInv
<1>10. BodyInv'
  <2>1. sp' = -stackSize - 2 * Len(dyn')
                - (IF callseq' = "none" THEN 0 ELSE CallFrameAdjustment(amount)')
    BY <1>1, <1>3, <1>6
  <2> QED BY <1>1, <2>1, BodyKeeps
<1>11. ValuesInv'
  BY <1>1, BodyKeepsValues
<1>12. ArgumentsInPlace'
  BY <1>1 DEF ArgumentsInPlace
<1>13. BodyParts'
  BY <1>2, <1>7, <1>8, <1>9, <1>10, <1>11, <1>12 DEF BodyParts
<1> QED BY <1>13, BodyEnough, PTL

-------------------------------------------------------------------------------
(* The epilogue runs *)

LEMMA LeaveBodyInv ==
  ASSUME Inv, LeaveBody
  PROVE  Inv'
<1>1. /\ RunStep /\ pc = "body" /\ pc' = "epilogue" /\ ip' = 1 /\ callseq = "none"
      /\ UNCHANGED <<sp, regs, mem, dyn, callseq, amount, val>>
  BY DEF RunStep, LeaveBody
<1>2. LayoutInv' /\ f' = f
  BY <1>1, RunStepLayout DEF Inv
<1>3. /\ Base' = Base /\ CSI' = CSI /\ Saved' = Saved /\ hasFP' = hasFP /\ stackSize' = stackSize
      /\ Others' = Others /\ Modified' = Modified /\ Lead' = Lead /\ Variables' = Variables
      /\ epilogue' = epilogue /\ NumBytes' = NumBytes
  BY <1>1, RunFrame DEF Inv
<1>4. MachineTypes'
  BY <1>1, <1>2, <1>3 DEF Inv, MachineTypes, Return
<1>5. IdleInv'
  BY <1>1, <1>2 DEF Inv, IdleInv, Compiling
<1>6. DynInv'
  BY <1>1, <1>2, <1>3 DEF Inv, DynInv
<1>7. /\ FPSaved /\ Pushed(Saved) /\ FPSet /\ Untouched /\ (~f.var => sp = -stackSize)
      /\ Saved \in Nat
  BY <1>1, BodySP, SavedTypes DEF Inv, BodyInv
<1>8. \A j \in 1..Saved : Slot(j)' = Slot(j)
  BY <1>3 DEF Slot
<1>9. FPSaved' /\ Pushed(Saved)' /\ FPSet' /\ Untouched'
  BY <1>1, <1>3, <1>7, <1>8 DEF FPSaved, Pushed, FPSet, Untouched, SavedAt, Entry, Addr, FP
<1>10. BeforeEpilogue(1)'
  <2>1. CASE 1 <= Lead
    BY <1>1, <1>2, <1>3, <1>7, <1>9, <2>1 DEF BeforeEpilogue
  <2>2. CASE ~(1 <= Lead)
    <3>1. ~f.var /\ NumBytes = 0 /\ Lead = 0
      BY <2>2 DEF Lead
    <3>2. sp = Base - 2 * (Saved - 0)
      <4>1. stackSize = NumBytes + 2 * Saved - Base /\ Base \in Int
        BY <1>1, NumBytesType DEF Inv, Executing
      <4> QED BY <1>7, <3>1, <4>1
    <3>3. 1 - 1 - Lead = 0 /\ 0 <= Saved /\ Saved - 0 = Saved
      BY <1>7, <3>1
    <3>4. Restored(0)'
      BY DEF Restored
    <3>5. Pushed(Saved - 0)'
      BY <1>9, <3>3, <1>3 DEF Pushed
    <3> QED BY <1>1, <1>2, <1>3, <1>9, <2>2, <3>2, <3>3, <3>4, <3>5 DEF BeforeEpilogue
  <2> QED BY <2>1, <2>2
<1>11. EpilogueInv'
  <2>1. Len(epilogue) \in Nat
    BY <1>1, EpilogueLengthFact DEF Inv, EpilogueLength, Executing
  <2>2. ip' \in 1..(Len(epilogue') + 1)
    BY <1>1, <1>3, <2>1
  <2> QED BY <1>1, <1>10, <2>2 DEF EpilogueInv, BeforeEpilogue
<1> QED BY <1>1, <1>2, <1>4, <1>5, <1>6, <1>11
        DEF Inv, PrologueInv, BodyInv, ReturnedInv, ValuesInv, ArgumentsInPlace

\* Where the epilogue is: bringing SP below the saved registers, popping
\* register k + 1 of CSI, or popping FP.
LEMMA EpilogueWhere ==
  ASSUME LayoutInv, pc = "epilogue", NEW i \in 1..Len(epilogue)
  PROVE  \/ f.var /\ i = 1 /\ 1 <= Lead /\ epilogue[i] = SetSP
         \/ f.var /\ i = 2 /\ Lead = 2 /\ csSize # 0 /\ epilogue[i] = AddSP(-csSize)
         \/ ~f.var /\ i = 1 /\ Lead = 1 /\ NumBytes # 0 /\ epilogue[i] = AddSP(NumBytes)
         \/ \E k \in 0..(Saved - 1) : i = Lead + k + 1 /\ epilogue[i] = Pop(CSI[k + 1])
         \/ i = Lead + Saved + 1 /\ hasFP /\ epilogue[i] = Pop(FP)
<1>1. /\ Len(epilogue) = Lead + Saved + (IF hasFP THEN 1 ELSE 0)
      /\ f.var => epilogue[1] = SetSP /\ (csSize # 0 => epilogue[2] = AddSP(-csSize))
      /\ ~f.var /\ NumBytes # 0 => epilogue[1] = AddSP(NumBytes)
      /\ \A n \in 1..Saved : epilogue[Lead + n] = Pop(CSI[n])
      /\ hasFP => epilogue[Lead + Saved + 1] = Pop(FP)
  BY EpilogueFacts DEF EpilogueAt, Executing
<1>2. /\ Saved \in Nat /\ Lead \in Nat
      /\ f.var => (csSize = 0 /\ Lead = 1) \/ (csSize # 0 /\ Lead = 2)
      /\ ~f.var => (NumBytes = 0 /\ Lead = 0) \/ (NumBytes # 0 /\ Lead = 1)
  BY SavedTypes DEF Lead
<1>3. CASE i <= Lead
  <2>1. CASE f.var
    <3>1. i = 1 \/ (i = 2 /\ Lead = 2 /\ csSize # 0)
      BY <1>2, <1>3, <2>1
    <3>2. 1 <= Lead
      BY <1>2, <2>1
    <3> QED BY <1>1, <2>1, <3>1, <3>2
  <2>2. CASE ~f.var
    <3>1. i = 1 /\ Lead = 1 /\ NumBytes # 0
      BY <1>2, <1>3, <2>2
    <3> QED BY <1>1, <2>2, <3>1
  <2> QED BY <2>1, <2>2
<1>4. CASE i > Lead /\ i <= Lead + Saved
  <2>1. PICK n \in 1..Saved : i = Lead + n
    <3>1. i - Lead \in 1..Saved /\ i = Lead + (i - Lead)
      BY <1>2, <1>4
    <3> QED BY <3>1
  <2>2. n - 1 \in 0..(Saved - 1) /\ i = Lead + (n - 1) + 1 /\ (n - 1) + 1 = n
    BY <1>2, <2>1
  <2>3. epilogue[i] = Pop(CSI[n])
    BY <1>1, <2>1
  <2> QED BY <2>2, <2>3
<1>5. CASE i > Lead + Saved
  <2>1. i = Lead + Saved + 1 /\ hasFP
    BY <1>1, <1>2, <1>5
  <2> QED BY <1>1, <2>1
<1> QED BY <1>2, <1>3, <1>4, <1>5

LEMMA EpilogueStep ==
  ASSUME LayoutInv, MachineTypes, pc = "epilogue", RunEpilogue, ip \in 1..Len(epilogue),
         BeforeEpilogue(ip)
  PROVE  MachineTypes' /\ ip' = ip + 1 /\ pc' = "epilogue" /\ BeforeEpilogue(ip)'
<1>1. PICK i \in 1..Len(epilogue) : i = ip
  OBVIOUS
<1>2. /\ Execute(epilogue[i]) /\ ip' = i + 1 /\ pc' = pc
      /\ UNCHANGED <<f, dyn, callseq, amount, val>>
  BY <1>1 DEF RunEpilogue
<1>3. BeforeEpilogue(i)
  BY <1>1
<1>4. RunStep
  BY DEF RunStep
<1>5. /\ Base' = Base /\ CSI' = CSI /\ Saved' = Saved /\ hasFP' = hasFP /\ Lead' = Lead
      /\ Others' = Others /\ Modified' = Modified /\ stackSize' = stackSize
      /\ Variables' = Variables /\ csSize' = csSize
      /\ \A j \in 1..Saved : Slot(j)' = Slot(j)
  BY <1>4, RunFrame DEF Slot
<1>6. /\ Saved \in Nat /\ Base \in Int /\ (hasFP => Base = -2) /\ (~hasFP => Base = 0)
      /\ NumBytes \in Nat /\ stackSize = NumBytes + 2 * Saved - Base /\ stackSize \in Nat
      /\ csSize = 2 * Saved /\ f \in Functions /\ (f.var => hasFP) /\ i \in Nat /\ Lead \in Nat
  BY <1>1, NumBytesType, FrameTypes DEF Executing, LayoutInv, Lead
<1>7. /\ sp \in Int /\ sp <= 0 /\ DOMAIN regs = Regs /\ DOMAIN mem = (-Depth)..7
      /\ \A x \in 0..7 : mem[x] = Return
  BY DEF MachineTypes
<1>8. Untouched
  BY <1>3 DEF BeforeEpilogue
<1>9. ASSUME sp' \in Int, sp' <= 0, DOMAIN regs' = Regs, mem' = mem
      PROVE  MachineTypes'
  BY <1>2, <1>5, <1>6, <1>7, <1>9 DEF MachineTypes, Return
<1>10. ASSUME regs' = regs PROVE Untouched' /\ (FPSet => FPSet')
  BY <1>5, <1>8, <1>10 DEF Untouched, FPSet, Entry, Addr, FP
<1>11. ASSUME mem' = mem
       PROVE  (FPSaved => FPSaved') /\ \A k : Pushed(k) => Pushed(k)'
  BY <1>5, <1>11 DEF FPSaved, Pushed, SavedAt, Entry, FP
<1>12. Safe' <=> Safe
  BY <1>2 DEF Safe
<1>13. CASE f.var /\ i = 1 /\ 1 <= Lead /\ epilogue[i] = SetSP
  <2>1. sp' = regs[FP].n /\ mem' = mem /\ regs' = regs
    BY <1>2, <1>13 DEF Execute, SetSP
  <2>2. FPSet /\ (Safe => FPSaved /\ Pushed(Saved)) /\ hasFP
    BY <1>3, <1>6, <1>13 DEF BeforeEpilogue
  <2>3. sp' = -2
    BY <2>1, <2>2 DEF FPSet, Addr
  <2>4. MachineTypes'
    BY <1>7, <1>9, <2>1, <2>3
  <2>5. Untouched' /\ FPSet' /\ (Safe' => FPSaved' /\ Pushed(Saved)')
    <3>1. PICK s : s = Saved
      OBVIOUS
    <3>2. Safe => FPSaved' /\ Pushed(s)'
      BY <1>11, <2>1, <2>2, <3>1
    <3>3. Safe => Pushed(Saved)'
      BY <1>5, <3>1, <3>2 DEF Pushed
    <3> QED BY <1>10, <1>12, <2>1, <2>2, <3>2, <3>3
  <2>6. PICK n : n = i + 1
    OBVIOUS
  <2>7. ip' = n /\ n = 2
    BY <1>2, <1>13, <2>6
  <2>8. BeforeEpilogue(n)'
    <3>1. CASE Lead = 2
      <4>1. n <= Lead /\ n # 1
        BY <2>7, <3>1
      <4> QED BY <1>5, <2>3, <2>5, <2>7, <4>1 DEF BeforeEpilogue
    <3>2. CASE Lead # 2
      <4>1. Lead = 1 /\ csSize = 0
        BY <1>13, <3>2 DEF Lead
      <4>2. Saved = 0
        BY <1>6, <4>1
      <4>3. ~(n <= Lead) /\ n - 1 - Lead = 0 /\ 0 <= Saved
        BY <2>7, <4>1, <4>2
      <4>4. sp' = Base - 2 * (Saved - 0)
        BY <1>6, <2>2, <2>3, <4>2
      <4>5. Safe' => FPSaved' /\ Pushed(Saved - 0)' /\ Restored(0)'
        <5>1. Saved - 0 = Saved
          BY <4>2
        <5>2. Restored(0)'
          BY DEF Restored
        <5> QED BY <1>5, <2>5, <5>1, <5>2 DEF Pushed
      <4> QED BY <1>5, <2>5, <4>3, <4>4, <4>5 DEF BeforeEpilogue
    <3> QED BY <3>1, <3>2
  <2>9. BeforeEpilogue(ip)'
    BY <2>7, <2>8 DEF BeforeEpilogue
  <2> QED BY <1>1, <1>2, <2>4, <2>9
<1>14. CASE \/ i = Lead /\ Lead = 2 /\ f.var /\ csSize # 0 /\ epilogue[i] = AddSP(-csSize)
            \/ i = Lead /\ Lead = 1 /\ ~f.var /\ NumBytes # 0 /\ epilogue[i] = AddSP(NumBytes)
  <2>1. /\ mem' = mem /\ regs' = regs
        /\ f.var => sp' = sp + -csSize
        /\ ~f.var => sp' = sp + NumBytes
    <3>1. PICK d : d = IF f.var THEN -csSize ELSE NumBytes
      OBVIOUS
    <3>2. epilogue[i] = AddSP(d)
      BY <1>14, <3>1
    <3>3. sp' = sp + d /\ mem' = mem /\ regs' = regs
      BY <1>2, <3>2 DEF Execute, AddSP
    <3> QED BY <3>1, <3>3
  <2>2. /\ FPSet /\ (Safe => FPSaved /\ Pushed(Saved))
        /\ f.var => sp = -2
        /\ ~f.var => sp = -stackSize
    BY <1>3, <1>6, <1>14 DEF BeforeEpilogue
  <2>3. sp' = Base - 2 * Saved
    <3>1. CASE f.var
      BY <1>6, <2>1, <2>2, <3>1
    <3>2. CASE ~f.var
      BY <1>6, <2>1, <2>2, <3>2
    <3> QED BY <3>1, <3>2
  <2>4. MachineTypes'
    <3>1. sp' \in Int /\ sp' <= 0
      BY <1>6, <2>3
    <3> QED BY <1>7, <1>9, <2>1, <3>1
  <2>5. PICK n : n = Lead + 1
    OBVIOUS
  <2>6. ip' = n /\ ~(n <= Lead) /\ n - 1 - Lead = 0 /\ 0 <= Saved /\ Saved - 0 = Saved
    BY <1>2, <1>6, <1>14, <2>5
  <2>7. Untouched' /\ (Safe' => FPSaved' /\ Pushed(Saved)' /\ Restored(0)')
    <3>1. PICK s : s = Saved
      OBVIOUS
    <3>2. Safe => FPSaved' /\ Pushed(s)'
      BY <1>11, <2>1, <2>2, <3>1
    <3>3. Safe => Pushed(Saved)'
      BY <1>5, <3>1, <3>2 DEF Pushed
    <3>4. Restored(0)'
      BY DEF Restored
    <3> QED BY <1>10, <1>12, <2>1, <3>2, <3>3, <3>4
  <2>8. Safe' => Pushed(Saved - 0)'
    BY <1>5, <2>6, <2>7 DEF Pushed
  <2>9. BeforeEpilogue(n)'
    BY <1>5, <2>3, <2>6, <2>7, <2>8 DEF BeforeEpilogue
  <2>10. BeforeEpilogue(ip)'
    BY <2>6, <2>9 DEF BeforeEpilogue
  <2> QED BY <1>1, <1>2, <2>4, <2>10
<1>15. ASSUME NEW k \in 0..(Saved - 1), i = Lead + k + 1, epilogue[i] = Pop(CSI[k + 1])
       PROVE  MachineTypes' /\ ip' = ip + 1 /\ pc' = "epilogue" /\ BeforeEpilogue(ip)'
  <2>1. ~(i <= Lead) /\ i - 1 - Lead = k /\ k <= Saved /\ k + 1 \in 1..Saved
    BY <1>6, <1>15
  <2>2. /\ sp = Base - 2 * (Saved - k)
        /\ Safe => FPSaved /\ Pushed(Saved - k) /\ Restored(k)
    BY <1>3, <2>1 DEF BeforeEpilogue
  <2>3. PICK q \in 1..Saved : q = k + 1
    BY <2>1
  <2>4. PICK r \in Worth : r = CSI[q]
    BY SavedTypes
  <2>5. sp' = sp + 2 /\ regs' = [regs EXCEPT ![r] = Load16(sp)] /\ mem' = mem
    BY <1>2, <1>15, <2>3, <2>4 DEF Execute, Pop
  <2>6. r \in Regs /\ r \in Modified /\ (hasFP => r # FP)
    BY WorthFacts
  <2>7. sp' = Base - 2 * (Saved - q) /\ sp = Slot(q) /\ sp' \in Int /\ sp' <= 0
    BY <1>6, <1>15, <2>2, <2>3, <2>5 DEF Slot
  <2>8. DOMAIN regs' = Regs /\ regs'[r] = Load16(sp) /\ \A o \in Regs : o # r => regs'[o] = regs[o]
    BY <1>7, <2>5, <2>6
  <2>9. MachineTypes'
    BY <1>9, <2>5, <2>7, <2>8
  <2>10. Untouched'
    BY <1>5, <1>8, <2>6, <2>8, WorthFacts DEF Untouched, Entry
  <2>11. Safe' => FPSaved' /\ Pushed(Saved - q)' /\ Restored(q)'
    <3> SUFFICES ASSUME Safe PROVE FPSaved' /\ Pushed(Saved - q)' /\ Restored(q)'
      BY <1>12
    <3>1. FPSaved'
      BY <1>11, <2>2, <2>5
    <3>2. ASSUME NEW j \in 1..Saved, Saved - j < Saved - q PROVE SavedAt(Slot(j), CSI[j])'
      <4>1. Saved - j < Saved - k
        BY <1>6, <2>3, <3>2
      <4>2. SavedAt(Slot(j), CSI[j])
        BY <2>2, <4>1 DEF Pushed
      <4> QED BY <1>5, <2>5, <4>2 DEF SavedAt, Entry
    <3>3. SavedAt(sp, r)
      <4>1. Saved - q < Saved - k
        BY <1>6, <2>3
      <4> QED BY <2>2, <2>4, <2>7, <4>1 DEF Pushed
    <3>4. regs'[r] = Entry(r)
      BY <2>8, <3>3 DEF SavedAt, Load16
    <3>5. ASSUME NEW j \in 1..q PROVE regs'[CSI[j]] = Entry(CSI[j])
      <4>1. CASE j = q
        BY <2>4, <3>4, <4>1
      <4>2. CASE j # q
        <5>1. j \in 1..k /\ j \in 1..Saved
          BY <1>6, <1>15, <2>3, <4>2
        <5>2. regs[CSI[j]] = Entry(CSI[j])
          BY <2>2, <5>1 DEF Restored
        <5>3. CSI[j] # r /\ CSI[j] \in Regs
          BY <2>4, <4>2, <5>1, SavedRegisters, SavedTypes DEF Regs
        <5> QED BY <2>8, <5>2, <5>3
      <4> QED BY <4>1, <4>2
    <3>6. Pushed(Saved - q)'
      BY <1>5, <3>2 DEF Pushed
    <3> QED BY <1>5, <3>1, <3>5, <3>6 DEF Restored, Entry
  <2>12. PICK n : n = i + 1
    OBVIOUS
  <2>13. ip' = n /\ ~(n <= Lead) /\ n - 1 - Lead = q /\ q <= Saved
    BY <1>2, <1>6, <1>15, <2>1, <2>3, <2>12
  <2>14. BeforeEpilogue(n)'
    BY <1>5, <2>7, <2>10, <2>11, <2>13 DEF BeforeEpilogue
  <2>15. BeforeEpilogue(ip)'
    BY <2>13, <2>14 DEF BeforeEpilogue
  <2> QED BY <1>1, <1>2, <2>9, <2>15
<1>16. CASE i = Lead + Saved + 1 /\ hasFP /\ epilogue[i] = Pop(FP)
  <2>1. sp' = sp + 2 /\ regs' = [regs EXCEPT ![FP] = Load16(sp)] /\ mem' = mem
    BY <1>2, <1>16 DEF Execute, Pop
  <2>2. ~(i <= Lead) /\ i - 1 - Lead = Saved /\ Saved <= Saved
    BY <1>6, <1>16
  <2>3. sp = Base - 2 * (Saved - Saved) /\ (Safe => FPSaved /\ Restored(Saved))
    BY <1>3, <2>2 DEF BeforeEpilogue
  <2>4. sp = -2 /\ sp' = 0
    BY <1>6, <1>16, <2>1, <2>3
  <2>5. /\ DOMAIN regs' = Regs /\ regs'[FP] = Load16(sp) /\ FP \in Regs
        /\ \A o \in Regs : o # FP => regs'[o] = regs[o]
    BY <1>7, <2>1, WorthFacts
  <2>6. MachineTypes'
    BY <1>9, <2>1, <2>4, <2>5
  <2>7. Untouched'
    BY <1>5, <1>8, <1>16, <2>5, WorthFacts DEF Untouched, Entry
  <2>8. Safe' => Restored(Saved)' /\ regs'[FP] = Entry(FP)
    <3> SUFFICES ASSUME Safe PROVE Restored(Saved)' /\ regs'[FP] = Entry(FP)
      BY <1>12
    <3>1. regs'[FP] = Entry(FP)
      BY <1>16, <2>3, <2>4, <2>5 DEF FPSaved, SavedAt, Load16
    <3>2. ASSUME NEW j \in 1..Saved PROVE regs'[CSI[j]] = Entry(CSI[j])
      <4>1. CSI[j] # FP /\ CSI[j] \in Regs
        BY <1>16, SavedTypes, WorthFacts DEF Regs
      <4> QED BY <2>3, <2>5, <4>1 DEF Restored
    <3> QED BY <1>5, <3>1, <3>2 DEF Restored, Entry
  <2>9. PICK n : n = i + 1
    OBVIOUS
  <2>10. ip' = n /\ ~(n <= Lead) /\ ~(n - 1 - Lead <= Saved)
    BY <1>2, <1>6, <1>16, <2>9
  <2>11. BeforeEpilogue(n)'
    BY <1>5, <2>4, <2>7, <2>8, <2>10 DEF BeforeEpilogue, Entry, FP
  <2>12. BeforeEpilogue(ip)'
    BY <2>10, <2>11 DEF BeforeEpilogue
  <2> QED BY <1>1, <1>2, <2>6, <2>12
<1>17. CASE f.var /\ i = 2 /\ Lead = 2 /\ csSize # 0 /\ epilogue[i] = AddSP(-csSize)
  BY <1>14, <1>17
<1>18. CASE ~f.var /\ i = 1 /\ Lead = 1 /\ NumBytes # 0 /\ epilogue[i] = AddSP(NumBytes)
  BY <1>14, <1>18
<1> QED BY <1>13, <1>15, <1>16, <1>17, <1>18, EpilogueWhere

LEMMA EpilogueEnd ==
  ASSUME LayoutInv, MachineTypes, EpilogueInv, pc = "epilogue", ip > Len(epilogue)
  PROVE  /\ sp = 0 /\ Untouched
         /\ Safe => Restored(Saved) /\ (hasFP => regs[FP] = Entry(FP))
<1>1. /\ Saved \in Nat /\ (hasFP => Base = -2) /\ (~hasFP => Base = 0) /\ Lead \in Nat
  BY FrameTypes DEF LayoutInv, Lead
<1>2. Len(epilogue) = Lead + Saved + (IF hasFP THEN 1 ELSE 0)
  BY EpilogueFacts DEF EpilogueAt, Executing
<1>3. ip = Len(epilogue) + 1 /\ BeforeEpilogue(ip) /\ ~(ip <= Lead)
  BY <1>1, <1>2 DEF EpilogueInv
<1>4. Untouched
  BY <1>3 DEF BeforeEpilogue
<1>5. CASE hasFP
  <2>1. ~(ip - 1 - Lead <= Saved)
    BY <1>1, <1>2, <1>3, <1>5
  <2> QED BY <1>3, <1>4, <2>1 DEF BeforeEpilogue
<1>6. CASE ~hasFP
  <2>1. ip - 1 - Lead = Saved /\ Saved <= Saved
    BY <1>1, <1>2, <1>3, <1>6
  <2>2. sp = Base - 2 * (Saved - Saved) /\ (Safe => Restored(Saved))
    BY <1>3, <2>1 DEF BeforeEpilogue
  <2>3. sp = 0
    <3>1. \A b, s \in Int : b = 0 => b - 2 * (s - s) = b
      OBVIOUS
    <3> QED BY <1>1, <1>6, <2>2, <3>1
  <2> QED BY <1>4, <1>6, <2>2, <2>3
<1> QED BY <1>5, <1>6

LEMMA RunEpilogueInv ==
  ASSUME Inv, RunEpilogue
  PROVE  Inv'
<1>1. RunStep /\ pc = "epilogue" /\ UNCHANGED <<dyn, callseq, amount, val>>
  BY DEF RunStep, RunEpilogue
<1>2. /\ LayoutInv' /\ Variables' = Variables /\ stackSize' = stackSize /\ epilogue' = epilogue
      /\ f' = f /\ Others' = Others /\ Modified' = Modified /\ CSI' = CSI /\ Saved' = Saved
      /\ hasFP' = hasFP
  BY <1>1, RunStepLayout, RunFrame DEF Inv
<1>3. callseq = "none" /\ amount = 0
  BY <1>1 DEF Inv, IdleInv
<1>4. DynInv'
  BY <1>1, <1>2 DEF Inv, DynInv
<1>5. PICK n : n = Len(epilogue)
  OBVIOUS
<1>6. n \in Nat /\ ip \in 1..(n + 1) /\ BeforeEpilogue(ip)
  BY <1>1, <1>5, EpilogueLengthFact DEF Inv, EpilogueInv, EpilogueLength, Executing
<1>7. CASE ip <= n
  <2>1. MachineTypes' /\ ip' = ip + 1 /\ pc' = "epilogue" /\ BeforeEpilogue(ip)'
    BY <1>1, <1>5, <1>6, <1>7, EpilogueStep DEF Inv
  <2>2. EpilogueInv'
    BY <1>2, <1>5, <1>6, <1>7, <2>1 DEF EpilogueInv
  <2>3. IdleInv'
    BY <1>1, <1>3, <2>1 DEF IdleInv, Compiling
  <2> QED BY <1>1, <1>2, <1>3, <1>4, <2>1, <2>2, <2>3
          DEF Inv, PrologueInv, BodyInv, ReturnedInv, ValuesInv, ArgumentsInPlace
<1>8. CASE ~(ip <= n)
  <2>1. pc' = "returned" /\ UNCHANGED <<ip, sp, regs, mem>>
    BY <1>5, <1>8 DEF RunEpilogue
  <2>2. MachineTypes'
    BY <1>1, <1>2, <2>1 DEF Inv, MachineTypes, Return
  <2>3. IdleInv'
    BY <1>1, <1>3, <2>1 DEF IdleInv, Compiling
  <2>4. /\ sp = 0 /\ Untouched
        /\ Safe => Restored(Saved) /\ (hasFP => regs[FP] = Entry(FP))
    BY <1>1, <1>5, <1>6, <1>8, EpilogueEnd DEF Inv
  <2>5. ReturnedInv'
    BY <1>2, <2>1, <2>4 DEF ReturnedInv, Untouched, Safe, Restored, Entry, FP
  <2> QED BY <1>1, <1>2, <1>3, <1>4, <2>1, <2>2, <2>3, <2>5
          DEF Inv, PrologueInv, BodyInv, EpilogueInv, ValuesInv, ArgumentsInPlace
<1> QED BY <1>7, <1>8

-------------------------------------------------------------------------------
(* An interrupt comes *)

LEMMA InterruptInv ==
  ASSUME Inv, Interrupt, sp >= -Depth
  PROVE  Inv'
<1>1. /\ RunStep /\ Running /\ f.enabled /\ mem' = Trashed(sp)
      /\ UNCHANGED <<pc, ip, sp, regs, dyn, callseq, amount, val>>
  BY DEF RunStep, Interrupt
<1>2. /\ LayoutInv' /\ Variables' = Variables /\ stackSize' = stackSize /\ epilogue' = epilogue
      /\ prologue' = prologue /\ Base' = Base /\ Head0' = Head0 /\ Lead' = Lead
      /\ f' = f /\ Others' = Others /\ Modified' = Modified /\ CSI' = CSI /\ Saved' = Saved
      /\ hasFP' = hasFP /\ objOff' = objOff /\ LocalIds' = LocalIds
  BY <1>1, RunStepLayout, RunFrame DEF Inv
<1>3. /\ sp \in Int /\ sp <= 0 /\ DOMAIN mem = (-Depth)..7 /\ Depth \in Nat
      /\ \A x \in 0..7 : mem[x] = Return
  BY BoundsAssumption DEF Inv, MachineTypes
<1>4. /\ DOMAIN mem' = (-Depth)..7 /\ \A x \in DOMAIN mem : x >= sp => mem'[x] = mem[x]
      /\ \A x \in 0..7 : mem'[x] = mem[x]
  BY <1>1, <1>3 DEF Trashed
<1>5. MachineTypes'
  BY <1>1, <1>2, <1>3, <1>4 DEF Inv, MachineTypes, Return
<1>6. IdleInv' /\ DynInv'
  BY <1>1, <1>2 DEF Inv, IdleInv, DynInv, Compiling, Entry, Junk
<1>7. /\ Saved \in Nat /\ Base \in Int /\ Base <= 0 /\ (hasFP => Base = -2) /\ (~hasFP => Base = 0)
      /\ f \in Functions /\ Lead \in Nat /\ Head0 \in Nat
  BY FrameTypes DEF Inv, LayoutInv, Lead, Head0
<1>8. \A k \in 0..Saved : sp <= Base - 2 * k =>
        (Pushed(k) => Pushed(k)') /\ (FPSaved => FPSaved')
  <2> SUFFICES ASSUME NEW k \in 0..Saved, sp <= Base - 2 * k
               PROVE  (Pushed(k) => Pushed(k)') /\ (FPSaved => FPSaved')
    OBVIOUS
  <2>1. hasFP => sp <= -2
    BY <1>3, <1>7
  <2> QED BY <1>2, <1>3, <1>4, <2>1, KeepsSaved DEF Inv
<1>9. FPSet => FPSet'
  BY <1>1, <1>2 DEF FPSet, Addr, FP
<1>10. Untouched => Untouched'
  BY <1>1, <1>2 DEF Untouched, Entry
<1>11. PICK i : i = ip
  OBVIOUS
<1>12. PICK s \in 0..Saved : s = Saved
  BY <1>7
<1>13. Pushed(s) = Pushed(Saved) /\ Pushed(s)' = Pushed(Saved)'
  BY <1>2, <1>12 DEF Pushed
<1>14. CASE pc = "prologue"
  <2>1. i \in 1..(Len(prologue) + 1) /\ BeforePrologue(i) /\ i \in Int
    BY <1>11, <1>14 DEF Inv, PrologueInv
  <2>2. BeforePrologue(i)'
    <3>1. CASE i <= Head0
      <4>1. i = 2 => FPSaved'
        <5>1. i = 2 => sp = -2 /\ FPSaved
          BY <2>1, <3>1 DEF BeforePrologue
        <5>2. hasFP
          BY <2>1, <3>1 DEF Head0
        <5>3. 0 \in 0..Saved /\ (i = 2 => sp <= Base - 2 * 0)
          BY <1>7, <5>1, <5>2
        <5> QED BY <1>8, <5>1, <5>3
      <4> QED BY <1>1, <1>2, <2>1, <3>1, <4>1 DEF BeforePrologue, Entry
    <3>2. CASE ~(i <= Head0)
      <4>1. PICK k \in Int : k = i - 1 - Head0 /\ k >= 0
        BY <1>7, <2>1, <3>2
      <4>2. FPSaved /\ FPSet /\ \A r \in Others : regs[r] = Entry(r)
        BY <2>1, <3>2 DEF BeforePrologue
      <4>3. \A r \in Others' : regs'[r] = Entry(r)
        BY <1>1, <1>2, <4>2
      <4>4. CASE k <= Saved
        <5>1. sp = Base - 2 * k /\ Pushed(k)
          BY <2>1, <3>2, <4>1, <4>4 DEF BeforePrologue
        <5>2. k \in 0..Saved /\ sp <= Base - 2 * k
          BY <1>3, <1>7, <4>1, <4>4, <5>1
        <5>3. Pushed(k)' /\ FPSaved'
          BY <1>8, <4>2, <5>1, <5>2
        <5> QED BY <1>1, <1>2, <1>9, <3>2, <4>1, <4>2, <4>3, <4>4, <5>1, <5>3 DEF BeforePrologue
      <4>5. CASE ~(k <= Saved)
        <5>1. sp = -stackSize /\ Pushed(Saved)
          BY <2>1, <3>2, <4>1, <4>5 DEF BeforePrologue
        <5>2. -stackSize <= Base - 2 * Saved
          BY <1>7, <1>14, NumBytesType DEF Inv, Executing
        <5>3. Pushed(Saved)' /\ FPSaved'
          BY <1>8, <1>12, <1>13, <4>2, <5>1, <5>2
        <5> QED BY <1>1, <1>2, <1>9, <3>2, <4>1, <4>2, <4>3, <4>5, <5>1, <5>3 DEF BeforePrologue
      <4> QED BY <4>4, <4>5
    <3> QED BY <3>1, <3>2
  <2>3. PrologueInv'
    BY <1>1, <1>2, <1>11, <2>1, <2>2 DEF PrologueInv, BeforePrologue
  <2> QED BY <1>1, <1>2, <1>5, <1>6, <1>14, <2>3
          DEF Inv, IdleInv, BodyInv, EpilogueInv, ReturnedInv, ValuesInv, ArgumentsInPlace
<1>15. CASE pc = "body"
  <2>1. FPSaved /\ Pushed(Saved) /\ FPSet /\ Untouched /\ sp <= Base - 2 * Saved
    BY <1>15, BodyBounds DEF Inv, BodyInv
  <2>2. FPSaved' /\ Pushed(Saved)' /\ FPSet' /\ Untouched'
    BY <1>8, <1>9, <1>10, <1>12, <1>13, <2>1
  <2>3. BodyInv'
    BY <1>1, <1>2, <1>15, <2>2 DEF Inv, BodyInv, CallFrameAdjustment, hasReservedCallFrame, alignTo
  <2>4. ValuesInv'
    <3>1. Allocated' = Allocated /\ \A o : Place(o)' = Place(o) /\ VariableSize(o)' = VariableSize(o)
      BY <1>1, <1>2 DEF Allocated, DynId, Place, VariableSize
    <3>2. /\ \A o \in Allocated : Holds(o)
          /\ \A o \in Variables \ Allocated : val[o] = Junk
      BY <1>15 DEF Inv, ValuesInv
    <3>3. ASSUME NEW o \in Allocated PROVE Holds(o)'
      <4>1. PICK a, n : a = Place(o) /\ n = VariableSize(o)
        OBVIOUS
      <4>2. a \in Int /\ n \in Nat /\ sp <= a /\ a + n <= 0
        <5>1. /\ amount \in Nat /\ sp + amount <= a /\ a \in Int /\ n \in Nat
              /\ a + n <= Base - 2 * Saved /\ Base - 2 * Saved <= 0
          BY <1>15, <4>1, BodySP, BodyBounds DEF Inv
        <5> QED BY <1>3, <1>7, <5>1
      <4>3. \A x \in a..(a + n - 1) : x \in DOMAIN mem /\ x >= sp
        BY <1>3, <4>2
      <4>4. val[o] # Junk => \A x \in a..(a + n - 1) : mem[x] = val[o]
        BY <3>2, <4>1 DEF Holds, Bytes
      <4>5. val'[o] # Junk => \A x \in Bytes(Place(o), VariableSize(o)) : mem'[x] = val'[o]
        BY <1>1, <1>4, <4>1, <4>3, <4>4 DEF Bytes
      <4>6. Bytes(Place(o), VariableSize(o))' = Bytes(Place(o), VariableSize(o))
        BY <3>1 DEF Bytes
      <4> QED BY <4>5, <4>6 DEF Holds, Junk
    <3> QED BY <1>1, <1>2, <3>1, <3>2, <3>3 DEF ValuesInv, Junk
  <2>5. ArgumentsInPlace'
    <3> SUFFICES ASSUME callseq = "stored", NEW j \in 0..(amount - 1) PROVE mem'[sp + j] = Arg(j)
      BY <1>1 DEF ArgumentsInPlace, Arg
    <3>1. mem[sp + j] = Arg(j)
      BY DEF Inv, ArgumentsInPlace
    <3>2. amount \in Nat /\ sp + amount <= Base - 2 * Saved /\ Base - 2 * Saved <= 0
      BY <1>15, BodySP, BodyBounds DEF Inv
    <3>3. sp + j \in DOMAIN mem /\ sp + j >= sp
      BY <1>3, <1>7, <3>2
    <3> QED BY <1>4, <3>1, <3>3
  <2>6. BodyParts'
    BY <1>1, <1>2, <1>5, <1>6, <1>15, <2>3, <2>4, <2>5 DEF BodyParts
  <2> QED BY <2>6, BodyEnough, PTL
<1>16. CASE pc = "epilogue"
  <2>1. i \in 1..(Len(epilogue) + 1) /\ BeforeEpilogue(i) /\ i \in Int /\ ip' = i
    BY <1>1, <1>11, <1>16 DEF Inv, EpilogueInv
  <2>2. Untouched'
    BY <1>10, <2>1 DEF BeforeEpilogue
  <2>3. (Safe' <=> Safe) /\ (Safe => ~f.var)
    BY <1>1, <1>2 DEF Safe
  <2>4. BeforeEpilogue(i)'
    <3>1. CASE i <= Lead
      <4>1. /\ i = 1 => f.var \/ sp = -stackSize
            /\ i = 2 => sp = -2
            /\ FPSet /\ (Safe => FPSaved /\ Pushed(Saved))
        BY <2>1, <3>1 DEF BeforeEpilogue
      <4>2. Safe' => FPSaved' /\ Pushed(Saved)'
        <5> SUFFICES ASSUME Safe PROVE FPSaved' /\ Pushed(Saved)'
          BY <2>3
        <5>1. i = 1
          BY <2>1, <2>3, <3>1 DEF Lead
        <5>2. sp = -stackSize /\ -stackSize <= Base - 2 * Saved
          BY <1>7, <1>16, <2>3, <4>1, <5>1, NumBytesType DEF Inv, Executing
        <5> QED BY <1>8, <1>12, <1>13, <4>1, <5>2
      <4> QED BY <1>1, <1>2, <1>9, <2>2, <3>1, <4>1, <4>2 DEF BeforeEpilogue
    <3>2. CASE ~(i <= Lead)
      <4>1. PICK k \in Int : k = i - 1 - Lead /\ k >= 0
        BY <1>7, <2>1, <3>2
      <4>2. \A j : Restored(j) => Restored(j)'
        BY <1>1, <1>2 DEF Restored, Entry
      <4>3. CASE k <= Saved
        <5>1. /\ sp = Base - 2 * (Saved - k)
              /\ Safe => FPSaved /\ Pushed(Saved - k) /\ Restored(k)
          BY <2>1, <3>2, <4>1, <4>3 DEF BeforeEpilogue
        <5>2. PICK m \in 0..Saved : m = Saved - k /\ sp <= Base - 2 * m
          BY <1>3, <1>7, <4>1, <4>3, <5>1
        <5>3. Safe => FPSaved' /\ Pushed(m)' /\ Restored(k)'
          BY <1>8, <4>2, <5>1, <5>2
        <5>4. Safe' => FPSaved' /\ Pushed(Saved - k)' /\ Restored(k)'
          BY <1>2, <2>3, <5>2, <5>3 DEF Pushed
        <5> QED BY <1>1, <1>2, <2>2, <3>2, <4>1, <4>3, <5>1, <5>4 DEF BeforeEpilogue
      <4>4. CASE ~(k <= Saved)
        <5>1. sp = 0 /\ (Safe => Restored(Saved) /\ regs[FP] = Entry(FP))
          BY <2>1, <3>2, <4>1, <4>4 DEF BeforeEpilogue
        <5>2. Safe' => Restored(Saved)' /\ regs'[FP] = Entry(FP)
          BY <1>1, <1>2, <2>3, <5>1 DEF Restored, Entry
        <5> QED BY <1>1, <1>2, <2>2, <3>2, <4>1, <4>4, <5>1, <5>2 DEF BeforeEpilogue, Entry, FP
      <4> QED BY <4>3, <4>4
    <3> QED BY <3>1, <3>2
  <2>5. EpilogueInv'
    BY <1>1, <1>2, <2>1, <2>4 DEF EpilogueInv, BeforeEpilogue
  <2> QED BY <1>1, <1>2, <1>5, <1>6, <1>16, <2>5
          DEF Inv, IdleInv, PrologueInv, BodyInv, ReturnedInv, ValuesInv, ArgumentsInPlace
<1> QED BY <1>1, <1>14, <1>15, <1>16 DEF Running

-------------------------------------------------------------------------------
(* The theorems *)

LEMMA StutterInv == Inv /\ UNCHANGED vars => Inv'
<1> SUFFICES ASSUME Inv, UNCHANGED vars PROVE Inv'
  OBVIOUS
<1>1. /\ f' = f /\ UNCHANGED layout /\ UNCHANGED emitted /\ UNCHANGED machine /\ pc' = pc
  BY DEF vars
<1>2. UNCHANGED <<ip, sp, regs, mem, dyn, callseq, amount, val>>
      /\ UNCHANGED <<offset, placed, objOff, stackSize, csSize, prologue, epilogue>>
  BY <1>1 DEF machine, layout, emitted
<1>3. LayoutInv'
  BY <1>1, StillLayout DEF Inv
<1>4. /\ Base' = Base /\ CSI' = CSI /\ Saved' = Saved /\ hasFP' = hasFP /\ LocalIds' = LocalIds
      /\ Variables' = Variables /\ Modified' = Modified /\ Others' = Others /\ Head0' = Head0
      /\ Lead' = Lead
  BY <1>1, FunctionSame, LayoutSame
<1>5. MachineTypes' /\ IdleInv' /\ DynInv' /\ ArgumentsInPlace'
  BY <1>1, <1>2, <1>4
  DEF Inv, MachineTypes, IdleInv, DynInv, ArgumentsInPlace, Compiling, Entry, Junk, Return, Arg
<1>6. /\ (FPSaved <=> FPSaved') /\ (FPSet <=> FPSet') /\ (Untouched <=> Untouched')
      /\ (Safe <=> Safe') /\ (\A k : Pushed(k) <=> Pushed(k)') /\ (\A k : Restored(k) <=> Restored(k)')
  <2>1. \A j \in 1..Saved : Slot(j)' = Slot(j)
    BY <1>4 DEF Slot
  <2> QED BY <1>1, <1>2, <1>4, <2>1
          DEF FPSaved, FPSet, Untouched, Safe, Pushed, Restored, SavedAt, Entry, Addr, FP
<1>7. Pushed(Saved) <=> Pushed(Saved)'
  <2>1. PICK s : s = Saved
    OBVIOUS
  <2> QED BY <1>4, <1>6, <2>1 DEF Pushed
<1>8. Restored(Saved) <=> Restored(Saved)'
  <2>1. PICK s : s = Saved
    OBVIOUS
  <2> QED BY <1>4, <1>6, <2>1 DEF Restored
<1>9. PrologueInv'
  <2>1. \A i : BeforePrologue(i) => BeforePrologue(i)'
    BY <1>1, <1>2, <1>4, <1>6, <1>7 DEF BeforePrologue, Entry
  <2> QED BY <1>1, <1>2, <2>1 DEF Inv, PrologueInv, BeforePrologue
<1>10. EpilogueInv'
  <2>1. \A k : Pushed(Saved - k) => Pushed(Saved - k)'
    <3> SUFFICES ASSUME NEW k, Pushed(Saved - k) PROVE Pushed(Saved - k)'
      OBVIOUS
    <3>1. PICK s : s = Saved - k
      OBVIOUS
    <3> QED BY <1>4, <1>6, <3>1 DEF Pushed
  <2>2. \A i : BeforeEpilogue(i) => BeforeEpilogue(i)'
    BY <1>1, <1>2, <1>4, <1>6, <1>7, <1>8, <2>1 DEF BeforeEpilogue, Entry, FP
  <2> QED BY <1>1, <1>2, <2>2 DEF Inv, EpilogueInv, BeforeEpilogue
<1>11. ReturnedInv'
  BY <1>1, <1>2, <1>4, <1>6, <1>8 DEF Inv, ReturnedInv, Entry, FP
<1>12. BodyInv'
  BY <1>1, <1>2, <1>4, <1>6, <1>7
  DEF Inv, BodyInv, CallFrameAdjustment, hasReservedCallFrame, alignTo
<1>13. ValuesInv'
  <2>1. Allocated' = Allocated /\ \A o : Holds(o) => Holds(o)'
    BY <1>1, <1>2, <1>4 DEF Allocated, DynId, Holds, Place, VariableSize, Bytes, Junk
  <2> QED BY <1>1, <1>2, <1>4, <2>1 DEF Inv, ValuesInv, Junk
<1> QED BY <1>3, <1>5, <1>9, <1>10, <1>11, <1>12, <1>13 DEF Inv

\* Every step that stays within the stack keeps the invariant.
LEMMA NextInv == Inv /\ StackSuffices /\ StackSuffices' /\ [Next]_vars => Inv'
<1> SUFFICES ASSUME Inv, StackSuffices, StackSuffices', [Next]_vars PROVE Inv'
  OBVIOUS
<1>1. sp >= -Depth /\ sp' >= -Depth
  BY DEF StackSuffices
<1>2. CASE CompileStep
  BY <1>2, CompileInv
<1>3. CASE EmitPrologueEpilogue
  BY <1>3, EmitInv
<1>4. CASE RunPrologue
  BY <1>1, <1>4, RunPrologueInv
<1>5. CASE WriteVariable
  BY <1>1, <1>5, WriteVariableInv
<1>6. CASE WriteRegister
  BY <1>1, <1>6, WriteRegisterInv
<1>7. CASE DynamicAlloca
  BY <1>1, <1>7, DynamicAllocaInv
<1>8. CASE CallFrameSetup
  BY <1>1, <1>8, CallFrameSetupInv
<1>9. CASE StoreArguments
  BY <1>1, <1>9, StoreArgumentsInv
<1>10. CASE Call
  BY <1>1, <1>10, CallInv
<1>11. CASE CallFrameDestroy
  BY <1>1, <1>11, CallFrameDestroyInv
<1>12. CASE LeaveBody
  BY <1>12, LeaveBodyInv
<1>13. CASE RunEpilogue
  BY <1>13, RunEpilogueInv
<1>14. CASE Interrupt
  BY <1>1, <1>14, InterruptInv
<1>15. CASE UNCHANGED vars
  BY <1>15, StutterInv
<1> QED BY <1>2, <1>3, <1>4, <1>5, <1>6, <1>7, <1>8, <1>9, <1>10, <1>11, <1>12, <1>13, <1>14, <1>15
        DEF Next, CompileStep

LEMMA Invariance == Spec /\ []StackSuffices => []Inv
BY InitInv, NextInv, PTL DEF Spec

LEMMA InvTypes == Inv /\ StackSuffices => TypeOK
<1> SUFFICES ASSUME Inv, StackSuffices PROVE TypeOK
  OBVIOUS
<1>1. LayoutInv /\ MachineTypes /\ DynInv /\ sp >= -Depth /\ Depth \in Nat /\ f \in Functions
  BY BoundsAssumption DEF Inv, StackSuffices, LayoutInv
<1>2. DOMAIN objOff \subseteq LocalIds
  <2>1. /\ Len(f.locals) \in Nat /\ LocalIds = 1..Len(f.locals) /\ Saved \in Nat
        /\ objOff \in Seq(Int) /\ Len(objOff) \in Nat /\ DOMAIN objOff = 1..Len(objOff)
    BY <1>1, LocalTypes, SavedTypes, LenProperties DEF LayoutInv
  <2>2. CASE pc \in {"spill", "fixed"}
    BY <1>1, <2>2 DEF LayoutInv
  <2>3. CASE pc = "place"
    <3>1. placed \in 0..(Saved + Len(f.locals)) /\ Len(objOff) = IF placed <= Saved THEN 0 ELSE placed - Saved
      BY <1>1, <2>3 DEF LayoutInv, Placing
    <3>2. Len(objOff) <= Len(f.locals)
      BY <2>1, <3>1
    <3> QED BY <2>1, <3>2
  <2>4. CASE pc \in {"emit"} \cup Executing
    BY <1>1, <2>4 DEF LayoutInv, LaidOut
  <2> QED BY <1>1, <2>2, <2>3, <2>4 DEF LayoutInv, Compiling, Executing
<1>3. amount \in f.calls \cup {0}
  BY DEF Inv, IdleInv
<1>4. pc \in {"spill", "fixed", "place", "emit", "prologue", "body", "epilogue", "returned"}
  BY <1>1 DEF LayoutInv, Compiling, Executing
<1>5. sp \in (-Depth)..0
  BY <1>1 DEF MachineTypes
<1> QED BY <1>1, <1>2, <1>3, <1>4, <1>5 DEF TypeOK, LayoutInv, MachineTypes, DynInv

LEMMA InvResolves == Inv => FrameIndexesResolve
<1> SUFFICES ASSUME Inv, pc = "body"
             PROVE  /\ \A o \in LocalIds : FrameIndex(objOff[o]) = objOff[o] + 2
                    /\ \A off \in f.args : FrameIndex(off) = off + 2
  BY DEF FrameIndexesResolve
<1>1. \A off \in Int : FrameIndex(off) = off + 2
  BY FrameIndexIs DEF Inv
<1>2. f.args \subseteq Nat /\ \A o \in LocalIds : objOff[o] \in Int
  BY FunctionTypes, LenProperties DEF Inv, LayoutInv, LaidOut, Executing
<1> QED BY <1>1, <1>2

LEMMA InvIntact == Inv => VariablesIntact
<1> SUFFICES ASSUME Inv, pc = "body", NEW o \in Allocated, val[o] # Junk
             PROVE  \A x \in Bytes(VariableAddr(o), VariableSize(o)) : mem[x] = val[o]
  BY DEF VariablesIntact
<1>1. VariableAddr(o) = Place(o)
  BY VariableAddrIs DEF Inv
<1>2. Holds(o)
  BY DEF Inv, ValuesInv
<1> QED BY <1>1, <1>2 DEF Holds

\* Without interrupts in functions with variable-sized objects.
LEMMA InvPreserved ==
  ASSUME \A g \in Functions : g.var => ~g.enabled
  PROVE  Inv => CallerPreserved
<1> SUFFICES ASSUME Inv, pc = "returned"
             PROVE  /\ sp = 0
                    /\ mem[0] = Return /\ mem[1] = Return
                    /\ \A r \in IF f.intr THEN Regs ELSE 4..10 : regs[r] = Entry(r)
  BY DEF CallerPreserved
<1>1. f \in Functions /\ Safe
  BY DEF Inv, LayoutInv, Safe
<1>2. sp = 0 /\ Untouched /\ Restored(Saved) /\ (hasFP => regs[FP] = Entry(FP))
  BY <1>1 DEF Inv, ReturnedInv
<1>3. mem[0] = Return /\ mem[1] = Return
  BY DEF Inv, MachineTypes
<1>4. ASSUME NEW r \in IF f.intr THEN Regs ELSE 4..10 PROVE regs[r] = Entry(r)
  <2>1. CASE r = FP /\ hasFP
    BY <1>2, <2>1
  <2>2. CASE ~(r = FP /\ hasFP) /\ r \notin Modified
    <3>1. r \in Others \ Modified
      BY <2>2 DEF Others, Regs
    <3> QED BY <1>2, <3>1 DEF Untouched
  <2>3. CASE ~(r = FP /\ hasFP) /\ r \in Modified
    <3>1. r \in Worth
      BY <2>3 DEF Worth, CalleeSavedRegs, Regs, FP
    <3>2. PICK j \in 1..Saved : CSI[j] = r
      BY <3>1, SavedRegisters
    <3> QED BY <1>2, <3>2 DEF Restored
  <2> QED BY <2>1, <2>2, <2>3
<1> QED BY <1>2, <1>3, <1>4

\* The variables keep their types, where the stack suffices.
THEOREM TypeCorrect == Spec /\ []StackSuffices => []TypeOK
BY Invariance, InvTypes, PTL

\* eliminateFrameIndex resolves every frame index to its object, wherever call
\* sequences and dynamic allocas have taken SP.
THEOREM FrameIndexesCorrect == Spec /\ []StackSuffices => []FrameIndexesResolve
BY Invariance, InvResolves, PTL

\* Nothing the function, its callees or interrupts do changes a variable
\* that the body does not write.
THEOREM VariablesSafe == Spec /\ []StackSuffices => []VariablesIntact
BY Invariance, InvIntact, PTL

\* Stored arguments are where the callee looks for them.
THEOREM ArgumentsCorrect == Spec /\ []StackSuffices => []ArgumentsInPlace
<1>1. Inv => ArgumentsInPlace
  BY DEF Inv
<1> QED BY <1>1, Invariance, PTL

\* The function gives its caller SP, the return address and the callee-saved
\* registers back, unless variable-sized objects meet interrupts: there
\* emitEpilogue leaves the saved registers below SP.
THEOREM CallerGetsBack ==
  ASSUME \A g \in Functions : g.var => ~g.enabled
  PROVE  Spec /\ []StackSuffices => []CallerPreserved
BY Invariance, InvPreserved, PTL

\* No step writes the return address or what the caller has above it.
THEOREM CallerFrameSafe == Spec /\ []StackSuffices => CallerFrameUntouched
<1>1. MachineTypes /\ MachineTypes' => \A x \in DOMAIN mem : x >= 0 => mem'[x] = mem[x]
  <2> SUFFICES ASSUME MachineTypes, MachineTypes', NEW x \in DOMAIN mem, x >= 0
               PROVE  mem'[x] = mem[x]
    OBVIOUS
  <2>1. DOMAIN mem = (-Depth)..7 /\ Depth \in Nat
    BY BoundsAssumption DEF MachineTypes
  <2>2. x \in 0..7
    BY <2>1
  <2>3. mem[x] = Return /\ mem'[x] = Return
    BY <2>2 DEF MachineTypes, Return
  <2> QED BY <2>3
<1>2. Inv => MachineTypes
  BY DEF Inv
<1>3. MachineTypes /\ MachineTypes' => [\A x \in DOMAIN mem : x >= 0 => mem'[x] = mem[x]]_mem
  BY <1>1
<1> QED BY <1>2, <1>3, Invariance, PTL DEF CallerFrameUntouched

================================================================================
