----------------------- MODULE MSP430CallingConv_proofs ------------------------
(***************************************************************************)
(* Proofs about the calling convention, for calls with any arguments of    *)
(* any pieces, fixed and variadic, and objects of any size and alignment:  *)
(* no two pieces share a place, the two sides agree though neither sees    *)
(* the other's list, and arguments and results arrive.                     *)
(***************************************************************************)
EXTENDS MSP430CallingConv, SequenceTheorems, FiniteSetTheorems, TLAPS

-------------------------------------------------------------------------------
(* The state of AnalyzeArguments *)

FirstReg == IF sig.conv = "builtin" THEN 8 ELSE 12

Location == [reg : Int, mem : Int, val : {"i8", "i16"},
             info : {"AExt", "SExt", "ZExt", "Full"}]

CCState == [regsLeft : Nat, usedStack : BOOLEAN, used : SUBSET (8..15),
            offset : Nat, locs : Seq(Seq(Location))]

Even(x) == \E b \in Nat : x = 2 * b

Size(arg) == IF arg.byval > 0 THEN arg.byval ELSE 2

\* Registers are taken from the first on, and stack by the word.
InStep(s) ==
  /\ s \in CCState
  /\ s.regsLeft <= 16 - FirstReg
  /\ s.used = FirstReg..(15 - s.regsLeft)
  /\ Even(s.offset)

\* Piece j of arg has a place within what s has handed out, and travels as its
\* own type asks.
Placed(s, arg, j, loc) ==
  /\ \/ loc.mem \in Nat /\ loc.reg = NoRegister /\ loc.mem + Size(arg) <= s.offset
     \/ loc.mem = -1 /\ loc.reg \in s.used /\ arg.byval = 0
  /\ arg.byval > 0 => loc.info = "Full"
  /\ arg.byval = 0 => loc.val = arg.pieces[j] /\ loc.info = LocInfo(arg, arg.pieces[j])

\* The piece lies beyond what s has handed out.
Beyond(s, loc) ==
  \/ loc.mem \in Nat /\ loc.mem >= s.offset
  \/ loc.mem = -1 /\ loc.reg \notin s.used

\* Two locations, of pieces of the arguments a and b, share nothing.
Apart(a, l, b, m) ==
  /\ l.mem >= 0 /\ m.mem >= 0 => l.mem + Size(a) <= m.mem \/ m.mem + Size(b) <= l.mem
  /\ l.mem < 0 /\ m.mem < 0 => l.reg # m.reg

Located(s, arg, locs) ==
  /\ locs \in Seq(Location) /\ Len(locs) = Parts(arg)
  /\ \A j \in 1..Parts(arg) : Placed(s, arg, j, locs[j])
  /\ \A i, j \in 1..Parts(arg) : i # j => Apart(arg, locs[i], arg, locs[j])

\* What AnalyzeArguments has done with the first Len(s.locs) arguments.
Analysis(s, args) ==
  /\ InStep(s)
  /\ Len(s.locs) <= Len(args)
  /\ \A k \in 1..Len(s.locs) : Located(s, args[k], s.locs[k])
  /\ \A k, m \in 1..Len(s.locs) : k # m =>
       \A j \in 1..Parts(args[k]), i \in 1..Parts(args[m]) :
         Apart(args[k], s.locs[k][j], args[m], s.locs[m][i])

\* t is s with one more argument, arg, at the locations locs.
Extends(s, t, arg, locs) ==
  /\ InStep(t)
  /\ s.used \subseteq t.used /\ s.offset <= t.offset
  /\ t.locs = Append(s.locs, locs)
  /\ Located(t, arg, locs)
  /\ \A j \in 1..Parts(arg) : Beyond(s, locs[j])

-------------------------------------------------------------------------------
(* Arithmetic of the allocations *)

\* Rounding up reaches a multiple, of an even number an even one.
LEMMA AlignToBound ==
  ASSUME NEW x \in Nat, NEW a \in Nat \ {0}
  PROVE  /\ alignTo(x, a) \in Nat /\ alignTo(x, a) >= x
         /\ a % 2 = 0 => Even(alignTo(x, a))
<1> DEFINE y == x + a - 1
           q == y \div a
<1>1. y \in Nat /\ a > 0
  OBVIOUS
<1>2. q \in Nat /\ y < a * (q + 1) /\ a * q \in Nat
  BY <1>1
<1>3. a * (q + 1) = a * q + a /\ q * a = a * q
  BY <1>2
<1> HIDE DEF q
<1>4. q * a \in Nat /\ q * a >= x
  BY <1>2, <1>3
<1>5. ASSUME a % 2 = 0 PROVE Even(q * a)
  <2>1. PICK b \in Nat : a = 2 * b
    <3>1. a = 2 * (a \div 2) /\ a \div 2 \in Nat
      BY <1>5
    <3> QED BY <3>1
  <2>2. q * b \in Nat /\ q * (2 * b) = 2 * (q * b)
    BY <1>2, <2>1
  <2>3. q * a = 2 * (q * b)
    BY <2>1, <2>2
  <2> QED BY <2>2, <2>3, Zenon DEF Even
<1> QED BY <1>4, <1>5 DEF alignTo, q

\* A word fits where the stack is even.
LEMMA AlignedWord ==
  ASSUME NEW x \in Nat, Even(x)
  PROVE  alignTo(x, 2) = x
<1>1. PICK b \in Nat : x = 2 * b
  BY DEF Even
<1>2. (x + 2 - 1) \div 2 = b
  BY <1>1
<1> QED BY <1>1, <1>2 DEF alignTo

LEMMA FirstRegister == FirstReg \in {8, 12} /\ FirstReg \in Int /\ RegList = FirstReg..15
<1>1. CASE sig.conv = "builtin"
  BY <1>1 DEF FirstReg, RegList
<1>2. CASE sig.conv # "builtin"
  BY <1>2 DEF FirstReg, RegList
<1> QED BY <1>1, <1>2

\* The registers are handed out in their order.
LEMMA NthRegister ==
  ASSUME NEW s, InStep(s), sig.conv \in {"C", "builtin"}, NEW n \in 1..s.regsLeft
  PROVE  AllocateReg(s, n) = 15 - s.regsLeft + n
<1> DEFINE free == RegList \ s.used
           IsNth(r) == Cardinality({q \in free : q <= r}) = n
<1>1. PICK c \in Int : c = 16 - s.regsLeft /\ s.regsLeft \in Nat
  BY DEF InStep, CCState
<1>2. free = c..15
  <2>1. PICK f \in Int : f = FirstReg /\ RegList = f..15
    BY FirstRegister
  <2>2. s.used = f..(c - 1) /\ f <= c
    BY <1>1, <2>1 DEF InStep
  <2> QED BY <2>1, <2>2
<1>3. \A r \in c..15 : IsNth(r) <=> r = c + n - 1
  <2> TAKE r \in c..15
  <2>1. {q \in free : q <= r} = c..r
    BY <1>1, <1>2
  <2>2. Cardinality(c..r) = r - c + 1
    BY <1>1, FS_Interval
  <2>3. IsNth(r) <=> r - c + 1 = n
    BY <2>1, <2>2
  <2> QED BY <1>1, <2>3
<1>4. c + n - 1 \in c..15
  BY <1>1
<1> HIDE DEF IsNth
<1>5. c + n - 1 \in free /\ \A r \in free : IsNth(r) <=> r = c + n - 1
  BY <1>2, <1>3, <1>4, Zenon
<1>6. (CHOOSE r \in free : IsNth(r)) = c + n - 1 /\ \E r \in free : IsNth(r)
  BY <1>5
<1>7. AllocateReg(s, n) = IF \E r \in free : IsNth(r) THEN CHOOSE r \in free : IsNth(r)
                          ELSE NoRegister
  BY DEF AllocateReg, IsNth
<1>8. AllocateReg(s, n) = c + n - 1
  BY <1>6, <1>7, Zenon
<1> QED BY <1>1, <1>8

-------------------------------------------------------------------------------
(* One argument *)

LEMMA ArgumentFacts ==
  ASSUME NEW arg \in Argument, IsArgument(arg)
  PROVE  /\ Parts(arg) \in Nat \ {0} /\ DOMAIN arg.pieces = 1..Parts(arg)
         /\ FirstVT(arg) \in {"i8", "i16"}
         /\ \A j \in 1..Parts(arg) : arg.pieces[j] = FirstVT(arg)
         /\ LocInfo(arg, FirstVT(arg)) \in {"AExt", "SExt", "ZExt", "Full"}
         /\ arg.byval \in Nat /\ arg.align \in Nat /\ Size(arg) \in Nat \ {0}
         /\ arg.byval > 0 => Parts(arg) = 1
         /\ arg.byval = 0 => Size(arg) = 2
<1>1. arg.pieces \in Seq({"i8", "i16"}) /\ arg.pieces # <<>>
  BY DEF Argument, IsArgument
<1>2. Len(arg.pieces) \in Nat \ {0} /\ DOMAIN arg.pieces = 1..Len(arg.pieces)
      /\ arg.pieces \in [1..Len(arg.pieces) -> {"i8", "i16"}]
  BY <1>1, EmptySeq, LenProperties
<1>3. arg.byval \in Nat /\ arg.align \in Nat /\ arg.ext \in {"AExt", "SExt", "ZExt"}
  BY DEF Argument
<1>4. arg.pieces[1] \in {"i8", "i16"}
  BY <1>2
<1> QED BY <1>2, <1>3, <1>4 DEF Parts, FirstVT, LocInfo, Size, IsArgument

\* A new sequence of locations is added to those of s.
LEMMA Appended ==
  ASSUME NEW s \in CCState, NEW locs \in Seq(Location)
  PROVE  Append(s.locs, locs) \in Seq(Seq(Location))
BY AppendProperties DEF CCState

LEMMA AppendLast ==
  ASSUME NEW S, NEW q \in Seq(S), NEW e, NEW n \in Nat, n = Len(q)
  PROVE  /\ Append(q, e)[n + 1] = e /\ Len(Append(q, e)) = n + 1
         /\ DOMAIN Append(q, e) = 1..(n + 1)
         /\ \A k \in 1..n : Append(q, e)[k] = q[k]
<1>1. q \in Seq(S \cup {e}) /\ e \in S \cup {e}
  BY SeqDef, LenProperties
<1>2. /\ Append(q, e) \in Seq(S \cup {e}) /\ Len(Append(q, e)) = n + 1
      /\ \A i \in 1..n : Append(q, e)[i] = q[i]
      /\ Append(q, e)[n + 1] = e
  BY <1>1, AppendProperties
<1> QED BY <1>2, LenProperties

LEMMA SequenceOf ==
  ASSUME NEW S, NEW n \in Nat, NEW q \in [1..n -> S]
  PROVE  q \in Seq(S) /\ Len(q) = n
<1>1. q \in Seq(S)
  BY SeqDef
<1> QED BY <1>1, LenProperties

\* Pieces put on the stack in a row.
LEMMA StackExtends ==
  ASSUME NEW s, InStep(s), NEW arg \in Argument, IsArgument(arg), arg.byval = 0,
         NEW locs, NEW t \in CCState,
         locs = [n \in 1..Parts(arg) |->
                   InMem(AllocateStack(s, n), arg.pieces[n], LocInfo(arg, arg.pieces[n]))],
         t.used = s.used, t.regsLeft = s.regsLeft,
         t.offset = AllocateStack(s, Parts(arg) + 1),
         t.locs = Append(s.locs, locs)
  PROVE  Extends(s, t, arg, locs)
<1>1. PICK b \in Nat : s.offset = 2 * b
  BY DEF InStep, Even
<1>2. s.offset \in Nat /\ alignTo(s.offset, 2) = s.offset
  BY AlignedWord DEF InStep, CCState
<1>3. PICK m \in Nat \ {0} : m = Parts(arg)
  BY ArgumentFacts
<1>4. \A n \in 1..(m + 1) : AllocateStack(s, n) = s.offset + 2 * (n - 1)
  BY <1>2 DEF AllocateStack
<1>5. t.offset = s.offset + 2 * m
  <2>1. m + 1 \in 1..(m + 1) /\ (m + 1) - 1 = m
    OBVIOUS
  <2>2. t.offset = AllocateStack(s, m + 1)
    BY <1>3
  <2>3. AllocateStack(s, m + 1) = s.offset + 2 * ((m + 1) - 1)
    BY <1>4, <2>1
  <2> QED BY <2>1, <2>2, <2>3
<1>6. Even(t.offset) /\ t.offset >= s.offset
  <2>1. 2 * b + 2 * m = 2 * (b + m) /\ b + m \in Nat /\ 2 * b + 2 * m >= 2 * b
    BY <1>1, <1>3
  <2>2. t.offset = 2 * b + 2 * m
    BY <1>1, <1>5
  <2> QED BY <1>1, <2>1, <2>2 DEF Even
<1>7. \A n \in 1..m :
        /\ locs[n] = [reg |-> NoRegister, mem |-> s.offset + 2 * (n - 1),
                      val |-> arg.pieces[n], info |-> LocInfo(arg, arg.pieces[n])]
        /\ locs[n] \in Location
  <2> TAKE n \in 1..m
  <2>1. locs[n] = InMem(s.offset + 2 * (n - 1), arg.pieces[n], LocInfo(arg, arg.pieces[n]))
    BY <1>3, <1>4
  <2>2. /\ arg.pieces[n] \in {"i8", "i16"}
        /\ LocInfo(arg, arg.pieces[n]) \in {"AExt", "SExt", "ZExt", "Full"}
    BY <1>3, ArgumentFacts
  <2>3. s.offset + 2 * (n - 1) \in Int /\ NoRegister \in Int
    BY <1>2 DEF NoRegister
  <2> QED BY <2>1, <2>2, <2>3 DEF InMem, Location
<1>8. locs \in Seq(Location) /\ Len(locs) = m
  <2>1. locs \in [1..m -> Location]
    BY <1>3, <1>7
  <2>2. \A q \in [1..m -> Location] : q \in Seq(Location) /\ Len(q) = m
    BY SequenceOf
  <2> QED BY <2>1, <2>2, Zenon
<1>9. \A n \in 1..m :
        /\ locs[n].mem = s.offset + 2 * (n - 1) /\ locs[n].reg = NoRegister
        /\ locs[n].val = arg.pieces[n] /\ locs[n].info = LocInfo(arg, arg.pieces[n])
  <2> SUFFICES ASSUME NEW n \in 1..m
               PROVE  /\ locs[n].mem = s.offset + 2 * (n - 1) /\ locs[n].reg = NoRegister
                      /\ locs[n].val = arg.pieces[n]
                      /\ locs[n].info = LocInfo(arg, arg.pieces[n])
    OBVIOUS
  <2> DEFINE info == LocInfo(arg, arg.pieces[n])
             r == [reg |-> NoRegister, mem |-> s.offset + 2 * (n - 1),
                   val |-> arg.pieces[n], info |-> info]
  <2>1. locs[n] = r
    BY <1>7
  <2>2. r.mem = s.offset + 2 * (n - 1) /\ r.reg = NoRegister /\ r.val = arg.pieces[n]
        /\ r.info = info
    BY Zenon
  <2> QED BY <2>1, <2>2, Zenon
<1>10. Located(t, arg, locs) /\ \A j \in 1..Parts(arg) : Beyond(s, locs[j])
  <2>1. Size(arg) = 2
    BY ArgumentFacts
  <2>2. \A j \in 1..m : Placed(t, arg, j, locs[j]) /\ Beyond(s, locs[j])
    <3> TAKE j \in 1..m
    <3>1. PICK a \in Int : a = s.offset + 2 * (j - 1)
      BY <1>2
    <3>2. a \in Nat /\ a >= s.offset /\ a + 2 <= t.offset
      BY <1>2, <1>5, <3>1
    <3>3. locs[j].mem = a /\ locs[j].reg = NoRegister
          /\ locs[j].val = arg.pieces[j] /\ locs[j].info = LocInfo(arg, arg.pieces[j])
      BY <1>9, <3>1
    <3> QED BY <2>1, <3>2, <3>3 DEF Placed, Beyond
  <2>3. \A i, j \in 1..m : i # j => Apart(arg, locs[i], arg, locs[j])
    <3> SUFFICES ASSUME NEW i \in 1..m, NEW j \in 1..m, i # j
                 PROVE  Apart(arg, locs[i], arg, locs[j])
      OBVIOUS
    <3>1. PICK a \in Int, c \in Int : a = s.offset + 2 * (i - 1) /\ c = s.offset + 2 * (j - 1)
      BY <1>2
    <3>2. a >= 0 /\ c >= 0 /\ (a + 2 <= c \/ c + 2 <= a)
      BY <1>2, <3>1
    <3>3. locs[i].mem = a /\ locs[j].mem = c
      BY <1>9, <3>1
    <3> QED BY <2>1, <3>2, <3>3 DEF Apart
  <2> QED BY <1>3, <1>8, <2>2, <2>3 DEF Located
<1>11. InStep(t)
  BY <1>6 DEF InStep
<1> QED BY <1>6, <1>10, <1>11 DEF Extends

LEMMA NextInterval ==
  ASSUME NEW f \in Nat, NEW c \in Nat, NEW m \in Nat \ {0}, f <= c
  PROVE  /\ (f..(c - 1)) \cup (c..(c + m - 1)) = f..(c + m - 1)
         /\ \A j \in 1..m : c + j - 1 \in f..(c + m - 1) /\ c + j - 1 \notin f..(c - 1)
         /\ 8 <= f /\ c + m - 1 <= 15 => f..(c + m - 1) \subseteq 8..15
<1>1. (f..(c - 1)) \cup (c..(c + m - 1)) = f..(c + m - 1)
  OBVIOUS
<1>2. \A j \in 1..m : c + j - 1 \in f..(c + m - 1) /\ c + j - 1 \notin f..(c - 1)
  OBVIOUS
<1>3. 8 <= f /\ c + m - 1 <= 15 => f..(c + m - 1) \subseteq 8..15
  OBVIOUS
<1> QED BY <1>1, <1>2, <1>3, Zenon

\* Pieces in the next registers.
LEMMA RegsExtends ==
  ASSUME NEW s, InStep(s), sig.conv \in {"C", "builtin"},
         NEW arg \in Argument, IsArgument(arg), arg.byval = 0, Parts(arg) <= s.regsLeft
  PROVE  \E locs : Extends(s, PiecesInRegs(s, arg), arg, locs)
<1> DEFINE t == PiecesInRegs(s, arg)
           locs == [n \in 1..Parts(arg) |-> PieceInReg(s, n, arg)]
<1>1. PICK m \in Nat \ {0}, c \in Nat, f \in Nat :
        m = Parts(arg) /\ c = 16 - s.regsLeft /\ f = FirstReg /\ f \in {8, 12}
  <2>1. FirstReg \in {8, 12} /\ FirstReg \in Nat
    BY FirstRegister
  <2>2. 16 - s.regsLeft \in Nat
    BY <2>1 DEF InStep, CCState
  <2> QED BY <2>1, <2>2, ArgumentFacts
<1>2. s.regsLeft \in Nat /\ m <= s.regsLeft /\ f <= c /\ c + m - 1 <= 15 /\ s.used = f..(c - 1)
  <2>1. PICK r \in Nat : r = s.regsLeft
    BY DEF InStep, CCState
  <2>2. r <= 16 - f /\ s.used = f..(15 - r) /\ m <= r /\ c = 16 - r
    BY <1>1, <2>1 DEF InStep
  <2>3. f <= c /\ c + m - 1 <= 15 /\ 15 - r = c - 1
    BY <2>2
  <2> QED BY <2>1, <2>2, <2>3
<1>3. \A n \in 1..m : AllocateReg(s, n) = c + n - 1
  <2> TAKE n \in 1..m
  <2>1. n \in 1..s.regsLeft
    BY <1>2
  <2>2. AllocateReg(s, n) = 15 - s.regsLeft + n
    BY <2>1, NthRegister
  <2>3. PICK r \in Nat : r = s.regsLeft /\ c = 16 - r
    BY <1>1, <1>2
  <2>4. 15 - r + n = c + n - 1
    BY <2>3
  <2> QED BY <2>2, <2>3, <2>4
<1>4. {AllocateReg(s, n) : n \in 1..m} = c..(c + m - 1)
  <2>1. {AllocateReg(s, n) : n \in 1..m} = {c + n - 1 : n \in 1..m}
    BY <1>3
  <2>2. {c + n - 1 : n \in 1..m} = c..(c + m - 1)
    <3>1. \A r \in c..(c + m - 1) : r - c + 1 \in 1..m /\ r = c + (r - c + 1) - 1
      OBVIOUS
    <3>2. \A n \in 1..m : c + n - 1 \in c..(c + m - 1)
      OBVIOUS
    <3> QED BY <3>1, <3>2
  <2> QED BY <2>1, <2>2, Zenon
<1>5. \A n \in 1..m :
        /\ locs[n] \in Location
        /\ locs[n].mem = -1 /\ locs[n].reg = c + n - 1
        /\ locs[n].val = arg.pieces[n] /\ locs[n].info = LocInfo(arg, arg.pieces[n])
  <2> TAKE n \in 1..m
  <2>1. locs[n] = InReg(c + n - 1, FirstVT(arg), LocInfo(arg, FirstVT(arg)))
    BY <1>1, <1>3 DEF PieceInReg
  <2>2. /\ arg.pieces[n] = FirstVT(arg) /\ FirstVT(arg) \in {"i8", "i16"}
        /\ LocInfo(arg, FirstVT(arg)) \in {"AExt", "SExt", "ZExt", "Full"}
    BY <1>1, ArgumentFacts
  <2>3. c + n - 1 \in Int /\ -1 \in Int
    OBVIOUS
  <2> QED BY <2>1, <2>2, <2>3 DEF InReg, Location
<1>6. locs \in Seq(Location) /\ Len(locs) = m
  <2>1. locs \in [1..m -> Location]
    BY <1>1, <1>5
  <2>2. \A q \in [1..m -> Location] : q \in Seq(Location) /\ Len(q) = m
    BY SequenceOf
  <2> HIDE DEF locs
  <2> QED BY <2>1, <2>2, Zenon
<1>7. /\ t.used = s.used \cup (c..(c + m - 1)) /\ t.regsLeft = s.regsLeft - m
      /\ t.offset = s.offset /\ t.locs = Append(s.locs, locs) /\ t.usedStack = s.usedStack
      /\ t = [s EXCEPT !.used = t.used, !.regsLeft = t.regsLeft, !.locs = t.locs]
  BY <1>1, <1>4 DEF PiecesInRegs, InStep, CCState
<1> HIDE DEF t, locs
<1>8. t.used = f..(c + m - 1) /\ t.used \subseteq 8..15 /\ t.regsLeft \in Nat
  <2>1. t.used = (f..(c - 1)) \cup (c..(c + m - 1))
    BY <1>2, <1>7, Zenon
  <2>2. (f..(c - 1)) \cup (c..(c + m - 1)) = f..(c + m - 1) /\ f..(c + m - 1) \subseteq 8..15
    <3>1. 8 <= f
      BY <1>1
    <3> QED BY <1>2, <3>1, NextInterval
  <2>3. t.regsLeft = s.regsLeft - m
    BY <1>7, Zenon
  <2>4. t.regsLeft \in Nat
    <3>1. PICK r \in Nat : r = s.regsLeft /\ m <= r
      BY <1>2
    <3>2. r - m \in Nat
      BY <3>1
    <3> QED BY <2>3, <3>1, <3>2
  <2> QED BY <2>1, <2>2, <2>4, Zenon
<1>9. t \in CCState
  <2>1. t.locs \in Seq(Seq(Location))
    BY <1>6, <1>7, Appended DEF InStep
  <2> QED BY <1>7, <1>8, <2>1 DEF InStep, CCState
<1>10. InStep(t)
  <2>1. c + m - 1 = 15 - t.regsLeft /\ t.regsLeft <= 16 - f
    <3>1. t.regsLeft = s.regsLeft - m
      BY <1>7, Zenon
    <3>2. \A r, u \in Nat : c = 16 - r /\ u = r - m => c + m - 1 = 15 - u
      OBVIOUS
    <3>3. \A r, u \in Nat : r <= 16 - f /\ u = r - m => u <= 16 - f
      OBVIOUS
    <3>4. s.regsLeft <= 16 - f /\ s.regsLeft \in Nat
      BY <1>1 DEF InStep, CCState
    <3> QED BY <1>1, <1>8, <3>1, <3>2, <3>3, <3>4, Zenon
  <2> QED BY <1>1, <1>7, <1>8, <1>9, <2>1 DEF InStep
<1>11. Located(t, arg, locs) /\ \A j \in 1..Parts(arg) : Beyond(s, locs[j])
  <2>1. \A j \in 1..m : Placed(t, arg, j, locs[j]) /\ Beyond(s, locs[j])
    <3> TAKE j \in 1..m
    <3>1. c + j - 1 \in t.used /\ c + j - 1 \notin s.used
      <4>1. c + j - 1 \in f..(c + m - 1) /\ c + j - 1 \notin f..(c - 1)
        BY <1>2, NextInterval
      <4> QED BY <1>2, <1>8, <4>1, Zenon
    <3>2. locs[j].mem = -1 /\ locs[j].reg = c + j - 1
          /\ locs[j].val = arg.pieces[j] /\ locs[j].info = LocInfo(arg, arg.pieces[j])
      BY <1>5
    <3>3. arg.byval = 0 /\ ~(arg.byval > 0)
      OBVIOUS
    <3> QED BY <3>1, <3>2, <3>3, Zenon DEF Placed, Beyond
  <2>2. \A i, j \in 1..m : i # j => Apart(arg, locs[i], arg, locs[j])
    <3> SUFFICES ASSUME NEW i \in 1..m, NEW j \in 1..m, i # j
                 PROVE  Apart(arg, locs[i], arg, locs[j])
      OBVIOUS
    <3>1. c + i - 1 # c + j - 1 /\ ~(-1 >= 0)
      BY <1>1
    <3> QED BY <1>5, <3>1 DEF Apart
  <2> QED BY <1>1, <1>6, <2>1, <2>2 DEF Located
<1>12. Extends(s, t, arg, locs)
  <2>1. s.used \subseteq t.used /\ s.offset <= t.offset
    BY <1>7 DEF InStep, CCState
  <2> QED BY <1>7, <1>10, <1>11, <2>1 DEF Extends
<1> QED BY <1>12 DEF t

LEMMA PiecesOnStackExtends ==
  ASSUME NEW s, InStep(s), NEW arg \in Argument, IsArgument(arg), arg.byval = 0
  PROVE  /\ \E locs : Extends(s, PiecesOnStack(s, arg), arg, locs)
         /\ \E locs : Extends(s, VarArgPieces(s, arg), arg, locs)
<1> DEFINE locs == [n \in 1..Parts(arg) |->
                      InMem(AllocateStack(s, n), arg.pieces[n], LocInfo(arg, arg.pieces[n]))]
           fixed == [n \in 1..Parts(arg) |-> PieceOnStack(s, n, arg)]
           off == AllocateStack(s, Parts(arg) + 1)
           t == PiecesOnStack(s, arg)
           u == VarArgPieces(s, arg)
<1>1. fixed = locs
  BY ArgumentFacts DEF PieceOnStack
<1>2. off \in Nat /\ locs \in Seq(Location)
  <2>1. PICK m \in Nat \ {0} : m = Parts(arg)
    BY ArgumentFacts
  <2>2. s.offset \in Nat /\ alignTo(s.offset, 2) = s.offset
    BY AlignedWord DEF InStep, CCState
  <2>3. \A n \in 1..(m + 1) : AllocateStack(s, n) \in Nat
    BY <2>2 DEF AllocateStack
  <2>4. \A n \in 1..m : locs[n] \in Location
    <3> TAKE n \in 1..m
    <3>1. AllocateStack(s, n) \in Int /\ NoRegister \in Int
      BY <2>3 DEF NoRegister
    <3>2. /\ arg.pieces[n] \in {"i8", "i16"}
          /\ LocInfo(arg, arg.pieces[n]) \in {"AExt", "SExt", "ZExt", "Full"}
      BY <2>1, ArgumentFacts
    <3> QED BY <2>1, <3>1, <3>2 DEF InMem, Location
  <2>5. locs \in [1..m -> Location]
    BY <2>1, <2>4
  <2>6. \A q \in [1..m -> Location] : q \in Seq(Location)
    BY SequenceOf
  <2>7. off \in Nat
    BY <2>1, <2>3
  <2> HIDE DEF locs, off
  <2> QED BY <2>5, <2>6, <2>7, Zenon
<1>3. Append(s.locs, locs) \in Seq(Seq(Location))
  <2> HIDE DEF locs
  <2> QED BY <1>2, Appended DEF InStep
<1>4. t = [s EXCEPT !.usedStack = TRUE, !.offset = off, !.locs = Append(s.locs, fixed)]
      /\ u = [s EXCEPT !.offset = off, !.locs = Append(s.locs, locs)]
  BY DEF PiecesOnStack, VarArgPieces
<1> HIDE DEF t, u, locs, fixed, off
<1>5. /\ t \in CCState /\ t.used = s.used /\ t.regsLeft = s.regsLeft
      /\ t.offset = off /\ t.locs = Append(s.locs, locs)
  BY <1>1, <1>2, <1>3, <1>4 DEF InStep, CCState
<1>6. /\ u \in CCState /\ u.used = s.used /\ u.regsLeft = s.regsLeft
      /\ u.offset = off /\ u.locs = Append(s.locs, locs)
  BY <1>1, <1>2, <1>3, <1>4 DEF InStep, CCState
<1>7. \A v \in {t, u} : Extends(s, v, arg, locs)
  <2> TAKE v \in {t, u}
  <2>1. /\ v \in CCState /\ v.used = s.used /\ v.regsLeft = s.regsLeft
        /\ v.offset = off /\ v.locs = Append(s.locs, locs)
    BY <1>5, <1>6, Zenon
  <2>2. Extends(s, v, arg, locs)
    BY <2>1, StackExtends DEF locs, off
  <2> QED BY <2>2
<1> QED BY <1>7 DEF t, u

\* An object has a slot of its size, rounded up to words.
LEMMA ByValExtends ==
  ASSUME NEW s, InStep(s), NEW arg \in Argument, IsArgument(arg), arg.byval > 0
  PROVE  \E locs : Extends(s, ByVal(s, arg), arg, locs)
<1> DEFINE atLeast(x) == IF x < 2 THEN 2 ELSE x
<1>1. PICK a \in Nat \ {0}, z \in Nat \ {0} : a = atLeast(arg.align) /\ z = atLeast(arg.byval)
  <2>1. atLeast(arg.align) \in Nat \ {0} /\ atLeast(arg.byval) \in Nat \ {0}
    BY ArgumentFacts
  <2> QED BY <2>1
<1>2. s.offset \in Nat
  BY DEF InStep, CCState
<1>3. PICK off \in Nat, room \in Nat : off = alignTo(s.offset, a) /\ room = alignTo(z, 2)
  BY <1>2, AlignToBound
<1>4. off >= s.offset /\ room >= z
  <2>1. alignTo(s.offset, a) >= s.offset
    BY <1>2, AlignToBound
  <2>2. alignTo(z, 2) >= z
    BY AlignToBound
  <2> QED BY <1>3, <2>1, <2>2
<1>5. a % 2 = 0
  BY <1>1, ArgumentFacts DEF IsArgument
<1>6. Even(off) /\ Even(room)
  <2>1. Even(alignTo(s.offset, a))
    BY <1>2, <1>5, AlignToBound
  <2>2. Even(alignTo(z, 2))
    <3>1. 2 \in Nat \ {0} /\ 2 % 2 = 0
      OBVIOUS
    <3> QED BY <3>1, AlignToBound
  <2> QED BY <1>3, <2>1, <2>2, Zenon
<1>7. Even(off + room)
  <2>1. PICK b \in Nat, c \in Nat : off = 2 * b /\ room = 2 * c
    BY <1>6 DEF Even
  <2>2. off + room = 2 * (b + c) /\ b + c \in Nat
    BY <2>1
  <2> QED BY <2>2 DEF Even
<1> DEFINE loc == InMem(off, "i16", "Full")
           t == ByVal(s, arg)
<1>8. loc \in Location /\ loc.mem = off /\ loc.reg = NoRegister /\ loc.info = "Full"
  BY DEF InMem, Location, NoRegister
<1>9. t = [s EXCEPT !.offset = off + room, !.locs = Append(s.locs, <<loc>>)]
  BY <1>1, <1>3 DEF ByVal
<1> HIDE DEF loc, t
<1>10. <<loc>> \in Seq(Location) /\ Len(<<loc>>) = 1 /\ <<loc>>[1] = loc
  BY <1>8
<1>11. Append(s.locs, <<loc>>) \in Seq(Seq(Location))
  BY <1>10, Appended DEF InStep
<1>12. /\ t \in CCState /\ t.used = s.used /\ t.regsLeft = s.regsLeft
       /\ t.offset = off + room /\ t.locs = Append(s.locs, <<loc>>)
  <2>1. off + room \in Nat
    OBVIOUS
  <2> QED BY <1>9, <1>11, <2>1 DEF InStep, CCState
<1>13. InStep(t)
  BY <1>7, <1>12 DEF InStep
<1>14. Parts(arg) = 1 /\ 1..1 = {1}
  BY ArgumentFacts
<1>15. Placed(t, arg, 1, loc) /\ Beyond(s, loc)
  <2>1. Size(arg) = arg.byval /\ arg.byval <= z /\ arg.byval \in Nat
    BY <1>1, ArgumentFacts DEF Size
  <2>2. off + Size(arg) <= off + room
    BY <1>4, <2>1
  <2>3. loc.mem \in Nat /\ loc.mem >= s.offset /\ loc.mem + Size(arg) <= t.offset
    BY <1>4, <1>8, <1>12, <2>2
  <2>4. arg.byval # 0
    BY <2>1
  <2> QED BY <1>8, <2>3, <2>4, Zenon DEF Placed, Beyond
<1>16. Located(t, arg, <<loc>>)
  BY <1>10, <1>14, <1>15 DEF Located
<1>17. \A j \in 1..Parts(arg) : Beyond(s, <<loc>>[j])
  BY <1>10, <1>14, <1>15
<1>18. s.offset <= t.offset
  BY <1>2, <1>4, <1>12
<1>19. Extends(s, t, arg, <<loc>>)
  BY <1>12, <1>13, <1>16, <1>17, <1>18 DEF Extends
<1> QED BY <1>19 DEF t

\* One piece in the last register, the next on the stack.
LEMMA SplitExtends ==
  ASSUME NEW s, InStep(s), sig.conv \in {"C", "builtin"},
         NEW arg \in Argument, IsArgument(arg), arg.byval = 0,
         Parts(arg) = 2, s.regsLeft = 1
  PROVE  \E locs : Extends(s, Split(s, arg), arg, locs)
<1> DEFINE low == PieceInReg(s, 1, arg)
           high == PieceOnStack(s, 1, arg)
           t == Split(s, arg)
<1>1. AllocateReg(s, 1) = 15
  <2>1. 1 \in 1..s.regsLeft
    OBVIOUS
  <2>2. AllocateReg(s, 1) = 15 - s.regsLeft + 1
    BY <2>1, NthRegister
  <2> QED BY <2>2
<1>2. s.offset \in Nat /\ AllocateStack(s, 1) = s.offset /\ AllocateStack(s, 2) = s.offset + 2
  BY AlignedWord DEF InStep, CCState, AllocateStack
<1>3. PICK f \in Nat : f = FirstReg /\ f \in {8, 12}
  <2>1. FirstReg \in {8, 12} /\ FirstReg \in Nat
    BY FirstRegister
  <2> QED BY <2>1
<1>4. s.used = f..14
  BY <1>3 DEF InStep
<1>5. /\ low \in Location /\ low.mem = -1 /\ low.reg = 15
      /\ low.val = FirstVT(arg) /\ low.info = LocInfo(arg, FirstVT(arg))
      /\ high \in Location /\ high.mem = s.offset /\ high.reg = NoRegister
      /\ high.val = FirstVT(arg) /\ high.info = LocInfo(arg, FirstVT(arg))
  <2>1. /\ FirstVT(arg) \in {"i8", "i16"}
        /\ LocInfo(arg, FirstVT(arg)) \in {"AExt", "SExt", "ZExt", "Full"}
    BY ArgumentFacts
  <2> QED BY <1>1, <1>2, <2>1 DEF PieceInReg, PieceOnStack, InReg, InMem, Location, NoRegister
<1>6. t = [s EXCEPT !.used = s.used \cup {15}, !.regsLeft = 0, !.usedStack = TRUE,
                    !.offset = s.offset + 2, !.locs = Append(s.locs, <<low, high>>)]
  <2>1. s.regsLeft - 1 = 0
    <3>1. \A x \in Int : x = 1 => x - 1 = 0
      OBVIOUS
    <3> QED BY <3>1
  <2>2. t = [s EXCEPT !.used = s.used \cup {15}, !.regsLeft = s.regsLeft - 1, !.usedStack = TRUE,
                      !.offset = s.offset + 2, !.locs = Append(s.locs, <<low, high>>)]
    BY <1>1, <1>2 DEF Split
  <2> HIDE DEF t, low, high
  <2> QED BY <2>1, <2>2
<1> HIDE DEF low, high, t
<1>7. <<low, high>> \in Seq(Location) /\ Len(<<low, high>>) = 2
      /\ <<low, high>>[1] = low /\ <<low, high>>[2] = high
  BY <1>5
<1>8. Append(s.locs, <<low, high>>) \in Seq(Seq(Location))
  BY <1>7, Appended DEF InStep
<1>9. f..15 = s.used \cup {15} /\ f..15 \subseteq 8..15 /\ 0 \in Nat
  BY <1>3, <1>4
<1>10. /\ t \in CCState /\ t.used = f..15 /\ t.regsLeft = 0
       /\ t.offset = s.offset + 2 /\ t.locs = Append(s.locs, <<low, high>>)
  <2>1. s.offset + 2 \in Nat
    BY <1>2
  <2>2. s \in CCState
    BY DEF InStep
  <2> DEFINE locs == Append(s.locs, <<low, high>>)
             used == s.used \cup {15}
             offset == s.offset + 2
  <2>3. /\ t = [s EXCEPT !.used = used, !.regsLeft = 0, !.usedStack = TRUE,
                         !.offset = offset, !.locs = locs]
        /\ used = f..15 /\ used \subseteq 8..15 /\ offset \in Nat /\ locs \in Seq(Seq(Location))
    BY <1>6, <1>8, <1>9, <2>1
  <2> HIDE DEF locs, used, offset
  <2>4. /\ t.used = used /\ t.regsLeft = 0 /\ t.offset = offset /\ t.locs = locs
        /\ t \in CCState
    BY <2>2, <2>3 DEF CCState
  <2> QED BY <2>3, <2>4 DEF locs, offset
<1>11. InStep(t)
  <2>1. Even(t.offset)
    <3>1. PICK b \in Nat : s.offset = 2 * b
      BY DEF InStep, Even
    <3>2. t.offset = 2 * (b + 1) /\ b + 1 \in Nat
      BY <1>10, <3>1
    <3> QED BY <3>2 DEF Even
  <2>2. 15 = 15 - 0 /\ 0 <= 16 - f
    BY <1>3
  <2>3. t \in CCState /\ t.used = FirstReg..(15 - 0) /\ t.regsLeft = 0 /\ 0 <= 16 - FirstReg
    BY <1>3, <1>10, <2>2
  <2> HIDE DEF t
  <2> QED BY <2>1, <2>3 DEF InStep
<1>12. /\ arg.pieces[1] = FirstVT(arg) /\ arg.pieces[2] = FirstVT(arg) /\ Size(arg) = 2
       /\ ~(arg.byval > 0)
  BY ArgumentFacts
<1>13. Placed(t, arg, 1, low) /\ Beyond(s, low)
  <2>1. 15 \in t.used /\ 15 \notin s.used
    BY <1>3, <1>4, <1>10
  <2> QED BY <1>5, <1>12, <2>1, Zenon DEF Placed, Beyond
<1>14. Placed(t, arg, 2, high) /\ Beyond(s, high)
  <2>1. high.mem \in Nat /\ high.mem >= s.offset /\ high.mem + Size(arg) <= t.offset
    BY <1>2, <1>5, <1>10, <1>12
  <2> QED BY <1>5, <1>12, <2>1, Zenon DEF Placed, Beyond
<1>15. Apart(arg, low, arg, high) /\ Apart(arg, high, arg, low)
  <2>1. ~(low.mem >= 0) /\ ~(high.mem < 0)
    BY <1>2, <1>5
  <2> QED BY <2>1, Zenon DEF Apart
<1>16. 1..Parts(arg) = {1, 2}
  OBVIOUS
<1>17. Located(t, arg, <<low, high>>) /\ \A j \in 1..Parts(arg) : Beyond(s, <<low, high>>[j])
  BY <1>7, <1>13, <1>14, <1>15, <1>16 DEF Located
<1>18. s.used \subseteq t.used /\ s.offset <= t.offset
  BY <1>2, <1>9, <1>10
<1>19. Extends(s, t, arg, <<low, high>>)
  BY <1>10, <1>11, <1>17, <1>18 DEF Extends
<1> QED BY <1>19 DEF t

\* Whatever AnalyzeArguments does with an argument.
LEMMA AssignedExtends ==
  ASSUME NEW s, InStep(s), sig.conv \in {"C", "builtin"},
         NEW arg \in Argument, IsArgument(arg)
  PROVE  \E locs : Extends(s, Assigned(s, arg), arg, locs)
<1>1. arg.byval \in Nat
  BY DEF Argument
<1>2. CASE arg.byval > 0
  BY <1>2, ByValExtends DEF Assigned
<1>3. CASE arg.byval = 0
  <2>1. ~(arg.byval > 0)
    BY <1>3
  <2>2. \E locs : Extends(s, PiecesOnStack(s, arg), arg, locs)
    BY <1>3, PiecesOnStackExtends
  <2>3. \E locs : Extends(s, VarArgPieces(s, arg), arg, locs)
    BY <1>3, PiecesOnStackExtends
  <2>4. Parts(arg) <= s.regsLeft => \E locs : Extends(s, PiecesInRegs(s, arg), arg, locs)
    BY <1>3, RegsExtends
  <2>5. Parts(arg) = 2 /\ s.regsLeft = 1 => \E locs : Extends(s, Split(s, arg), arg, locs)
    BY <1>3, SplitExtends
  <2> QED BY <2>1, <2>2, <2>3, <2>4, <2>5, Zenon DEF Assigned
<1> QED BY <1>1, <1>2, <1>3

\* What is placed stays placed, and apart from what lies beyond.
LEMMA StillPlaced ==
  ASSUME NEW s \in CCState, NEW t \in CCState, s.used \subseteq t.used, s.offset <= t.offset,
         NEW arg \in Argument, IsArgument(arg), NEW locs, Located(s, arg, locs)
  PROVE  Located(t, arg, locs)
<1>1. s.offset \in Nat /\ t.offset \in Nat /\ Size(arg) \in Nat
  BY ArgumentFacts DEF CCState
<1>2. \A j \in 1..Parts(arg) : Placed(t, arg, j, locs[j])
  <2> TAKE j \in 1..Parts(arg)
  <2>1. Placed(s, arg, j, locs[j])
    BY DEF Located
  <2>2. locs[j].mem \in Nat /\ locs[j].mem + Size(arg) <= s.offset =>
          locs[j].mem + Size(arg) <= t.offset
    BY <1>1
  <2> QED BY <2>1, <2>2, Zenon DEF Placed
<1> QED BY <1>2 DEF Located

LEMMA ApartBeyond ==
  ASSUME NEW s \in CCState, NEW a \in Argument, NEW b \in Argument, IsArgument(a), IsArgument(b),
         NEW l \in Location, NEW m \in Location, NEW i, Placed(s, a, i, l), Beyond(s, m)
  PROVE  Apart(a, l, b, m) /\ Apart(b, m, a, l)
<1>1. s.offset \in Nat /\ Size(a) \in Nat /\ l.mem \in Int /\ m.mem \in Int
  BY ArgumentFacts DEF CCState, Location
<1>2. l.mem >= 0 /\ m.mem >= 0 => l.mem + Size(a) <= m.mem
  BY <1>1 DEF Placed, Beyond
<1>3. l.mem < 0 /\ m.mem < 0 => l.reg # m.reg
  BY <1>1 DEF Placed, Beyond
<1> QED BY <1>2, <1>3, Zenon DEF Apart

Proper(args) ==
  args \in Seq(Argument) /\ \A k \in 1..Len(args) : args[k] \in Argument /\ IsArgument(args[k])

\* t has one argument more than s, whose locations it keeps.
Longer(s, t, n) ==
  /\ Len(s.locs) = n /\ Len(t.locs) = n + 1
  /\ \A k \in 1..n : t.locs[k] = s.locs[k]

LEMMA AnalysisExtended ==
  ASSUME NEW args, Proper(args), NEW s, Analysis(s, args), NEW n \in Nat, n = Len(s.locs),
         n < Len(args), NEW arg, arg = args[n + 1],
         NEW t, NEW locs, Extends(s, t, arg, locs)
  PROVE  Analysis(t, args) /\ Longer(s, t, n)
<1>1. s \in CCState /\ t \in CCState /\ s.used \subseteq t.used /\ s.offset <= t.offset /\ InStep(t)
  BY DEF Analysis, Extends, InStep
<1>2. Len(args) \in Nat /\ n + 1 \in 1..Len(args)
  BY LenProperties DEF Proper
<1>3. s.locs \in Seq(Seq(Location)) /\ locs \in Seq(Location)
  BY <1>1 DEF CCState, Extends, Located
<1>4. /\ Len(t.locs) = n + 1 /\ t.locs[n + 1] = locs
      /\ \A k \in 1..n : t.locs[k] = s.locs[k]
  <2>1. t.locs = Append(s.locs, locs)
    BY DEF Extends
  <2> QED BY <1>3, <2>1, AppendProperties
<1>5. \A k \in 1..n : Located(s, args[k], s.locs[k]) /\ Located(t, args[k], t.locs[k])
  <2> TAKE k \in 1..n
  <2>1. Located(s, args[k], s.locs[k])
    BY DEF Analysis
  <2>2. args[k] \in Argument /\ IsArgument(args[k])
    BY <1>2 DEF Proper
  <2>3. Located(t, args[k], s.locs[k])
    BY <1>1, <2>1, <2>2, StillPlaced
  <2> QED BY <1>4, <2>1, <2>3
<1>6. Located(t, args[n + 1], t.locs[n + 1])
  BY <1>4 DEF Extends
<1>7. \A k \in 1..(n + 1) : Located(t, args[k], t.locs[k])
  BY <1>5, <1>6
<1>8. \A k \in 1..n : \A j \in 1..Parts(args[k]), i \in 1..Parts(args[n + 1]) :
        /\ Apart(args[k], t.locs[k][j], args[n + 1], t.locs[n + 1][i])
        /\ Apart(args[n + 1], t.locs[n + 1][i], args[k], t.locs[k][j])
  <2> SUFFICES ASSUME NEW k \in 1..n, NEW j \in 1..Parts(args[k]), NEW i \in 1..Parts(args[n + 1])
               PROVE  /\ Apart(args[k], s.locs[k][j], args[n + 1], locs[i])
                      /\ Apart(args[n + 1], locs[i], args[k], s.locs[k][j])
    BY <1>4
  <2>1. /\ args[k] \in Argument /\ IsArgument(args[k])
        /\ args[n + 1] \in Argument /\ IsArgument(args[n + 1])
    BY <1>2 DEF Proper
  <2>2. Placed(s, args[k], j, s.locs[k][j]) /\ s.locs[k][j] \in Location
    <3>1. Located(s, args[k], s.locs[k])
      BY <1>5
    <3>2. Len(s.locs[k]) = Parts(args[k]) /\ s.locs[k] \in Seq(Location)
      BY <3>1 DEF Located
    <3>3. j \in 1..Len(s.locs[k])
      BY <3>2
    <3> QED BY <3>1, <3>2, <3>3, ElementOfSeq DEF Located
  <2>3. Beyond(s, locs[i]) /\ locs[i] \in Location
    <3>1. Len(locs) = Parts(args[n + 1])
      BY DEF Extends, Located
    <3> QED BY <1>3, <3>1, ElementOfSeq DEF Extends
  <2> QED BY <1>1, <2>1, <2>2, <2>3, ApartBeyond
<1>9. \A k, m \in 1..(n + 1) : k # m =>
        \A j \in 1..Parts(args[k]), i \in 1..Parts(args[m]) :
          Apart(args[k], t.locs[k][j], args[m], t.locs[m][i])
  <2> SUFFICES ASSUME NEW k \in 1..(n + 1), NEW m \in 1..(n + 1), k # m,
                      NEW j \in 1..Parts(args[k]), NEW i \in 1..Parts(args[m])
               PROVE  Apart(args[k], t.locs[k][j], args[m], t.locs[m][i])
    OBVIOUS
  <2>1. CASE k \in 1..n /\ m \in 1..n
    BY <1>4, <2>1 DEF Analysis
  <2>2. CASE k = n + 1
    <3>1. m \in 1..n
      BY <2>2
    <3> QED BY <1>8, <2>2, <3>1
  <2>3. CASE m = n + 1
    <3>1. k \in 1..n
      BY <2>3
    <3> QED BY <1>8, <2>3, <3>1
  <2> QED BY <2>1, <2>2, <2>3
<1>10. Len(t.locs) <= Len(args)
  BY <1>2, <1>4
<1>11. Analysis(t, args)
  BY <1>1, <1>4, <1>7, <1>9, <1>10 DEF Analysis
<1> QED BY <1>4, <1>11 DEF Longer

-------------------------------------------------------------------------------
(* The two lists *)

\* The callee's formals are the first of the caller's arguments.
Prefix ==
  /\ Proper(Outs) /\ Proper(Ins)
  /\ Len(Ins) \in Nat /\ Len(Outs) \in Nat /\ Len(Ins) <= Len(Outs)
  /\ \A k \in 1..Len(Ins) : Ins[k] = Outs[k]
  /\ ~sig.vararg => Len(Ins) = Len(Outs)
  /\ sig.vararg => \A k \in (Len(Ins) + 1)..Len(Outs) :
       Outs[k].byval = 0 /\ Outs[k].pieces[1] = "i16"

LEMMA PointerProper == Pointer \in Argument /\ IsArgument(Pointer)
<1>1. <<"i16">> \in Seq({"i8", "i16"}) /\ Len(<<"i16">>) = 1 /\ <<"i16">>[1] = "i16"
      /\ DOMAIN <<"i16">> = 1..1 /\ <<"i16">> # <<>>
  <2>1. <<"i16">> \in Seq({"i8", "i16"}) /\ Len(<<"i16">>) = 1 /\ <<"i16">>[1] = "i16"
    OBVIOUS
  <2>2. <<"i16">> # <<>>
    BY <2>1, EmptySeq
  <2> QED BY <2>1, <2>2, LenProperties
<1> DEFINE one == <<"i16">>
<1>2. Pointer = [pieces |-> one, ext |-> "AExt", byval |-> 0, align |-> 0]
  BY DEF Pointer
<1> HIDE DEF one
<1>3. one \in Seq({"i8", "i16"}) /\ one # <<>> /\ Len(one) = 1 /\ DOMAIN one = 1..1
      /\ one[1] = "i16"
  BY <1>1 DEF one
<1>4. Pointer \in Argument /\ Pointer.pieces = one /\ Pointer.byval = 0 /\ Pointer.align = 0
  BY <1>2, <1>3 DEF Argument
<1>5. ~(0 > 1) /\ \A j \in 1..1 : j = 1
  OBVIOUS
<1> QED BY <1>3, <1>4, <1>5 DEF IsArgument

LEMMA SignatureFacts ==
  ASSUME sig \in Signatures
  PROVE  /\ sig.conv \in {"C", "builtin"} /\ sig.vararg \in BOOLEAN /\ sig.sret \in BOOLEAN
         /\ sig.fixed \in Nat /\ sig.ret \in Seq({"i8", "i16"})
         /\ Proper(sig.args)
         /\ sig.vararg => /\ sig.fixed <= Len(sig.args)
                          /\ \A k \in (sig.fixed + 1)..Len(sig.args) :
                               sig.args[k].byval = 0 /\ sig.args[k].pieces[1] = "i16"
         /\ sig.sret => /\ sig.ret = <<>> /\ sig.args # <<>> /\ (sig.vararg => sig.fixed > 0)
                        /\ sig.args[1].byval = 0 /\ sig.args[1].pieces = <<"i16">>
<1>1. sig \in Signature
  BY SignaturesAssumption DEF SignaturesAssumption
<1>2. sig.args \in Seq(Argument)
  BY <1>1 DEF Signature
<1>3. \A k \in 1..Len(sig.args) : sig.args[k] \in Argument /\ IsArgument(sig.args[k])
  <2>1. DOMAIN sig.args = 1..Len(sig.args)
    BY <1>2, LenProperties
  <2> QED BY <1>2, <2>1, ElementOfSeq, SignaturesAssumption DEF SignaturesAssumption
<1>4. Proper(sig.args)
  BY <1>2, <1>3 DEF Proper
<1>5. /\ sig.conv \in {"C", "builtin"} /\ sig.vararg \in BOOLEAN /\ sig.sret \in BOOLEAN
      /\ sig.fixed \in Nat /\ sig.ret \in Seq({"i8", "i16"})
  BY <1>1 DEF Signature
<1>6. sig.vararg =>
        /\ sig.fixed <= Len(sig.args)
        /\ \A k \in (sig.fixed + 1)..Len(sig.args) :
             sig.args[k].byval = 0 /\ sig.args[k].pieces[1] = "i16"
  BY SignaturesAssumption DEF SignaturesAssumption
<1>7. sig.sret => /\ sig.ret = <<>> /\ sig.args # <<>> /\ (sig.vararg => sig.fixed > 0)
                  /\ sig.args[1].byval = 0 /\ sig.args[1].pieces = <<"i16">>
  BY SignaturesAssumption DEF SignaturesAssumption
<1> QED BY <1>4, <1>5, <1>6, <1>7

\* A list of arguments after the hidden one, if any.
LEMMA AfterHidden ==
  ASSUME NEW args, Proper(args)
  PROVE  /\ Proper(Hidden \o args)
         /\ Len(Hidden) \in {0, 1} /\ Len(Hidden \o args) = Len(Hidden) + Len(args)
         /\ \A k \in 1..Len(args) : (Hidden \o args)[Len(Hidden) + k] = args[k]
         /\ \A k \in 1..Len(Hidden) : (Hidden \o args)[k] = Pointer
         /\ ~DemotedReturn => Hidden \o args = args
<1>1. args \in Seq(Argument) /\ Len(args) \in Nat
  BY LenProperties DEF Proper
<1>2. Hidden \in Seq(Argument) /\ Len(Hidden) \in {0, 1} /\ \A k \in 1..Len(Hidden) : Hidden[k] = Pointer
  <2>1. CASE DemotedReturn
    <3>1. <<Pointer>> \in Seq(Argument) /\ Len(<<Pointer>>) = 1 /\ <<Pointer>>[1] = Pointer
      BY PointerProper
    <3>2. Hidden = <<Pointer>> /\ \A k \in 1..1 : k = 1
      BY <2>1 DEF Hidden
    <3> QED BY <3>1, <3>2
  <2>2. CASE ~DemotedReturn
    <3>1. Hidden = <<>> /\ Len(<<>>) = 0 /\ <<>> \in Seq(Argument) /\ 1..0 = {}
      BY <2>2, EmptySeq DEF Hidden
    <3> QED BY <3>1
  <2> QED BY <2>1, <2>2
<1>3. PICK h \in {0, 1} : h = Len(Hidden)
  BY <1>2
<1> DEFINE both == Hidden \o args
<1>4. both \in Seq(Argument) /\ Len(both) = h + Len(args)
      /\ \A k \in 1..(h + Len(args)) : both[k] = IF k <= h THEN Hidden[k] ELSE args[k - h]
  BY <1>1, <1>2, <1>3, ConcatProperties
<1> HIDE DEF both
<1>5. \A k \in 1..Len(args) : both[h + k] = args[k]
  <2> TAKE k \in 1..Len(args)
  <2>1. h + k \in 1..(h + Len(args)) /\ ~(h + k <= h) /\ (h + k) - h = k
    BY <1>1
  <2> QED BY <1>4, <2>1
<1>6. \A k \in 1..h : both[k] = Pointer
  <2> TAKE k \in 1..h
  <2>1. k \in 1..(h + Len(args)) /\ k <= h
    BY <1>1
  <2> QED BY <1>2, <1>3, <1>4, <2>1
<1>7. \A k \in 1..Len(both) : both[k] \in Argument /\ IsArgument(both[k])
  <2> TAKE k \in 1..Len(both)
  <2>1. CASE k <= h
    <3>1. k \in 1..h
      BY <1>1, <1>4, <2>1
    <3> QED BY <1>6, <3>1, PointerProper
  <2>2. CASE ~(k <= h)
    <3>1. k - h \in 1..Len(args) /\ h + (k - h) = k
      BY <1>1, <1>4, <2>2
    <3> QED BY <1>5, <3>1 DEF Proper
  <2> QED BY <2>1, <2>2
<1>8. ~DemotedReturn => both = args
  BY <1>1, ConcatEmptySeq DEF Hidden, both
<1> QED BY <1>3, <1>4, <1>5, <1>6, <1>7, <1>8 DEF Proper, both

LEMMA FirstOf ==
  ASSUME NEW S, NEW q \in Seq(S), NEW n \in Nat, n <= Len(q)
  PROVE  /\ SubSeq(q, 1, n) \in Seq(S) /\ Len(SubSeq(q, 1, n)) = n
         /\ \A k \in 1..n : SubSeq(q, 1, n)[k] = q[k]
<1>1. PICK m \in Int : m = 1
  OBVIOUS
<1>2. \A i \in m..n : q[i] \in S
  BY <1>1, ElementOfSeq, LenProperties
<1>3. /\ SubSeq(q, m, n) \in Seq(S)
      /\ Len(SubSeq(q, m, n)) = IF m <= n THEN n - m + 1 ELSE 0
      /\ \A i \in 1..(n - m + 1) : SubSeq(q, m, n)[i] = q[m + i - 1]
  BY <1>2, SubSeqProperties
<1>4. n - m + 1 = n /\ \A i \in 1..n : m + i - 1 = i
  BY <1>1
<1>5. Len(SubSeq(q, m, n)) = n
  BY <1>1, <1>3
<1>6. \A k \in 1..n : SubSeq(q, m, n)[k] = q[k]
  BY <1>3, <1>4
<1> QED BY <1>1, <1>3, <1>5, <1>6

LEMMA PrefixFacts == ASSUME sig \in Signatures PROVE Prefix
<1> DEFINE formals == IF sig.vararg THEN SubSeq(sig.args, 1, sig.fixed) ELSE sig.args
<1>1. sig.args \in Seq(Argument) /\ Len(sig.args) \in Nat /\ Proper(sig.args)
  BY SignatureFacts, LenProperties DEF Proper
<1>2. /\ Proper(formals) /\ Len(formals) \in Nat /\ Len(formals) <= Len(sig.args)
      /\ \A k \in 1..Len(formals) : formals[k] = sig.args[k]
      /\ sig.vararg => Len(formals) = sig.fixed
      /\ ~sig.vararg => formals = sig.args
  <2>1. CASE sig.vararg
    <3>1. PICK n \in Nat : n = sig.fixed /\ n <= Len(sig.args)
      BY <2>1, SignatureFacts
    <3>2. formals = SubSeq(sig.args, 1, n)
      BY <2>1, <3>1
    <3>3. \A i \in 1..n : sig.args[i] \in Argument /\ IsArgument(sig.args[i])
      BY <1>1, <3>1 DEF Proper
    <3>4. /\ formals \in Seq(Argument) /\ Len(formals) = n
          /\ \A i \in 1..n : formals[i] = sig.args[i]
      BY <1>1, <3>1, <3>2, FirstOf
    <3> QED BY <2>1, <3>1, <3>3, <3>4 DEF Proper
  <2>2. CASE ~sig.vararg
    BY <1>1, <2>2
  <2> QED BY <2>1, <2>2
<1> HIDE DEF formals
<1>3. Ins = Hidden \o formals /\ Outs = Hidden \o sig.args
  BY DEF Ins, Outs, formals
<1>4. PICK h \in {0, 1} : h = Len(Hidden)
  BY <1>1, AfterHidden
<1>5. /\ Proper(Ins) /\ Len(Ins) = h + Len(formals)
      /\ \A k \in 1..Len(formals) : Ins[h + k] = formals[k]
      /\ \A k \in 1..h : Ins[k] = Pointer
  BY <1>2, <1>3, <1>4, AfterHidden
<1>6. /\ Proper(Outs) /\ Len(Outs) = h + Len(sig.args)
      /\ \A k \in 1..Len(sig.args) : Outs[h + k] = sig.args[k]
      /\ \A k \in 1..h : Outs[k] = Pointer
  BY <1>1, <1>3, <1>4, AfterHidden
<1>7. \A k \in 1..Len(Ins) : Ins[k] = Outs[k]
  <2> TAKE k \in 1..Len(Ins)
  <2>1. CASE k <= h
    <3>1. k \in 1..h
      BY <1>2, <1>5, <2>1
    <3> QED BY <1>5, <1>6, <3>1
  <2>2. CASE ~(k <= h)
    <3>1. k - h \in 1..Len(formals) /\ h + (k - h) = k
      BY <1>2, <1>5, <2>2
    <3>2. k - h \in 1..Len(sig.args)
      BY <1>1, <1>2, <3>1
    <3> QED BY <1>2, <1>5, <1>6, <3>1, <3>2
  <2> QED BY <2>1, <2>2
<1>8. ASSUME sig.vararg
      PROVE  \A k \in (Len(Ins) + 1)..Len(Outs) :
               Outs[k].byval = 0 /\ Outs[k].pieces[1] = "i16"
  <2> TAKE k \in (Len(Ins) + 1)..Len(Outs)
  <2>1. PICK n \in Nat : n = sig.fixed /\ n = Len(formals)
    BY <1>2, <1>8
  <2>2. k - h \in (n + 1)..Len(sig.args) /\ k - h \in 1..Len(sig.args) /\ h + (k - h) = k
    BY <1>1, <1>5, <1>6, <2>1
  <2>3. Outs[k] = sig.args[k - h]
    BY <1>6, <2>2
  <2>4. sig.args[k - h].byval = 0 /\ sig.args[k - h].pieces[1] = "i16"
    BY <1>8, <2>1, <2>2, SignatureFacts
  <2> QED BY <2>3, <2>4
<1>9. Len(Ins) \in Nat /\ Len(Outs) \in Nat /\ Len(Ins) <= Len(Outs)
  BY <1>1, <1>2, <1>5, <1>6
<1>10. ~sig.vararg => Len(Ins) = Len(Outs)
  BY <1>2, <1>3
<1> QED BY <1>5, <1>6, <1>7, <1>8, <1>9, <1>10 DEF Prefix

-------------------------------------------------------------------------------
(* The two analyses *)

Sides == {"caller", "callee"}

Count(side) == Len(cc[side].locs)

\* h is the caller's analysis, argument by argument; the callee repeats it.
IsTrace(h) ==
  /\ \A m \in 0..Count("caller") :
       /\ Analysis(h[m], Outs) /\ Len(h[m].locs) = m
       /\ \A k \in 1..m : h[m].locs[k] = cc.caller.locs[k]
  /\ \A m \in 0..(Count("caller") - 1) : h[m + 1] = Assigned(h[m], Outs[m + 1])
  /\ h[0] = Fresh /\ h[Count("caller")] = cc.caller
  /\ Count("callee") <= Count("caller") /\ cc.callee = h[Count("callee")]

\* The list of variable arguments is where the analysis of the next one starts.
VaFollows(h) == pc = "va_arg" => va = h[Len(got)].offset

Phases == {"caller", "callee", "store", "receive", "va_arg", "return", "result", "done"}

AnalysisInv ==
  /\ sig \in Signatures /\ pc \in Phases /\ cc \in [Sides -> CCState]
  /\ sig.conv = "builtin" => pc \in {"caller", "store", "done"}
  /\ Count("callee") <= Len(Ins) /\ (pc = "caller" => Count("callee") = 0)
  /\ pc # "caller" => Count("caller") = Len(Outs)
  /\ pc \notin Sides /\ sig.conv = "C" => Count("callee") = Len(Ins)
  /\ \E h : IsTrace(h) /\ VaFollows(h)

\* What the two sides agree on.
Agree ==
  /\ Analysis(cc.caller, Outs) /\ Analysis(cc.callee, Ins)
  /\ Count("caller") \in 0..Len(Outs) /\ Count("callee") \in 0..Count("caller")
  /\ \A k \in 1..Count("callee") : Ins[k] = Outs[k] /\ cc.callee.locs[k] = cc.caller.locs[k]

LEMMA CountTypes ==
  ASSUME cc \in [Sides -> CCState]
  PROVE  /\ cc.caller = cc["caller"] /\ cc.callee = cc["callee"]
         /\ \A side \in Sides : cc[side] \in CCState /\ Count(side) \in Nat
<1>1. \A side \in Sides : cc[side] \in CCState
  OBVIOUS
<1>2. \A side \in Sides : Len(cc[side].locs) \in Nat
  BY <1>1, LenProperties DEF CCState
<1> QED BY <1>1, <1>2 DEF Count

LEMMA SidesAgree == AnalysisInv => Agree
<1> SUFFICES ASSUME AnalysisInv PROVE Agree
  OBVIOUS
<1>1. PICK h : IsTrace(h)
  BY DEF AnalysisInv
<1>2. PICK n \in Nat, m \in Nat : n = Count("caller") /\ m = Count("callee")
  BY CountTypes DEF AnalysisInv, Sides
<1>3. m <= n /\ m <= Len(Ins)
  BY <1>1, <1>2 DEF AnalysisInv, IsTrace
<1>4. m \in 0..n /\ n \in 0..n
  BY <1>3
<1>5. Analysis(cc.caller, Outs) /\ Analysis(cc.callee, Outs)
  BY <1>1, <1>2, <1>4 DEF IsTrace
<1>6. \A k \in 1..m : cc.callee.locs[k] = cc.caller.locs[k]
  BY <1>1, <1>2, <1>4 DEF IsTrace
<1>7. Prefix
  BY PrefixFacts DEF AnalysisInv
<1>8. \A k \in 1..m : Ins[k] = Outs[k]
  BY <1>3, <1>7 DEF Prefix
<1>9. n <= Len(Outs)
  BY <1>2, <1>5, CountTypes DEF Analysis, Count, AnalysisInv
<1>10. Analysis(cc.callee, Ins)
  <2>1. Len(cc.callee.locs) = m
    BY <1>2, CountTypes DEF Count, AnalysisInv
  <2>2. \A k \in 1..m : Located(cc.callee, Ins[k], cc.callee.locs[k])
    BY <1>5, <1>8, <2>1 DEF Analysis
  <2>3. \A k, l \in 1..m : k # l =>
          \A j \in 1..Parts(Ins[k]), i \in 1..Parts(Ins[l]) :
            Apart(Ins[k], cc.callee.locs[k][j], Ins[l], cc.callee.locs[l][i])
    BY <1>5, <1>8, <2>1 DEF Analysis
  <2> QED BY <1>3, <1>5, <2>1, <2>2, <2>3 DEF Analysis
<1> QED BY <1>2, <1>4, <1>5, <1>6, <1>7, <1>8, <1>9, <1>10 DEF Agree, Prefix

\* The analysis depends on the call alone.
LEMMA SameCall ==
  ASSUME sig' = sig
  PROVE  /\ Outs' = Outs /\ Ins' = Ins /\ Fresh' = Fresh
         /\ \A s, arg : Assigned(s, arg)' = Assigned(s, arg)
         /\ \A s, args : Analysis(s, args)' <=> Analysis(s, args)
<1>1. RegList' = RegList /\ FirstReg' = FirstReg /\ Hidden' = Hidden
  BY DEF RegList, FirstReg, Hidden, DemotedReturn
<1>2. Outs' = Outs /\ Ins' = Ins /\ Fresh' = Fresh
  BY <1>1 DEF Outs, Ins, Fresh
<1>3. \A s, n : AllocateReg(s, n)' = AllocateReg(s, n)
  BY <1>1 DEF AllocateReg
<1>4. \A s, arg : /\ PiecesInRegs(s, arg)' = PiecesInRegs(s, arg)
                  /\ Split(s, arg)' = Split(s, arg)
  <2>1. \A s, n, arg : PieceInReg(s, n, arg)' = PieceInReg(s, n, arg)
    BY <1>3 DEF PieceInReg
  <2>2. \A s, arg : PiecesInRegs(s, arg)' = PiecesInRegs(s, arg)
    BY <1>3, <2>1 DEF PiecesInRegs
  <2>3. \A s, arg : Split(s, arg)' = Split(s, arg)
    BY <1>3, <2>1 DEF Split
  <2> QED BY <2>2, <2>3
<1>5. \A s, arg : Assigned(s, arg)' = Assigned(s, arg)
  BY <1>4 DEF Assigned
<1>6. \A s, args : Analysis(s, args)' <=> Analysis(s, args)
  BY <1>1 DEF Analysis, InStep
<1> QED BY <1>2, <1>5, <1>6

LEMMA FreshAnalysis ==
  ASSUME sig \in Signatures
  PROVE  Fresh \in CCState /\ Analysis(Fresh, Outs) /\ Len(Fresh.locs) = 0
<1>1. PICK f \in Nat : f = FirstReg /\ f \in {8, 12} /\ RegList = f..15
  <2>1. FirstReg \in {8, 12} /\ FirstReg \in Nat
    BY FirstRegister
  <2> QED BY <2>1, FirstRegister
<1>2. PICK r \in Nat : r = Cardinality(RegList) /\ r = 16 - f
  <2>1. Cardinality(f..15) = 15 - f + 1
    BY <1>1, FS_Interval
  <2> QED BY <1>1, <2>1
<1>3. Fresh = [regsLeft |-> r, usedStack |-> FALSE, used |-> {}, offset |-> 0, locs |-> <<>>]
  BY <1>2 DEF Fresh
<1>4. <<>> \in Seq(Seq(Location)) /\ Len(<<>>) = 0 /\ 1..0 = {}
  BY EmptySeq
<1>5. Fresh \in CCState /\ Fresh.regsLeft = r /\ Fresh.used = {} /\ Fresh.offset = 0
      /\ Len(Fresh.locs) = 0
  BY <1>3, <1>4 DEF CCState
<1>6. f..(15 - r) = {} /\ r <= 16 - f
  BY <1>1, <1>2
<1>7. Even(0)
  <2>1. 0 \in Nat /\ 0 = 2 * 0
    OBVIOUS
  <2> QED BY <2>1, Zenon DEF Even
<1>8. InStep(Fresh)
  BY <1>1, <1>5, <1>6, <1>7 DEF InStep
<1>9. Len(Outs) \in Nat
  BY PrefixFacts DEF Prefix
<1>10. 0 <= Len(Outs)
  BY <1>9
<1> QED BY <1>4, <1>5, <1>8, <1>10, Zenon DEF Analysis

LEMMA InitAnalysis == Init => AnalysisInv
<1> SUFFICES ASSUME Init PROVE AnalysisInv
  OBVIOUS
<1>1. sig \in Signatures /\ pc = "caller" /\ cc = [side \in Sides |-> Fresh]
  BY DEF Init, Sides
<1>2. cc \in [Sides -> CCState] /\ cc.caller = Fresh /\ cc.callee = Fresh
  BY <1>1, FreshAnalysis DEF Sides
<1>3. Count("caller") = 0 /\ Count("callee") = 0
  BY <1>1, <1>2, FreshAnalysis DEF Count
<1>4. Len(Ins) \in Nat
  BY <1>1, PrefixFacts DEF Prefix
<1> DEFINE h == [m \in {0} |-> Fresh]
<1>5. IsTrace(h)
  <2>1. h[0] = Fresh /\ 0..0 = {0} /\ 0..(0 - 1) = {} /\ 1..0 = {} /\ 0 <= 0
    OBVIOUS
  <2> HIDE DEF h
  <2> QED BY <1>1, <1>2, <1>3, <2>1, FreshAnalysis DEF IsTrace
<1>6. VaFollows(h)
  BY <1>1 DEF VaFollows
<1>7. \E g : IsTrace(g) /\ VaFollows(g)
  BY <1>5, <1>6, Zenon
<1>8. 0 <= Len(Ins) /\ pc \in Phases
  BY <1>1, <1>4 DEF Phases
<1>9. sig.conv = "builtin" => pc \in {"caller", "store", "done"}
  BY <1>1
<1>10. pc \in Sides
  BY <1>1 DEF Sides
<1> QED BY <1>1, <1>2, <1>3, <1>7, <1>8, <1>9, <1>10, Zenon DEF AnalysisInv

\* The step of an analysis.
LEMMA AssignedFacts ==
  ASSUME AnalysisInv, NEW n \in Nat, n = Count("caller"), n < Len(Outs)
  PROVE  LET t == Assigned(cc.caller, Outs[n + 1])
         IN  /\ t \in CCState /\ Analysis(t, Outs) /\ Len(t.locs) = n + 1
             /\ \A k \in 1..n : t.locs[k] = cc.caller.locs[k]
<1> DEFINE arg == Outs[n + 1]
           s == cc.caller
           t == Assigned(s, arg)
<1>1. Analysis(s, Outs) /\ InStep(s) /\ n = Len(s.locs)
  BY SidesAgree, CountTypes DEF Agree, Analysis, AnalysisInv, Count
<1>2. Proper(Outs) /\ Len(Outs) \in Nat
  BY PrefixFacts DEF Prefix, AnalysisInv
<1>3. arg \in Argument /\ IsArgument(arg)
  <2>1. n + 1 \in 1..Len(Outs)
    BY <1>2
  <2> QED BY <1>2, <2>1 DEF Proper
<1>4. sig.conv \in {"C", "builtin"}
  BY SignatureFacts DEF AnalysisInv
<1> HIDE DEF s
<1>5. PICK locs : Extends(s, t, arg, locs)
  BY <1>1, <1>3, <1>4, AssignedExtends
<1> HIDE DEF t
<1>6. /\ Analysis(t, Outs) /\ Len(t.locs) = n + 1
      /\ \A k \in 1..n : t.locs[k] = s.locs[k]
  <2>1. arg = Outs[n + 1]
    OBVIOUS
  <2> HIDE DEF arg
  <2>2. Analysis(t, Outs) /\ Longer(s, t, n)
    BY <1>1, <1>2, <1>5, <2>1, AnalysisExtended
  <2> QED BY <2>2 DEF Longer
<1>7. t \in CCState
  BY <1>6 DEF Analysis, InStep
<1> QED BY <1>6, <1>7, Zenon DEF s, t

LEMMA CallerAssigns ==
  ASSUME AnalysisInv, AssignArgument, pc = "caller"
  PROVE  AnalysisInv'
<1>1. /\ sig' = sig /\ pc' = pc /\ va' = va /\ got' = got
      /\ Count("caller") < Len(Outs)
      /\ cc' = [cc EXCEPT !["caller"] = Assigned(cc.caller, Outs[Count("caller") + 1])]
  BY DEF AssignArgument, Args, Count
<1>2. PICK n \in Nat : n = Count("caller")
  BY CountTypes DEF AnalysisInv, Sides
<1>3. PICK t \in CCState :
        /\ t = Assigned(cc.caller, Outs[n + 1])
        /\ Analysis(t, Outs) /\ Len(t.locs) = n + 1
        /\ \A k \in 1..n : t.locs[k] = cc.caller.locs[k]
  BY <1>1, <1>2, AssignedFacts
<1>4. cc' \in [Sides -> CCState] /\ cc'.caller = t /\ cc'.callee = cc.callee
      /\ cc'["caller"] = t /\ cc'["callee"] = cc["callee"]
  BY <1>1, <1>2, <1>3 DEF AnalysisInv, Sides
<1>5. Count("caller")' = n + 1 /\ Count("callee")' = Count("callee") /\ Count("callee") = 0
  BY <1>3, <1>4 DEF Count, AnalysisInv
<1>6. PICK h : IsTrace(h)
  BY DEF AnalysisInv
<1> DEFINE g == [m \in 0..(n + 1) |-> IF m <= n THEN h[m] ELSE t]
<1>7. (\A m \in 0..n : g[m] = h[m]) /\ g[n + 1] = t
  OBVIOUS
<1> HIDE DEF g
<1>8. \A m \in 0..n :
        /\ Analysis(h[m], Outs) /\ Len(h[m].locs) = m
        /\ \A k \in 1..m : h[m].locs[k] = cc.caller.locs[k]
  BY <1>2, <1>6 DEF IsTrace
<1>9. \A m \in 0..(n + 1) :
        /\ Analysis(g[m], Outs) /\ Len(g[m].locs) = m
        /\ \A k \in 1..m : g[m].locs[k] = t.locs[k]
  <2> TAKE m \in 0..(n + 1)
  <2>1. CASE m <= n
    <3>1. m \in 0..n /\ \A k \in 1..m : k \in 1..n
      BY <2>1
    <3> QED BY <1>3, <1>7, <1>8, <3>1
  <2>2. CASE m = n + 1
    BY <1>3, <1>7, <2>2
  <2> QED BY <2>1, <2>2
<1>10. \A m \in 0..(n + 1 - 1) : g[m + 1] = Assigned(g[m], Outs[m + 1])
  <2> TAKE m \in 0..(n + 1 - 1)
  <2>1. CASE m < n
    <3>1. m \in 0..(n - 1) /\ m \in 0..n /\ m + 1 \in 0..n
      BY <2>1
    <3>2. h[m + 1] = Assigned(h[m], Outs[m + 1])
      BY <1>2, <1>6, <3>1 DEF IsTrace
    <3> QED BY <1>7, <3>1, <3>2
  <2>2. CASE m = n
    <3>1. h[n] = cc.caller /\ n \in 0..n
      BY <1>2, <1>6 DEF IsTrace
    <3> QED BY <1>3, <1>7, <2>2, <3>1
  <2> QED BY <2>1, <2>2
<1>11. g[0] = Fresh /\ g[n + 1] = t /\ cc.callee = g[0]
  <2>1. 0 \in 0..n
    OBVIOUS
  <2>2. h[0] = Fresh /\ cc.callee = h[0]
    BY <1>5, <1>6 DEF IsTrace
  <2> QED BY <1>7, <2>1, <2>2
<1>12. IsTrace(g)'
  <2>1. 0 <= n + 1
    OBVIOUS
  <2> QED BY <1>1, <1>4, <1>5, <1>9, <1>10, <1>11, <2>1, SameCall DEF IsTrace
<1>13. VaFollows(g)'
  BY <1>1 DEF VaFollows
<1>14. \E f : IsTrace(f)' /\ VaFollows(f)'
  BY <1>12, <1>13
<1>15. sig' \in Signatures /\ pc' \in Phases /\ pc' = "caller" /\ "caller" \in Sides
       /\ Ins' = Ins /\ Count("callee") <= Len(Ins)
       /\ (sig.conv = "builtin" => pc' \in {"caller", "store", "done"})
  BY <1>1, SameCall DEF AnalysisInv, Sides
<1> QED BY <1>1, <1>4, <1>5, <1>14, <1>15 DEF AnalysisInv

\* The callee's step is the one the caller has made.
LEMMA CalleeAssigns ==
  ASSUME AnalysisInv, AssignArgument, pc = "callee"
  PROVE  AnalysisInv'
<1>1. /\ sig' = sig /\ pc' = pc /\ va' = va /\ got' = got
      /\ Count("callee") < Len(Ins)
      /\ cc' = [cc EXCEPT !["callee"] = Assigned(cc.callee, Ins[Count("callee") + 1])]
  BY DEF AssignArgument, Args, Count
<1>2. PICK n \in Nat, m \in Nat : n = Count("caller") /\ m = Count("callee")
  BY CountTypes DEF AnalysisInv, Sides
<1>3. PICK h : IsTrace(h)
  BY DEF AnalysisInv
<1>4. Prefix /\ n = Len(Outs)
  BY <1>2, PrefixFacts DEF AnalysisInv
<1>5. m < Len(Ins) /\ m < n /\ m + 1 <= Len(Ins) /\ Len(Ins) \in Nat
  BY <1>1, <1>2, <1>4 DEF Prefix
<1>6. m + 1 \in 1..Len(Ins) /\ m \in 0..(n - 1) /\ m + 1 \in 0..n /\ m + 1 <= n
  BY <1>5
<1>7. cc.callee = h[m] /\ Ins[m + 1] = Outs[m + 1]
  BY <1>2, <1>3, <1>4, <1>6 DEF IsTrace, Prefix
<1>8. h[m + 1] = Assigned(h[m], Outs[m + 1])
  BY <1>2, <1>3, <1>6 DEF IsTrace
<1>9. Analysis(h[m + 1], Outs) /\ Len(h[m + 1].locs) = m + 1
  BY <1>2, <1>3, <1>6 DEF IsTrace
<1>10. PICK t \in CCState : t = h[m + 1] /\ Len(t.locs) = m + 1
  BY <1>9 DEF Analysis, InStep
<1>11. cc' = [cc EXCEPT !["callee"] = t]
  BY <1>1, <1>2, <1>7, <1>8, <1>10
<1>12. cc' \in [Sides -> CCState] /\ cc'.caller = cc.caller /\ cc'.callee = t
       /\ cc'["caller"] = cc["caller"] /\ cc'["callee"] = t
  BY <1>11 DEF AnalysisInv, Sides
<1>13. Count("caller")' = n /\ Count("callee")' = m + 1
  BY <1>2, <1>10, <1>12 DEF Count
<1>14. IsTrace(h)'
  <2>1. /\ \A k \in 0..n : /\ Analysis(h[k], Outs) /\ Len(h[k].locs) = k
                           /\ \A l \in 1..k : h[k].locs[l] = cc.caller.locs[l]
        /\ \A k \in 0..(n - 1) : h[k + 1] = Assigned(h[k], Outs[k + 1])
        /\ h[0] = Fresh /\ h[n] = cc.caller
    BY <1>2, <1>3 DEF IsTrace
  <2> QED BY <1>1, <1>6, <1>10, <1>12, <1>13, <2>1, SameCall DEF IsTrace
<1>15. VaFollows(h)'
  BY <1>1 DEF VaFollows
<1>16. \E f : IsTrace(f)' /\ VaFollows(f)'
  BY <1>14, <1>15
<1>17. sig' \in Signatures /\ pc' \in Phases /\ pc' = "callee" /\ "callee" \in Sides
       /\ Ins' = Ins /\ Outs' = Outs
       /\ (sig.conv = "builtin" => pc' \in {"caller", "store", "done"})
  BY <1>1, SameCall DEF AnalysisInv, Sides
<1> QED BY <1>1, <1>4, <1>5, <1>12, <1>13, <1>16, <1>17 DEF AnalysisInv

LEMMA StillTrace ==
  ASSUME sig' = sig, cc' = cc, NEW h, IsTrace(h)
  PROVE  IsTrace(h)' /\ \A side \in Sides : Count(side)' = Count(side)
BY SameCall DEF IsTrace, Count, Sides

LEMMA AnalysedAnalysis ==
  ASSUME AnalysisInv, Analysed
  PROVE  AnalysisInv'
<1>1. /\ sig' = sig /\ cc' = cc /\ va' = va /\ got' = got /\ pc \in Sides
      /\ pc = "caller" => Count("caller") = Len(Outs)
      /\ pc = "callee" => Count("callee") = Len(Ins)
      /\ pc' = IF pc = "caller" /\ sig.conv = "C" THEN "callee" ELSE "store"
  BY DEF Analysed, Args, Count, Sides
<1>2. Count("caller")' = Count("caller") /\ Count("callee")' = Count("callee")
      /\ Outs' = Outs /\ Ins' = Ins
  BY <1>1, SameCall DEF Count
<1>3. PICK h : IsTrace(h)' /\ VaFollows(h)'
  BY <1>1, StillTrace DEF AnalysisInv, VaFollows
<1>4. sig.conv \in {"C", "builtin"}
  BY SignatureFacts DEF AnalysisInv
<1>5. pc' \in {"callee", "store"} /\ pc' \in Phases
  BY <1>1 DEF Phases
<1>6. Count("caller") = Len(Outs)
  BY <1>1 DEF AnalysisInv, Sides
<1>7. pc' \notin Sides /\ sig.conv = "C" => Count("callee") = Len(Ins)
  BY <1>1 DEF Sides
<1>8. sig.conv = "builtin" => pc' \in {"caller", "store", "done"}
  BY <1>1, <1>4
<1>9. \E f : IsTrace(f)' /\ VaFollows(f)'
  BY <1>3
<1> QED BY <1>1, <1>2, <1>5, <1>6, <1>7, <1>8, <1>9 DEF AnalysisInv

\* A step that analyses nothing more.
LEMMA StillAnalysis ==
  ASSUME AnalysisInv, sig' = sig, cc' = cc, pc' \in Phases,
         pc = pc' \/ (pc \notin Sides /\ pc' \notin Sides),
         sig.conv = "builtin" => pc' \in {"caller", "store", "done"},
         \A h : IsTrace(h) /\ VaFollows(h) => VaFollows(h)'
  PROVE  AnalysisInv'
<1>1. Count("caller")' = Count("caller") /\ Count("callee")' = Count("callee")
      /\ Outs' = Outs /\ Ins' = Ins
  BY SameCall DEF Count
<1>2. \E f : IsTrace(f)' /\ VaFollows(f)'
  BY StillTrace DEF AnalysisInv
<1>3. "caller" \in Sides
  BY DEF Sides
<1> QED BY <1>1, <1>2, <1>3 DEF AnalysisInv

-------------------------------------------------------------------------------
(* Locations *)

\* Argument k of a side.
ArgOf(side, k) == Args[side][k]

LEMMA SideFacts ==
  ASSUME AnalysisInv, NEW side \in Sides
  PROVE  /\ Args["caller"] = Outs /\ Args["callee"] = Ins
         /\ Analysis(cc[side], Args[side]) /\ Proper(Args[side])
         /\ cc[side] \in CCState /\ Count(side) \in Nat /\ Len(cc[side].locs) = Count(side)
         /\ DOMAIN cc[side].locs = 1..Count(side)
<1>1. Args["caller"] = Outs /\ Args["callee"] = Ins
  BY DEF Args
<1>2. side = "caller" \/ side = "callee"
  BY DEF Sides
<1>3. Analysis(cc[side], Args[side])
  BY <1>1, <1>2, SidesAgree, CountTypes DEF Agree, AnalysisInv
<1>4. Proper(Args[side])
  BY <1>1, <1>2, PrefixFacts DEF Prefix, AnalysisInv
<1>5. cc[side] \in CCState /\ Count(side) \in Nat /\ Len(cc[side].locs) = Count(side)
  BY CountTypes DEF AnalysisInv, Count
<1>6. DOMAIN cc[side].locs = 1..Count(side)
  BY <1>5, LenProperties DEF CCState
<1> QED BY <1>1, <1>3, <1>4, <1>5, <1>6

\* Piece j of argument k of a side is where it should be.
PieceOK(side, k, j) ==
  /\ k \in 1..Count(side) /\ j \in 1..Parts(ArgOf(side, k))
  /\ ArgOf(side, k) \in Argument /\ IsArgument(ArgOf(side, k))
  /\ Loc(side, k, j) \in Location
  /\ Placed(cc[side], ArgOf(side, k), j, Loc(side, k, j))

LEMMA PieceOf ==
  ASSUME AnalysisInv, NEW side \in Sides, NEW k \in 1..Count(side)
  PROVE  /\ DOMAIN cc[side].locs[k] = 1..Parts(ArgOf(side, k))
         /\ \A j \in 1..Parts(ArgOf(side, k)) :
              PieceOK(side, k, j) /\ <<k, j>> \in Pieces(side)
<1>1. Located(cc[side], Args[side][k], cc[side].locs[k])
  BY SideFacts DEF Analysis
<1>2. ArgOf(side, k) \in Argument /\ IsArgument(ArgOf(side, k))
  <2>1. k \in 1..Len(Args[side])
    <3>1. Count(side) <= Len(Args[side]) /\ Count(side) \in Nat /\ Len(Args[side]) \in Nat
      BY SideFacts, LenProperties DEF Analysis, Proper
    <3> QED BY <3>1
  <2> QED BY <2>1, SideFacts DEF Proper, ArgOf
<1>3. /\ cc[side].locs[k] \in Seq(Location)
      /\ DOMAIN cc[side].locs[k] = 1..Parts(ArgOf(side, k))
      /\ Len(cc[side].locs[k]) = Parts(ArgOf(side, k))
  BY <1>1, LenProperties DEF Located, ArgOf
<1>4. \A j \in 1..Parts(ArgOf(side, k)) : PieceOK(side, k, j)
  BY <1>1, <1>2, <1>3, ElementOfSeq DEF Located, PieceOK, ArgOf, Loc
<1>5. \A j \in 1..Parts(ArgOf(side, k)) : <<k, j>> \in Pieces(side)
  <2>1. k \in DOMAIN cc[side].locs
    BY SideFacts
  <2> QED BY <1>3, <2>1 DEF Pieces
<1> QED BY <1>3, <1>4, <1>5

LEMMA PieceFacts ==
  ASSUME AnalysisInv, NEW side \in Sides, NEW x \in Pieces(side)
  PROVE  x = <<x[1], x[2]>> /\ PieceOK(side, x[1], x[2])
<1>1. PICK k \in DOMAIN cc[side].locs : \E j \in DOMAIN cc[side].locs[k] : x = <<k, j>>
  BY DEF Pieces
<1>2. PICK j \in DOMAIN cc[side].locs[k] : x = <<k, j>>
  BY <1>1
<1>3. k \in 1..Count(side)
  BY SideFacts
<1>4. PieceOK(side, k, j)
  BY <1>3, PieceOf
<1> QED BY <1>2, <1>4

\* Two pieces of a side lie apart.
LEMMA PiecesApart ==
  ASSUME AnalysisInv, NEW side \in Sides, NEW x \in Pieces(side), NEW y \in Pieces(side), x # y
  PROVE  Apart(ArgOf(side, x[1]), Loc(side, x[1], x[2]), ArgOf(side, y[1]), Loc(side, y[1], y[2]))
<1>1. /\ x = <<x[1], x[2]>> /\ PieceOK(side, x[1], x[2])
      /\ y = <<y[1], y[2]>> /\ PieceOK(side, y[1], y[2])
  BY PieceFacts
<1>2. PICK k, j, m, i : k = x[1] /\ j = x[2] /\ m = y[1] /\ i = y[2]
  OBVIOUS
<1>3. /\ k \in 1..Count(side) /\ j \in 1..Parts(Args[side][k])
      /\ m \in 1..Count(side) /\ i \in 1..Parts(Args[side][m])
  BY <1>1, <1>2 DEF PieceOK, ArgOf
<1>4. Analysis(cc[side], Args[side]) /\ Len(cc[side].locs) = Count(side)
  BY SideFacts
<1>5. CASE k # m
  <2>1. Apart(Args[side][k], cc[side].locs[k][j], Args[side][m], cc[side].locs[m][i])
    BY <1>3, <1>4, <1>5 DEF Analysis
  <2> QED BY <1>2, <2>1 DEF ArgOf, Loc
<1>6. CASE k = m
  <2>1. j # i
    BY <1>1, <1>2, <1>6
  <2>2. Located(cc[side], Args[side][k], cc[side].locs[k])
    BY <1>3, <1>4 DEF Analysis
  <2>3. Apart(Args[side][k], cc[side].locs[k][j], Args[side][k], cc[side].locs[k][i])
    BY <1>3, <1>6, <2>1, <2>2 DEF Located
  <2> QED BY <1>2, <1>6, <2>3 DEF ArgOf, Loc
<1> QED BY <1>5, <1>6

LEMMA DisjointPlaces == AnalysisInv => LocationsDisjoint
<1> SUFFICES ASSUME AnalysisInv, NEW side \in Sides, NEW x \in Pieces(side)
             PROVE  /\ Places(side, x) \subseteq 0..(cc[side].offset - 1) \cup {-r : r \in RegList}
                    /\ \A y \in Pieces(side) \ {x} : Places(side, x) \cap Places(side, y) = {}
  BY DEF LocationsDisjoint, Sides
<1>1. \A y \in Pieces(side) :
        LET loc == Loc(side, y[1], y[2])
            size == Size(ArgOf(side, y[1]))
        IN  /\ loc.mem \in Int /\ loc.reg \in Int /\ size \in Nat \ {0}
            /\ loc.mem >= 0 => loc.mem + size <= cc[side].offset
            /\ loc.mem < 0 => loc.reg \in RegList /\ loc.reg >= 8
            /\ loc.mem >= 0 => Places(side, y) = loc.mem..(loc.mem + size - 1)
            /\ loc.mem < 0 => Places(side, y) = {-loc.reg}
  <2> TAKE y \in Pieces(side)
  <2> DEFINE loc == Loc(side, y[1], y[2])
             arg == ArgOf(side, y[1])
  <2>1. /\ arg \in Argument /\ IsArgument(arg) /\ loc \in Location
        /\ Placed(cc[side], arg, y[2], loc)
    BY PieceFacts DEF PieceOK
  <2>2. loc.mem \in Int /\ loc.reg \in Int
    BY <2>1 DEF Location
  <2>3. Size(arg) \in Nat \ {0}
    BY <2>1, ArgumentFacts
  <2>4. Places(side, y) = IF loc.mem >= 0 THEN loc.mem..(loc.mem + Size(arg) - 1) ELSE {-loc.reg}
    BY DEF Places, Size, ArgOf
  <2>5. \A r \in cc[side].used : r \in RegList /\ r >= 8
    <3>1. InStep(cc[side]) /\ cc[side] \in CCState
      BY SideFacts DEF Analysis
    <3>2. PICK f \in Int, n \in Nat : f = FirstReg /\ f \in {8, 12} /\ RegList = f..15
                                       /\ n = cc[side].regsLeft
      BY <3>1, FirstRegister DEF CCState
    <3>3. cc[side].used = f..(15 - n)
      BY <3>1, <3>2 DEF InStep
    <3> QED BY <3>2, <3>3
  <2>6. loc.mem < 0 => loc.reg \in RegList /\ loc.reg >= 8
    BY <2>1, <2>2, <2>5 DEF Placed
  <2>7. loc.mem >= 0 => loc.mem + Size(arg) <= cc[side].offset
    BY <2>1, <2>2 DEF Placed
  <2> HIDE DEF loc, arg
  <2>8. /\ loc.mem >= 0 => Places(side, y) = loc.mem..(loc.mem + Size(arg) - 1)
        /\ loc.mem < 0 => Places(side, y) = {-loc.reg}
    BY <2>2, <2>4
  <2> QED BY <2>2, <2>3, <2>6, <2>7, <2>8 DEF loc, arg
<1>2. PICK off \in Nat : off = cc[side].offset
  BY SideFacts DEF CCState
<1>3. \A y \in Pieces(side) : Places(side, y) \subseteq 0..(off - 1) \cup {-r : r \in RegList}
  <2> TAKE y \in Pieces(side)
  <2>1. PICK a \in Int, n \in Nat \ {0}, r \in Int :
          /\ a = Loc(side, y[1], y[2]).mem /\ n = Size(ArgOf(side, y[1]))
          /\ r = Loc(side, y[1], y[2]).reg
    BY <1>1
  <2>2. CASE a >= 0
    <3>1. Places(side, y) = a..(a + n - 1) /\ a + n <= off
      BY <1>1, <1>2, <2>1, <2>2
    <3>2. a..(a + n - 1) \subseteq 0..(off - 1)
      BY <2>2, <3>1
    <3> QED BY <3>1, <3>2
  <2>3. CASE a < 0
    BY <1>1, <2>1, <2>3
  <2> QED BY <2>1, <2>2, <2>3
<1>4. ASSUME NEW y \in Pieces(side) \ {x} PROVE Places(side, x) \cap Places(side, y) = {}
  <2>1. PICK a \in Int, n \in Nat \ {0}, r \in Int :
          /\ a = Loc(side, x[1], x[2]).mem /\ n = Size(ArgOf(side, x[1]))
          /\ r = Loc(side, x[1], x[2]).reg
    BY <1>1
  <2>2. PICK b \in Int, m \in Nat \ {0}, q \in Int :
          /\ b = Loc(side, y[1], y[2]).mem /\ m = Size(ArgOf(side, y[1]))
          /\ q = Loc(side, y[1], y[2]).reg
    BY <1>1
  <2>3. /\ a >= 0 => Places(side, x) = a..(a + n - 1)
        /\ a < 0 => Places(side, x) = {-r} /\ r >= 8
        /\ b >= 0 => Places(side, y) = b..(b + m - 1)
        /\ b < 0 => Places(side, y) = {-q} /\ q >= 8
    BY <1>1, <2>1, <2>2
  <2>4. /\ a >= 0 /\ b >= 0 => a + n <= b \/ b + m <= a
        /\ a < 0 /\ b < 0 => r # q
    BY <2>1, <2>2, PiecesApart DEF Apart
  <2>5. CASE a >= 0 /\ b >= 0
    <3>1. a..(a + n - 1) \cap b..(b + m - 1) = {}
      BY <2>4, <2>5
    <3> QED BY <2>3, <2>5, <3>1
  <2>6. CASE a >= 0 /\ b < 0
    <3>1. -q \notin a..(a + n - 1)
      BY <2>3, <2>6
    <3> QED BY <2>3, <2>6, <3>1
  <2>7. CASE a < 0 /\ b >= 0
    <3>1. -r \notin b..(b + m - 1)
      BY <2>3, <2>7
    <3> QED BY <2>3, <2>7, <3>1
  <2>8. CASE a < 0 /\ b < 0
    <3>1. -r # -q
      BY <2>4, <2>8
    <3> QED BY <2>3, <2>8, <3>1
  <2> QED BY <2>5, <2>6, <2>7, <2>8
<1> QED BY <1>2, <1>3, <1>4

-------------------------------------------------------------------------------
(* What is sent *)

\* The low byte of piece j of argument k.
LowByte(k, j) == Byte(k, j, 0)

\* What of the value a place of the piece's size can hold.
LEMMA SentFacts ==
  ASSUME AnalysisInv, NEW k, NEW j, PieceOK("caller", k, j)
  PROVE  /\ Outs[k].byval > 0 => /\ Sent(k, j) = ByValBytes(k) /\ Passed(k, j) = ByValBytes(k)
                                 /\ Len(ByValBytes(k)) = Outs[k].byval
         /\ Outs[k].byval = 0 /\ Outs[k].pieces[j] = "i16" =>
              Sent(k, j) = <<LowByte(k, j), Byte(k, j, 1)>> /\ Passed(k, j) = Sent(k, j)
         /\ Outs[k].byval = 0 /\ Outs[k].pieces[j] = "i8" =>
              /\ Passed(k, j) = <<LowByte(k, j)>>
              /\ Sent(k, j) = IF Outs[k].ext \in {"SExt", "ZExt"}
                              THEN <<LowByte(k, j), ExtByte(LowByte(k, j))>>
                              ELSE <<LowByte(k, j)>>
         /\ Len(Sent(k, j)) \in 1..Size(Outs[k])
<1> DEFINE arg == Outs[k]
           loc == Loc("caller", k, j)
<1>1. /\ arg \in Argument /\ IsArgument(arg) /\ Placed(cc["caller"], arg, j, loc)
      /\ j \in 1..Parts(arg)
  BY SideFacts DEF PieceOK, ArgOf, Sides
<1>2. arg.byval \in Nat /\ arg.pieces[j] \in {"i8", "i16"}
  BY <1>1, ArgumentFacts
<1>3. Sent(k, j) = Extended(Passed(k, j), loc.info)
  BY DEF Sent
<1>4. CASE arg.byval > 0
  <2>1. Passed(k, j) = ByValBytes(k)
    BY <1>4 DEF Passed
  <2>2. loc.info = "Full"
    BY <1>1, <1>4 DEF Placed
  <2>3. Sent(k, j) = ByValBytes(k)
    BY <1>3, <2>1, <2>2 DEF Extended
  <2>4. ByValBytes(k) \in [1..arg.byval -> {Byte(k, i, 0) : i \in 1..arg.byval}]
    BY DEF ByValBytes
  <2>5. Len(ByValBytes(k)) = arg.byval
    BY <1>2, <2>4, SequenceOf
  <2>6. Size(arg) = arg.byval /\ arg.byval \in 1..arg.byval
    BY <1>2, <1>4 DEF Size
  <2>7. ~(arg.byval = 0)
    BY <1>4
  <2> QED BY <2>1, <2>3, <2>5, <2>6, <2>7
<1>5. CASE arg.byval = 0 /\ arg.pieces[j] = "i16"
  <2>1. Passed(k, j) = <<Byte(k, j, 0), Byte(k, j, 1)>>
    BY <1>5 DEF Passed
  <2>2. Len(<<Byte(k, j, 0), Byte(k, j, 1)>>) = 2 /\ 2 # 1
    OBVIOUS
  <2>3. Sent(k, j) = <<Byte(k, j, 0), Byte(k, j, 1)>>
    BY <1>3, <2>1, <2>2 DEF Extended
  <2>4. Size(arg) = 2 /\ 2 \in 1..2 /\ ~(arg.byval > 0) /\ arg.pieces[j] # "i8"
    BY <1>5 DEF Size
  <2> QED BY <2>1, <2>2, <2>3, <2>4 DEF LowByte
<1>6. CASE arg.byval = 0 /\ arg.pieces[j] = "i8"
  <2>1. Passed(k, j) = <<LowByte(k, j)>>
    BY <1>6 DEF Passed, LowByte
  <2>2. loc.info = arg.ext
    BY <1>1, <1>6 DEF Placed, LocInfo
  <2>3. /\ Len(<<LowByte(k, j)>>) = 1 /\ <<LowByte(k, j)>>[1] = LowByte(k, j)
        /\ Len(<<LowByte(k, j), ExtByte(LowByte(k, j))>>) = 2
    OBVIOUS
  <2>4. Sent(k, j) = IF arg.ext \in {"SExt", "ZExt"}
                     THEN <<LowByte(k, j), ExtByte(LowByte(k, j))>> ELSE <<LowByte(k, j)>>
    BY <1>3, <2>1, <2>2, <2>3 DEF Extended
  <2>5. Size(arg) = 2 /\ 1 \in 1..2 /\ 2 \in 1..2 /\ ~(arg.byval > 0) /\ arg.pieces[j] # "i16"
    BY <1>6 DEF Size
  <2>6. Len(Sent(k, j)) \in 1..Size(arg)
    BY <2>3, <2>4, <2>5
  <2> QED BY <2>1, <2>4, <2>5, <2>6
<1> QED BY <1>2, <1>4, <1>5, <1>6

\* While neither the call nor the analyses change, nor does what is sent.
LEMMA StillSent ==
  ASSUME sig' = sig, cc' = cc
  PROVE  /\ \A k, j : Sent(k, j)' = Sent(k, j) /\ Passed(k, j)' = Passed(k, j)
         /\ \A side, k, j : Loc(side, k, j)' = Loc(side, k, j)
         /\ OnStack' = OnStack /\ InRegs' = InRegs
         /\ \A side : Pieces(side)' = Pieces(side)
<1>1. Outs' = Outs
  BY SameCall
<1>2. \A k, j : Passed(k, j)' = Passed(k, j)
  BY <1>1 DEF Passed, ByValBytes
<1>3. \A side, k, j : Loc(side, k, j)' = Loc(side, k, j)
  BY DEF Loc
<1>4. \A k, j : Sent(k, j)' = Sent(k, j)
  BY <1>2, <1>3 DEF Sent
<1>5. \A side : Pieces(side)' = Pieces(side)
  BY DEF Pieces
<1>6. OnStack' = OnStack /\ InRegs' = InRegs
  BY <1>3, <1>5 DEF OnStack, InRegs
<1> QED BY <1>2, <1>3, <1>4, <1>5, <1>6

-------------------------------------------------------------------------------
(* The outgoing area *)

InPlace(k, j) ==
  \A i \in 1..Len(Sent(k, j)) : stack[Loc("caller", k, j).mem + i - 1] = Sent(k, j)[i]

StackInv ==
  /\ pc \in Sides => stored = {}
  /\ stored \subseteq OnStack
  /\ pc \notin Sides \cup {"store"} => stored = OnStack
  /\ DOMAIN stack = IF pc = "caller" THEN {} ELSE 0..(cc.caller.offset - 1)
  /\ \A x \in stored : InPlace(x[1], x[2])

\* The bytes of a piece on the stack lie in the area.
LEMMA OnStackFacts ==
  ASSUME AnalysisInv, NEW x \in OnStack
  PROVE  /\ x \in Pieces("caller") /\ PieceOK("caller", x[1], x[2]) /\ x = <<x[1], x[2]>>
         /\ Loc("caller", x[1], x[2]).mem \in Nat
         /\ Loc("caller", x[1], x[2]).mem + Size(Outs[x[1]]) <= cc.caller.offset
         /\ Size(Outs[x[1]]) \in Nat \ {0} /\ Len(Sent(x[1], x[2])) \in 1..Size(Outs[x[1]])
         /\ cc.caller.offset \in Nat
<1>1. "caller" \in Sides /\ ArgOf("caller", x[1]) = Outs[x[1]]
  BY DEF Sides, ArgOf, Args
<1>2. x \in Pieces("caller") /\ Loc("caller", x[1], x[2]).mem >= 0
  BY DEF OnStack
<1>3. PieceOK("caller", x[1], x[2]) /\ x = <<x[1], x[2]>>
  BY <1>1, <1>2, PieceFacts
<1>4. Loc("caller", x[1], x[2]).mem \in Nat
  BY <1>2, <1>3 DEF PieceOK, Location
<1>5. Loc("caller", x[1], x[2]).mem + Size(Outs[x[1]]) <= cc.caller.offset
  BY <1>1, <1>2, <1>3 DEF PieceOK, Placed
<1>6. Size(Outs[x[1]]) \in Nat \ {0}
  BY <1>1, <1>3, ArgumentFacts DEF PieceOK
<1>7. cc.caller.offset \in Nat
  BY <1>1, SideFacts DEF CCState
<1> QED BY <1>2, <1>3, <1>4, <1>5, <1>6, <1>7, SentFacts

LEMMA InitStack == Init => StackInv
<1> SUFFICES ASSUME Init PROVE StackInv
  OBVIOUS
<1>1. pc = "caller" /\ stored = {} /\ stack = <<>>
  BY DEF Init
<1>2. "caller" \in Sides
  BY DEF Sides
<1>3. DOMAIN <<>> = {}
  OBVIOUS
<1> QED BY <1>1, <1>2, <1>3 DEF StackInv

LEMMA AssignStack ==
  ASSUME AnalysisInv, StackInv, AssignArgument
  PROVE  StackInv'
<1>1. /\ sig' = sig /\ pc' = pc /\ stored' = stored /\ stack' = stack /\ pc \in Sides
      /\ cc' = [cc EXCEPT ![pc] = Assigned(cc[pc], Args[pc][Len(cc[pc].locs) + 1])]
  BY DEF AssignArgument, Sides
<1>2. stored' = {}
  BY <1>1 DEF StackInv
<1>3. pc # "caller" => cc'.caller = cc.caller
  BY <1>1 DEF AnalysisInv, Sides
<1>4. DOMAIN stack' = IF pc' = "caller" THEN {} ELSE 0..(cc'.caller.offset - 1)
  BY <1>1, <1>3 DEF StackInv
<1> QED BY <1>1, <1>2, <1>4 DEF StackInv

LEMMA AnalysedStack ==
  ASSUME AnalysisInv, StackInv, Analysed
  PROVE  StackInv'
<1>1. /\ sig' = sig /\ cc' = cc /\ stored' = stored /\ pc \in Sides
      /\ pc' = IF pc = "caller" /\ sig.conv = "C" THEN "callee" ELSE "store"
      /\ stack' = IF pc = "caller" THEN [a \in 0..(cc.caller.offset - 1) |-> Unknown] ELSE stack
  BY DEF Analysed, Sides
<1>2. stored' = {}
  BY <1>1 DEF StackInv
<1>3. DOMAIN stack' = 0..(cc'.caller.offset - 1)
  BY <1>1 DEF StackInv
<1>4. pc' # "caller" /\ pc' \in Sides \cup {"store"}
  BY <1>1 DEF Sides
<1> QED BY <1>2, <1>3, <1>4 DEF StackInv

LEMMA StoreStack ==
  ASSUME AnalysisInv, StackInv, StorePiece
  PROVE  StackInv'
<1>1. sig' = sig /\ pc' = pc /\ cc' = cc /\ pc = "store"
  BY DEF StorePiece
<1>2. PICK x \in OnStack \ stored :
        /\ stack' = Overwritten(Loc("caller", x[1], x[2]).mem, Sent(x[1], x[2]))
        /\ stored' = stored \cup {x}
  BY DEF StorePiece
<1> DEFINE v == Sent(x[1], x[2])
<1>3. PICK a \in Nat, n \in Nat, off \in Nat, size \in Nat :
        /\ a = Loc("caller", x[1], x[2]).mem /\ n = Len(v)
        /\ off = cc.caller.offset /\ size = Size(Outs[x[1]])
        /\ a + size <= off /\ n <= size
  BY OnStackFacts
<1> HIDE DEF v
<1>fits. a + size <= off /\ n <= size
  BY <1>3
<1>4. DOMAIN stack = 0..(off - 1)
  BY <1>1, <1>3 DEF StackInv
<1>5. stack' = [b \in 0..(off - 1) |-> IF b \in a..(a + n - 1) THEN v[b - a + 1] ELSE stack[b]]
  BY <1>2, <1>3, <1>4 DEF Overwritten, v
<1>6. \A i \in 1..n : stack'[a + i - 1] = v[i]
  <2> TAKE i \in 1..n
  <2>1. a + i - 1 \in 0..(off - 1) /\ a + i - 1 \in a..(a + n - 1) /\ (a + i - 1) - a + 1 = i
    BY <1>fits
  <2> QED BY <1>5, <2>1
<1>7. ASSUME NEW y \in stored, NEW i \in 1..Len(Sent(y[1], y[2]))
      PROVE  stack'[Loc("caller", y[1], y[2]).mem + i - 1] = Sent(y[1], y[2])[i]
  <2>1. y \in OnStack /\ y # x
    BY <1>2, <1>7 DEF StackInv
  <2>2. PICK b \in Nat, m \in Nat, room \in Nat :
          /\ b = Loc("caller", y[1], y[2]).mem /\ m = Len(Sent(y[1], y[2]))
          /\ room = Size(Outs[y[1]]) /\ b + room <= off /\ m <= room
    <3>1. /\ Loc("caller", y[1], y[2]).mem \in Nat
          /\ Loc("caller", y[1], y[2]).mem + Size(Outs[y[1]]) <= cc.caller.offset
          /\ Size(Outs[y[1]]) \in Nat /\ Len(Sent(y[1], y[2])) \in 1..Size(Outs[y[1]])
      BY <2>1, OnStackFacts
    <3>2. Len(Sent(y[1], y[2])) \in Nat /\ Len(Sent(y[1], y[2])) <= Size(Outs[y[1]])
      BY <3>1
    <3>3. off = cc.caller.offset
      BY <1>3
    <3> QED BY <3>1, <3>2, <3>3
  <2>3. a + size <= b \/ b + room <= a
    <3>1. x \in Pieces("caller") /\ y \in Pieces("caller") /\ "caller" \in Sides
      BY <2>1, OnStackFacts DEF Sides
    <3>2. ArgOf("caller", x[1]) = Outs[x[1]] /\ ArgOf("caller", y[1]) = Outs[y[1]]
      BY DEF ArgOf, Args
    <3> QED BY <1>3, <2>1, <2>2, <3>1, <3>2, PiecesApart DEF Apart
  <2>4. b + i - 1 \in 0..(off - 1) /\ b + i - 1 \notin a..(a + n - 1)
    <3>1. i \in 1..m /\ b + room <= off /\ m <= room
      BY <1>7, <2>2
    <3> QED BY <1>fits, <2>3, <3>1
  <2>5. stack'[b + i - 1] = stack[b + i - 1]
    BY <1>5, <2>4
  <2> QED BY <1>7, <2>2, <2>5 DEF StackInv, InPlace
<1>8. \A y \in stored' : InPlace(y[1], y[2])'
  <2> TAKE y \in stored'
  <2>1. CASE y = x
    <3>1. Sent(x[1], x[2])' = v /\ Loc("caller", x[1], x[2])' = Loc("caller", x[1], x[2])
      BY <1>1, StillSent DEF v
    <3>2. Loc("caller", x[1], x[2])'.mem = a /\ Len(Sent(x[1], x[2])') = n
      BY <1>3, <3>1
    <3>3. \A i \in 1..n : stack'[a + i - 1] = Sent(x[1], x[2])'[i]
      BY <1>6, <3>1
    <3> QED BY <2>1, <3>2, <3>3 DEF InPlace
  <2>2. CASE y \in stored
    BY <1>1, <1>7, <2>2, StillSent DEF InPlace
  <2> QED BY <1>2, <2>1, <2>2
<1>9. DOMAIN stack' = 0..(cc'.caller.offset - 1) /\ pc' \notin Sides /\ pc' \in Sides \cup {"store"}
      /\ pc' # "caller"
  BY <1>1, <1>3, <1>5 DEF Sides
<1>10. stored' \subseteq OnStack'
  BY <1>1, <1>2, StillSent DEF StackInv
<1> QED BY <1>8, <1>9, <1>10 DEF StackInv

\* A step that stores nothing.
LEMMA StillStack ==
  ASSUME StackInv, sig' = sig, cc' = cc, stored' = stored, stack' = stack,
         pc = pc' \/ (pc \notin Sides /\ pc' \notin Sides),
         pc' \notin Sides \cup {"store"} => stored = OnStack
  PROVE  StackInv'
<1>1. \A x \in stored' : InPlace(x[1], x[2])'
  BY StillSent DEF StackInv, InPlace
<1>2. stored' \subseteq OnStack' /\ OnStack' = OnStack
  BY StillSent DEF StackInv
<1>3. "caller" \in Sides
  BY DEF Sides
<1> QED BY <1>1, <1>2, <1>3 DEF StackInv

-------------------------------------------------------------------------------
(* The registers *)

\* When the call is made, a register holds the piece it was given to.
RegsInv ==
  /\ DOMAIN regs = 8..15
  /\ pc = "receive" =>
       \A x \in InRegs : regs[Loc("caller", x[1], x[2]).reg] = Word(Sent(x[1], x[2]))

LEMMA InRegsFacts ==
  ASSUME AnalysisInv, NEW x \in InRegs
  PROVE  /\ x \in Pieces("caller") /\ PieceOK("caller", x[1], x[2]) /\ x = <<x[1], x[2]>>
         /\ Loc("caller", x[1], x[2]).reg \in 8..15 /\ Outs[x[1]].byval = 0
<1>1. "caller" \in Sides /\ ArgOf("caller", x[1]) = Outs[x[1]]
  BY DEF Sides, ArgOf, Args
<1>2. x \in Pieces("caller") /\ Loc("caller", x[1], x[2]).mem < 0
  BY DEF InRegs
<1>3. PieceOK("caller", x[1], x[2]) /\ x = <<x[1], x[2]>>
  BY <1>1, <1>2, PieceFacts
<1>4. Loc("caller", x[1], x[2]).reg \in cc["caller"].used /\ Outs[x[1]].byval = 0
  BY <1>1, <1>2, <1>3 DEF PieceOK, Placed, Location
<1>5. cc["caller"].used \subseteq 8..15
  BY <1>1, SideFacts DEF CCState
<1> QED BY <1>2, <1>3, <1>4, <1>5

LEMMA CallRegs ==
  ASSUME AnalysisInv, RegsInv, CallCallee
  PROVE  RegsInv'
<1> DEFINE RegOf(x) == Loc("caller", x[1], x[2]).reg
           Held(x) == Word(Sent(x[1], x[2]))
           Here(r) == {x \in InRegs : RegOf(x) = r}
<1>1. /\ sig' = sig /\ cc' = cc
      /\ regs' = [r \in DOMAIN regs |->
                    IF Here(r) = {} THEN regs[r]
                    ELSE Held(CHOOSE y \in Here(r) : TRUE)]
  BY DEF CallCallee
<1>2. DOMAIN regs' = 8..15
  BY <1>1 DEF RegsInv
<1>3. ASSUME NEW x \in InRegs PROVE regs'[RegOf(x)] = Held(x)
  <2>1. RegOf(x) \in DOMAIN regs
    BY InRegsFacts DEF RegsInv
  <2>2. \A y \in InRegs : RegOf(y) = RegOf(x) => y = x
    <3> SUFFICES ASSUME NEW y \in InRegs, y # x PROVE RegOf(y) # RegOf(x)
      OBVIOUS
    <3>1. x \in Pieces("caller") /\ y \in Pieces("caller") /\ "caller" \in Sides
      BY DEF InRegs, Sides
    <3>2. Loc("caller", x[1], x[2]).mem < 0 /\ Loc("caller", y[1], y[2]).mem < 0
      BY DEF InRegs
    <3> QED BY <3>1, <3>2, PiecesApart DEF Apart
  <2> HIDE DEF RegOf, Held
  <2>3. Here(RegOf(x)) = {x}
    BY <2>2
  <2>4. (CHOOSE y \in Here(RegOf(x)) : TRUE) = x /\ Here(RegOf(x)) # {}
    BY <2>3
  <2> QED BY <1>1, <2>1, <2>4
<1>4. \A x \in InRegs' : regs'[Loc("caller", x[1], x[2])'.reg] = Word(Sent(x[1], x[2])')
  BY <1>1, <1>3, StillSent
<1>5. \A x \in InRegs' : Word(Sent(x[1], x[2]))' = Word(Sent(x[1], x[2])')
  BY DEF Word
<1> QED BY <1>2, <1>4, <1>5 DEF RegsInv

-------------------------------------------------------------------------------
(* What is received *)

Over == {"va_arg", "return", "result", "done"}

PassedPieces(k) == [j \in 1..Parts(Outs[k]) |-> Passed(k, j)]

\* The arguments received, the formals at least, are those passed.
GotInv ==
  /\ pc \notin Over \/ sig.conv = "builtin" => got = <<>>
  /\ pc \in Over /\ sig.conv = "C" =>
       \E n \in Len(Ins)..Len(Outs) : got = [k \in 1..n |-> PassedPieces(k)]
  /\ pc = "va_arg" => sig.vararg
  /\ va \in Nat

\* The locations of a formal are those of the argument.
LEMMA SamePiece ==
  ASSUME AnalysisInv, pc = "receive", NEW k \in 1..Len(Ins)
  PROVE  /\ Ins[k] = Outs[k] /\ Parts(Ins[k]) \in Nat
         /\ DOMAIN cc.callee.locs[k] = 1..Parts(Outs[k])
         /\ \A j \in 1..Parts(Outs[k]) :
              /\ Loc("callee", k, j) = Loc("caller", k, j)
              /\ PieceOK("caller", k, j) /\ <<k, j>> \in Pieces("caller")
<1>1. sig.conv = "C"
  BY SignatureFacts DEF AnalysisInv
<1>2. Count("callee") = Len(Ins) /\ "callee" \in Sides /\ "caller" \in Sides
  BY <1>1 DEF AnalysisInv, Sides
<1>3. Agree /\ k \in 1..Count("callee") /\ k \in 1..Count("caller")
  <2>1. Agree
    BY SidesAgree
  <2>2. Count("callee") <= Count("caller") /\ Count("callee") \in Nat /\ Count("caller") \in Nat
    BY <1>2, <2>1, SideFacts DEF Agree
  <2> QED BY <1>2, <2>1, <2>2
<1>4. Ins[k] = Outs[k] /\ cc.callee.locs[k] = cc.caller.locs[k]
  BY <1>3 DEF Agree
<1>5. ArgOf("caller", k) = Outs[k] /\ ArgOf("callee", k) = Ins[k]
  BY DEF ArgOf, Args
<1>6. DOMAIN cc.callee.locs[k] = 1..Parts(Outs[k])
  BY <1>2, <1>3, <1>4, <1>5, PieceOf, CountTypes DEF AnalysisInv
<1>7. \A j \in 1..Parts(Outs[k]) : PieceOK("caller", k, j) /\ <<k, j>> \in Pieces("caller")
  BY <1>2, <1>3, <1>5, PieceOf
<1>8. \A j : Loc("callee", k, j) = Loc("caller", k, j)
  BY <1>4, CountTypes DEF Loc, AnalysisInv
<1>9. Parts(Ins[k]) \in Nat
  <2>1. Ins[k] \in Argument /\ IsArgument(Ins[k])
    BY PrefixFacts DEF Prefix, Proper, AnalysisInv
  <2> QED BY <2>1, ArgumentFacts
<1> QED BY <1>4, <1>6, <1>7, <1>8, <1>9

\* What a load finds where a piece was stored.
LEMMA LoadSent ==
  ASSUME AnalysisInv, StackInv, NEW x \in OnStack, x \in stored, pc # "caller",
         NEW a \in Nat, a = Loc("caller", x[1], x[2]).mem,
         NEW n \in Nat, n = Len(Sent(x[1], x[2]))
  PROVE  \A i \in 1..n : a + i - 1 \in DOMAIN stack /\ stack[a + i - 1] = Sent(x[1], x[2])[i]
<1>1. PICK off \in Nat, size \in Nat : off = cc.caller.offset /\ size = Size(Outs[x[1]])
                                       /\ a + size <= off /\ n <= size
  BY OnStackFacts
<1>2. a + size <= off /\ n <= size
  BY <1>1
<1>3. DOMAIN stack = 0..(off - 1)
  BY <1>1 DEF StackInv
<1> TAKE i \in 1..n
<1>4. a + i - 1 \in 0..(off - 1)
  BY <1>2
<1>5. InPlace(x[1], x[2])
  BY DEF StackInv
<1> QED BY <1>3, <1>4, <1>5 DEF InPlace

\* A piece the callee loads, or reads from its register, is the one passed.
LEMMA LoadedByVal ==
  ASSUME AnalysisInv, StackInv, pc # "caller", NEW k, NEW j, <<k, j>> \in OnStack,
         <<k, j>> \in stored, Outs[k].byval > 0
  PROVE  Load(Loc("caller", k, j).mem, Outs[k].byval) = Passed(k, j)
<1> DEFINE x == <<k, j>>
<1>1. x[1] = k /\ x[2] = j /\ x \in OnStack /\ x \in stored
  OBVIOUS
<1> HIDE DEF x
<1>2. PICK a \in Nat : a = Loc("caller", k, j).mem
  BY <1>1, OnStackFacts
<1>3. /\ Sent(k, j) = ByValBytes(k) /\ Passed(k, j) = ByValBytes(k)
      /\ Len(ByValBytes(k)) = Outs[k].byval /\ Len(Sent(k, j)) \in 1..Size(Outs[k])
  BY <1>1, OnStackFacts, SentFacts
<1>4. PICK n \in Nat : n = Outs[k].byval /\ n = Len(Sent(k, j))
  BY <1>1, <1>3, OnStackFacts
<1>5. \A i \in 1..n : a + i - 1 \in DOMAIN stack /\ stack[a + i - 1] = Sent(k, j)[i]
  BY <1>1, <1>2, <1>4, LoadSent
<1>6. Load(a, n) = [i \in 1..n |-> ByValBytes(k)[i]]
  BY <1>3, <1>5 DEF Load
<1>7. ByValBytes(k) = [i \in 1..n |-> ByValBytes(k)[i]]
  BY <1>4 DEF ByValBytes
<1> QED BY <1>2, <1>3, <1>4, <1>6, <1>7

LEMMA LoadedPiece ==
  ASSUME AnalysisInv, StackInv, pc # "caller", NEW k, NEW j, <<k, j>> \in OnStack,
         <<k, j>> \in stored, Outs[k].byval = 0
  PROVE  /\ AsPiece(Load(Loc("caller", k, j).mem, 2), Outs[k].pieces[j]) = Passed(k, j)
         /\ Outs[k].pieces[j] = "i16" => Load(Loc("caller", k, j).mem, 2) = Passed(k, j)
<1> DEFINE x == <<k, j>>
<1>1. x[1] = k /\ x[2] = j /\ x \in OnStack /\ x \in stored
  OBVIOUS
<1> HIDE DEF x
<1>2. PICK a \in Nat : a = Loc("caller", k, j).mem
  BY <1>1, OnStackFacts
<1>3. PieceOK("caller", k, j) /\ ArgOf("caller", k) = Outs[k]
  BY <1>1, OnStackFacts DEF ArgOf, Args
<1>4. Outs[k].pieces[j] \in {"i8", "i16"}
  BY <1>3, ArgumentFacts DEF PieceOK
<1>5. PICK n \in Nat : n = Len(Sent(k, j)) /\ n > 0
  BY <1>1, OnStackFacts
<1>6. \A i \in 1..n : a + i - 1 \in DOMAIN stack /\ stack[a + i - 1] = Sent(k, j)[i]
  <2>1. a = Loc("caller", x[1], x[2]).mem /\ n = Len(Sent(x[1], x[2]))
    BY <1>1, <1>2, <1>5
  <2>2. \A i \in 1..n : a + i - 1 \in DOMAIN stack /\ stack[a + i - 1] = Sent(x[1], x[2])[i]
    BY <1>1, <2>1, LoadSent
  <2> QED BY <1>1, <2>2
<1> DEFINE v == Load(a, 2)
<1>7. \A i \in 1..2 : i \in 1..n => v[i] = Sent(k, j)[i]
  BY <1>6 DEF Load
<1>8. DOMAIN v = 1..2 /\ Len(v) = 2 /\ v = <<v[1], v[2]>>
  <2>1. v = [i \in 1..2 |-> v[i]]
    BY DEF Load
  <2>2. v \in [1..2 -> {v[i] : i \in 1..2}]
    BY <2>1
  <2>3. Len(v) = 2
    BY <2>2, SequenceOf
  <2> QED BY <2>1, <2>3
<1> HIDE DEF v
<1>9. CASE Outs[k].pieces[j] = "i16"
  <2>1. Sent(k, j) = <<LowByte(k, j), Byte(k, j, 1)>> /\ Passed(k, j) = Sent(k, j)
    BY <1>3, <1>9, SentFacts
  <2>2. n = 2
    BY <1>5, <2>1
  <2>3. v[1] = LowByte(k, j) /\ v[2] = Byte(k, j, 1)
    BY <1>7, <2>1, <2>2
  <2>4. v = Passed(k, j)
    BY <1>8, <2>1, <2>3
  <2>5. AsPiece(v, "i16") = v
    BY <1>8 DEF AsPiece, Word
  <2> QED BY <1>2, <1>9, <2>4, <2>5 DEF v
<1>10. CASE Outs[k].pieces[j] = "i8"
  <2>1. Passed(k, j) = <<LowByte(k, j)>> /\ Sent(k, j)[1] = LowByte(k, j)
    BY <1>3, <1>10, SentFacts
  <2>2. v[1] = LowByte(k, j)
    BY <1>5, <1>7, <2>1
  <2>3. AsPiece(v, "i8") = <<v[1]>>
    BY DEF AsPiece
  <2> QED BY <1>2, <1>10, <2>1, <2>2, <2>3 DEF v
<1> QED BY <1>4, <1>9, <1>10

LEMMA ReadPiece ==
  ASSUME AnalysisInv, RegsInv, pc = "receive", NEW k, NEW j, <<k, j>> \in InRegs,
         NEW loc, loc = Loc("caller", k, j)
  PROVE  AsPiece(IF loc.info = "Full" THEN regs[loc.reg] ELSE Truncated(regs[loc.reg], loc.val),
                 Outs[k].pieces[j]) = Passed(k, j)
<1> DEFINE x == <<k, j>>
<1>1. x[1] = k /\ x[2] = j /\ x \in InRegs
  OBVIOUS
<1> HIDE DEF x
<1>2. PieceOK("caller", k, j) /\ ArgOf("caller", k) = Outs[k] /\ Outs[k].byval = 0
  BY <1>1, InRegsFacts DEF ArgOf, Args
<1>3. regs[loc.reg] = Word(Sent(k, j))
  BY <1>1 DEF RegsInv
<1>4. /\ Outs[k].pieces[j] \in {"i8", "i16"}
      /\ loc.val = Outs[k].pieces[j] /\ loc.info = LocInfo(Outs[k], Outs[k].pieces[j])
      /\ Outs[k].ext \in {"AExt", "SExt", "ZExt"}
  BY <1>2, ArgumentFacts DEF PieceOK, Placed, Argument
<1>5. CASE Outs[k].pieces[j] = "i16"
  <2>1. Sent(k, j) = <<LowByte(k, j), Byte(k, j, 1)>> /\ Passed(k, j) = Sent(k, j)
    BY <1>2, <1>5, SentFacts
  <2>2. Len(Sent(k, j)) = 2
    BY <2>1
  <2>3. Word(Sent(k, j)) = Sent(k, j) /\ AsPiece(Sent(k, j), "i16") = Sent(k, j)
    BY <2>2 DEF Word, AsPiece
  <2>4. loc.info = "Full"
    BY <1>4, <1>5 DEF LocInfo
  <2> QED BY <1>3, <1>5, <2>1, <2>3, <2>4
<1>6. CASE Outs[k].pieces[j] = "i8"
  <2>1. Passed(k, j) = <<LowByte(k, j)>> /\ Sent(k, j)[1] = LowByte(k, j)
    BY <1>2, <1>6, SentFacts
  <2>2. Word(Sent(k, j))[1] = LowByte(k, j)
    BY <2>1 DEF Word
  <2>3. loc.info # "Full" /\ loc.val = "i8"
    BY <1>4, <1>6 DEF LocInfo
  <2>4. Truncated(regs[loc.reg], loc.val) = <<LowByte(k, j)>>
    BY <1>3, <2>2, <2>3 DEF Truncated
  <2>5. AsPiece(<<LowByte(k, j)>>, "i8") = <<LowByte(k, j)>>
    BY DEF AsPiece
  <2> QED BY <1>6, <2>1, <2>3, <2>4, <2>5
<1> QED BY <1>4, <1>5, <1>6

\* A formal is received as it was passed.
LEMMA ReceivedPiece ==
  ASSUME AnalysisInv, StackInv, RegsInv, pc = "receive",
         NEW k \in 1..Len(Ins), NEW j \in 1..Parts(Outs[k])
  PROVE  Received(k, j) = Passed(k, j)
<1> DEFINE loc == Loc("caller", k, j)
           x == <<k, j>>
<1>1. /\ Ins[k] = Outs[k] /\ Loc("callee", k, j) = loc
      /\ PieceOK("caller", k, j) /\ x \in Pieces("caller")
  BY SamePiece
<1>2. loc.mem \in Int
  BY <1>1 DEF PieceOK, Location
<1>3. x[1] = k /\ x[2] = j /\ pc # "caller"
  OBVIOUS
<1>4. stored = OnStack
  BY DEF StackInv, Sides
<1> HIDE DEF loc, x
<1>5. Outs[k].byval \in Nat
  BY <1>1, ArgumentFacts DEF PieceOK, ArgOf, Args
<1>6. InVal(k, j) = IF loc.mem < 0
                    THEN IF loc.info = "Full" THEN regs[loc.reg]
                         ELSE Truncated(regs[loc.reg], loc.val)
                    ELSE Load(loc.mem, IF Outs[k].byval > 0 THEN Outs[k].byval ELSE 2)
  BY <1>1 DEF InVal
<1>7. Received(k, j) = IF Outs[k].byval > 0 THEN InVal(k, j)
                       ELSE AsPiece(InVal(k, j), Outs[k].pieces[j])
  BY <1>1 DEF Received
<1>8. CASE loc.mem < 0
  <2>1. x \in InRegs
    BY <1>1, <1>3, <1>8 DEF InRegs, loc
  <2>2. ~(Outs[k].byval > 0)
    <3>1. Outs[x[1]].byval = 0
      BY <2>1, InRegsFacts
    <3> QED BY <1>3, <3>1
  <2>3. AsPiece(IF loc.info = "Full" THEN regs[loc.reg] ELSE Truncated(regs[loc.reg], loc.val),
                Outs[k].pieces[j]) = Passed(k, j)
    BY <2>1, ReadPiece DEF x, loc
  <2> QED BY <1>6, <1>7, <1>8, <2>2, <2>3
<1>9. CASE ~(loc.mem < 0)
  <2>1. <<k, j>> \in OnStack /\ <<k, j>> \in stored
    BY <1>1, <1>2, <1>3, <1>4, <1>9 DEF OnStack, loc, x
  <2>2. CASE Outs[k].byval > 0
    <3>1. Load(loc.mem, Outs[k].byval) = Passed(k, j)
      BY <1>3, <2>1, <2>2, LoadedByVal DEF loc
    <3> QED BY <1>6, <1>7, <1>9, <2>2, <3>1
  <2>3. CASE Outs[k].byval = 0
    <3>1. AsPiece(Load(loc.mem, 2), Outs[k].pieces[j]) = Passed(k, j)
      BY <1>3, <2>1, <2>3, LoadedPiece DEF loc
    <3>2. ~(Outs[k].byval > 0)
      BY <2>3
    <3> QED BY <1>6, <1>7, <1>9, <3>1, <3>2
  <2> QED BY <1>5, <2>2, <2>3
<1> QED BY <1>8, <1>9

\* The length of the list of what is received.
LEMMA GotLength ==
  ASSUME NEW n \in Nat
  PROVE  Len([k \in 1..n |-> PassedPieces(k)]) = n
<1> DEFINE q == [k \in 1..n |-> PassedPieces(k)]
<1>1. q \in [1..n -> {PassedPieces(k) : k \in 1..n}]
  OBVIOUS
<1> HIDE DEF q
<1>2. Len(q) = n
  BY <1>1, SequenceOf
<1> QED BY <1>2 DEF q

LEMMA StillPassed ==
  ASSUME sig' = sig
  PROVE  Outs' = Outs /\ Ins' = Ins /\ \A k : PassedPieces(k)' = PassedPieces(k)
<1>1. Outs' = Outs /\ Ins' = Ins
  BY SameCall
<1> QED BY <1>1 DEF PassedPieces, Passed, ByValBytes

LEMMA ReceiveStep ==
  ASSUME AnalysisInv, StackInv, RegsInv, GotInv, ReceiveFormals
  PROVE  AnalysisInv' /\ GotInv'
<1>1. /\ sig' = sig /\ cc' = cc /\ pc = "receive"
      /\ got' = [k \in DOMAIN Ins |-> [j \in DOMAIN cc.callee.locs[k] |-> Received(k, j)]]
      /\ sig.vararg => pc' = "va_arg" /\ va' = cc.callee.offset
      /\ ~sig.vararg => pc' = "return" /\ va' = va
  BY DEF ReceiveFormals, VarArgsFrameIndex
<1>2. sig.conv = "C"
  BY <1>1, SignatureFacts DEF AnalysisInv
<1>3. Prefix /\ Len(Ins) \in Nat /\ Len(Outs) \in Nat /\ Len(Ins) <= Len(Outs)
      /\ DOMAIN Ins = 1..Len(Ins)
  BY PrefixFacts, LenProperties DEF Prefix, Proper, AnalysisInv
<1>4. PICK n \in Nat : n = Len(Ins)
  BY <1>3
<1>within. n \in Len(Ins)..Len(Outs)
  BY <1>3, <1>4
<1>5. got' = [k \in 1..n |-> PassedPieces(k)]
  <2>1. \A k \in 1..n : [j \in DOMAIN cc.callee.locs[k] |-> Received(k, j)] = PassedPieces(k)
    <3> TAKE k \in 1..n
    <3>1. DOMAIN cc.callee.locs[k] = 1..Parts(Outs[k])
      BY <1>1, <1>4, SamePiece
    <3>2. \A j \in 1..Parts(Outs[k]) : Received(k, j) = Passed(k, j)
      BY <1>1, <1>4, ReceivedPiece
    <3> QED BY <3>1, <3>2 DEF PassedPieces
  <2> QED BY <1>1, <1>3, <1>4, <2>1
<1>6. Len(got') = n
  BY <1>5, GotLength
<1>7. Count("callee") = n
  BY <1>1, <1>2, <1>4 DEF AnalysisInv, Sides
<1>8. ASSUME NEW h, IsTrace(h) PROVE VaFollows(h)'
  <2>1. cc.callee = h[n]
    BY <1>7, <1>8 DEF IsTrace
  <2> QED BY <1>1, <1>6, <2>1 DEF VaFollows
<1>9. pc' \in {"va_arg", "return"} /\ (pc' = "va_arg" => sig.vararg)
  BY <1>1, SignatureFacts DEF AnalysisInv
<1>10. AnalysisInv'
  <2>1. pc' \in Phases /\ pc \notin Sides /\ pc' \notin Sides
    BY <1>1, <1>9 DEF Phases, Sides
  <2>2. sig.conv = "builtin" => pc' \in {"caller", "store", "done"}
    BY <1>2
  <2> QED BY <1>1, <1>8, <2>1, <2>2, StillAnalysis
<1>11. got' = [k \in 1..n |-> PassedPieces(k)'] /\ n \in Len(Ins)'..Len(Outs)'
  BY <1>1, <1>5, <1>within, StillPassed
<1>12. va' \in Nat
  <2>1. cc.callee.offset \in Nat
    BY CountTypes DEF AnalysisInv, CCState, Sides
  <2> QED BY <1>1, <1>9, <2>1 DEF GotInv
<1>13. \E m \in Len(Ins)'..Len(Outs)' : got' = [k \in 1..m |-> PassedPieces(k)']
  BY <1>11
<1>14. pc' \in Over /\ sig'.conv # "builtin" /\ (pc' = "va_arg" => sig'.vararg)
  BY <1>1, <1>2, <1>9 DEF Over
<1>15. GotInv'
  BY <1>12, <1>13, <1>14 DEF GotInv
<1> QED BY <1>10, <1>15

\* The next of the variable arguments is on the stack, where the list is.
LEMMA NextVarArg ==
  ASSUME AnalysisInv, pc = "va_arg", sig.vararg,
         NEW n \in Nat, n = Len(got), n >= Len(Ins), n < Len(Outs)
  PROVE  /\ Parts(Outs[n + 1]) \in Nat
         /\ \A h : IsTrace(h) /\ VaFollows(h) =>
              h[n + 1].offset = va + 2 * Parts(Outs[n + 1])
         /\ \A j \in 1..Parts(Outs[n + 1]) :
              /\ Loc("caller", n + 1, j).mem = va + 2 * (j - 1)
              /\ <<n + 1, j>> \in OnStack
              /\ Outs[n + 1].pieces[j] = "i16" /\ Outs[n + 1].byval = 0
<1> DEFINE arg == Outs[n + 1]
<1>1. Prefix /\ Count("caller") = Len(Outs) /\ Len(Outs) \in Nat /\ Len(Ins) \in Nat
  BY PrefixFacts DEF AnalysisInv, Prefix
<1>2. n + 1 \in (Len(Ins) + 1)..Len(Outs) /\ n + 1 \in 1..Len(Outs) /\ n \in 0..Len(Outs)
      /\ n + 1 \in 0..Len(Outs) /\ n \in 0..(Len(Outs) - 1) /\ n + 1 \in 1..(n + 1)
  BY <1>1
<1>3. arg \in Argument /\ IsArgument(arg) /\ arg.byval = 0 /\ arg.pieces[1] = "i16"
  BY <1>1, <1>2 DEF Prefix, Proper
<1>4. /\ Parts(arg) \in Nat \ {0} /\ FirstVT(arg) = "i16"
      /\ \A j \in 1..Parts(arg) : arg.pieces[j] = "i16"
  BY <1>3, ArgumentFacts DEF FirstVT
<1> HIDE DEF arg
<1>5. ASSUME NEW h, IsTrace(h), VaFollows(h)
      PROVE  /\ h[n + 1].offset = va + 2 * Parts(arg)
             /\ va \in Nat
             /\ \A j \in 1..Parts(arg) : Loc("caller", n + 1, j).mem = va + 2 * (j - 1)
  <2>1. va = h[n].offset
    BY <1>5 DEF VaFollows
  <2>2. Analysis(h[n], Outs) /\ Len(h[n].locs) = n /\ h[n + 1] = Assigned(h[n], arg)
        /\ h[n + 1].locs[n + 1] = cc.caller.locs[n + 1]
    BY <1>1, <1>2, <1>5 DEF IsTrace, arg
  <2>3. h[n] \in CCState /\ Even(h[n].offset)
    BY <2>2 DEF Analysis, InStep
  <2>4. PICK s \in CCState : s = h[n] /\ s.offset = va /\ Even(s.offset) /\ Len(s.locs) = n
    BY <2>1, <2>2, <2>3
  <2>5. va \in Nat /\ alignTo(va, 2) = va
    BY <2>4, AlignedWord DEF CCState
  <2>6. h[n + 1] = VarArgPieces(s, arg)
    BY <1>3, <2>2, <2>4 DEF Assigned
  <2>7. \A m \in Nat : AllocateStack(s, m) = va + 2 * (m - 1)
    BY <2>4, <2>5 DEF AllocateStack
  <2> DEFINE locs == [j \in 1..Parts(arg) |->
                        InMem(AllocateStack(s, j), arg.pieces[j], LocInfo(arg, arg.pieces[j]))]
  <2>8. h[n + 1].offset = AllocateStack(s, Parts(arg) + 1) /\ h[n + 1].locs = Append(s.locs, locs)
    BY <2>6 DEF VarArgPieces, CCState
  <2>9. h[n + 1].offset = va + 2 * Parts(arg)
    <3>1. Parts(arg) + 1 \in Nat /\ (Parts(arg) + 1) - 1 = Parts(arg)
      BY <1>4
    <3> QED BY <2>7, <2>8, <3>1
  <2>10. cc.caller.locs[n + 1] = locs
    <3> HIDE DEF locs
    <3>1. s.locs \in Seq(Seq(Location))
      BY DEF CCState
    <3>2. Append(s.locs, locs)[n + 1] = locs
      BY <2>4, <3>1, AppendLast
    <3> QED BY <2>2, <2>8, <3>2
  <2>11. \A j \in 1..Parts(arg) : Loc("caller", n + 1, j).mem = va + 2 * (j - 1)
    <3> TAKE j \in 1..Parts(arg)
    <3>1. Loc("caller", n + 1, j) = locs[j]
      BY <2>10, CountTypes DEF Loc, AnalysisInv
    <3>2. locs[j].mem = AllocateStack(s, j)
      BY DEF InMem
    <3>3. j \in Nat
      BY <1>4
    <3> HIDE DEF locs
    <3> QED BY <2>7, <3>1, <3>2, <3>3
  <2> QED BY <2>5, <2>9, <2>11
<1>6. PICK h : IsTrace(h) /\ VaFollows(h)
  BY DEF AnalysisInv
<1>7. va \in Nat /\ \A j \in 1..Parts(arg) : Loc("caller", n + 1, j).mem = va + 2 * (j - 1)
  BY <1>5, <1>6
<1>8. \A j \in 1..Parts(arg) : <<n + 1, j>> \in OnStack
  <2> TAKE j \in 1..Parts(arg)
  <2> DEFINE x == <<n + 1, j>>
  <2>1. x \in Pieces("caller")
    <3>1. ArgOf("caller", n + 1) = arg /\ "caller" \in Sides
      BY DEF ArgOf, Args, Sides, arg
    <3> QED BY <1>1, <1>2, <3>1, PieceOf
  <2>2. Loc("caller", x[1], x[2]).mem >= 0
    <3>1. va + 2 * (j - 1) >= 0
      BY <1>4, <1>7
    <3> QED BY <1>7, <3>1
  <2> HIDE DEF x
  <2>3. x \in OnStack
    BY <2>1, <2>2 DEF OnStack
  <2> QED BY <2>3 DEF x
<1> QED BY <1>3, <1>4, <1>5, <1>7, <1>8 DEF arg

LEMMA VaArgStep ==
  ASSUME AnalysisInv, StackInv, GotInv, VaArg
  PROVE  AnalysisInv' /\ GotInv'
<1>1. /\ sig' = sig /\ cc' = cc /\ pc' = pc /\ pc = "va_arg" /\ Len(got) < Len(Outs)
      /\ got' = Append(got, [j \in 1..Parts(Outs[Len(got) + 1]) |-> Load(va + 2 * (j - 1), 2)])
      /\ va' = va + 2 * Parts(Outs[Len(got) + 1])
  BY DEF VaArg
<1>2. sig.conv = "C" /\ sig.vararg /\ Len(Ins) \in Nat /\ Len(Outs) \in Nat /\ va \in Nat
  BY <1>1, SignatureFacts, PrefixFacts DEF Prefix, AnalysisInv, GotInv
<1>3. \E n \in Len(Ins)..Len(Outs) : got = [k \in 1..n |-> PassedPieces(k)]
  BY <1>1, <1>2 DEF GotInv, Over
<1>4. PICK n \in Nat : n \in Len(Ins)..Len(Outs) /\ got = [k \in 1..n |-> PassedPieces(k)]
  BY <1>2, <1>3
<1>5. n = Len(got)
  BY <1>4, GotLength
<1>6. n >= Len(Ins) /\ n < Len(Outs) /\ n + 1 \in Len(Ins)..Len(Outs)
  <2>1. PICK lo \in Nat, hi \in Nat : lo = Len(Ins) /\ hi = Len(Outs)
    BY <1>2
  <2>2. n \in lo..hi /\ n < hi
    BY <1>1, <1>4, <1>5, <2>1
  <2>3. n >= lo /\ n < hi /\ n + 1 \in lo..hi
    BY <2>2
  <2> QED BY <2>1, <2>3
<1>7. /\ Parts(Outs[n + 1]) \in Nat
      /\ \A h : IsTrace(h) /\ VaFollows(h) => h[n + 1].offset = va + 2 * Parts(Outs[n + 1])
      /\ \A j \in 1..Parts(Outs[n + 1]) :
           /\ Loc("caller", n + 1, j).mem = va + 2 * (j - 1)
           /\ <<n + 1, j>> \in OnStack
           /\ Outs[n + 1].pieces[j] = "i16" /\ Outs[n + 1].byval = 0
  BY <1>1, <1>2, <1>5, <1>6, NextVarArg
<1>8. [j \in 1..Parts(Outs[n + 1]) |-> Load(va + 2 * (j - 1), 2)] = PassedPieces(n + 1)
  <2>1. ASSUME NEW j \in 1..Parts(Outs[n + 1])
        PROVE  Load(va + 2 * (j - 1), 2) = Passed(n + 1, j)
    <3>1. PICK k \in Nat : k = n + 1
      OBVIOUS
    <3>2. <<k, j>> \in OnStack /\ Outs[k].byval = 0 /\ Outs[k].pieces[j] = "i16"
          /\ Loc("caller", k, j).mem = va + 2 * (j - 1)
      BY <1>7, <2>1, <3>1
    <3>3. <<k, j>> \in stored /\ pc # "caller"
      BY <1>1, <3>2 DEF StackInv, Sides
    <3>4. Load(Loc("caller", k, j).mem, 2) = Passed(k, j)
      BY <3>2, <3>3, LoadedPiece
    <3> QED BY <3>1, <3>2, <3>4
  <2> QED BY <2>1 DEF PassedPieces
<1>9. got' = Append(got, PassedPieces(n + 1))
  BY <1>1, <1>5, <1>8
<1>10. got' = [k \in 1..(n + 1) |-> PassedPieces(k)]
  <2>1. got \in [1..n -> {PassedPieces(k) : k \in 1..n}]
    BY <1>4
  <2>2. got \in Seq({PassedPieces(k) : k \in 1..n})
    BY <2>1, SequenceOf
  <2>3. /\ got'[n + 1] = PassedPieces(n + 1) /\ DOMAIN got' = 1..(n + 1)
        /\ \A k \in 1..n : got'[k] = got[k]
    <3> DEFINE e == PassedPieces(n + 1)
    <3>1. got' = Append(got, e)
      BY <1>9
    <3> HIDE DEF e
    <3>2. /\ Append(got, e)[n + 1] = e /\ DOMAIN Append(got, e) = 1..(n + 1)
          /\ \A k \in 1..n : Append(got, e)[k] = got[k]
      BY <1>5, <2>2, AppendLast
    <3> QED BY <3>1, <3>2 DEF e
  <2>4. got' = [k \in 1..(n + 1) |-> got'[k]]
    <3>1. \E T : got' \in [1..(n + 1) -> T]
      <4> DEFINE e == PassedPieces(n + 1)
                 T == {PassedPieces(k) : k \in 1..n} \cup {e}
      <4>1. got' = Append(got, e)
        BY <1>9
      <4> HIDE DEF e
      <4>2. got \in Seq(T) /\ e \in T
        <5>1. got \in [1..n -> T]
          BY <2>1
        <5> HIDE DEF T
        <5>2. got \in Seq(T)
          BY <5>1, SequenceOf
        <5> QED BY <5>2 DEF T
      <4> HIDE DEF T
      <4>3. Append(got, e) \in Seq(T) /\ Len(Append(got, e)) = n + 1
        BY <1>5, <4>2, AppendProperties
      <4>4. Append(got, e) \in [1..(n + 1) -> T]
        BY <4>3, LenProperties
      <4> QED BY <4>1, <4>4
    <3> QED BY <3>1
  <2>5. \A k \in 1..(n + 1) : got'[k] = PassedPieces(k)
    <3> TAKE k \in 1..(n + 1)
    <3>1. CASE k = n + 1
      BY <2>3, <3>1
    <3>2. CASE k # n + 1
      <4>1. k \in 1..n
        BY <3>2
      <4> QED BY <1>4, <2>3, <4>1
    <3> QED BY <3>1, <3>2
  <2> QED BY <2>4, <2>5
<1>11. Len(got') = n + 1
  <2>1. n + 1 \in Nat
    OBVIOUS
  <2> QED BY <1>10, <2>1, GotLength
<1>12. ASSUME NEW h, IsTrace(h), VaFollows(h) PROVE VaFollows(h)'
  <2>1. h[n + 1].offset = va'
    BY <1>1, <1>5, <1>7, <1>12
  <2> QED BY <1>11, <2>1 DEF VaFollows
<1>13. AnalysisInv'
  <2>1. pc' \in Phases
    BY <1>1 DEF Phases
  <2>2. sig.conv = "builtin" => pc' \in {"caller", "store", "done"}
    BY <1>2
  <2> QED BY <1>1, <1>12, <2>1, <2>2, StillAnalysis
<1>14. got' = [k \in 1..(n + 1) |-> PassedPieces(k)'] /\ n + 1 \in Len(Ins)'..Len(Outs)'
  BY <1>1, <1>6, <1>10, StillPassed
<1>15. va' \in Nat
  BY <1>1, <1>2, <1>5, <1>7
<1>16. \E m \in Len(Ins)'..Len(Outs)' : got' = [k \in 1..m |-> PassedPieces(k)']
  BY <1>14
<1>17. pc' \in Over /\ sig'.conv # "builtin" /\ sig'.vararg
  BY <1>1, <1>2 DEF Over
<1>18. GotInv'
  BY <1>15, <1>16, <1>17 DEF GotInv
<1> QED BY <1>13, <1>18

\* A step that receives nothing.
LEMMA StillGot ==
  ASSUME GotInv, sig' = sig, got' = got, va' = va,
         \/ pc' \notin Over /\ pc \notin Over
         \/ pc \in Over /\ pc' \in Over
         \/ sig.conv = "builtin",
         pc' = "va_arg" => pc = "va_arg"
  PROVE  GotInv'
<1>1. ASSUME pc' \notin Over \/ sig'.conv = "builtin" PROVE got' = <<>>
  BY <1>1 DEF GotInv
<1>2. ASSUME pc' \in Over, sig'.conv = "C"
      PROVE  \E n \in Len(Ins)'..Len(Outs)' : got' = [k \in 1..n |-> PassedPieces(k)']
  <2>1. sig.conv = "C" /\ sig.conv # "builtin" /\ pc \in Over
    BY <1>2
  <2>2. PICK n \in Len(Ins)..Len(Outs) : got = [k \in 1..n |-> PassedPieces(k)]
    BY <2>1 DEF GotInv
  <2>3. got' = [k \in 1..n |-> PassedPieces(k)'] /\ n \in Len(Ins)'..Len(Outs)'
    BY <2>2, StillPassed
  <2> QED BY <2>3
<1>3. (pc' = "va_arg" => sig'.vararg) /\ va' \in Nat
  BY DEF GotInv
<1> QED BY <1>1, <1>2, <1>3 DEF GotInv

-------------------------------------------------------------------------------
(* The result *)

\* The registers the callee returns in, and what the caller makes of them.
ResultInv ==
  /\ pc # "done" => result = <<>>
  /\ Len(result) <= 4
  /\ pc \in {"result", "done"} /\ sig.conv = "C" /\ sig.sret => regs[12] = Passed(1, 1)
  /\ pc = "result" /\ ~DemotedReturn =>
       \A j \in 1..Len(sig.ret) : regs[11 + j] = Word(ReturnPiece(j))
  /\ pc = "done" /\ sig.conv = "C" /\ ~DemotedReturn =>
       result = [j \in DOMAIN sig.ret |-> ReturnPiece(j)]

LEMMA RetFacts ==
  ASSUME sig \in Signatures
  PROVE  /\ DOMAIN sig.ret = 1..Len(sig.ret) /\ Len(sig.ret) \in Nat
         /\ \A j \in 1..Len(sig.ret) : sig.ret[j] \in {"i8", "i16"}
         /\ ~DemotedReturn => Len(sig.ret) <= 4
BY SignatureFacts, LenProperties, ElementOfSeq DEF DemotedReturn

\* The pointer to a structure returned is the first argument, and a formal.
LEMMA SRetFacts ==
  ASSUME sig \in Signatures, sig.sret
  PROVE  /\ sig.ret = <<>> /\ ~DemotedReturn /\ Len(Ins) >= 1
         /\ Parts(Outs[1]) = 1 /\ Outs[1].byval = 0
<1>1. /\ sig.ret = <<>> /\ sig.args # <<>> /\ (sig.vararg => sig.fixed > 0)
      /\ sig.args[1].byval = 0 /\ sig.args[1].pieces = <<"i16">>
      /\ Proper(sig.args) /\ sig.vararg \in BOOLEAN /\ sig.fixed \in Nat
  BY SignatureFacts
<1>2. ~DemotedReturn
  <2>1. Len(<<>>) = 0 /\ ~(0 > 4)
    OBVIOUS
  <2> QED BY <1>1, <2>1 DEF DemotedReturn
<1>3. Outs = sig.args
  BY <1>1, <1>2, AfterHidden DEF Outs
<1>4. Len(sig.args) \in Nat /\ Len(sig.args) > 0
  BY <1>1, LenProperties, EmptySeq DEF Proper
<1>5. Len(Ins) >= 1
  <2>1. CASE sig.vararg
    <3>1. PICK n \in Nat : n = sig.fixed /\ n <= Len(sig.args) /\ n > 0
      BY <1>1, <2>1, SignatureFacts
    <3>2. SubSeq(sig.args, 1, n) \in Seq(Argument) /\ Len(SubSeq(sig.args, 1, n)) = n
      BY <1>1, <3>1, FirstOf DEF Proper
    <3>3. Ins = SubSeq(sig.args, 1, n)
      BY <1>2, <2>1, <3>1, <3>2, ConcatEmptySeq DEF Ins, Hidden
    <3> QED BY <3>1, <3>2, <3>3
  <2>2. CASE ~sig.vararg
    <3>1. Len(Ins) = Len(Outs)
      BY <2>2, PrefixFacts DEF Prefix
    <3> QED BY <1>3, <1>4, <3>1
  <2> QED BY <2>1, <2>2
<1>6. Parts(Outs[1]) = 1 /\ Outs[1].byval = 0
  <2>1. Len(<<"i16">>) = 1
    OBVIOUS
  <2> QED BY <1>1, <1>3, <2>1 DEF Parts
<1> QED BY <1>1, <1>2, <1>5, <1>6

LEMMA ReturnStep ==
  ASSUME AnalysisInv, RegsInv, GotInv, ResultInv, LowerReturn
  PROVE  RegsInv' /\ ResultInv'
<1>1. /\ sig' = sig /\ cc' = cc /\ pc = "return" /\ pc' = "result" /\ result' = result
      /\ DOMAIN regs' = DOMAIN regs
  BY DEF LowerReturn
<1>2. DOMAIN regs = 8..15
  BY DEF RegsInv
<1>3. sig.conv = "C" /\ sig \in Signatures
  BY <1>1, SignatureFacts DEF AnalysisInv
<1>4. ASSUME sig.sret PROVE regs'[12] = Passed(1, 1)
  <2>1. 12 \in DOMAIN SRetReturn /\ SRetReturn[12] = got[1][1]
    BY <1>4 DEF SRetReturn
  <2>2. 12 \in DOMAIN regs
    BY <1>2
  <2>3. regs'[12] = got[1][1]
    BY <2>1, <2>2 DEF LowerReturn
  <2>4. Len(Ins) \in Nat /\ Len(Outs) \in Nat
    BY <1>3, PrefixFacts DEF Prefix
  <2>5. \E n \in Len(Ins)..Len(Outs) : got = [k \in 1..n |-> PassedPieces(k)]
    BY <1>1, <1>3 DEF GotInv, Over
  <2>6. PICK n \in Nat : n \in Len(Ins)..Len(Outs) /\ got = [k \in 1..n |-> PassedPieces(k)]
    BY <2>4, <2>5
  <2>7. 1 \in 1..n
    <3>1. Len(Ins) >= 1
      BY <1>3, <1>4, SRetFacts
    <3>2. n >= Len(Ins)
      BY <2>4, <2>6
    <3> QED BY <2>4, <3>1, <3>2
  <2>8. got[1] = PassedPieces(1)
    BY <2>6, <2>7
  <2>9. 1 \in 1..Parts(Outs[1])
    BY <1>3, <1>4, SRetFacts
  <2> QED BY <2>3, <2>8, <2>9 DEF PassedPieces
<1>5. ASSUME ~DemotedReturn, NEW j \in 1..Len(sig.ret)
      PROVE  regs'[11 + j] = Word(ReturnPiece(j))
  <2>1. PICK m \in Nat : m = Len(sig.ret) /\ m <= 4 /\ DOMAIN sig.ret = 1..m
    BY <1>3, <1>5, RetFacts
  <2>2. ~sig.sret
    <3>1. Len(<<>>) = 0 /\ 1..0 = {}
      OBVIOUS
    <3>2. j \in 1..Len(sig.ret)
      OBVIOUS
    <3> QED BY <1>3, <3>1, <3>2, SRetFacts
  <2>3. DOMAIN SRetReturn = {}
    BY <2>2 DEF SRetReturn
  <2>4. j \in 1..m /\ 11 + j \in 8..15 /\ \A i \in 1..m : 11 + i = 11 + j => i = j
    BY <2>1
  <2>5. \A i \in DOMAIN sig.ret : ReturnRegs[i] = 11 + i
    BY DEF ReturnRegs
  <2>6. (CHOOSE i \in DOMAIN sig.ret : ReturnRegs[i] = 11 + j) = j
    BY <2>1, <2>4, <2>5
  <2>7. \E i \in DOMAIN sig.ret : ReturnRegs[i] = 11 + j
    BY <2>1, <2>4, <2>5
  <2>8. PICK r \in 8..15 : r = 11 + j
    BY <2>4
  <2>9. regs'[r] = Word(ReturnPiece(CHOOSE i \in DOMAIN sig.ret : ReturnRegs[i] = r))
    BY <1>2, <1>5, <2>3, <2>7, <2>8 DEF LowerReturn
  <2> QED BY <2>6, <2>8, <2>9
<1>6. /\ Passed(1, 1)' = Passed(1, 1) /\ DemotedReturn' = DemotedReturn
      /\ \A j : Word(ReturnPiece(j))' = Word(ReturnPiece(j))
  <2>1. Passed(1, 1)' = Passed(1, 1)
    BY <1>1, StillSent
  <2> QED BY <1>1, <2>1 DEF DemotedReturn, Word, ReturnPiece
<1>7. result' = <<>> /\ Len(result') <= 4
  BY <1>1 DEF ResultInv
<1>8. RegsInv'
  BY <1>1, <1>2 DEF RegsInv
<1>9. ResultInv'
  BY <1>1, <1>3, <1>4, <1>5, <1>6, <1>7 DEF ResultInv
<1> QED BY <1>8, <1>9

LEMMA ResultStep ==
  ASSUME AnalysisInv, RegsInv, ResultInv, LowerCallResult
  PROVE  ResultInv'
<1>1. /\ sig' = sig /\ cc' = cc /\ pc = "result" /\ pc' = "done" /\ regs' = regs
      /\ DemotedReturn => result' = <<>>
      /\ ~DemotedReturn =>
           result' = [j \in DOMAIN sig.ret |-> AsPiece(regs[ReturnRegs[j]], sig.ret[j])]
  BY DEF LowerCallResult
<1>2. sig \in Signatures
  BY DEF AnalysisInv
<1>3. ASSUME ~DemotedReturn PROVE result' = [j \in DOMAIN sig.ret |-> ReturnPiece(j)]
  <2>1. ASSUME NEW j \in DOMAIN sig.ret
        PROVE  AsPiece(regs[ReturnRegs[j]], sig.ret[j]) = ReturnPiece(j)
    <3>1. regs[ReturnRegs[j]] = Word(ReturnPiece(j))
      BY <1>1, <1>2, <1>3, RetFacts DEF ResultInv, ReturnRegs
    <3>2. sig.ret[j] \in {"i8", "i16"}
      BY <1>2, RetFacts
    <3>3. CASE sig.ret[j] = "i8"
      <4> DEFINE b == Byte(0, j, 0)
      <4>1. ReturnPiece(j) = <<b>>
        BY <3>3 DEF ReturnPiece
      <4> HIDE DEF b
      <4>2. Word(<<b>>)[1] = b
        BY DEF Word
      <4> QED BY <3>1, <3>3, <4>1, <4>2 DEF AsPiece
    <3>4. CASE sig.ret[j] = "i16"
      <4> DEFINE b == Byte(0, j, 0)
                 c == Byte(0, j, 1)
      <4>1. ReturnPiece(j) = <<b, c>>
        BY <3>4 DEF ReturnPiece
      <4> HIDE DEF b, c
      <4>2. Word(<<b, c>>) = <<b, c>>
        BY DEF Word
      <4> QED BY <3>1, <3>4, <4>1, <4>2 DEF AsPiece
    <3> QED BY <3>2, <3>3, <3>4
  <2> QED BY <1>1, <1>3, <2>1
<1>4. Len(result') <= 4
  <2>1. CASE DemotedReturn
    <3>1. Len(<<>>) <= 4
      OBVIOUS
    <3> QED BY <1>1, <2>1, <3>1
  <2>2. CASE ~DemotedReturn
    <3>1. PICK m \in Nat : m <= 4 /\ DOMAIN sig.ret = 1..m
      BY <1>2, <2>2, RetFacts
    <3> DEFINE q == [j \in 1..m |-> ReturnPiece(j)]
    <3>2. result' = q
      BY <1>3, <2>2, <3>1
    <3>3. q \in [1..m -> {ReturnPiece(j) : j \in 1..m}]
      OBVIOUS
    <3> HIDE DEF q
    <3>4. Len(q) = m
      BY <3>3, SequenceOf
    <3> QED BY <3>1, <3>2, <3>4
  <2> QED BY <2>1, <2>2
<1>5. /\ Passed(1, 1)' = Passed(1, 1) /\ DemotedReturn' = DemotedReturn
      /\ \A j : ReturnPiece(j)' = ReturnPiece(j)
  <2>1. Passed(1, 1)' = Passed(1, 1)
    BY <1>1, StillSent
  <2> QED BY <1>1, <2>1 DEF DemotedReturn, ReturnPiece
<1>6. sig.conv = "C" /\ sig.sret => regs'[12] = Passed(1, 1)
  BY <1>1 DEF ResultInv
<1> QED BY <1>1, <1>3, <1>4, <1>5, <1>6 DEF ResultInv

\* A step before the return.
LEMMA StillResult ==
  ASSUME ResultInv, result' = result, sig' = sig,
         \/ pc' \notin {"result", "done"} /\ pc # "done"
         \/ pc' = "done" /\ pc # "done" /\ sig.conv = "builtin"
         \/ pc' = pc /\ cc' = cc /\ regs' = regs
  PROVE  ResultInv'
<1>1. /\ DemotedReturn' = DemotedReturn /\ Passed(1, 1)' = Passed(1, 1)
      /\ \A j : ReturnPiece(j)' = ReturnPiece(j) /\ Word(ReturnPiece(j))' = Word(ReturnPiece(j))
  <2>1. Outs' = Outs
    BY StillPassed
  <2> QED BY <2>1 DEF Passed, ByValBytes, DemotedReturn, ReturnPiece, Word
<1>2. Len(result') <= 4
  BY DEF ResultInv
<1>3. CASE pc' \notin {"result", "done"} /\ pc # "done"
  BY <1>2, <1>3 DEF ResultInv
<1>4. CASE pc' = "done" /\ pc # "done" /\ sig.conv = "builtin"
  BY <1>2, <1>4 DEF ResultInv
<1>5. CASE pc' = pc /\ cc' = cc /\ regs' = regs
  BY <1>1, <1>2, <1>5 DEF ResultInv
<1> QED BY <1>3, <1>4, <1>5

-------------------------------------------------------------------------------
(* The invariant *)

Inv == AnalysisInv /\ StackInv /\ RegsInv /\ GotInv /\ ResultInv

LEMMA InitInv == Init => Inv
<1> SUFFICES ASSUME Init PROVE Inv
  OBVIOUS
<1>1. AnalysisInv /\ StackInv
  BY InitAnalysis, InitStack
<1>2. /\ pc = "caller" /\ regs = [r \in 8..15 |-> <<Unknown, Unknown>>]
      /\ got = <<>> /\ va = 0 /\ result = <<>>
  BY DEF Init
<1>3. RegsInv
  BY <1>2 DEF RegsInv
<1>4. GotInv
  BY <1>2 DEF GotInv, Over
<1>5. ResultInv
  <2>1. Len(<<>>) <= 4
    OBVIOUS
  <2> QED BY <1>2, <2>1 DEF ResultInv
<1> QED BY <1>1, <1>3, <1>4, <1>5 DEF Inv

LEMMA StillRegs ==
  ASSUME RegsInv, regs' = regs,
         pc' # "receive" \/ (pc' = pc /\ sig' = sig /\ cc' = cc)
  PROVE  RegsInv'
<1>1. CASE pc' # "receive"
  BY <1>1 DEF RegsInv
<1>2. CASE pc' = pc /\ sig' = sig /\ cc' = cc
  <2>1. \A x \in InRegs' : Word(Sent(x[1], x[2]))' = Word(Sent(x[1], x[2]))
    BY <1>2, StillSent DEF Word
  <2>2. /\ InRegs' = InRegs
        /\ \A x \in InRegs' : Loc("caller", x[1], x[2])' = Loc("caller", x[1], x[2])
    BY <1>2, StillSent
  <2> QED BY <1>2, <2>1, <2>2 DEF RegsInv
<1> QED BY <1>1, <1>2

LEMMA NextInv == Inv /\ [Next]_vars => Inv'
<1> SUFFICES ASSUME Inv, [Next]_vars PROVE Inv'
  OBVIOUS
<1> USE DEF Inv
<1>conv. sig.conv \in {"C", "builtin"}
  BY SignatureFacts DEF AnalysisInv
<1>builtin. sig.conv = "builtin" => pc \in {"caller", "store", "done"}
  BY DEF AnalysisInv
<1>stored. pc \notin Sides \cup {"store"} => stored = OnStack
  BY DEF StackInv
<1>1. CASE AssignArgument
  <2>1. /\ pc \in Sides /\ pc' = pc /\ sig' = sig /\ regs' = regs /\ got' = got /\ va' = va
        /\ result' = result
    BY <1>1 DEF AssignArgument, Sides
  <2>2. pc \notin Over /\ pc \notin {"result", "done"} /\ pc # "receive"
    BY <2>1 DEF Over, Sides
  <2>3. AnalysisInv'
    BY <1>1, <2>1, CallerAssigns, CalleeAssigns DEF Sides
  <2>4. StackInv'
    BY <1>1, AssignStack
  <2>5. RegsInv' /\ GotInv' /\ ResultInv'
    BY <2>1, <2>2, StillRegs, StillGot, StillResult DEF Over
  <2> QED BY <2>3, <2>4, <2>5
<1>2. CASE Analysed
  <2>1. /\ pc \in Sides /\ sig' = sig /\ regs' = regs /\ got' = got /\ va' = va
        /\ result' = result /\ pc' \in {"callee", "store"}
    BY <1>2 DEF Analysed, Sides
  <2>2. /\ pc \notin Over /\ pc \notin {"result", "done"}
        /\ pc' \notin Over /\ pc' \notin {"result", "done"} /\ pc' # "receive"
    BY <2>1 DEF Over, Sides
  <2>3. AnalysisInv' /\ StackInv'
    BY <1>2, AnalysedAnalysis, AnalysedStack
  <2>4. RegsInv' /\ GotInv' /\ ResultInv'
    BY <2>1, <2>2, StillRegs, StillGot, StillResult DEF Over
  <2> QED BY <2>3, <2>4
<1>3. CASE StorePiece
  <2>1. /\ pc = "store" /\ pc' = pc /\ sig' = sig /\ cc' = cc /\ regs' = regs /\ got' = got
        /\ va' = va /\ result' = result
    BY <1>3 DEF StorePiece
  <2>2. pc' \in Phases /\ pc \notin Over /\ pc' # "receive" /\ pc' \notin {"result", "done"}
    BY <2>1 DEF Phases, Over
  <2>3. \A h : VaFollows(h)'
    BY <2>1 DEF VaFollows
  <2>4. AnalysisInv'
    BY <2>1, <2>2, <2>3, StillAnalysis
  <2>5. StackInv'
    BY <1>3, StoreStack
  <2>6. RegsInv' /\ GotInv' /\ ResultInv'
    BY <2>1, <2>2, StillRegs, StillGot, StillResult DEF Over
  <2> QED BY <2>4, <2>5, <2>6
<1>4. CASE CallCallee
  <2>1. /\ pc = "store" /\ pc' = (IF sig.conv = "C" THEN "receive" ELSE "done")
        /\ sig' = sig /\ cc' = cc /\ got' = got /\ stored = OnStack /\ stored' = stored
        /\ stack' = stack /\ va' = va /\ result' = result
    BY <1>4 DEF CallCallee
  <2>2. /\ pc' \in Phases /\ pc \notin Sides /\ pc' \notin Sides /\ pc \notin Over
        /\ pc' # "va_arg" /\ pc \notin {"result", "done"}
        /\ (sig.conv = "builtin" => pc' \in {"caller", "store", "done"})
        /\ (pc' \notin Over \/ sig.conv = "builtin")
        /\ (pc' \notin {"result", "done"} \/ (pc' = "done" /\ sig.conv = "builtin"))
    <3>1. CASE sig.conv = "C"
      <4>1. pc' = "receive"
        BY <2>1, <3>1
      <4> QED BY <2>1, <3>1, <4>1 DEF Phases, Over, Sides
    <3>2. CASE sig.conv = "builtin"
      <4>1. pc' = "done"
        BY <2>1, <3>2
      <4> QED BY <2>1, <3>2, <4>1 DEF Phases, Over, Sides
    <3> QED BY <1>conv, <3>1, <3>2
  <2>3. \A h : VaFollows(h)'
    BY <2>2 DEF VaFollows
  <2>4. AnalysisInv'
    BY <2>1, <2>2, <2>3, StillAnalysis
  <2>5. StackInv'
    BY <2>1, <2>2, StillStack
  <2>6. RegsInv'
    BY <1>4, CallRegs
  <2>7. GotInv' /\ ResultInv'
    BY <2>1, <2>2, StillGot, StillResult
  <2> QED BY <2>4, <2>5, <2>6, <2>7
<1>5. CASE ReceiveFormals
  <2>1. /\ pc = "receive" /\ pc' \in {"va_arg", "return"} /\ sig' = sig /\ cc' = cc
        /\ stored' = stored /\ stack' = stack /\ regs' = regs /\ result' = result
    BY <1>5 DEF ReceiveFormals
  <2>2. /\ pc \notin Sides /\ pc' \notin Sides /\ pc \notin Sides \cup {"store"}
        /\ pc' # "receive" /\ pc' \notin {"result", "done"} /\ pc # "done"
    BY <2>1 DEF Sides
  <2>3. AnalysisInv' /\ GotInv'
    BY <1>5, ReceiveStep
  <2>4. StackInv'
    BY <1>stored, <2>1, <2>2, StillStack
  <2>5. RegsInv' /\ ResultInv'
    BY <2>1, <2>2, StillRegs, StillResult
  <2> QED BY <2>3, <2>4, <2>5
<1>6. CASE VaArg
  <2>1. /\ pc = "va_arg" /\ pc' = pc /\ sig' = sig /\ cc' = cc
        /\ stored' = stored /\ stack' = stack /\ regs' = regs /\ result' = result
    BY <1>6 DEF VaArg
  <2>2. pc \notin Sides \cup {"store"} /\ pc' # "receive"
    BY <2>1 DEF Sides
  <2>3. AnalysisInv' /\ GotInv'
    BY <1>6, VaArgStep
  <2>4. StackInv'
    BY <1>stored, <2>1, <2>2, StillStack
  <2>5. RegsInv' /\ ResultInv'
    BY <2>1, <2>2, StillRegs, StillResult
  <2> QED BY <2>3, <2>4, <2>5
<1>7. CASE VaEnd
  <2>1. /\ pc = "va_arg" /\ pc' = "return" /\ sig' = sig /\ cc' = cc /\ got' = got /\ va' = va
        /\ stored' = stored /\ stack' = stack /\ regs' = regs /\ result' = result
    BY <1>7 DEF VaEnd
  <2>2. /\ pc \notin Sides /\ pc' \notin Sides /\ pc \notin Sides \cup {"store"}
        /\ pc' \in Phases /\ pc \in Over /\ pc' \in Over /\ sig.conv # "builtin"
        /\ pc' # "receive" /\ pc' # "va_arg"
    BY <1>builtin, <2>1 DEF Sides, Phases, Over
  <2>3. \A h : VaFollows(h)'
    BY <2>2 DEF VaFollows
  <2>4. AnalysisInv'
    BY <2>1, <2>2, <2>3, StillAnalysis
  <2>5. StackInv'
    BY <1>stored, <2>1, <2>2, StillStack
  <2>6. RegsInv' /\ GotInv' /\ ResultInv'
    BY <2>1, <2>2, StillRegs, StillGot, StillResult
  <2> QED BY <2>4, <2>5, <2>6
<1>8. CASE LowerReturn
  <2>1. /\ pc = "return" /\ pc' = "result" /\ sig' = sig /\ cc' = cc /\ got' = got /\ va' = va
        /\ stored' = stored /\ stack' = stack /\ result' = result
    BY <1>8 DEF LowerReturn
  <2>2. /\ pc \notin Sides /\ pc' \notin Sides /\ pc \notin Sides \cup {"store"}
        /\ pc' \in Phases /\ pc \in Over /\ pc' \in Over /\ sig.conv # "builtin"
        /\ pc' # "va_arg"
    BY <1>builtin, <2>1 DEF Sides, Phases, Over
  <2>3. \A h : VaFollows(h)'
    BY <2>2 DEF VaFollows
  <2>4. AnalysisInv'
    BY <2>1, <2>2, <2>3, StillAnalysis
  <2>5. StackInv'
    BY <1>stored, <2>1, <2>2, StillStack
  <2>6. RegsInv' /\ ResultInv'
    BY <1>8, ReturnStep
  <2>7. GotInv'
    BY <2>1, <2>2, StillGot
  <2> QED BY <2>4, <2>5, <2>6, <2>7
<1>9. CASE LowerCallResult
  <2>1. /\ pc = "result" /\ pc' = "done" /\ sig' = sig /\ cc' = cc /\ got' = got /\ va' = va
        /\ stored' = stored /\ stack' = stack /\ regs' = regs
    BY <1>9 DEF LowerCallResult
  <2>2. /\ pc \notin Sides /\ pc' \notin Sides /\ pc \notin Sides \cup {"store"}
        /\ pc' \in Phases /\ pc \in Over /\ pc' \in Over /\ sig.conv # "builtin"
        /\ pc' # "receive" /\ pc' # "va_arg"
    BY <1>builtin, <2>1 DEF Sides, Phases, Over
  <2>3. \A h : VaFollows(h)'
    BY <2>2 DEF VaFollows
  <2>4. AnalysisInv'
    BY <2>1, <2>2, <2>3, StillAnalysis
  <2>5. StackInv'
    BY <1>stored, <2>1, <2>2, StillStack
  <2>6. RegsInv' /\ GotInv'
    BY <2>1, <2>2, StillRegs, StillGot
  <2>7. ResultInv'
    BY <1>9, ResultStep
  <2> QED BY <2>4, <2>5, <2>6, <2>7
<1>10. CASE UNCHANGED vars
  <2>1. /\ pc' = pc /\ sig' = sig /\ cc' = cc /\ got' = got /\ va' = va
        /\ stored' = stored /\ stack' = stack /\ regs' = regs /\ result' = result
    BY <1>10 DEF vars
  <2>2. \A h : VaFollows(h) => VaFollows(h)'
    BY <2>1 DEF VaFollows
  <2>3. pc' \in Phases
    BY <2>1 DEF AnalysisInv
  <2>4. AnalysisInv'
    BY <1>builtin, <2>1, <2>2, <2>3, StillAnalysis
  <2>5. StackInv'
    BY <1>stored, <2>1, StillStack
  <2>6. RegsInv' /\ ResultInv'
    BY <2>1, StillRegs, StillResult
  <2>7. GotInv'
    BY <2>1, StillGot
  <2> QED BY <2>4, <2>5, <2>6, <2>7
<1> QED BY <1>1, <1>2, <1>3, <1>4, <1>5, <1>6, <1>7, <1>8, <1>9, <1>10 DEF Next

LEMMA Always == Spec => []Inv
BY InitInv, NextInv, PTL DEF Spec

-------------------------------------------------------------------------------
(* What it implies *)

LEMMA InvTypes == Inv => TypeOK
<1> SUFFICES ASSUME Inv PROVE TypeOK
  OBVIOUS
<1>1. AnalysisInv /\ StackInv /\ RegsInv /\ GotInv /\ ResultInv
  BY DEF Inv
<1>2. ASSUME NEW side \in Sides
      PROVE  /\ cc[side].regsLeft \in 0..Cardinality(RegList)
             /\ cc[side].offset \in Nat
             /\ cc[side].used \subseteq RegList
             /\ Len(cc[side].locs) <= Len(Args[side])
  <2>1. InStep(cc[side]) /\ cc[side] \in CCState /\ Len(cc[side].locs) <= Len(Args[side])
    BY <1>1, <1>2, SideFacts DEF Analysis
  <2>2. PICK f \in Nat : f = FirstReg /\ f \in {8, 12} /\ RegList = f..15
    <3>1. FirstReg \in {8, 12} /\ FirstReg \in Nat
      BY FirstRegister
    <3> QED BY <3>1, FirstRegister
  <2>3. PICK c \in Nat : c = Cardinality(RegList) /\ c = 16 - f
    <3>1. Cardinality(f..15) = 15 - f + 1
      BY <2>2, FS_Interval
    <3> QED BY <2>2, <3>1
  <2>4. PICK r \in Nat : r = cc[side].regsLeft /\ r <= 16 - f /\ cc[side].used = f..(15 - r)
    BY <2>1, <2>2 DEF InStep, CCState
  <2>5. r \in 0..c
    BY <2>3, <2>4
  <2>6. f..(15 - r) \subseteq f..15
    OBVIOUS
  <2> QED BY <2>1, <2>2, <2>3, <2>4, <2>5, <2>6 DEF CCState
<1>3. Len(got) <= Len(Outs)
  <2>1. sig.conv \in {"C", "builtin"} /\ Len(Ins) \in Nat /\ Len(Outs) \in Nat
    BY <1>1, SignatureFacts, PrefixFacts DEF AnalysisInv, Prefix
  <2>2. CASE got = <<>>
    <3>1. Len(<<>>) = 0
      OBVIOUS
    <3>2. 0 <= Len(Outs)
      BY <2>1
    <3> QED BY <2>2, <3>1, <3>2
  <2>3. CASE got # <<>>
    <3>1. \E n \in Len(Ins)..Len(Outs) : got = [k \in 1..n |-> PassedPieces(k)]
      BY <1>1, <2>1, <2>3 DEF GotInv
    <3>2. PICK n \in Nat : n \in Len(Ins)..Len(Outs) /\ got = [k \in 1..n |-> PassedPieces(k)]
      BY <2>1, <3>1
    <3>3. n <= Len(Outs)
      BY <2>1, <3>2
    <3> QED BY <3>2, <3>3, GotLength
  <2> QED BY <2>2, <2>3
<1> QED BY <1>1, <1>2, <1>3 DEF TypeOK, AnalysisInv, StackInv, RegsInv, GotInv, ResultInv,
                                  Phases, Sides

LEMMA InvValues == Inv => ValuesArrive
<1> SUFFICES ASSUME Inv PROVE ValuesArrive
  OBVIOUS
<1>1. AnalysisInv /\ GotInv /\ ResultInv
  BY DEF Inv
<1>2. ASSUME pc \in {"va_arg", "return", "result", "done"},
             NEW k \in DOMAIN got, NEW j \in DOMAIN got[k]
      PROVE  got[k][j] = Passed(k, j)
  <2>1. got # <<>>
    <3>1. DOMAIN <<>> = {}
      OBVIOUS
    <3> QED BY <1>2, <3>1
  <2>2. PICK n \in Len(Ins)..Len(Outs) : got = [i \in 1..n |-> PassedPieces(i)]
    <3>1. sig.conv \in {"C", "builtin"}
      BY <1>1, SignatureFacts DEF AnalysisInv
    <3> QED BY <1>1, <1>2, <2>1, <3>1 DEF GotInv, Over
  <2>3. got[k] = PassedPieces(k)
    BY <1>2, <2>2
  <2> QED BY <1>2, <2>3 DEF PassedPieces
<1>3. pc = "done" /\ sig.conv = "C" =>
        /\ ~DemotedReturn => result = [j \in DOMAIN sig.ret |-> ReturnPiece(j)]
        /\ sig.sret => regs[12] = Passed(1, 1)
  BY <1>1 DEF ResultInv
<1> QED BY <1>2, <1>3 DEF ValuesArrive

LEMMA InvExtensions == Inv => AssertedExtensions
<1> SUFFICES ASSUME Inv, pc = "receive", NEW x \in Pieces("callee"),
                    NEW loc, loc = Loc("callee", x[1], x[2]),
                    loc.mem < 0, loc.info \in {"SExt", "ZExt"}
             PROVE  regs[loc.reg][2] = ExtByte(regs[loc.reg][1])
  BY DEF AssertedExtensions
<1>1. AnalysisInv /\ RegsInv
  BY DEF Inv
<1>2. PICK k, j : k = x[1] /\ j = x[2]
  OBVIOUS
<1>3. PieceOK("callee", k, j) /\ ArgOf("callee", k) = Ins[k]
  BY <1>1, <1>2, PieceFacts DEF Sides, ArgOf, Args
<1>4. k \in 1..Len(Ins)
  <2>1. sig.conv = "C"
    BY <1>1, SignatureFacts DEF AnalysisInv
  <2>2. Count("callee") = Len(Ins)
    BY <1>1, <2>1 DEF AnalysisInv, Sides
  <2> QED BY <1>3, <2>2 DEF PieceOK
<1>5. /\ Ins[k] = Outs[k] /\ loc = Loc("caller", k, j)
      /\ PieceOK("caller", k, j) /\ <<k, j>> \in Pieces("caller")
  BY <1>1, <1>2, <1>3, <1>4, SamePiece DEF PieceOK
<1> DEFINE y == <<k, j>>
<1>6. y[1] = k /\ y[2] = j /\ y \in Pieces("caller")
  BY <1>5
<1> HIDE DEF y
<1>7. y \in InRegs
  BY <1>5, <1>6 DEF InRegs
<1>8. regs[loc.reg] = Word(Sent(k, j)) /\ Outs[k].byval = 0
  BY <1>1, <1>5, <1>6, <1>7, InRegsFacts DEF RegsInv
<1>9. /\ ArgOf("caller", k) = Outs[k] /\ Outs[k].pieces[j] \in {"i8", "i16"}
      /\ loc.info = LocInfo(Outs[k], Outs[k].pieces[j])
  <2>1. ArgOf("caller", k) = Outs[k]
    BY DEF ArgOf, Args
  <2> QED BY <1>5, <1>8, <2>1, ArgumentFacts DEF PieceOK, Placed
<1>10. Outs[k].pieces[j] = "i8" /\ Outs[k].ext \in {"SExt", "ZExt"}
  BY <1>9 DEF LocInfo
<1>11. Sent(k, j) = <<LowByte(k, j), ExtByte(LowByte(k, j))>>
  BY <1>1, <1>5, <1>8, <1>10, SentFacts
<1> DEFINE b == LowByte(k, j)
           c == ExtByte(LowByte(k, j))
<1>12. Sent(k, j) = <<b, c>> /\ c = ExtByte(b)
  BY <1>11
<1> HIDE DEF b, c
<1>13. Word(<<b, c>>) = <<b, c>>
  BY DEF Word
<1>14. regs[loc.reg] = <<b, c>>
  BY <1>8, <1>12, <1>13
<1> QED BY <1>12, <1>14

-------------------------------------------------------------------------------
(* Theorems *)

(***************************************************************************)
(* The variables keep their types, CCState never runs out of registers,    *)
(* and the room the call sequence makes is the caller's count of stack     *)
(* bytes.                                                                  *)
(***************************************************************************)
THEOREM TypeCorrect == Spec => []TypeOK
BY Always, InvTypes, PTL

(***************************************************************************)
(* However many arguments there are, of any pieces, sizes and alignments,  *)
(* AnalyzeArguments gives no two pieces the same register or byte, and     *)
(* none lies outside the registers of the convention and the area the      *)
(* call sequence makes room for.                                           *)
(***************************************************************************)
THEOREM LocationsApart == Spec => []LocationsDisjoint
<1>1. Inv => LocationsDisjoint
  BY DisjointPlaces DEF Inv
<1> QED BY <1>1, Always, PTL

(***************************************************************************)
(* The callee, which analyses its formals alone, receives what the caller  *)
(* passed, va_arg finds each variable argument, and the caller reads what  *)
(* the callee returned.                                                    *)
(***************************************************************************)
THEOREM ArgumentsArrive == Spec => []ValuesArrive
BY Always, InvValues, PTL

(***************************************************************************)
(* A byte the callee takes to be extended in its register was extended by  *)
(* the caller.                                                             *)
(***************************************************************************)
THEOREM ExtensionsHold == Spec => []AssertedExtensions
BY Always, InvExtensions, PTL
===============================================================================
