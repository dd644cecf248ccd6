-------------------------- MODULE MSP430Emission_proofs --------------------------
(***************************************************************************)
(* What is encoded, fixed up and linked is executed as it was written, and *)
(* disassembled as it is executed: proofs for every program, every place   *)
(* of its section and every width of words and jumps.                      *)
(***************************************************************************)
EXTENDS MSP430Emission, WellFoundedInduction, SequenceTheorems, TLAPS

-------------------------------------------------------------------------------
(* Words *)

LEMMA SpaceIs == Space \in Nat /\ Space > 0 /\ Space % 2 = 0 /\ Field \in Nat /\ Field > 0 /\ 4 * Field < Space
BY SpaceAssumption, FieldAssumption

LEMMA Spread ==
  \A a, b, c \in Int : a * (b + c) = a * b + a * c /\ a * (b - c) = a * b - a * c
OBVIOUS

\* Remainders are unique.
LEMMA Remainder ==
  ASSUME NEW b \in Nat, b > 0, NEW q \in Int, NEW r \in Int, 0 <= r, r < b
  PROVE  (b * q + r) % b = r
<1> DEFINE a == b * q + r
<1>1. /\ a \in Int /\ (a % b) \in Int /\ (a \div b) \in Int
      /\ 0 <= (a % b) /\ (a % b) < b /\ a = b * (a \div b) + (a % b)
  OBVIOUS
<1>2. b * (a \div b - q) = r - (a % b) /\ b * (q - a \div b) = (a % b) - r
  BY <1>1
<1>3. \A d \in Int : d >= 1 => b * d >= b
  OBVIOUS
<1> HIDE DEF a
<1>4. ~(a \div b - q >= 1) /\ ~(q - a \div b >= 1)
  BY <1>1, <1>2, <1>3
<1>5. a \div b = q
  BY <1>1, <1>4
<1>6. a % b = r
  BY <1>1, <1>2, <1>5
<1> QED BY <1>6 DEF a

\* A number is a multiple of the number of words and a word.
LEMMA WordOf ==
  ASSUME NEW v \in Int
  PROVE  /\ v % Space \in 0..(Space - 1) /\ v % Space \in Int
         /\ \E q \in Int : v = Space * q + (v % Space)
<1>1. PICK b \in Nat : b = Space /\ b > 0
  BY SpaceIs
<1>2. v % b \in 0..(b - 1) /\ v % b \in Int /\ v \div b \in Int /\ v = b * (v \div b) + (v % b)
  BY <1>1
<1> QED BY <1>1, <1>2

\* What differs by a multiple of it is the same word.
LEMMA SameWord ==
  ASSUME NEW v \in Int, NEW w \in Int, NEW k \in Int, v = Space * k + w
  PROVE  v % Space = w % Space
<1>1. PICK b \in Nat : b = Space /\ b > 0
  BY SpaceIs
<1>2. PICK q, r \in Int : w = b * q + r /\ 0 <= r /\ r < b
  <2>1. PICK q \in Int : w = Space * q + (w % Space)
    BY WordOf
  <2>2. PICK r \in Int : r = w % Space /\ r \in 0..(Space - 1)
    BY WordOf
  <2>3. w = b * q + r /\ 0 <= r /\ r < b
    BY <1>1, <2>1, <2>2
  <2> QED BY <2>3
<1>3. PICK p \in Int : p = k + q
  OBVIOUS
<1>4. v = b * p + r
  BY <1>1, <1>2, <1>3
<1>5. v % b = r /\ w % b = r
  BY <1>1, <1>2, <1>4, Remainder
<1> QED BY <1>1, <1>5

LEMMA WordIs ==
  ASSUME NEW d \in 0..(Space - 1)
  PROVE  d % Space = d
<1>1. Space \in Nat /\ Space > 0 /\ d \in Int /\ 0 <= d /\ d < Space
  BY SpaceIs
<1>2. (Space * 0 + d) % Space = d
  BY <1>1, Remainder
<1> QED BY <1>1, <1>2

\* To add to a word is to add to the number.
LEMMA WordSum ==
  ASSUME NEW v \in Int, NEW w \in Int
  PROVE  (v + (w % Space)) % Space = (v + w) % Space
<1>1. PICK q \in Int : w = Space * q + (w % Space)
  BY WordOf
<1>2. PICK u \in Int : u = w % Space
  BY WordOf
<1>3. v + w = Space * q + (v + u)
  BY <1>1, <1>2, SpaceIs
<1>4. (v + w) % Space = (v + u) % Space
  BY <1>3, SameWord
<1> QED BY <1>2, <1>4

\* A signed word.
LEMMA SignedIs ==
  ASSUME NEW v \in Int
  PROVE  /\ Signed(v) \in Int
         /\ -Space <= 2 * Signed(v) /\ 2 * Signed(v) < Space
         /\ \E k \in Int : v = Space * k + Signed(v)
         /\ Signed(v) % Space = v % Space
         /\ Signed(v) % 2 = v % 2
<1>1. PICK b \in Nat, h \in Nat : b = Space /\ b > 0 /\ b = 2 * h /\ h = Space \div 2
  BY SpaceIs
<1>2. PICK q, w \in Int : v = b * q + w /\ w \in 0..(b - 1) /\ w = v % Space
  BY <1>1, WordOf
<1>3. Signed(v) = IF w >= h THEN w - b ELSE w
  BY <1>1, <1>2 DEF Signed
<1>4. PICK s, k \in Int : s = Signed(v) /\ v = b * k + s /\ -b <= 2 * s /\ 2 * s < b
  <2>1. CASE w >= h
    <3>1. PICK k, s \in Int : k = q + 1 /\ s = w - b
      BY <1>1
    <3>2. b * k = b * q + b * 1
      BY <3>1, Spread
    <3>3. v = b * k + s
      BY <1>2, <3>1, <3>2
    <3>4. s = Signed(v)
      BY <1>3, <2>1, <3>1
    <3>5. -b <= 2 * s /\ 2 * s < b
      <4>1. b = 2 * h
        BY <1>1
      <4>2. w < b
        BY <1>2
      <4> QED BY <2>1, <3>1, <4>1, <4>2
    <3> QED BY <3>3, <3>4, <3>5
  <2>2. CASE ~(w >= h)
    <3>1. w = Signed(v) /\ -b <= 2 * w /\ 2 * w < b
      BY <1>1, <1>2, <1>3, <2>2
    <3> QED BY <1>2, <3>1
  <2> QED BY <2>1, <2>2
<1>5. s % Space = v % Space
  BY <1>1, <1>4, SameWord
<1>6. s % 2 = v % 2
  <2>1. PICK m \in Int : m = h * k
    BY <1>1
  <2>2. v = 2 * m + s
    BY <1>1, <1>4, <2>1
  <2> QED BY <2>2
<1> QED BY <1>1, <1>4, <1>5, <1>6

LEMMA SignedUnique ==
  ASSUME NEW v \in Int, NEW w \in Int, NEW k \in Int, v = Space * k + w,
         -Space <= 2 * w, 2 * w < Space
  PROVE  Signed(v) = w
<1>1. PICK b \in Nat : b = Space /\ b > 0
  BY SpaceIs
<1>2. PICK s, j \in Int : s = Signed(v) /\ v = b * j + s /\ -b <= 2 * s /\ 2 * s < b
  BY <1>1, SignedIs
<1>3. b * (k - j) = s - w /\ b * (j - k) = w - s
  <2>1. b * (k - j) = b * k - b * j /\ b * (j - k) = b * j - b * k
    BY Spread
  <2>2. v = b * k + w
    BY <1>1
  <2> QED BY <1>2, <2>1, <2>2
<1>4. s - w < b /\ w - s < b
  BY <1>1, <1>2
<1>5. \A d \in Int : d >= 1 => b * d >= b
  BY <1>1
<1>6. ~(k - j >= 1) /\ ~(j - k >= 1)
  BY <1>3, <1>4, <1>5
<1>7. k = j
  BY <1>6
<1> QED BY <1>1, <1>2, <1>3, <1>7

-------------------------------------------------------------------------------
(* Jumps *)

\* The field of a jump says its offset.
LEMMA FieldBack ==
  ASSUME NEW o \in -Field..(Field - 1)
  PROVE  /\ o % (2 * Field) \in 0..(2 * Field - 1)
         /\ (IF o % (2 * Field) >= Field THEN (o % (2 * Field)) - 2 * Field ELSE o % (2 * Field)) = o
<1>1. PICK b \in Nat : b = 2 * Field /\ b > 0
  BY SpaceIs
<1>2. o \in Int /\ -Field <= o /\ o < Field /\ Field \in Nat
  BY SpaceIs
<1>3. CASE o >= 0
  <2>1. (b * 0 + o) % b = o
    BY <1>1, <1>2, <1>3, Remainder
  <2>2. o % (2 * Field) = o
    BY <1>1, <1>2, <2>1
  <2> QED BY <1>2, <1>3, <2>2
<1>4. CASE o < 0
  <2>1. PICK r \in Int : r = o + b /\ 0 <= r /\ r < b
    BY <1>1, <1>2, <1>4
  <2>2. (b * (-1) + r) % b = r
    BY <1>1, <2>1, Remainder
  <2>3. b * (-1) + r = o
    BY <1>1, <2>1
  <2>4. o % (2 * Field) = o + 2 * Field
    BY <1>1, <2>1, <2>2, <2>3
  <2> QED BY <1>2, <1>4, <2>4
<1> QED BY <1>2, <1>3, <1>4

LEMMA FieldOf ==
  ASSUME NEW w \in Int
  PROVE  w % (2 * Field) \in 0..(2 * Field - 1)
<1>1. PICK b \in Nat : b = 2 * Field /\ b > 0
  BY SpaceIs
<1>2. w % b \in 0..(b - 1)
  BY <1>1
<1> QED BY <1>1, <1>2

LEMMA WordsIs ==
  ASSUME NEW v \in Int
  PROVE  /\ Words(v) \in Int
         /\ v % 2 # 1 => 2 * Words(v) = Signed(v) - 2
<1>1. PICK s \in Int : s = Signed(v) /\ s % 2 = v % 2
  BY SignedIs
<1>2. Words(v) = s \div 2 - 1
  BY <1>1 DEF Words
<1> QED BY <1>1, <1>2

\* A jump with a target at an even distance that fits goes there.
LEMMA JumpTo ==
  ASSUME NEW v \in Int, NEW a \in Int, v % 2 # 1
  PROVE  (a + 2 + 2 * Words(v)) % Space = (a + v) % Space
<1>1. PICK s, k \in Int : s = Signed(v) /\ v = Space * k + s
  BY SignedIs
<1>2. 2 * Words(v) = s - 2
  BY <1>1, WordsIs
<1>3. PICK w \in Int : w = Words(v)
  BY WordsIs
<1>4. PICK m \in Int : m = Space * k
  BY <1>1, SpaceIs
<1>5. a + v = m + (a + s)
  BY <1>1, <1>4
<1>6. (a + v) % Space = (a + s) % Space
  BY <1>1, <1>4, <1>5, SameWord
<1> QED BY <1>1, <1>2, <1>3, <1>6

\* What is refused is further away than the branch selector allows, or odd.
LEMMA OutOfReach ==
  ASSUME NEW v \in Int, JumpErrors(v) # {}
  PROVE  Signed(v - 2) % 2 = 1 \/ ~isInRage(Signed(v - 2))
<1>1. PICK s, k \in Int : s = Signed(v) /\ v = Space * k + s /\ -Space <= 2 * s /\ 2 * s < Space
                          /\ s % 2 = v % 2
  BY SignedIs
<1>2. PICK t \in Int : t = Signed(v - 2) /\ t % 2 = (v - 2) % 2
  <2>1. PICK z \in Int : z = v - 2
    OBVIOUS
  <2>2. Signed(z) \in Int /\ Signed(z) % 2 = z % 2
    BY SignedIs
  <2> QED BY <2>1, <2>2
<1>3. CASE v % 2 = 1
  BY <1>2, <1>3
<1>4. CASE v % 2 # 1
  <2>1. s \div 2 - 1 \notin -Field..(Field - 1)
    BY <1>1, <1>4 DEF JumpErrors, Words
  <2>2. CASE 2 * (s - 2) >= -Space
    <3>1. v - 2 = Space * k + (s - 2) /\ 2 * (s - 2) < Space /\ s - 2 \in Int
      <4>1. PICK m \in Int : m = Space * k
        BY <1>1, SpaceIs
      <4>2. v - 2 = m + (s - 2)
        BY <1>1, <4>1
      <4>3. 2 * (s - 2) < Space
        BY <1>1, SpaceIs
      <4> QED BY <4>1, <4>2, <4>3
    <3>2. t = s - 2
      BY <1>2, <2>2, <3>1, SignedUnique, <1>1
    <3>3. t \div 2 \notin -Field..(Field - 1)
      BY <2>1, <3>2
    <3> QED BY <1>2, <3>3 DEF isInRage
  <2>3. CASE ~(2 * (s - 2) >= -Space)
    <3>0. Space \in Nat /\ k \in Int /\ s \in Int
      BY SpaceIs
    <3>1. PICK j, u \in Int : j = k - 1 /\ u = s - 2 + Space
      BY <3>0
    <3>2. v - 2 = Space * j + u
      <4>1. Space * j = Space * k - Space * 1
        BY <3>0, <3>1, Spread
      <4>2. PICK m \in Int : m = Space * k
        BY <3>0
      <4>3. v = m + s /\ Space * j = m - Space
        BY <1>1, <3>0, <4>1, <4>2
      <4>4. PICK n \in Int : n = Space * j
        BY <3>0
      <4>5. n = m - Space
        BY <4>3, <4>4
      <4>6. v - 2 = n + u
        BY <3>0, <3>1, <4>3, <4>5
      <4> QED BY <4>4, <4>6
    <3>3. -Space <= 2 * u /\ 2 * u < Space
      <4>1. -Space <= 2 * s /\ 2 * s < Space
        BY <1>1
      <4>2. Space >= 4
        BY SpaceIs
      <4> QED BY <3>0, <2>3, <3>1, <4>1, <4>2
    <3>4. t = u
      <4>1. PICK z \in Int : z = v - 2
        OBVIOUS
      <4>2. z = Space * j + u
        BY <3>2, <4>1
      <4>3. Signed(z) = u
        BY <3>3, <4>2, SignedUnique
      <4> QED BY <1>2, <4>1, <4>3
    <3>5. s % 2 = 0
      BY <1>1, <1>4
    <3>6. PICK b, h \in Nat : b = Space /\ b = 2 * h
      <4>1. Space \div 2 \in Nat /\ Space = 2 * (Space \div 2)
        BY SpaceIs
      <4> QED BY <3>0, <4>1
    <3>7. s >= -h /\ h >= 2 * Field + 1
      <4>1. -Space <= 2 * s
        BY <1>1
      <4>2. b > 4 * Field /\ -b <= 2 * s /\ Field \in Nat
        BY <3>6, <4>1, SpaceIs
      <4>3. b = 2 * h
        BY <3>6
      <4> QED BY <4>2, <4>3
    <3>8. PICK f \in Nat : f = Field /\ f > 0
      BY SpaceIs
    <3>9. u >= 2 * f
      BY <3>1, <3>5, <3>6, <3>7, <3>8
    <3>10. u \div 2 >= f
      BY <3>9
    <3>11. u \div 2 \notin -f..(f - 1)
      BY <3>10
    <3> QED BY <1>2, <3>4, <3>8, <3>11 DEF isInRage
  <2> QED BY <2>2, <2>3
<1> QED BY <1>3, <1>4

\* The value a record of a relocation leaves in a jump is no error.
LEMMA NoJumpError == JumpErrors(0) = {}
<1>1. Signed(0) = 0
  <2>1. 0 = Space * 0 + 0 /\ -Space <= 2 * 0 /\ 2 * 0 < Space
    BY SpaceIs
  <2>2. \A v, w, k \in Int : v = Space * k + w /\ -Space <= 2 * w /\ 2 * w < Space => Signed(v) = w
    BY SignedUnique
  <2> HIDE DEF Signed
  <2> QED BY <2>1, <2>2
<1>2. Words(0) = -1
  BY <1>1 DEF Words
<1> QED BY <1>2, SpaceIs DEF JumpErrors

-------------------------------------------------------------------------------
(* What is zero is overwritten by a fixup: the recursive definition of BitOr *)
(* is one.                                                                   *)

LEMMA LeastNumber ==
  ASSUME NEW T \in SUBSET Nat, T # {}
  PROVE  \E x \in T : \A y \in T : x <= y
<1> DEFINE R == {p \in Nat \X Nat : p[1] < p[2]}
<1>1. IsWellFoundedOn(R, Nat)
  BY NatLessThanWellFounded DEF OpToRel
<1>2. PICK x \in T : \A y \in T : ~(<<y, x>> \in R)
  <2> HIDE DEF R
  <2> QED BY <1>1, WFMin
<1>3. \A y \in T : ~(y < x)
  BY <1>2
<1> QED BY <1>3

\* The words or'ed with v, by those or'ed with its half.
Ors(f, v) ==
  [w \in Nat |-> IF v = 0 THEN w
                 ELSE 2 * f[v \div 2][w \div 2] + (IF v % 2 = 1 \/ w % 2 = 1 THEN 1 ELSE 0)]

OrsUpTo(k, f) == f = [v \in 0..k |-> f[v]] /\ \A v \in 0..k : f[v] = Ors(f, v)

LEMMA OrsLocal ==
  ASSUME NEW f, NEW g, NEW v \in Nat, v > 0 => f[v \div 2] = g[v \div 2]
  PROVE  Ors(f, v) = Ors(g, v)
<1>1. CASE v = 0
  BY <1>1 DEF Ors
<1>2. CASE v # 0
  <2>1. f[v \div 2] = g[v \div 2]
    BY <1>2
  <2> QED BY <1>2, <2>1, Zenon DEF Ors
<1> QED BY <1>1, <1>2

LEMMA OrsStart == \E f : OrsUpTo(0, f)
<1> DEFINE f == [v \in 0..0 |-> Ors(<<>>, v)]
<1>1. f = [v \in 0..0 |-> f[v]] /\ f[0] = Ors(<<>>, 0)
  OBVIOUS
<1>2. Ors(f, 0) = Ors(<<>>, 0)
  BY OrsLocal
<1>3. \A v \in 0..0 : v = 0
  OBVIOUS
<1> HIDE DEF f
<1>4. \A v \in 0..0 : f[v] = Ors(f, v)
  BY <1>1, <1>2, <1>3
<1> QED BY <1>1, <1>4 DEF OrsUpTo

LEMMA OrsStep ==
  ASSUME NEW k \in Nat, NEW f, OrsUpTo(k, f)
  PROVE  \E g : OrsUpTo(k + 1, g)
<1> DEFINE g == [v \in 0..(k + 1) |-> IF v = k + 1 THEN Ors(f, v) ELSE f[v]]
<1>1. g = [v \in 0..(k + 1) |-> g[v]]
  OBVIOUS
<1>2. \A v \in 0..k : g[v] = f[v] /\ f[v] = Ors(f, v)
  BY DEF OrsUpTo
<1>3. g[k + 1] = Ors(f, k + 1)
  OBVIOUS
<1> HIDE DEF g
<1>4. \A v \in 0..(k + 1) : Ors(g, v) = Ors(f, v)
  <2> SUFFICES ASSUME NEW v \in 0..(k + 1) PROVE Ors(g, v) = Ors(f, v)
    OBVIOUS
  <2>1. v > 0 => v \div 2 \in 0..k
    OBVIOUS
  <2>2. v > 0 => g[v \div 2] = f[v \div 2]
    BY <1>2, <2>1
  <2> QED BY <2>2, OrsLocal
<1>5. \A v \in 0..(k + 1) : g[v] = Ors(g, v)
  <2> SUFFICES ASSUME NEW v \in 0..(k + 1) PROVE g[v] = Ors(g, v)
    OBVIOUS
  <2>1. v \in 0..k \/ v = k + 1
    OBVIOUS
  <2> QED BY <1>2, <1>3, <1>4, <2>1
<1> QED BY <1>1, <1>5 DEF OrsUpTo

LEMMA OrsExist == \A k \in Nat : \E f : OrsUpTo(k, f)
<1> DEFINE T == {k \in Nat : ~ \E f : OrsUpTo(k, f)}
<1> SUFFICES ASSUME T # {} PROVE FALSE
  OBVIOUS
<1>1. PICK k \in T : \A j \in T : k <= j
  <2>1. T \in SUBSET Nat
    OBVIOUS
  <2> HIDE DEF T
  <2> QED BY <2>1, LeastNumber
<1>2. k # 0
  BY OrsStart
<1>3. PICK j \in Nat : k = j + 1
  <2>1. k \in Nat
    OBVIOUS
  <2>2. k - 1 \in Nat /\ k = (k - 1) + 1
    BY <1>2, <2>1
  <2> QED BY <2>2
<1>4. j \notin T
  <2>1. ~(k <= j)
    BY <1>3
  <2> QED BY <1>1, <2>1
<1>5. PICK f : OrsUpTo(j, f)
  BY <1>4
<1>6. \E g : OrsUpTo(k, g)
  BY <1>3, <1>5, OrsStep
<1> QED BY <1>6

LEMMA OrZero == \A w \in Nat : BitOr[0][w] = w
<1>1. PICK k \in Nat : k = Space - 1
  BY SpaceIs
<1>2. PICK h : OrsUpTo(k, h)
  BY OrsExist
<1>3. h = [v \in 0..k |-> Ors(h, v)]
  <2> DEFINE e == [v \in 0..k |-> Ors(h, v)]
  <2>1. \A v \in 0..k : h[v] = e[v]
    BY <1>2 DEF OrsUpTo
  <2>2. h = [v \in 0..k |-> h[v]]
    BY <1>2, Zenon DEF OrsUpTo
  <2>3. e = [v \in 0..k |-> e[v]]
    OBVIOUS
  <2> HIDE DEF e
  <2>4. h = e
    BY <2>1, <2>2, <2>3, Zenon
  <2> QED BY <2>4 DEF e
<1>4. BitOr = [v \in 0..(Space - 1) |-> Ors(BitOr, v)]
  <2>1. h = [v \in 0..(Space - 1) |-> Ors(h, v)]
    BY <1>1, <1>3, Zenon
  <2>2. \E f : f = [v \in 0..(Space - 1) |-> Ors(f, v)]
    BY <2>1, Zenon
  <2> QED BY <2>2, Zenon DEF BitOr, Ors
<1>5. BitOr[0] = Ors(BitOr, 0)
  <2>1. 0 \in 0..(Space - 1)
    BY SpaceIs
  <2> QED BY <1>4, <2>1, Zenon
<1>6. PICK b : b = BitOr
  OBVIOUS
<1>7. b[0] = Ors(b, 0)
  BY <1>5, <1>6, Zenon
<1>8. \A w \in Nat : b[0][w] = w
  BY <1>7, Zenon DEF Ors
<1> QED BY <1>6, <1>8

-------------------------------------------------------------------------------
(* Instructions *)

\* What ProgramsAssumption says of an instruction, whatever was read after it.
Sound(i) ==
  /\ i \in [op : Ops, cond : CondCodes, src : Operands, dst : Operands]
  /\ WellFormed(i)
  /\ HasMode(i.src) /\ InMemory(i.src.disp)
  /\ HasMode(i.dst) /\ InMemory(i.dst.disp)
  /\ i.op = "jump" => ParsesTarget(i)

LEMMA OperandIs ==
  ASSUME NEW o \in Operands
  PROVE  /\ o.mode \in {"none", "reg", "imm", "cg", "mem", "ind", "post", "target"}
         /\ o.reg \in 0..15 /\ o.disp \in References
         /\ o = [mode |-> o.mode, reg |-> o.reg, disp |-> o.disp]
BY DEF Operands

LEMMA ReferenceIs ==
  ASSUME NEW d \in References
  PROVE  /\ d.add \in Int
         /\ d.sym # NoSym => /\ d.sym.def \in {"here", "weak", "else"}
                             /\ d.sym.off \in Nat /\ d.sym.addr \in 0..(Space - 1)
BY DEF References, NoSym

LEMMA CondBack ==
  \A c \in CondCodes :
    /\ NamedCond(CondName[c]) = c
    /\ CCOpValue[c] \in 0..7
    /\ Jumps[CCOpValue[c] + 1] = c
    /\ getCondCode[CCOpValue[c] + 1] = c
<1>1. NamedCond(CondName["E"]) = "E" /\ CCOpValue["E"] = 1 /\ Jumps[2] = "E" /\ getCondCode[2] = "E"
  BY DEF NamedCond, CondName, CCOpValue, Jumps, getCondCode
<1>2. NamedCond(CondName["NE"]) = "NE" /\ CCOpValue["NE"] = 0 /\ Jumps[1] = "NE" /\ getCondCode[1] = "NE"
  BY DEF NamedCond, CondName, CCOpValue, Jumps, getCondCode
<1>3. NamedCond(CondName["HS"]) = "HS" /\ CCOpValue["HS"] = 3 /\ Jumps[4] = "HS" /\ getCondCode[4] = "HS"
  BY DEF NamedCond, CondName, CCOpValue, Jumps, getCondCode
<1>4. NamedCond(CondName["LO"]) = "LO" /\ CCOpValue["LO"] = 2 /\ Jumps[3] = "LO" /\ getCondCode[3] = "LO"
  BY DEF NamedCond, CondName, CCOpValue, Jumps, getCondCode
<1>5. NamedCond(CondName["GE"]) = "GE" /\ CCOpValue["GE"] = 5 /\ Jumps[6] = "GE" /\ getCondCode[6] = "GE"
  BY DEF NamedCond, CondName, CCOpValue, Jumps, getCondCode
<1>6. NamedCond(CondName["L"]) = "L" /\ CCOpValue["L"] = 6 /\ Jumps[7] = "L" /\ getCondCode[7] = "L"
  BY DEF NamedCond, CondName, CCOpValue, Jumps, getCondCode
<1>7. NamedCond(CondName["N"]) = "N" /\ CCOpValue["N"] = 4 /\ Jumps[5] = "N" /\ getCondCode[5] = "N"
  BY DEF NamedCond, CondName, CCOpValue, Jumps, getCondCode
<1>8. /\ NamedCond(CondName["NONE"]) = "NONE" /\ CCOpValue["NONE"] = 7
      /\ Jumps[8] = "NONE" /\ getCondCode[8] = "NONE"
  BY DEF NamedCond, CondName, CCOpValue, Jumps, getCondCode
<1>9. \A c \in CondCodes : c \in {"E", "NE", "HS", "LO", "GE", "L", "N", "NONE"}
  BY DEF CondCodes
<1> QED BY <1>1, <1>2, <1>3, <1>4, <1>5, <1>6, <1>7, <1>8, <1>9

\* The modes the operands of each operation may have.
LEMMA ModesIs ==
  ASSUME NEW i, i.op \in Ops, WellFormed(i)
  PROVE  /\ i.op = "jump" => i.src.mode = "none" /\ i.dst.mode = "target"
         /\ i.op \in {"call", "push", "rra"} =>
              i.src.mode \in {"reg", "imm", "cg", "mem", "ind", "post"} /\ i.dst.mode = "none"
         /\ i.op \in {"add", "mov", "br"} =>
              i.src.mode \in {"reg", "imm", "cg", "mem", "ind", "post"} /\ i.dst.mode \in {"reg", "mem"}
         /\ i.op \in {"call", "br"} => i.src.mode # "cg"
         /\ i.op = "br" => i.src.mode \in {"imm", "reg", "mem"} /\ i.dst.mode = "reg"
         /\ i.op = "call" => i.src.mode \in {"reg", "imm", "mem", "ind", "post"}
         /\ i.op = "push" => i.src.mode \in {"reg", "imm", "cg"}
         /\ i.op = "rra" => i.src.mode \in {"reg", "mem", "ind", "post"}
         /\ i.op = "mov" => ~(i.src.mode = "post" /\ i.dst.mode = "mem")
<1> DEFINE s == i.src.mode
           d == i.dst.mode
<1>1. <<s, d>> \in Forms(i.op)
  BY DEF WellFormed
<1> HIDE DEF s, d
<1>2. CASE i.op = "add"
  <2>1. Forms(i.op) = {"reg", "imm", "cg", "mem", "ind", "post"} \X {"reg", "mem"}
    BY <1>2 DEF Forms
  <2> QED BY <1>1, <1>2, <2>1 DEF s, d
<1>3. CASE i.op = "mov"
  <2>1. Forms(i.op) = ({"reg", "imm", "cg", "mem", "ind", "post"} \X {"reg", "mem"}) \ {<<"post", "mem">>}
    BY <1>3 DEF Forms
  <2> QED BY <1>1, <1>3, <2>1 DEF s, d
<1>4. CASE i.op = "br"
  <2>1. Forms(i.op) = {<<"imm", "reg">>, <<"reg", "reg">>, <<"mem", "reg">>}
    BY <1>4 DEF Forms
  <2> QED BY <1>1, <1>4, <2>1 DEF s, d
<1>5. CASE i.op = "call"
  <2>1. Forms(i.op) = {"reg", "imm", "mem", "ind", "post"} \X {"none"}
    BY <1>5 DEF Forms
  <2> QED BY <1>1, <1>5, <2>1 DEF s, d
<1>6. CASE i.op = "push"
  <2>1. Forms(i.op) = {"reg", "imm", "cg"} \X {"none"}
    BY <1>6 DEF Forms
  <2> QED BY <1>1, <1>6, <2>1 DEF s, d
<1>7. CASE i.op = "rra"
  <2>1. Forms(i.op) = {"reg", "mem", "ind", "post"} \X {"none"}
    BY <1>7 DEF Forms
  <2> QED BY <1>1, <1>7, <2>1 DEF s, d
<1>8. CASE i.op = "jump"
  <2>1. Forms(i.op) = {<<"none", "target">>}
    BY <1>8 DEF Forms
  <2> QED BY <1>1, <1>8, <2>1 DEF s, d
<1> QED BY <1>2, <1>3, <1>4, <1>5, <1>6, <1>7, <1>8 DEF Ops

\* The source that is read for the one that was written.
SourceText(op, o) ==
  IF op \in {"call", "br"} /\ Reparsed(o, FALSE).mode = "cg"
  THEN [Reparsed(o, FALSE) EXCEPT !.mode = "imm"] ELSE Reparsed(o, FALSE)

Instructions == [op : Ops, cond : CondCodes, src : Operands, dst : Operands]

LEMMA ReparsedIs ==
  ASSUME NEW o \in Operands, o.mode # "target" \/ o.disp.sym # NoSym
  PROVE  /\ o.mode \in {"imm", "cg"} =>
              \A b \in BOOLEAN : /\ Reparsed(o, b).mode = IF Generated(o) THEN "cg" ELSE "imm"
                                 /\ Reparsed(o, b).reg = o.reg /\ Reparsed(o, b).disp = o.disp
                                 /\ Reparsed(o, b) \in Operands
         /\ ZeroIndexed(o) => /\ Reparsed(o, FALSE).mode = "ind"
                              /\ Reparsed(o, FALSE).reg = o.reg /\ Reparsed(o, FALSE).disp = o.disp
                              /\ Reparsed(o, FALSE) \in Operands
         /\ o.mode \notin {"imm", "cg"} /\ ~ZeroIndexed(o) => Reparsed(o, FALSE) = o
         /\ o.mode \notin {"imm", "cg"} => Reparsed(o, TRUE) = o
<1>1. /\ o.mode \in {"none", "reg", "imm", "cg", "mem", "ind", "post", "target"}
      /\ o.reg \in 0..15 /\ o.disp \in References
      /\ o = [mode |-> o.mode, reg |-> o.reg, disp |-> o.disp]
  BY OperandIs
<1>2. PICK m, r, d : m = o.mode /\ r = o.reg /\ d = o.disp
  OBVIOUS
<1>3. o = [mode |-> m, reg |-> r, disp |-> d]
  BY <1>1, <1>2
<1>4. \A n \in {"cg", "imm", "ind"} :
        /\ [o EXCEPT !.mode = n].mode = n
        /\ [o EXCEPT !.mode = n].reg = r /\ [o EXCEPT !.mode = n].disp = d
        /\ [o EXCEPT !.mode = n] \in Operands
  BY <1>1, <1>2, <1>3 DEF Operands
<1>5. ASSUME o.mode \in {"imm", "cg"}, NEW b \in BOOLEAN
      PROVE  Reparsed(o, b) = [o EXCEPT !.mode = IF Generated(o) THEN "cg" ELSE "imm"]
  BY <1>5 DEF Reparsed, ZeroIndexed
<1>6. ZeroIndexed(o) => Reparsed(o, FALSE) = [o EXCEPT !.mode = "ind"]
  BY DEF Reparsed, ZeroIndexed
<1>7. o.mode \notin {"imm", "cg"} /\ ~ZeroIndexed(o) => Reparsed(o, FALSE) = o
  BY DEF Reparsed
<1>8. o.mode \notin {"imm", "cg"} => Reparsed(o, TRUE) = o
  BY DEF Reparsed
<1> QED BY <1>2, <1>4, <1>5, <1>6, <1>7, <1>8

LEMMA SourceTextIs ==
  ASSUME NEW o \in Operands, NEW op, o.mode # "target"
  PROVE  LET t == SourceText(op, o) IN
         /\ t \in Operands /\ t.reg = o.reg /\ t.disp = o.disp
         /\ o.mode \in {"imm", "cg"} =>
              t.mode = IF Generated(o) /\ op \notin {"call", "br"} THEN "cg" ELSE "imm"
         /\ ZeroIndexed(o) => t.mode = "ind"
         /\ o.mode \notin {"imm", "cg"} /\ ~ZeroIndexed(o) => t = o
<1>1. CASE o.mode \in {"imm", "cg"}
  <2>1. /\ Reparsed(o, FALSE).mode = IF Generated(o) THEN "cg" ELSE "imm"
        /\ Reparsed(o, FALSE).reg = o.reg /\ Reparsed(o, FALSE).disp = o.disp
        /\ Reparsed(o, FALSE) \in Operands
    BY <1>1, ReparsedIs
  <2>2. PICK q \in Operands : q = Reparsed(o, FALSE)
    BY <2>1
  <2>3. /\ [q EXCEPT !.mode = "imm"] \in Operands /\ [q EXCEPT !.mode = "imm"].mode = "imm"
        /\ [q EXCEPT !.mode = "imm"].reg = q.reg /\ [q EXCEPT !.mode = "imm"].disp = q.disp
    BY OperandIs DEF Operands
  <2>4. SourceText(op, o) =
          IF op \in {"call", "br"} /\ q.mode = "cg" THEN [q EXCEPT !.mode = "imm"] ELSE q
    BY <2>2 DEF SourceText
  <2>5. ~ZeroIndexed(o)
    BY <1>1 DEF ZeroIndexed
  <2> QED BY <1>1, <2>1, <2>2, <2>3, <2>4, <2>5
<1>2. CASE o.mode \notin {"imm", "cg"} /\ ZeroIndexed(o)
  <2>1. SourceText(op, o) = Reparsed(o, FALSE)
    BY <1>2, ReparsedIs DEF SourceText
  <2>2. /\ Reparsed(o, FALSE).mode = "ind" /\ Reparsed(o, FALSE) \in Operands
        /\ Reparsed(o, FALSE).reg = o.reg /\ Reparsed(o, FALSE).disp = o.disp
    BY <1>2, ReparsedIs
  <2> QED BY <1>2, <2>1, <2>2
<1>3. CASE o.mode \notin {"imm", "cg"} /\ ~ZeroIndexed(o)
  <2>1. SourceText(op, o) = o
    BY <1>3, ReparsedIs DEF SourceText
  <2> QED BY <1>3, <2>1
<1> QED BY <1>1, <1>2, <1>3

LEMMA ThroughTextIs ==
  ASSUME NEW i \in Instructions
  PROVE  LET t == ThroughText(i) IN
         /\ t.op = i.op /\ t.cond = i.cond
         /\ t.src = SourceText(i.op, i.src) /\ t.dst = Reparsed(i.dst, TRUE)
         /\ t = [op |-> t.op, cond |-> t.cond, src |-> t.src, dst |-> t.dst]
<1>1. PICK s, d, c : s = Reparsed(i.src, FALSE) /\ d = Reparsed(i.dst, TRUE)
                     /\ c = NamedCond(CondName[i.cond])
  OBVIOUS
<1>2. c = i.cond
  BY <1>1, CondBack DEF Instructions
<1>3. PICK j : j = [i EXCEPT !.src = s, !.dst = d, !.cond = c]
  OBVIOUS
<1>4. j = [op |-> i.op, cond |-> c, src |-> s, dst |-> d]
  BY <1>3 DEF Instructions
<1>5. ThroughText(i) = Matched(j)
  BY <1>1, <1>3 DEF ThroughText
<1>6. Matched(j) = IF i.op \in {"call", "br"} /\ s.mode = "cg" THEN [j EXCEPT !.src.mode = "imm"] ELSE j
  BY <1>4 DEF Matched
<1>7. [j EXCEPT !.src.mode = "imm"] = [op |-> i.op, cond |-> c, src |-> [s EXCEPT !.mode = "imm"], dst |-> d]
  BY <1>4
<1>8. SourceText(i.op, i.src) = IF i.op \in {"call", "br"} /\ s.mode = "cg" THEN [s EXCEPT !.mode = "imm"] ELSE s
  BY <1>1 DEF SourceText
<1>9. ThroughText(i) = [op |-> i.op, cond |-> i.cond, src |-> SourceText(i.op, i.src), dst |-> d]
  BY <1>2, <1>4, <1>5, <1>6, <1>7, <1>8
<1> QED BY <1>1, <1>9

\* What is read for a well-formed instruction is one, if its jump goes to a
\* symbol and it is no branch through 0(rn).
LEMMA TextWellFormed ==
  ASSUME NEW i \in Instructions, WellFormed(i),
         i.op = "jump" => i.dst.disp.sym # NoSym,
         i.op = "br" => ~ZeroIndexed(i.src)
  PROVE  /\ ThroughText(i) \in Instructions /\ WellFormed(ThroughText(i))
         /\ ThroughText(i).op = i.op /\ ThroughText(i).cond = i.cond /\ ThroughText(i).dst = i.dst
<1>1. PICK t : t = ThroughText(i)
  OBVIOUS
<1>2. /\ i.op \in Ops /\ i.cond \in CondCodes /\ i.src \in Operands /\ i.dst \in Operands
  BY DEF Instructions
<1>3. /\ t.op = i.op /\ t.cond = i.cond
      /\ t.src = SourceText(i.op, i.src) /\ t.dst = Reparsed(i.dst, TRUE)
      /\ t = [op |-> t.op, cond |-> t.cond, src |-> t.src, dst |-> t.dst]
  BY <1>1, ThroughTextIs
<1>4. i.src.mode # "target" /\ i.dst.mode \notin {"imm", "cg"}
      /\ (i.dst.mode # "target" \/ i.dst.disp.sym # NoSym)
  BY <1>2, ModesIs DEF Ops
<1>5. t.dst = i.dst
  BY <1>2, <1>3, <1>4, ReparsedIs
<1>6. PICK s : s = t.src
  OBVIOUS
<1>7. /\ s \in Operands /\ s.reg = i.src.reg /\ s.disp = i.src.disp
      /\ i.src.mode \in {"imm", "cg"} =>
           s.mode = IF Generated(i.src) /\ i.op \notin {"call", "br"} THEN "cg" ELSE "imm"
      /\ ZeroIndexed(i.src) => s.mode = "ind"
      /\ i.src.mode \notin {"imm", "cg"} /\ ~ZeroIndexed(i.src) => s = i.src
  BY <1>2, <1>3, <1>4, <1>6, SourceTextIs
<1>8. t \in Instructions
  BY <1>2, <1>3, <1>5, <1>6, <1>7 DEF Instructions
<1>9. <<s.mode, t.dst.mode>> \in Forms(t.op)
  <2>1. /\ i.src.mode \in {"imm", "cg"} => s.mode \in {"imm", "cg"}
        /\ i.src.mode \in {"imm", "cg"} /\ i.op \in {"call", "br"} => s.mode = "imm"
        /\ i.src.mode \notin {"imm", "cg", "mem"} => s.mode = i.src.mode
        /\ i.src.mode = "mem" => s.mode \in {"mem", "ind"} /\ (i.op = "br" => s.mode = "mem")
    BY <1>7 DEF ZeroIndexed
  <2>2. PICK m, d : m = s.mode /\ d = i.dst.mode
    OBVIOUS
  <2>3. CASE i.op = "add"
    <3>1. Forms(t.op) = {"reg", "imm", "cg", "mem", "ind", "post"} \X {"reg", "mem"}
      BY <1>3, <2>3 DEF Forms
    <3> QED BY <1>2, <1>5, <2>1, <2>2, <2>3, <3>1, ModesIs
  <2>4. CASE i.op = "mov"
    <3>1. Forms(t.op) = ({"reg", "imm", "cg", "mem", "ind", "post"} \X {"reg", "mem"}) \ {<<"post", "mem">>}
      BY <1>3, <2>4 DEF Forms
    <3> QED BY <1>2, <1>5, <2>1, <2>2, <2>4, <3>1, ModesIs
  <2>5. CASE i.op = "br"
    <3>1. Forms(t.op) = {<<"imm", "reg">>, <<"reg", "reg">>, <<"mem", "reg">>}
      BY <1>3, <2>5 DEF Forms
    <3> QED BY <1>2, <1>5, <2>1, <2>2, <2>5, <3>1, ModesIs
  <2>6. CASE i.op = "call"
    <3>1. Forms(t.op) = {"reg", "imm", "mem", "ind", "post"} \X {"none"}
      BY <1>3, <2>6 DEF Forms
    <3> QED BY <1>2, <1>5, <2>1, <2>2, <2>6, <3>1, ModesIs
  <2>7. CASE i.op = "push"
    <3>1. Forms(t.op) = {"reg", "imm", "cg"} \X {"none"}
      BY <1>3, <2>7 DEF Forms
    <3> QED BY <1>2, <1>5, <2>1, <2>2, <2>7, <3>1, ModesIs
  <2>8. CASE i.op = "rra"
    <3>1. Forms(t.op) = {"reg", "mem", "ind", "post"} \X {"none"}
      BY <1>3, <2>8 DEF Forms
    <3> QED BY <1>2, <1>5, <2>1, <2>2, <2>8, <3>1, ModesIs
  <2>9. CASE i.op = "jump"
    <3>1. Forms(t.op) = {<<"none", "target">>}
      BY <1>3, <2>9 DEF Forms
    <3> QED BY <1>2, <1>5, <2>1, <2>2, <2>9, <3>1, ModesIs
  <2> QED BY <1>2, <2>3, <2>4, <2>5, <2>6, <2>7, <2>8, <2>9 DEF Ops
<1>10. s.mode = "cg" => s.disp.sym = NoSym /\ s.disp.add \in CGValues
  <2>1. CASE i.src.mode \in {"imm", "cg"}
    BY <1>7, <2>1 DEF Generated
  <2>2. CASE i.src.mode \notin {"imm", "cg"}
    BY <1>7, <2>2 DEF ZeroIndexed
  <2> QED BY <2>1, <2>2
<1>11. WellFormed(t)
  <2>1. /\ i.op = "br" => i.dst.reg = PCReg
        /\ i.cond \in CondCodes /\ (i.op # "jump" => i.cond = "NONE")
    BY DEF WellFormed
  <2> QED BY <1>3, <1>5, <1>6, <1>9, <1>10, <2>1 DEF WellFormed
<1> QED BY <1>1, <1>3, <1>5, <1>8, <1>11

LEMMA TextSound ==
  ASSUME NEW i, Sound(i),
         i.op = "jump" => i.dst.disp.sym # NoSym,
         i.op = "br" => ~ZeroIndexed(i.src)
  PROVE  Sound(ThroughText(i))
<1>1. i \in Instructions /\ WellFormed(i)
  BY DEF Sound, Instructions
<1>2. PICK t : t = ThroughText(i)
  OBVIOUS
<1>3. /\ t \in Instructions /\ WellFormed(t)
      /\ t.op = i.op /\ t.cond = i.cond /\ t.dst = i.dst
      /\ t.src = SourceText(i.op, i.src)
  BY <1>1, <1>2, TextWellFormed, ThroughTextIs
<1>4. i.src \in Operands /\ i.src.mode # "target" /\ i.op \in Ops
  BY <1>1, ModesIs DEF Instructions, Ops
<1>5. PICK s : s = t.src
  OBVIOUS
<1>6. /\ s \in Operands /\ s.reg = i.src.reg /\ s.disp = i.src.disp
      /\ i.src.mode \in {"imm", "cg"} =>
           s.mode = IF Generated(i.src) /\ i.op \notin {"call", "br"} THEN "cg" ELSE "imm"
      /\ ZeroIndexed(i.src) => s.mode = "ind"
      /\ i.src.mode \notin {"imm", "cg"} /\ ~ZeroIndexed(i.src) => s = i.src
  BY <1>3, <1>4, <1>5, SourceTextIs
<1>7. HasMode(i.src) /\ InMemory(i.src.disp) /\ HasMode(i.dst) /\ InMemory(i.dst.disp)
  BY DEF Sound
<1>8. HasMode(s)
  <2>1. CASE i.src.mode \in {"imm", "cg"}
    BY <1>6, <2>1 DEF HasMode
  <2>2. CASE ZeroIndexed(i.src)
    BY <1>6, <1>7, <2>2 DEF HasMode, ZeroIndexed
  <2> QED BY <1>6, <1>7, <2>1, <2>2
<1>9. InMemory(s.disp)
  BY <1>6, <1>7
<1>10. t.op = "jump" => ParsesTarget(t)
  BY <1>3 DEF ParsesTarget
<1> QED BY <1>2, <1>3, <1>5, <1>7, <1>8, <1>9, <1>10 DEF Sound, Instructions

\* It means the same, if the word of a destination beside PC is where it was.
LEMMA TextMeans ==
  ASSUME NEW i \in Instructions, WellFormed(i),
         i.op = "jump" => i.dst.disp.sym # NoSym,
         i.op = "br" => ~ZeroIndexed(i.src),
         CountedFromPC(i.dst) => HasWord(ThroughText(i).src) = HasWord(i.src)
  PROVE  /\ Meant(ThroughText(i)).src = Meant(i).src
         /\ Meant(ThroughText(i)).dst = Meant(i).dst
<1>1. PICK t : t = ThroughText(i)
  OBVIOUS
<1>2. /\ t.dst = i.dst /\ t.src = SourceText(i.op, i.src)
  BY <1>1, TextWellFormed, ThroughTextIs
<1>3. i.src \in Operands /\ i.src.mode # "target"
  BY ModesIs DEF Instructions, Ops
<1>4. PICK s : s = t.src
  OBVIOUS
<1>5. /\ s \in Operands /\ s.reg = i.src.reg /\ s.disp = i.src.disp
      /\ i.src.mode \in {"imm", "cg"} => s.mode \in {"cg", "imm"}
      /\ ZeroIndexed(i.src) => s.mode = "ind"
      /\ i.src.mode \notin {"imm", "cg"} /\ ~ZeroIndexed(i.src) => s = i.src
  BY <1>2, <1>3, <1>4, SourceTextIs
<1>6. Meaning(s, 1) = Meaning(i.src, 1)
  <2>1. CASE i.src.mode \in {"imm", "cg"}
    <3>1. Meaning(s, 1) = Const(Value(s.disp)) /\ Meaning(i.src, 1) = Const(Value(i.src.disp))
      BY <1>5, <2>1 DEF Meaning
    <3> QED BY <1>5, <3>1
  <2>2. CASE ZeroIndexed(i.src)
    <3>1. Meaning(s, 1) = Near(s.reg, 0)
      BY <1>5, <2>2 DEF Meaning
    <3>2. Meaning(i.src, 1) = Near(i.src.reg, Value(i.src.disp))
      BY <2>2 DEF Meaning, ZeroIndexed
    <3>3. Value(i.src.disp) = 0
      BY <2>2 DEF Value, ZeroIndexed, Imm
    <3> QED BY <1>5, <3>1, <3>2, <3>3
  <2> QED BY <1>5, <2>1, <2>2
<1>7. Meaning(t.dst, DstSlot(t)) = Meaning(i.dst, DstSlot(i))
  <2>1. CASE CountedFromPC(i.dst)
    <3>1. DstSlot(t) = DstSlot(i)
      BY <1>1, <2>1 DEF DstSlot
    <3> QED BY <1>2, <3>1
  <2>2. CASE ~CountedFromPC(i.dst)
    <3>1. \A j, k : Meaning(i.dst, j) = Meaning(i.dst, k)
      <4> SUFFICES ASSUME NEW j, NEW k PROVE Meaning(i.dst, j) = Meaning(i.dst, k)
        OBVIOUS
      <4>1. i.dst.mode \in {"none", "reg", "mem", "target"}
        BY ModesIs DEF Instructions, Ops
      <4>2. i.dst.mode # "mem" => Meaning(i.dst, j) = Meaning(i.dst, k)
        BY <4>1 DEF Meaning
      <4>3. i.dst.mode = "mem" => Meaning(i.dst, j) = Meaning(i.dst, k)
        BY <2>2 DEF Meaning, CountedFromPC, PCReg, SR
      <4> QED BY <4>2, <4>3
    <3> QED BY <1>2, <3>1
  <2> QED BY <2>1, <2>2
<1> QED BY <1>1, <1>2, <1>4, <1>6, <1>7 DEF Meant

-------------------------------------------------------------------------------
(* The inductive invariant: which operands are encoded, which have a fixup   *)
(* or a relocation still to come, and what that leaves in the words.         *)

Names == {"src", "dst"}
Opnd(i, x) == IF x = "src" THEN i.src ELSE i.dst
Slot(i, x) == IF x = "src" THEN 1 ELSE DstSlot(i)
HasSym(o) == o.disp.sym # NoSym

\* The fixup of an operand with a symbol, and its relocation.
Fix(i, x) ==
  LET o == Opnd(i, x)
  IN [offset |-> IF o.mode = "target" THEN 0 ELSE 2 * Slot(i, x), kind |-> FixupKind(o), disp |-> o.disp]

Reloc(f) == [f EXCEPT !.offset = at + @]

\* The fixups, or the relocations, of the operands in Q.
Queue(q, Q, s, d) ==
  /\ Q = {"src", "dst"} => q = <<s, d>>
  /\ Q = {"src"} => q = <<s>>
  /\ Q = {"dst"} => q = <<d>>
  /\ Q = {} => q = <<>>

HasBeenEncoded(x) == IF x = "src" THEN todo # <<"src", "dst">> ELSE todo = <<>>

Relocating == pc \in {"relocate", "linked", "dumped", "rejected"}

\* What is in a word that neither a fixup nor a relocation is to change.
FinalValue(f) == IF IsResolved(f) THEN FixedValue(f) ELSE RelocTargetVA(Reloc(f))

ExtIs(i, x, F, R) ==
  LET o == Opnd(i, x)
      k == Slot(i, x)
      f == Fix(i, x)
  IN /\ ~HasBeenEncoded(x) \/ x \in F \cup R => ext[k] = 0
     /\ HasBeenEncoded(x) /\ ~HasSym(o) => ext[k] = o.disp.add % Space
     /\ HasBeenEncoded(x) /\ HasSym(o) /\ x \notin F \cup R =>
          (IsResolved(f) \/ Relocating) /\ ext[k] = FinalValue(f) % Space

WordCount(i) == (IF HasWord(i.src) THEN 1 ELSE 0) + (IF HasWord(i.dst) THEN 1 ELSE 0)

ExtInv(i, F, R) ==
  /\ ext \in [1..WordCount(i) -> 0..(Space - 1)]
  /\ \A x \in Names : HasWord(Opnd(i, x)) => ExtIs(i, x, F, R)

WordInv(i) ==
  /\ word \in [op : Ops, rs : 0..15, as : 0..3, ad : 0..1, rd : 0..15, cond : 0..7, off : 0..(2 * Field - 1)]
  /\ word.op = i.op
  /\ HasBeenEncoded("src") /\ i.src.mode # "none" =>
       word.rs = SrcFields(i.src)[1] /\ word.as = SrcFields(i.src)[2]
  /\ HasBeenEncoded("dst") /\ i.dst.mode \in {"reg", "mem"} =>
       word.rd = i.dst.reg /\ word.ad = IF i.dst.mode = "mem" THEN 1 ELSE 0
  /\ i.dst.mode \notin {"reg", "mem"} => word.ad = 0

JumpInv(i, F, R) ==
  LET o == i.dst
      f == Fix(i, "dst")
  IN i.op = "jump" /\ HasBeenEncoded("dst") =>
       /\ word.cond = CCOpValue[i.cond]
       /\ ~HasSym(o) => word.off = o.disp.add % (2 * Field)
       /\ "dst" \in F => word.off = 0
       /\ HasSym(o) /\ "dst" \notin F \cup R =>
            /\ IsResolved(f) \/ Relocating
            /\ word.off = Words(FinalValue(f)) % (2 * Field)
            /\ JumpErrors(FinalValue(f)) \subseteq errors

QueueInv(i, F, R) ==
  /\ F \subseteq Names /\ R \subseteq Names
  /\ Queue(fixups, F, Fix(i, "src"), Fix(i, "dst"))
  /\ Queue(relocs, R, Reloc(Fix(i, "src")), Reloc(Fix(i, "dst")))
  /\ \A x \in F \cup R : HasSym(Opnd(i, x)) /\ HasBeenEncoded(x)
  /\ \A x \in R : x \notin F /\ ~IsResolved(Fix(i, x))
  /\ "src" \in F => "dst" \notin R
  /\ pc = "encode" => R = {} /\ \A x \in Names : HasBeenEncoded(x) /\ HasSym(Opnd(i, x)) => x \in F
  /\ pc \notin {"encode", "fixups"} => F = {}
  /\ pc \in {"linked", "dumped"} => R = {}

PhaseInv(i) ==
  /\ pc \in {"encode", "fixups", "link", "relocate", "linked", "dumped", "rejected"}
  /\ todo \in {<<"src", "dst">>, <<"dst">>, <<>>} /\ (pc # "encode" => todo = <<>>)
  /\ todo = <<"src", "dst">> => Offset = 2
  /\ todo = <<"dst">> => Offset = 2 * DstSlot(i)
  /\ pc \in {"encode", "fixups", "link"} => base = 0
  /\ pc \in {"relocate", "linked", "dumped"} => base \in Bases
  /\ pc \in {"encode", "link", "linked", "dumped"} => errors = {}
  /\ pc = "rejected" => errors # {}
  /\ errors \subseteq {"unaligned", "range"}

\* Why there is an error.
Distance(i) == Signed(Address(i.dst.disp.sym) + i.dst.disp.add - (base + at + 2))

Misfit(i) ==
  /\ i.op = "jump" => Distance(i) % 2 = 1 \/ ~isInRage(Distance(i))
  /\ i.op # "jump" =>
       \E x \in Names :
         /\ FixupKind(Opnd(i, x)) = "16_pcrel_byte"
         /\ Address(Opnd(i, x).disp.sym) + Opnd(i, x).disp.add - (base + at + 2) < 2 - Space \div 2

Emitted(i, F, R) ==
  /\ Sound(i)
  /\ PhaseInv(i)
  /\ QueueInv(i, F, R)
  /\ WordInv(i)
  /\ ExtInv(i, F, R)
  /\ JumpInv(i, F, R)
  /\ errors # {} => Misfit(i)

\* The instruction that is encoded is the written one or what was read for it.
IsOf(i) ==
  \/ i = written
  \/ i = ThroughText(written) /\ (written.op = "jump" => written.dst.disp.sym # NoSym)

Placed ==
  /\ \E p \in Programs : written = p.inst /\ at = p.at
  /\ base \in 0..(Space - 1)

IInv ==
  /\ Placed
  /\ pc = "text" =>
       /\ word = BlankWord /\ ext = <<>>
       /\ fixups = <<>> /\ relocs = <<>> /\ base = 0 /\ errors = {}
  /\ pc # "text" =>
       \E i \in {written, ThroughText(written)}, F, R \in SUBSET Names :
         /\ IsOf(i)
         /\ Emitted(i, F, R)
         /\ inst = IF pc = "dumped" THEN ThroughText(Decoded) ELSE i

-------------------------------------------------------------------------------
(* Queues of at most two *)

LEMMA Ends ==
  ASSUME NEW s, NEW d
  PROVE  /\ <<s>> # <<>> /\ <<s, d>> # <<>>
         /\ Head(<<s>>) = s /\ Tail(<<s>>) = <<>>
         /\ Head(<<s, d>>) = s /\ Tail(<<s, d>>) = <<d>>
         /\ Append(<<>>, s) = <<s>> /\ Append(<<s>>, d) = <<s, d>>
<1>1. <<s>> # <<>> /\ <<s, d>> # <<>>
  OBVIOUS
<1>2. Head(<<s>>) = s /\ Head(<<s, d>>) = s
  OBVIOUS
<1>3. Tail(<<s>>) = <<>>
  OBVIOUS
<1>4. Tail(<<s, d>>) = <<d>>
  OBVIOUS
<1>5. Append(<<>>, s) = <<s>>
  OBVIOUS
<1>6. Append(<<s>>, d) = <<s, d>>
  <2> DEFINE T == {s, d}
  <2>1. <<s>> \in Seq(T) /\ <<s, d>> \in Seq(T) /\ d \in T
    OBVIOUS
  <2>2. PICK q : q = Append(<<s>>, d)
    OBVIOUS
  <2>3. q \in Seq(T) /\ Len(q) = Len(<<s>>) + 1 /\ q[1] = s /\ q[Len(<<s>>) + 1] = d
    BY <2>1, <2>2, AppendProperties
  <2>4. Len(<<s>>) = 1 /\ Len(<<s, d>>) = 2
    OBVIOUS
  <2>5. q = [k \in 1..2 |-> q[k]] /\ <<s, d>> = [k \in 1..2 |-> <<s, d>>[k]]
    BY <2>1, <2>3, <2>4
  <2>6. \A k \in 1..2 : q[k] = <<s, d>>[k]
    BY <2>3, <2>4
  <2> QED BY <2>2, <2>5, <2>6
<1> QED BY <1>1, <1>2, <1>3, <1>4, <1>5, <1>6

LEMMA Joined ==
  ASSUME NEW s, NEW d
  PROVE  /\ <<>> \o <<>> = <<>> /\ <<>> \o <<d>> = <<d>>
         /\ <<s>> \o <<>> = <<s>> /\ <<s>> \o <<d>> = <<s, d>>
<1> DEFINE T == {s, d}
<1>1. <<>> \in Seq(T) /\ <<s>> \in Seq(T) /\ <<d>> \in Seq(T)
  OBVIOUS
<1>2. <<s>> \o <<d>> = Append(<<s>>, d)
  <2>1. \A q \in Seq(T), e \in T : Append(q, e) = q \o <<e>>
    BY AppendIsConcat
  <2> QED BY <1>1, <2>1
<1>3. Append(<<s>>, d) = <<s, d>>
  BY Ends
<1>4. \A q \in Seq(T) : q \o <<>> = q /\ <<>> \o q = q
  BY ConcatEmptySeq
<1> QED BY <1>1, <1>2, <1>3, <1>4

LEMMA NamesAre ==
  /\ \A x \in Names : x = "src" \/ x = "dst"
  /\ \A Q \in SUBSET Names : Q = {} \/ Q = {"src"} \/ Q = {"dst"} \/ Q = {"src", "dst"}
BY DEF Names

\* Of the four queues there is one for each set.
LEMMA QueueOf ==
  ASSUME NEW s, NEW d
  PROVE  /\ Queue(<<>>, {}, s, d) /\ Queue(<<s>>, {"src"}, s, d)
         /\ Queue(<<d>>, {"dst"}, s, d) /\ Queue(<<s, d>>, {"src", "dst"}, s, d)
<1>1. {"src"} # {} /\ {"dst"} # {} /\ {"src"} # {"dst"}
  OBVIOUS
<1>2. {"src", "dst"} # {} /\ {"src", "dst"} # {"src"} /\ {"src", "dst"} # {"dst"}
  OBVIOUS
<1> QED BY <1>1, <1>2 DEF Queue

-------------------------------------------------------------------------------
(* The operands of a sound instruction *)

LEMMA OpndIs ==
  ASSUME NEW i, Sound(i), NEW x \in Names
  PROVE  /\ Opnd(i, x) \in Operands /\ HasMode(Opnd(i, x)) /\ InMemory(Opnd(i, x).disp)
         /\ Opnd(i, x).mode = "target" <=> i.op = "jump" /\ x = "dst"
         /\ x = "src" => Opnd(i, x).mode \in {"none", "reg", "imm", "cg", "mem", "ind", "post"}
         /\ x = "dst" => Opnd(i, x).mode \in {"none", "reg", "mem", "target"}
         /\ i.op # "jump" /\ x = "src" => Opnd(i, x).mode # "none"
         /\ HasSym(Opnd(i, x)) => HasWord(Opnd(i, x)) \/ Opnd(i, x).mode = "target"
<1>1. /\ i.src \in Operands /\ HasMode(i.src) /\ InMemory(i.src.disp)
      /\ i.dst \in Operands /\ HasMode(i.dst) /\ InMemory(i.dst.disp)
      /\ i.op \in Ops /\ WellFormed(i)
  BY DEF Sound
<1>2. /\ i.src.mode \in {"none", "reg", "imm", "cg", "mem", "ind", "post"}
      /\ i.dst.mode \in {"none", "reg", "mem", "target"}
      /\ (i.dst.mode = "target") <=> (i.op = "jump")
      /\ i.op # "jump" => i.src.mode # "none"
  BY <1>1, ModesIs DEF Ops
<1>3. i.src.mode = "cg" => i.src.disp.sym = NoSym
  BY <1>1 DEF WellFormed
<1>4. \A o \in {i.src, i.dst} : HasSym(o) => o.mode \in {"imm", "mem", "target"}
  <2> SUFFICES ASSUME NEW o \in {i.src, i.dst}, HasSym(o) PROVE o.mode \in {"imm", "mem", "target"}
    OBVIOUS
  <2>1. o.disp # Imm(0)
    BY DEF HasSym, Imm
  <2>2. o.mode \notin {"reg", "ind", "post"}
    BY <1>1, <2>1 DEF HasMode
  <2>3. o.mode # "none"
    BY <1>1, <2>1 DEF HasMode, NoOperand, Operand
  <2>4. o.mode # "cg"
    BY <1>2, <1>3 DEF HasSym
  <2> QED BY <1>2, <2>2, <2>3, <2>4
<1> QED BY <1>1, <1>2, <1>4, NamesAre DEF Opnd, HasWord

LEMMA SlotIs ==
  ASSUME NEW i, NEW x \in Names, NEW y \in Names
  PROVE  /\ Slot(i, x) \in {1, 2} /\ WordCount(i) \in 0..2
         /\ HasWord(Opnd(i, x)) => Slot(i, x) \in 1..WordCount(i)
         /\ HasWord(Opnd(i, x)) /\ HasWord(Opnd(i, y)) /\ x # y => Slot(i, x) # Slot(i, y)
         /\ Slot(i, "src") = 1 /\ Slot(i, "dst") = DstSlot(i)
         /\ Size(i) = 2 + 2 * WordCount(i) /\ (Size(i) - 2) \div 2 = WordCount(i)
BY NamesAre DEF Slot, WordCount, Opnd, DstSlot, Size

LEMMA FixIs ==
  ASSUME NEW i, Sound(i), NEW x \in Names
  PROVE  LET o == Opnd(i, x)
             f == Fix(i, x)
         IN /\ f.offset = IF o.mode = "target" THEN 0 ELSE 2 * Slot(i, x)
            /\ f.kind = FixupKind(o) /\ f.disp = o.disp
            /\ f = [offset |-> f.offset, kind |-> f.kind, disp |-> f.disp]
            /\ f.offset \in {0, 2, 4}
            /\ (f.kind = "10_pcrel") <=> (o.mode = "target")
            /\ o.mode # "target" => f.offset \div 2 = Slot(i, x)
<1>1. PICK o, f, k : o = Opnd(i, x) /\ f = Fix(i, x) /\ k = Slot(i, x)
  OBVIOUS
<1>2. f = [offset |-> IF o.mode = "target" THEN 0 ELSE 2 * k, kind |-> FixupKind(o), disp |-> o.disp]
  BY <1>1 DEF Fix
<1>3. k \in {1, 2}
  BY <1>1, SlotIs
<1>4. (FixupKind(o) = "10_pcrel") <=> (o.mode = "target")
  BY DEF FixupKind
<1> QED BY <1>1, <1>2, <1>3, <1>4

\* The reference of an operand with a symbol.
LEMMA SymIs ==
  ASSUME NEW i, Sound(i), NEW x \in Names
  PROVE  LET d == Opnd(i, x).disp IN
         /\ d.add \in Int
         /\ HasSym(Opnd(i, x)) =>
              /\ d.sym.def \in {"here", "weak", "else"}
              /\ d.sym.off \in Nat /\ d.sym.addr \in 0..(Space - 1)
              /\ \A b \in Int : AddressAt(b, d.sym) \in Int
              /\ \A b \in Bases : AddressAt(b, d.sym) + d.add \in 0..(Space - 1)
<1>1. Opnd(i, x).disp \in References /\ InMemory(Opnd(i, x).disp)
  BY OpndIs, OperandIs
<1>2. PICK d : d = Opnd(i, x).disp
  OBVIOUS
<1>3. /\ d.add \in Int
      /\ d.sym # NoSym => /\ d.sym.def \in {"here", "weak", "else"}
                          /\ d.sym.off \in Nat /\ d.sym.addr \in 0..(Space - 1)
  BY <1>1, <1>2, ReferenceIs
<1>4. d.sym # NoSym => \A b \in Int : AddressAt(b, d.sym) \in Int
  BY <1>3, SpaceIs DEF AddressAt
<1>5. d.sym # NoSym => \A b \in Bases : AddressAt(b, d.sym) + d.add \in 0..(Space - 1)
  BY <1>1, <1>2 DEF InMemory
<1> QED BY <1>2, <1>3, <1>4, <1>5 DEF HasSym

-------------------------------------------------------------------------------
(* The beginning of encoding *)

LEMMA ProgramIs ==
  ASSUME Placed
  PROVE  /\ Sound(written) /\ at \in Nat
         /\ written.op = "br" => ~ZeroIndexed(written.src)
         /\ CountedFromPC(written.dst) =>
              ~ZeroIndexed(written.src) /\ (written.src.mode = "imm" => ~Generated(written.src))
<1>1. PICK p \in Programs : written = p.inst /\ at = p.at
  BY DEF Placed
<1>2. /\ p.at \in Nat
      /\ p.inst \in [op : Ops, cond : CondCodes, src : Operands, dst : Operands]
      /\ WellFormed(p.inst)
      /\ \A o \in {p.inst.src, p.inst.dst} : HasMode(o) /\ InMemory(o.disp)
      /\ p.inst.op = "jump" => ParsesTarget(p.inst)
      /\ p.inst.op = "br" => ~ZeroIndexed(p.inst.src)
      /\ CountedFromPC(p.inst.dst) =>
           ~ZeroIndexed(p.inst.src) /\ (p.inst.src.mode = "imm" => ~Generated(p.inst.src))
  BY ProgramsAssumption
<1> QED BY <1>1, <1>2 DEF Sound

LEMMA StartInv ==
  ASSUME NEW i, Sound(i), Start(i), pc' = "encode", fixups = <<>>, relocs = <<>>, base = 0, errors = {},
         UNCHANGED <<fixups, relocs, base, errors>>
  PROVE  Emitted(i, {}, {})'
<1>1. /\ inst' = i /\ todo' = <<"src", "dst">> /\ Offset' = 2
      /\ word' = [BlankWord EXCEPT !.op = i.op]
      /\ ext' = [k \in 1..WordCount(i) |-> 0]
  BY SlotIs, NamesAre DEF Start, FieldOrder, Names
<1>2. <<"src", "dst">> # <<>> /\ <<"src", "dst">> # <<"dst">>
  OBVIOUS
<1>3. ~HasBeenEncoded("src")' /\ ~HasBeenEncoded("dst")'
  BY <1>1, <1>2 DEF HasBeenEncoded
<1>4. PhaseInv(i)'
  BY <1>1, <1>2 DEF PhaseInv
<1>5. QueueInv(i, {}, {})'
  BY <1>3, NamesAre DEF QueueInv, Queue, Names
<1>6. WordInv(i)'
  <2>1. i.op \in Ops
    BY DEF Sound
  <2>2. word' = [op |-> i.op, rs |-> 0, as |-> 0, ad |-> 0, rd |-> 0, cond |-> 0, off |-> 0]
    BY <1>1 DEF BlankWord
  <2> QED BY <1>3, <2>1, <2>2, SpaceIs DEF WordInv
<1>7. ExtInv(i, {}, {})'
  <2>1. ext' \in [1..WordCount(i) -> 0..(Space - 1)]
    BY <1>1, SpaceIs
  <2>2. ASSUME NEW x \in Names, HasWord(Opnd(i, x)) PROVE ExtIs(i, x, {}, {})'
    <3>1. Slot(i, x) \in 1..WordCount(i)
      BY <2>2, SlotIs
    <3>2. ext'[Slot(i, x)] = 0
      BY <1>1, <3>1
    <3> QED BY <1>3, <3>2, NamesAre DEF ExtIs
  <2> QED BY <2>1, <2>2 DEF ExtInv
<1>8. JumpInv(i, {}, {})'
  BY <1>3 DEF JumpInv
<1> QED BY <1>4, <1>5, <1>6, <1>7, <1>8 DEF Emitted

LEMMA EmitInv ==
  ASSUME IInv, EmitInstruction
  PROVE  IInv'
<1>1. /\ Placed /\ fixups = <<>> /\ relocs = <<>> /\ base = 0 /\ errors = {} /\ pc = "text"
  BY DEF IInv, EmitInstruction
<1>2. /\ Start(written) /\ pc' = "encode"
      /\ written' = written /\ UNCHANGED <<at, fixups, relocs, base, errors>>
  BY DEF EmitInstruction
<1>3. PICK i : i = written
  OBVIOUS
<1>4. Emitted(i, {}, {})' /\ inst' = i
  <2>1. Sound(i) /\ Start(i)
    BY <1>1, <1>2, <1>3, ProgramIs
  <2> QED BY <1>1, <1>2, <2>1, StartInv DEF Start
<1>5. Placed'
  BY <1>1, <1>2 DEF Placed
<1>6. IsOf(i)'
  BY <1>2, <1>3 DEF IsOf
<1> QED BY <1>2, <1>3, <1>4, <1>5, <1>6 DEF IInv, Names

LEMMA ParseInv ==
  ASSUME IInv, PrintAndParse
  PROVE  IInv'
<1>1. /\ Placed /\ fixups = <<>> /\ relocs = <<>> /\ base = 0 /\ errors = {} /\ pc = "text"
  BY DEF IInv, PrintAndParse
<1>2. /\ written.op = "jump" => written.dst.disp.sym # NoSym
      /\ written' = written /\ UNCHANGED <<at, fixups, relocs, base>>
      /\ ParsedAgain(written) => Start(ThroughText(written)) /\ pc' = "encode" /\ errors' = errors
  BY DEF PrintAndParse
<1>3. /\ Sound(written)
      /\ written.op = "br" => ~ZeroIndexed(written.src)
  BY <1>1, ProgramIs
<1>4. PICK w : w = written
  OBVIOUS
<1>5. PICK i : i = ThroughText(w)
  OBVIOUS
<1>6. Sound(i) /\ i.op = w.op /\ i.dst = w.dst
  BY <1>2, <1>3, <1>4, <1>5, TextSound, TextWellFormed DEF Sound, Instructions
<1>7. ParsedAgain(written)
  BY <1>2, <1>4, <1>5, <1>6 DEF ParsedAgain, Sound, ParsesTarget
<1>8. Emitted(i, {}, {})' /\ inst' = i /\ pc' = "encode"
  <2>1. Start(i) /\ pc' = "encode" /\ errors' = errors
    BY <1>2, <1>4, <1>5, <1>7
  <2> QED BY <1>1, <1>2, <1>6, <2>1, StartInv DEF Start
<1>9. Placed'
  BY <1>1, <1>2 DEF Placed
<1>10. IsOf(i)' /\ i = ThroughText(written)'
  <2>1. i = ThroughText(written)
    BY <1>4, <1>5
  <2>2. ThroughText(written)' = ThroughText(written)
    BY <1>2
  <2> QED BY <1>2, <2>1, <2>2 DEF IsOf
<1> QED BY <1>8, <1>9, <1>10 DEF IInv, Names

-------------------------------------------------------------------------------
(* Encoding an operand *)

LEMMA CodeIs ==
  ASSUME NEW c \in CGValues
  PROVE  /\ CGCode(c) \in {<<2, 2>>, <<2, 3>>, <<3, 0>>, <<3, 1>>, <<3, 2>>, <<3, 3>>}
         /\ c = 4 => CGCode(c) = <<2, 2>>
         /\ c = 8 => CGCode(c) = <<2, 3>>
         /\ c = 0 => CGCode(c) = <<3, 0>>
         /\ c = 1 => CGCode(c) = <<3, 1>>
         /\ c = 2 => CGCode(c) = <<3, 2>>
         /\ c = -1 => CGCode(c) = <<3, 3>>
<1>1. c \in {0, 1, 2, 4, 8, -1}
  BY DEF CGValues
<1>2. /\ c = 4 => CGCode(c) = <<2, 2>>
      /\ c = 8 => CGCode(c) = <<2, 3>>
      /\ c = 0 => CGCode(c) = <<3, 0>>
  BY DEF CGCode
<1>3. /\ c = 1 => CGCode(c) = <<3, 1>>
      /\ c = 2 => CGCode(c) = <<3, 2>>
      /\ c = -1 => CGCode(c) = <<3, 3>>
  BY DEF CGCode
<1> QED BY <1>1, <1>2, <1>3

\* What says a source in the first word.
LEMMA FieldsAre ==
  ASSUME NEW o \in Operands, o.mode = "cg" => o.disp.add \in CGValues
  PROVE  /\ o.mode = "reg" => SrcFields(o)[1] = o.reg /\ SrcFields(o)[2] = 0
         /\ o.mode = "mem" => SrcFields(o)[1] = o.reg /\ SrcFields(o)[2] = 1
         /\ o.mode = "ind" => SrcFields(o)[1] = o.reg /\ SrcFields(o)[2] = 2
         /\ o.mode = "post" => SrcFields(o)[1] = o.reg /\ SrcFields(o)[2] = 3
         /\ o.mode = "imm" => SrcFields(o)[1] = 0 /\ SrcFields(o)[2] = 3
         /\ o.mode = "cg" => SrcFields(o) = CGCode(o.disp.add)
         /\ o.mode \in {"reg", "mem", "ind", "post", "imm", "cg"} =>
              SrcFields(o)[1] \in 0..15 /\ SrcFields(o)[2] \in 0..3
<1>1. o.reg \in 0..15
  BY OperandIs
<1>2. /\ o.mode = "reg" => SrcFields(o) = <<o.reg, 0>>
      /\ o.mode = "mem" => SrcFields(o) = <<o.reg, 1>>
      /\ o.mode = "ind" => SrcFields(o) = <<o.reg, 2>>
  BY DEF SrcFields
<1>3. /\ o.mode = "post" => SrcFields(o) = <<o.reg, 3>>
      /\ o.mode = "imm" => SrcFields(o) = <<0, 3>>
      /\ o.mode = "cg" => SrcFields(o) = CGCode(o.disp.add)
  BY DEF SrcFields
<1>4. o.mode = "cg" => SrcFields(o)[1] \in 0..15 /\ SrcFields(o)[2] \in 0..3
  <2> SUFFICES ASSUME o.mode = "cg" PROVE SrcFields(o)[1] \in 0..15 /\ SrcFields(o)[2] \in 0..3
    OBVIOUS
  <2>1. PICK q : q = SrcFields(o)
    OBVIOUS
  <2>2. q \in {<<2, 2>>, <<2, 3>>, <<3, 0>>, <<3, 1>>, <<3, 2>>, <<3, 3>>}
    BY <1>3, <2>1, CodeIs
  <2>3. q[1] \in 0..15 /\ q[2] \in 0..3
    BY <2>2
  <2> QED BY <2>1, <2>3
<1> QED BY <1>1, <1>2, <1>3, <1>4

\* The operand that comes next, and what becomes of the others.
LEMMA NextOperand ==
  ASSUME NEW i, PhaseInv(i), todo # <<>>, todo' = Tail(todo)
  PROVE  \E x \in Names :
           /\ Head(todo) = x
           /\ ~HasBeenEncoded(x) /\ HasBeenEncoded(x)'
           /\ x = "src" => ~HasBeenEncoded("dst") /\ ~HasBeenEncoded("dst")' /\ todo' = <<"dst">>
           /\ x = "dst" => HasBeenEncoded("src") /\ HasBeenEncoded("src")' /\ todo' = <<>>
           /\ Offset = 2 * Slot(i, x)
<1>1. <<"src", "dst">> # <<>> /\ <<"src", "dst">> # <<"dst">> /\ <<"dst">> # <<>>
  OBVIOUS
<1>2. CASE todo = <<"src", "dst">>
  <2>1. Head(todo) = "src" /\ todo' = <<"dst">>
    BY <1>2, Ends
  <2>2. Offset = 2 * Slot(i, "src")
    BY <1>2, SlotIs, NamesAre DEF PhaseInv, Names
  <2>3. /\ ~HasBeenEncoded("src") /\ HasBeenEncoded("src")'
        /\ ~HasBeenEncoded("dst") /\ ~HasBeenEncoded("dst")'
    BY <1>1, <1>2, <2>1 DEF HasBeenEncoded
  <2>4. "src" \in Names /\ "src" # "dst"
    BY DEF Names
  <2> QED BY <2>1, <2>2, <2>3, <2>4
<1>3. CASE todo = <<"dst">>
  <2>1. Head(todo) = "dst" /\ todo' = <<>>
    BY <1>3, Ends
  <2>2. Offset = 2 * Slot(i, "dst")
    BY <1>1, <1>3, SlotIs, NamesAre DEF PhaseInv, Names
  <2>3. /\ ~HasBeenEncoded("dst") /\ HasBeenEncoded("dst")'
        /\ HasBeenEncoded("src") /\ HasBeenEncoded("src")'
    BY <1>1, <1>3, <2>1 DEF HasBeenEncoded
  <2>4. "dst" \in Names /\ "src" # "dst"
    BY DEF Names
  <2> QED BY <2>1, <2>2, <2>3, <2>4
<1> QED BY <1>2, <1>3 DEF PhaseInv

\* Encode does operand x.
EncodeOf(i, x) ==
  /\ pc = "encode" /\ pc' = "encode" /\ todo' = Tail(todo)
  /\ ~HasBeenEncoded(x) /\ HasBeenEncoded(x)'
  /\ x = "src" => ~HasBeenEncoded("dst") /\ ~HasBeenEncoded("dst")' /\ todo' = <<"dst">>
  /\ x = "dst" => HasBeenEncoded("src") /\ HasBeenEncoded("src")' /\ todo' = <<>>
  /\ Offset = 2 * Slot(i, x)
  /\ Offset' = NextOffset(Opnd(i, x))
  /\ Opnd(i, x).mode = "none" => word' = word
  /\ Opnd(i, x).mode = "target" => word' = WithTarget(word, i)
  /\ Opnd(i, x).mode \notin {"none", "target"} =>
       word' = IF x = "src" THEN WithSource(word, i.src) ELSE WithDest(word, i.dst)
  /\ ext' = Written(Opnd(i, x), Slot(i, x))
  /\ fixups' = fixups \o NewFixups(Opnd(i, x))
  /\ UNCHANGED <<at, relocs, base, errors>>

LEMMA EncodeIs ==
  ASSUME NEW i, PhaseInv(i), inst = i, Encode
  PROVE  \E x \in Names : EncodeOf(i, x)
<1>1. PICK x \in Names :
           /\ Head(todo) = x
           /\ ~HasBeenEncoded(x) /\ HasBeenEncoded(x)'
           /\ x = "src" => ~HasBeenEncoded("dst") /\ ~HasBeenEncoded("dst")' /\ todo' = <<"dst">>
           /\ x = "dst" => HasBeenEncoded("src") /\ HasBeenEncoded("src")' /\ todo' = <<>>
           /\ Offset = 2 * Slot(i, x)
  BY NextOperand DEF Encode
<1>2. (IF Head(todo) = "src" THEN inst.src ELSE inst.dst) = Opnd(i, x)
  BY <1>1 DEF Opnd
<1>3. (IF Head(todo) = "src" THEN 1 ELSE DstSlot(inst)) = Slot(i, x)
  BY <1>1 DEF Slot
<1>4. PICK o, k : o = Opnd(i, x) /\ k = Slot(i, x)
  OBVIOUS
<1>5. /\ word' = CASE o.mode = "none" -> word
                   [] o.mode = "target" -> WithTarget(word, inst)
                   [] OTHER -> IF Head(todo) = "src" THEN WithSource(word, o) ELSE WithDest(word, o)
      /\ ext' = Written(o, k)
      /\ fixups' = fixups \o NewFixups(o)
      /\ Offset' = NextOffset(o)
  BY <1>2, <1>3, <1>4 DEF Encode
<1>6. /\ o.mode = "none" => word' = word
      /\ o.mode = "target" => word' = WithTarget(word, i)
      /\ o.mode \notin {"none", "target"} =>
           word' = IF x = "src" THEN WithSource(word, i.src) ELSE WithDest(word, i.dst)
  <2>1. /\ o.mode = "none" => word' = word
        /\ o.mode = "target" => word' = WithTarget(word, inst)
        /\ o.mode \notin {"none", "target"} =>
             word' = IF Head(todo) = "src" THEN WithSource(word, o) ELSE WithDest(word, o)
    BY <1>5
  <2> QED BY <1>1, <1>4, <2>1 DEF Opnd
<1>7. /\ pc = "encode" /\ pc' = "encode" /\ todo' = Tail(todo)
      /\ UNCHANGED <<at, relocs, base, errors>>
  BY DEF Encode
<1> QED BY <1>1, <1>4, <1>5, <1>6, <1>7 DEF EncodeOf

LEMMA EncodePhase ==
  ASSUME NEW i, PhaseInv(i), NEW x \in Names, EncodeOf(i, x)
  PROVE  PhaseInv(i)'
<1>1. <<"src", "dst">> # <<"dst">> /\ <<"dst">> # <<>> /\ <<"src", "dst">> # <<>>
  OBVIOUS
<1>2. CASE x = "src"
  <2>1. /\ todo' = <<"dst">> /\ Offset = 2 /\ Offset' = NextOffset(i.src)
    BY <1>2, SlotIs DEF EncodeOf, Opnd
  <2>2. Offset' = 2 * DstSlot(i)
    BY <2>1 DEF NextOffset, DstSlot
  <2> QED BY <1>1, <2>1, <2>2 DEF PhaseInv, EncodeOf
<1>3. CASE x = "dst"
  BY <1>1, <1>3 DEF PhaseInv, EncodeOf
<1> QED BY <1>2, <1>3, NamesAre

LEMMA EncodeQueue ==
  ASSUME NEW i, NEW F, NEW R, Sound(i), QueueInv(i, F, R), NEW x \in Names, EncodeOf(i, x)
  PROVE  QueueInv(i, IF HasSym(Opnd(i, x)) THEN F \cup {x} ELSE F, R)'
<1>1. PICK G : G = IF HasSym(Opnd(i, x)) THEN F \cup {x} ELSE F
  OBVIOUS
<1>2. /\ F \subseteq Names /\ R = {} /\ relocs = <<>> /\ relocs' = <<>>
      /\ x \notin F /\ pc' = "encode"
  <2>1. R = {} /\ F \subseteq Names /\ relocs' = relocs /\ pc' = "encode"
    BY DEF QueueInv, EncodeOf
  <2>2. relocs = <<>>
    BY <2>1 DEF QueueInv, Queue
  <2>3. x \notin F
    BY DEF QueueInv, EncodeOf
  <2> QED BY <2>1, <2>2, <2>3
<1>3. PICK s, d : s = Fix(i, "src") /\ d = Fix(i, "dst")
  OBVIOUS
<1>4. NewFixups(Opnd(i, x)) = IF HasSym(Opnd(i, x)) THEN <<Fix(i, x)>> ELSE <<>>
  BY DEF NewFixups, EncodeOf, HasSym, Fix
<1>5. Queue(fixups, G, s, d)'
  <2>1. CASE x = "src"
    <3>1. F = {} /\ fixups = <<>>
      <4>1. F = {}
        BY <1>2, <2>1, NamesAre DEF QueueInv, EncodeOf
      <4> QED BY <4>1 DEF QueueInv, Queue
    <3>2. CASE HasSym(Opnd(i, x))
      <4>1. G = {"src"} /\ fixups' = <<s>>
        BY <1>1, <1>3, <1>4, <2>1, <3>1, <3>2, Joined DEF EncodeOf
      <4> QED BY <4>1 DEF Queue
    <3>3. CASE ~HasSym(Opnd(i, x))
      <4>1. G = {} /\ fixups' = <<>>
        BY <1>1, <1>4, <3>1, <3>3, Joined DEF EncodeOf
      <4> QED BY <4>1 DEF Queue
    <3> QED BY <3>2, <3>3
  <2>2. CASE x = "dst"
    <3>1. (F = {} /\ fixups = <<>>) \/ (F = {"src"} /\ fixups = <<s>>)
      <4>1. F = {} \/ F = {"src"}
        BY <1>2, <2>2, NamesAre
      <4>2. Queue(fixups, F, s, d)
        BY <1>3 DEF QueueInv
      <4> QED BY <4>1, <4>2 DEF Queue
    <3>2. CASE HasSym(Opnd(i, x))
      <4>1. \/ G = {"dst"} /\ fixups' = <<d>>
            \/ G = {"src", "dst"} /\ fixups' = <<s, d>>
        BY <1>1, <1>3, <1>4, <2>2, <3>1, <3>2, Joined DEF EncodeOf
      <4>2. Queue(fixups', G, s, d)
        BY <4>1, QueueOf
      <4> QED BY <4>2 DEF Queue
    <3>3. CASE ~HasSym(Opnd(i, x))
      <4>1. (G = {} /\ fixups' = <<>>) \/ (G = {"src"} /\ fixups' = <<s>>)
        BY <1>1, <1>4, <3>1, <3>3, Joined DEF EncodeOf
      <4>2. Queue(fixups', G, s, d)
        BY <4>1, QueueOf
      <4> QED BY <4>2 DEF Queue
    <3> QED BY <3>2, <3>3
  <2> QED BY <2>1, <2>2, NamesAre
<1>6. Queue(relocs, R, Reloc(s), Reloc(d))'
  BY <1>2 DEF Queue
<1>7. \A y \in Names : y \in G => HasSym(Opnd(i, y)) /\ HasBeenEncoded(y)'
  <2>1. \A y \in F : HasSym(Opnd(i, y)) /\ HasBeenEncoded(y)
    BY DEF QueueInv
  <2>2. "src" \in G => HasSym(Opnd(i, "src")) /\ HasBeenEncoded("src")'
    BY <1>1, <2>1, NamesAre DEF EncodeOf
  <2>3. "dst" \in G => HasSym(Opnd(i, "dst")) /\ HasBeenEncoded("dst")'
    BY <1>1, <2>1, NamesAre DEF EncodeOf
  <2> QED BY <2>2, <2>3, NamesAre
<1>8. \A y \in Names : HasBeenEncoded(y)' /\ HasSym(Opnd(i, y)) => y \in G
  <2>1. \A y \in Names : HasBeenEncoded(y) /\ HasSym(Opnd(i, y)) => y \in F
    BY DEF QueueInv, EncodeOf
  <2>2. HasBeenEncoded("src")' /\ HasSym(Opnd(i, "src")) => "src" \in G
    BY <1>1, <2>1, NamesAre DEF EncodeOf, Names
  <2>3. HasBeenEncoded("dst")' /\ HasSym(Opnd(i, "dst")) => "dst" \in G
    BY <1>1, <2>1, NamesAre DEF EncodeOf, Names
  <2> QED BY <2>2, <2>3, NamesAre
<1>9. G \subseteq Names
  BY <1>1, <1>2
<1> QED BY <1>1, <1>2, <1>3, <1>5, <1>6, <1>7, <1>8, <1>9 DEF QueueInv

LEMMA EncodeWord ==
  ASSUME NEW i, Sound(i), WordInv(i), NEW x \in Names, EncodeOf(i, x)
  PROVE  WordInv(i)'
<1>1. PICK r, a, b, d, c, f :
        /\ word = [op |-> i.op, rs |-> r, as |-> a, ad |-> b, rd |-> d, cond |-> c, off |-> f]
        /\ r \in 0..15 /\ a \in 0..3 /\ b \in 0..1 /\ d \in 0..15 /\ c \in 0..7
        /\ f \in 0..(2 * Field - 1)
  BY DEF WordInv
<1>2. /\ i.op \in Ops /\ i.src \in Operands /\ i.dst \in Operands /\ i.cond \in CondCodes /\ WellFormed(i)
      /\ i.op = "jump" => ParsesTarget(i)
  BY DEF Sound
<1>3. /\ i.dst.mode \notin {"reg", "mem"} => b = 0
      /\ HasBeenEncoded("src") /\ i.src.mode # "none" => r = SrcFields(i.src)[1] /\ a = SrcFields(i.src)[2]
      /\ HasBeenEncoded("dst") /\ i.dst.mode \in {"reg", "mem"} =>
           d = i.dst.reg /\ b = IF i.dst.mode = "mem" THEN 1 ELSE 0
  BY <1>1 DEF WordInv
<1>4. CASE x = "src"
  <2>1. ~HasBeenEncoded("dst")' /\ Opnd(i, x) = i.src
        /\ i.src.mode \in {"none", "reg", "imm", "cg", "mem", "ind", "post"}
    BY <1>4, OpndIs DEF EncodeOf, Opnd
  <2>2. CASE i.src.mode = "none"
    <3>1. word' = word
      BY <2>1, <2>2 DEF EncodeOf
    <3> QED BY <1>1, <1>2, <1>3, <2>1, <2>2, <3>1 DEF WordInv
  <2>3. CASE i.src.mode # "none"
    <3>1. word' = WithSource(word, i.src)
      BY <1>4, <2>1, <2>3 DEF EncodeOf
    <3>2. PICK r2, a2 : /\ r2 = SrcFields(i.src)[1] /\ a2 = SrcFields(i.src)[2]
                        /\ r2 \in 0..15 /\ a2 \in 0..3
      <4>1. i.src.mode = "cg" => i.src.disp.add \in CGValues
        BY <1>2 DEF WellFormed
      <4>2. SrcFields(i.src)[1] \in 0..15 /\ SrcFields(i.src)[2] \in 0..3
        BY <1>2, <2>1, <2>3, <4>1, FieldsAre
      <4> QED BY <4>2
    <3>3. word' = [op |-> i.op, rs |-> r2, as |-> a2, ad |-> b, rd |-> d, cond |-> c, off |-> f]
      BY <1>1, <3>1, <3>2 DEF WithSource
    <3> QED BY <1>1, <1>2, <1>3, <2>1, <3>2, <3>3 DEF WordInv
  <2> QED BY <2>2, <2>3
<1>5. CASE x = "dst"
  <2>1. /\ HasBeenEncoded("src") /\ HasBeenEncoded("src")' /\ Opnd(i, x) = i.dst
        /\ i.dst.mode \in {"none", "reg", "mem", "target"}
    BY <1>5, OpndIs DEF EncodeOf, Opnd
  <2>2. CASE i.dst.mode = "none"
    <3>1. word' = word
      BY <2>1, <2>2 DEF EncodeOf
    <3> QED BY <1>1, <1>2, <1>3, <2>1, <2>2, <3>1 DEF WordInv
  <2>3. CASE i.dst.mode = "target"
    <3>1. word' = WithTarget(word, i)
      BY <2>1, <2>3 DEF EncodeOf
    <3>2. PICK c2, f2 : /\ c2 = CCOpValue[i.cond]
                        /\ f2 = IF i.dst.disp.sym = NoSym THEN i.dst.disp.add % (2 * Field) ELSE 0
                        /\ c2 \in 0..7 /\ f2 \in 0..(2 * Field - 1)
      <4>1. CCOpValue[i.cond] \in 0..7
        BY <1>2, CondBack
      <4>2. i.dst.disp.add \in Int
        BY <1>2, OperandIs, ReferenceIs
      <4>3. (IF i.dst.disp.sym = NoSym THEN i.dst.disp.add % (2 * Field) ELSE 0) \in 0..(2 * Field - 1)
        BY <4>2, FieldOf, SpaceIs
      <4> QED BY <4>1, <4>3
    <3>3. word' = [op |-> i.op, rs |-> r, as |-> a, ad |-> b, rd |-> d, cond |-> c2, off |-> f2]
      BY <1>1, <3>1, <3>2 DEF WithTarget
    <3> QED BY <1>1, <1>2, <1>3, <2>1, <2>3, <3>2, <3>3 DEF WordInv
  <2>4. CASE i.dst.mode \in {"reg", "mem"}
    <3>1. word' = WithDest(word, i.dst)
      BY <1>5, <2>1, <2>4 DEF EncodeOf
    <3>2. PICK d2, b2 : /\ d2 = i.dst.reg /\ b2 = IF i.dst.mode = "mem" THEN 1 ELSE 0
                        /\ d2 \in 0..15 /\ b2 \in 0..1
      BY <1>2, OperandIs
    <3>3. word' = [op |-> i.op, rs |-> r, as |-> a, ad |-> b2, rd |-> d2, cond |-> c, off |-> f]
      BY <1>1, <3>1, <3>2 DEF WithDest
    <3> QED BY <1>1, <1>2, <1>3, <2>1, <2>4, <3>2, <3>3 DEF WordInv
  <2> QED BY <2>1, <2>2, <2>3, <2>4
<1> QED BY <1>4, <1>5, NamesAre

LEMMA FinalSame ==
  ASSUME NEW f, at' = at, base' = base
  PROVE  FinalValue(f)' = FinalValue(f)
BY DEF FinalValue, FixedValue, RelocTargetVA, Reloc, Address

LEMMA EncodeExt ==
  ASSUME NEW i, NEW F, NEW R, Sound(i), QueueInv(i, F, R), ExtInv(i, F, R), NEW x \in Names, EncodeOf(i, x)
  PROVE  ExtInv(i, IF HasSym(Opnd(i, x)) THEN F \cup {x} ELSE F, R)'
<1>1. PICK G : G = IF HasSym(Opnd(i, x)) THEN F \cup {x} ELSE F
  OBVIOUS
<1>2. PICK o, k, n : o = Opnd(i, x) /\ k = Slot(i, x) /\ n = WordCount(i)
  OBVIOUS
<1>3. /\ o.disp.add \in Int /\ n \in 0..2 /\ (HasWord(o) => k \in 1..n)
      /\ ext \in [1..n -> 0..(Space - 1)]
  BY <1>2, SymIs, SlotIs DEF ExtInv
<1>4. PICK v : v = Literal(o) % Space /\ v \in 0..(Space - 1) /\ (HasSym(o) => v = 0)
               /\ (~HasSym(o) => v = o.disp.add % Space)
  <2>1. Literal(o) \in Int /\ (HasSym(o) => Literal(o) = 0) /\ (~HasSym(o) => Literal(o) = o.disp.add)
    BY <1>3 DEF Literal, HasSym
  <2>2. Literal(o) % Space \in 0..(Space - 1)
    BY <2>1, WordOf
  <2>3. 0 % Space = 0
    BY WordIs, SpaceIs
  <2> QED BY <2>1, <2>2, <2>3
<1>5. ext' = IF HasWord(o) THEN [ext EXCEPT ![k] = v] ELSE ext
  BY <1>2, <1>4 DEF EncodeOf, Written
<1>6. ext' \in [1..n -> 0..(Space - 1)]
  BY <1>3, <1>4, <1>5
<1>7. HasWord(o) => ExtIs(i, x, G, R)'
  <2> SUFFICES ASSUME HasWord(o) PROVE ExtIs(i, x, G, R)'
    OBVIOUS
  <2>1. ext'[k] = v
    BY <1>3, <1>5
  <2>2. HasBeenEncoded(x)' /\ (HasSym(o) => x \in G) /\ (~HasSym(o) => x \notin G \cup R)
    <3>1. HasBeenEncoded(x)' /\ x \notin F \cup R
      BY DEF EncodeOf, QueueInv
    <3> QED BY <1>1, <1>2, <3>1
  <2> QED BY <1>2, <1>4, <2>1, <2>2 DEF ExtIs
<1>8. ASSUME NEW y \in Names, y # x, HasWord(Opnd(i, y))
      PROVE  ExtIs(i, y, G, R)'
  <2>1. PICK j : j = Slot(i, y) /\ j \in 1..n /\ (HasWord(o) => j # k)
    BY <1>2, <1>8, SlotIs
  <2>2. ext'[j] = ext[j]
    BY <1>3, <1>5, <2>1
  <2>3. HasBeenEncoded(y)' <=> HasBeenEncoded(y)
    <3>1. CASE x = "src"
      <4>1. y = "dst"
        BY <1>8, <3>1, NamesAre
      <4> QED BY <3>1, <4>1 DEF EncodeOf
    <3>2. CASE x = "dst"
      <4>1. y = "src"
        BY <1>8, <3>2, NamesAre
      <4> QED BY <3>2, <4>1 DEF EncodeOf
    <3> QED BY <3>1, <3>2, NamesAre
  <2>4. y \in G \cup R <=> y \in F \cup R
    BY <1>1, <1>8
  <2>5. ExtIs(i, y, F, R)
    BY <1>8 DEF ExtInv
  <2>6. FinalValue(Fix(i, y))' = FinalValue(Fix(i, y)) /\ Relocating' = Relocating
    <3>1. at' = at /\ base' = base /\ pc' = pc
      BY DEF EncodeOf
    <3> QED BY <3>1, FinalSame DEF Relocating
  <2> QED BY <2>1, <2>2, <2>3, <2>4, <2>5, <2>6 DEF ExtIs
<1>9. \A y \in Names : HasWord(Opnd(i, y)) => ExtIs(i, y, G, R)'
  <2> SUFFICES ASSUME NEW y \in Names, HasWord(Opnd(i, y)) PROVE ExtIs(i, y, G, R)'
    OBVIOUS
  <2> QED BY <1>2, <1>7, <1>8
<1> QED BY <1>1, <1>2, <1>6, <1>9 DEF ExtInv

LEMMA EncodeJump ==
  ASSUME NEW i, NEW F, NEW R, Sound(i), WordInv(i), JumpInv(i, F, R), QueueInv(i, F, R),
         NEW x \in Names, EncodeOf(i, x)
  PROVE  JumpInv(i, IF HasSym(Opnd(i, x)) THEN F \cup {x} ELSE F, R)'
<1>1. SUFFICES ASSUME i.op = "jump", HasBeenEncoded("dst")'
               PROVE  JumpInv(i, IF HasSym(Opnd(i, x)) THEN F \cup {x} ELSE F, R)'
  BY DEF JumpInv
<1>2. x = "dst"
  BY <1>1, NamesAre DEF EncodeOf
<1>3. PICK o : o = i.dst /\ o = Opnd(i, x) /\ o.mode = "target"
  BY <1>1, <1>2, OpndIs DEF Opnd
<1>4. word' = WithTarget(word, i)
  BY <1>3 DEF EncodeOf
<1>5. /\ word'.cond = CCOpValue[i.cond]
      /\ word'.off = IF o.disp.sym = NoSym THEN o.disp.add % (2 * Field) ELSE 0
  <2>1. PICK c, v : c = CCOpValue[i.cond] /\ v = IF o.disp.sym = NoSym THEN o.disp.add % (2 * Field) ELSE 0
    OBVIOUS
  <2>2. word' = [word EXCEPT !.cond = c, !.off = v]
    BY <1>3, <1>4, <2>1 DEF WithTarget
  <2>3. word'.cond = c /\ word'.off = v
    BY <2>2 DEF WordInv
  <2> QED BY <2>1, <2>3
<1>6. PICK G : G = IF HasSym(Opnd(i, x)) THEN F \cup {x} ELSE F
  OBVIOUS
<1>7. (HasSym(o) => "dst" \in G) /\ ("dst" \in G => HasSym(o))
  BY <1>2, <1>3, <1>6 DEF QueueInv, EncodeOf
<1>8. JumpInv(i, G, R)'
  BY <1>3, <1>5, <1>7 DEF JumpInv, HasSym
<1> QED BY <1>6, <1>8

LEMMA EncodeInv ==
  ASSUME NEW i, NEW F, NEW R, Emitted(i, F, R), inst = i, Encode
  PROVE  \E G \in SUBSET Names : Emitted(i, G, R)' /\ inst' = i /\ pc' = "encode"
<1>1. PICK x \in Names : EncodeOf(i, x)
  BY EncodeIs DEF Emitted
<1>2. PICK G : G = IF HasSym(Opnd(i, x)) THEN F \cup {x} ELSE F
  OBVIOUS
<1>3. Sound(i) /\ PhaseInv(i) /\ QueueInv(i, F, R) /\ WordInv(i) /\ ExtInv(i, F, R) /\ JumpInv(i, F, R)
  BY DEF Emitted
<1>4. PhaseInv(i)' /\ WordInv(i)'
  BY <1>1, <1>3, EncodePhase, EncodeWord
<1>5. QueueInv(i, G, R)' /\ ExtInv(i, G, R)' /\ JumpInv(i, G, R)'
  BY <1>1, <1>2, <1>3, EncodeQueue, EncodeExt, EncodeJump
<1>6. errors' = {} /\ inst' = i /\ pc' = "encode"
  BY <1>1, <1>3 DEF PhaseInv, EncodeOf, Encode
<1>7. G \subseteq Names
  BY <1>2, <1>3 DEF QueueInv
<1> QED BY <1>3, <1>4, <1>5, <1>6, <1>7 DEF Emitted

-------------------------------------------------------------------------------
(* Steps that change no word *)

LEMMA StillWords ==
  ASSUME NEW i, NEW F, NEW R, UNCHANGED <<at, base, todo, word, ext>>, errors \subseteq errors',
         Relocating => Relocating', WordInv(i), ExtInv(i, F, R), JumpInv(i, F, R)
  PROVE  WordInv(i)' /\ ExtInv(i, F, R)' /\ JumpInv(i, F, R)'
<1>1. \A x : HasBeenEncoded(x)' <=> HasBeenEncoded(x)
  BY DEF HasBeenEncoded
<1>2. WordInv(i)'
  BY <1>1 DEF WordInv
<1>3. \A x : FinalValue(Fix(i, x))' = FinalValue(Fix(i, x))
  BY FinalSame
<1>4. ASSUME NEW x, ExtIs(i, x, F, R) PROVE ExtIs(i, x, F, R)'
  BY <1>1, <1>3, <1>4 DEF ExtIs
<1>5. ExtInv(i, F, R)'
  BY <1>4 DEF ExtInv
<1>6. JumpInv(i, F, R)'
  BY <1>1, <1>3 DEF JumpInv
<1> QED BY <1>2, <1>5, <1>6

LEMMA StillQueues ==
  ASSUME NEW i, NEW F, NEW R, UNCHANGED <<at, todo, fixups, relocs>>, QueueInv(i, F, R), pc' # "encode",
         pc' # "fixups" => F = {}, pc' \in {"linked", "dumped"} => R = {}
  PROVE  QueueInv(i, F, R)'
<1>1. \A x : HasBeenEncoded(x)' <=> HasBeenEncoded(x)
  BY DEF HasBeenEncoded
<1>2. \A x : Reloc(Fix(i, x))' = Reloc(Fix(i, x))
  BY DEF Reloc
<1> QED BY <1>1, <1>2 DEF QueueInv, Queue

LEMMA EncodedInv ==
  ASSUME NEW i, NEW F, NEW R, Emitted(i, F, R), Encoded
  PROVE  Emitted(i, F, R)'
<1>1. /\ pc = "encode" /\ todo = <<>> /\ pc' = "fixups"
      /\ UNCHANGED <<at, base, todo, word, ext, fixups, relocs, errors>>
  BY DEF Encoded
<1>2. Sound(i) /\ PhaseInv(i) /\ QueueInv(i, F, R) /\ WordInv(i) /\ ExtInv(i, F, R) /\ JumpInv(i, F, R)
  BY DEF Emitted
<1>3. QueueInv(i, F, R)'
  BY <1>1, <1>2, StillQueues
<1>4. WordInv(i)' /\ ExtInv(i, F, R)' /\ JumpInv(i, F, R)'
  BY <1>1, <1>2, StillWords DEF Relocating
<1>5. PhaseInv(i)'
  <2>1. todo # <<"src", "dst">> /\ todo # <<"dst">>
    <3>1. <<"src", "dst">> # <<>> /\ <<"dst">> # <<>>
      OBVIOUS
    <3> QED BY <1>1, <3>1
  <2> QED BY <1>1, <1>2, <2>1 DEF PhaseInv
<1>6. errors' = {}
  BY <1>1, <1>2 DEF PhaseInv
<1> QED BY <1>2, <1>3, <1>4, <1>5, <1>6 DEF Emitted

-------------------------------------------------------------------------------
(* A fixup *)

\* The first of a queue, and the rest.
LEMMA QueueHead ==
  ASSUME NEW q, NEW Q \in SUBSET Names, NEW s, NEW d, Queue(q, Q, s, d), q # <<>>
  PROVE  \E x \in Q : /\ Head(q) = IF x = "src" THEN s ELSE d
                      /\ Queue(Tail(q), Q \ {x}, s, d)
                      /\ x = "dst" => "src" \notin Q
<1>1. Q # {}
  BY DEF Queue
<1>2. CASE Q = {"src"}
  <2>1. q = <<s>> /\ Q \ {"src"} = {}
    BY <1>2 DEF Queue
  <2>2. Head(q) = s /\ Tail(q) = <<>>
    BY <2>1, Ends
  <2>3. Queue(Tail(q), Q \ {"src"}, s, d)
    BY <2>1, <2>2, QueueOf
  <2> QED BY <1>2, <2>2, <2>3
<1>3. CASE Q = {"dst"}
  <2>1. q = <<d>> /\ Q \ {"dst"} = {}
    BY <1>3, QueueOf DEF Queue
  <2>2. Head(q) = d /\ Tail(q) = <<>>
    BY <2>1, Ends
  <2>3. Queue(Tail(q), Q \ {"dst"}, s, d)
    BY <2>1, <2>2, QueueOf
  <2> QED BY <1>3, <2>2, <2>3
<1>4. CASE Q = {"src", "dst"}
  <2>1. q = <<s, d>> /\ Q \ {"src"} = {"dst"}
    BY <1>4 DEF Queue
  <2>2. Head(q) = s /\ Tail(q) = <<d>>
    BY <2>1, Ends
  <2>3. Queue(Tail(q), Q \ {"src"}, s, d)
    BY <2>1, <2>2, QueueOf
  <2> QED BY <1>4, <2>2, <2>3
<1> QED BY <1>1, <1>2, <1>3, <1>4, NamesAre

LEMMA QueueEmpty ==
  ASSUME NEW q, NEW Q \in SUBSET Names, NEW s, NEW d, Queue(q, Q, s, d)
  PROVE  q = <<>> <=> Q = {}
BY NamesAre, Ends DEF Queue

\* The end of a queue.
LEMMA QueueLast ==
  ASSUME NEW q, NEW Q \in SUBSET Names, NEW s, NEW d, Queue(q, Q, s, d),
         NEW x \in Names, x \notin Q, "dst" \notin Q
  PROVE  Queue(Append(q, IF x = "src" THEN s ELSE d), Q \cup {x}, s, d)
<1>1. CASE Q = {}
  <2>1. q = <<>>
    BY <1>1 DEF Queue
  <2>2. CASE x = "src"
    <3>1. Append(q, s) = <<s>> /\ Q \cup {x} = {"src"}
      BY <1>1, <2>1, <2>2, Ends
    <3> QED BY <2>2, <3>1, QueueOf
  <2>3. CASE x = "dst"
    <3>1. Append(q, d) = <<d>> /\ Q \cup {x} = {"dst"}
      BY <1>1, <2>1, <2>3, Ends
    <3> QED BY <2>3, <3>1, QueueOf
  <2> QED BY <2>2, <2>3, NamesAre
<1>2. CASE Q = {"src"}
  <2>1. q = <<s>> /\ x = "dst" /\ Q \cup {x} = {"src", "dst"}
    BY <1>2, NamesAre DEF Queue
  <2>2. Append(q, d) = <<s, d>>
    BY <2>1, Ends
  <2> QED BY <2>1, <2>2, QueueOf
<1> QED BY <1>1, <1>2, NamesAre

\* Fixup does that of operand x.
LEMMA FixupIs ==
  ASSUME NEW i, NEW F, NEW R, QueueInv(i, F, R), Fixup
  PROVE  \E x \in F :
           /\ Head(fixups) = Fix(i, x)
           /\ QueueInv(i, F \ {x}, IF IsResolved(Fix(i, x)) THEN R ELSE R \cup {x})'
<1>1. PICK s, d : s = Fix(i, "src") /\ d = Fix(i, "dst")
  OBVIOUS
<1>2. /\ F \subseteq Names /\ R \subseteq Names
      /\ Queue(fixups, F, s, d) /\ Queue(relocs, R, Reloc(s), Reloc(d))
      /\ \A y \in F \cup R : HasSym(Opnd(i, y)) /\ HasBeenEncoded(y)
      /\ \A y \in R : y \notin F /\ ~IsResolved(Fix(i, y))
      /\ "src" \in F => "dst" \notin R
  BY <1>1 DEF QueueInv
<1>3. /\ pc = "fixups" /\ pc' = "fixups" /\ fixups # <<>> /\ fixups' = Tail(fixups)
      /\ UNCHANGED <<at, todo>>
      /\ relocs' = IF IsResolved(Head(fixups)) THEN relocs ELSE Append(relocs, Reloc(Head(fixups)))
  BY DEF Fixup, Reloc
<1>4. PICK x \in F : /\ Head(fixups) = IF x = "src" THEN s ELSE d
                     /\ Queue(Tail(fixups), F \ {x}, s, d)
                     /\ x = "dst" => "src" \notin F
  BY <1>2, <1>3, QueueHead
<1>5. x \in Names /\ Head(fixups) = Fix(i, x)
  BY <1>1, <1>2, <1>4, NamesAre
<1>6. PICK G, S : G = F \ {x} /\ S = IF IsResolved(Fix(i, x)) THEN R ELSE R \cup {x}
  OBVIOUS
<1>7. Queue(relocs', S, Reloc(s), Reloc(d))
  <2>1. CASE IsResolved(Fix(i, x))
    BY <1>2, <1>3, <1>5, <1>6, <2>1
  <2>2. CASE ~IsResolved(Fix(i, x))
    <3>1. x \notin R /\ "dst" \notin R
      BY <1>2, <1>4, <1>5, NamesAre
    <3>2. Queue(Append(relocs, IF x = "src" THEN Reloc(s) ELSE Reloc(d)), R \cup {x}, Reloc(s), Reloc(d))
      BY <1>2, <1>5, <3>1, QueueLast
    <3>3. Reloc(Head(fixups)) = IF x = "src" THEN Reloc(s) ELSE Reloc(d)
      BY <1>4
    <3> QED BY <1>3, <1>5, <1>6, <2>2, <3>2, <3>3
  <2> QED BY <2>1, <2>2
<1>8. Queue(fixups', G, s, d)
  BY <1>3, <1>4, <1>6
<1>9. Reloc(s)' = Reloc(s) /\ Reloc(d)' = Reloc(d)
  BY <1>3 DEF Reloc
<1>10. /\ G \subseteq Names /\ S \subseteq Names
       /\ \A y \in G \cup S : HasSym(Opnd(i, y)) /\ HasBeenEncoded(y)
       /\ \A y \in S : y \notin G /\ ~IsResolved(Fix(i, y))
       /\ "src" \in G => "dst" \notin S
  BY <1>2, <1>4, <1>5, <1>6, NamesAre
<1>11. \A y : HasBeenEncoded(y)' <=> HasBeenEncoded(y)
  BY <1>3 DEF HasBeenEncoded
<1>12. QueueInv(i, G, S)'
  <2>1. Queue(fixups, G, s, d)' /\ Queue(relocs, S, Reloc(s), Reloc(d))'
    BY <1>7, <1>8, <1>9 DEF Queue
  <2> QED BY <1>1, <1>3, <1>10, <1>11, <2>1 DEF QueueInv
<1> QED BY <1>5, <1>6, <1>12

\* What a fixup adds, and where.
LEMMA FixedIs ==
  ASSUME NEW i, Sound(i), NEW x \in Names, HasSym(Opnd(i, x)), at \in Nat, base = 0
  PROVE  LET f == Fix(i, x)
             d == Opnd(i, x).disp
         IN /\ FixedValue(f) \in Int
            /\ ~IsResolved(f) => FixedValue(f) = 0
            /\ IsResolved(f) => /\ FixedValue(f) = d.sym.off + d.add - (at + f.offset)
                                /\ FixedValue(f) = Address(d.sym) + d.add - (base + at + f.offset)
<1>1. PICK f, d : f = Fix(i, x) /\ d = Opnd(i, x).disp
  OBVIOUS
<1>2. f.offset \in {0, 2, 4} /\ f.disp = d
  BY <1>1, FixIs
<1>3. d.add \in Int /\ d.sym.off \in Nat
  BY <1>1, SymIs
<1>4. FixedValue(f) = IF IsResolved(f) THEN d.sym.off + d.add - (at + f.offset) ELSE 0
  BY <1>2 DEF FixedValue
<1>5. IsResolved(f) => Address(d.sym) = d.sym.off
  BY <1>2, <1>3 DEF IsResolved, Address, AddressAt
<1> QED BY <1>1, <1>2, <1>3, <1>4, <1>5

LEMMA FixupExt ==
  ASSUME NEW i, NEW F, NEW R, Sound(i), at \in Nat, base = 0, UNCHANGED <<at, base, todo, pc>>,
         ExtInv(i, F, R), QueueInv(i, F, R), NEW x \in F,
         LET f == Fix(i, x) IN
         ext' = IF f.kind = "10_pcrel" THEN ext
                  ELSE [ext EXCEPT ![f.offset \div 2] = BitOr[@][FixedValue(f) % Space]]
  PROVE  ExtInv(i, F \ {x}, IF IsResolved(Fix(i, x)) THEN R ELSE R \cup {x})'
<1>1. PICK G, S : G = F \ {x} /\ S = IF IsResolved(Fix(i, x)) THEN R ELSE R \cup {x}
  OBVIOUS
<1>2. PICK f, k, n : f = Fix(i, x) /\ k = Slot(i, x) /\ n = WordCount(i)
  OBVIOUS
<1>3. x \in Names /\ HasSym(Opnd(i, x)) /\ HasBeenEncoded(x) /\ x \notin R
  BY DEF QueueInv
<1>4. ext \in [1..n -> 0..(Space - 1)] /\ \A y \in Names : HasWord(Opnd(i, y)) => ExtIs(i, y, F, R)
  BY <1>2 DEF ExtInv
<1>5. \A y : HasBeenEncoded(y)' <=> HasBeenEncoded(y)
  BY DEF HasBeenEncoded
<1>6. \A y : FinalValue(Fix(i, y))' = FinalValue(Fix(i, y))
  BY FinalSame
<1>7. \A y \in Names : y # x => (y \in G \cup S <=> y \in F \cup R)
  BY <1>1
<1>8. CASE HasWord(Opnd(i, x))
  <2>1. k \in 1..n /\ f.kind # "10_pcrel" /\ f.offset \div 2 = k
    BY <1>2, <1>3, <1>8, FixIs, SlotIs DEF HasWord
  <2>2. ext[k] = 0
    BY <1>2, <1>3, <1>4, <1>8 DEF ExtIs
  <2>3. PICK v : v = FixedValue(f) % Space /\ v \in 0..(Space - 1) /\ BitOr[0][v] = v
    <3>1. FixedValue(f) % Space \in 0..(Space - 1) /\ FixedValue(f) % Space \in Nat
      <4>1. FixedValue(f) \in Int
        BY <1>2, <1>3, FixedIs
      <4>2. FixedValue(f) % Space \in 0..(Space - 1)
        BY <4>1, WordOf
      <4> QED BY <4>2, SpaceIs
    <3> QED BY <3>1, OrZero
  <2>4. ext' = [ext EXCEPT ![k] = v]
    <3>1. BitOr[ext[k]][v] = v
      BY <2>2, <2>3
    <3>2. ext' = [ext EXCEPT ![k] = BitOr[@][v]]
      BY <1>2, <2>1, <2>3
    <3>3. ext' = [ext EXCEPT ![k] = BitOr[ext[k]][v]]
      BY <3>2
    <3> QED BY <3>1, <3>3
  <2>5. ext' \in [1..n -> 0..(Space - 1)] /\ ext'[k] = v /\ \A j \in 1..n : j # k => ext'[j] = ext[j]
    BY <1>4, <2>1, <2>3, <2>4
  <2>6. ExtIs(i, x, G, S)'
    <3>1. CASE IsResolved(f)
      <4>1. x \notin G \cup S /\ FinalValue(f) = FixedValue(f)
        BY <1>1, <1>2, <1>3, <3>1 DEF FinalValue
      <4>2. FinalValue(Fix(i, x))' = FixedValue(f)
        BY <1>2, <1>6, <4>1
      <4>3. ext'[Slot(i, x)] = FixedValue(f) % Space /\ HasBeenEncoded(x)' /\ IsResolved(Fix(i, x))
        BY <1>2, <1>3, <1>5, <2>3, <2>5, <3>1
      <4> QED BY <1>3, <4>1, <4>2, <4>3 DEF ExtIs
    <3>2. CASE ~IsResolved(f)
      <4>1. x \in S
        BY <1>1, <1>2, <3>2
      <4>2. v = 0
        <5>1. FixedValue(f) = 0
          BY <1>2, <1>3, <3>2, FixedIs
        <5>2. 0 % Space = 0
          BY WordIs, SpaceIs
        <5> QED BY <2>3, <5>1, <5>2
      <4> QED BY <1>2, <1>3, <2>5, <4>1, <4>2 DEF ExtIs
    <3> QED BY <3>1, <3>2
  <2>7. ASSUME NEW y \in Names, y # x, HasWord(Opnd(i, y)) PROVE ExtIs(i, y, G, S)'
    <3>1. PICK j : j = Slot(i, y) /\ j \in 1..n /\ j # k
      BY <1>2, <1>3, <1>8, <2>7, SlotIs
    <3>2. ext'[j] = ext[j]
      BY <2>5, <3>1
    <3>3. ExtIs(i, y, F, R)
      BY <1>4, <2>7
    <3> QED BY <1>5, <1>6, <1>7, <2>7, <3>1, <3>2, <3>3 DEF ExtIs, Relocating
  <2>8. \A y \in Names : HasWord(Opnd(i, y)) => ExtIs(i, y, G, S)'
    <3> SUFFICES ASSUME NEW y \in Names, HasWord(Opnd(i, y)) PROVE ExtIs(i, y, G, S)'
      OBVIOUS
    <3> QED BY <2>6, <2>7
  <2> QED BY <1>1, <1>2, <2>5, <2>8 DEF ExtInv
<1>9. CASE ~HasWord(Opnd(i, x))
  <2>1. ext' = ext
    <3>1. f.kind = "10_pcrel"
      BY <1>2, <1>3, <1>9, OpndIs, FixIs
    <3> QED BY <1>2, <3>1
  <2>2. ASSUME NEW y \in Names, HasWord(Opnd(i, y)) PROVE ExtIs(i, y, G, S)'
    <3>1. ExtIs(i, y, F, R) /\ y # x
      BY <1>4, <1>9, <2>2
    <3> QED BY <1>5, <1>6, <1>7, <2>1, <3>1 DEF ExtIs, Relocating
  <2> QED BY <1>1, <1>2, <1>4, <2>1, <2>2 DEF ExtInv
<1> QED BY <1>8, <1>9

\* An instruction with a jump has no other symbol.
LEMMA JumpIs ==
  ASSUME NEW i, Sound(i), NEW x \in Names, HasSym(Opnd(i, x))
  PROVE  /\ (i.op = "jump") <=> (Fix(i, x).kind = "10_pcrel")
         /\ i.op = "jump" => x = "dst" /\ Opnd(i, x) = i.dst /\ Fix(i, x).offset = 0
         /\ i.op # "jump" => HasWord(Opnd(i, x)) /\ Fix(i, x).offset \in {2, 4}
<1>1. Opnd(i, x).mode = "target" <=> i.op = "jump" /\ x = "dst"
  BY OpndIs
<1>2. i.op = "jump" => x = "dst"
  <2> SUFFICES ASSUME i.op = "jump", x = "src" PROVE FALSE
    BY NamesAre
  <2>1. i.src.mode = "none"
    BY ModesIs DEF Sound, Ops
  <2>2. ~HasWord(Opnd(i, x)) /\ Opnd(i, x).mode # "target"
    BY <2>1 DEF Opnd, HasWord
  <2> QED BY <2>2, OpndIs
<1>3. HasWord(Opnd(i, x)) \/ Opnd(i, x).mode = "target"
  BY OpndIs
<1>4. /\ (Fix(i, x).kind = "10_pcrel") <=> (Opnd(i, x).mode = "target")
      /\ Fix(i, x).offset = IF Opnd(i, x).mode = "target" THEN 0 ELSE 2 * Slot(i, x)
      /\ Slot(i, x) \in {1, 2}
  BY FixIs, SlotIs
<1> QED BY <1>1, <1>2, <1>3, <1>4 DEF Opnd

LEMMA FixupWord ==
  ASSUME NEW i, NEW F, NEW R, Sound(i), at \in Nat, base = 0, UNCHANGED <<at, base, todo, pc>>,
         WordInv(i), JumpInv(i, F, R), QueueInv(i, F, R), NEW x \in F,
         LET f == Fix(i, x)
             v == FixedValue(f)
         IN IF f.kind = "10_pcrel"
              THEN /\ word' = [word EXCEPT !.off = BitOr[@][Words(v) % (2 * Field)]]
                   /\ errors' = errors \cup JumpErrors(v)
              ELSE word' = word /\ errors' = errors
  PROVE  WordInv(i)' /\ JumpInv(i, F \ {x}, IF IsResolved(Fix(i, x)) THEN R ELSE R \cup {x})'
<1>1. PICK G, S : G = F \ {x} /\ S = IF IsResolved(Fix(i, x)) THEN R ELSE R \cup {x}
  OBVIOUS
<1>2. PICK f, v : f = Fix(i, x) /\ v = FixedValue(f)
  OBVIOUS
<1>3. x \in Names /\ HasSym(Opnd(i, x)) /\ HasBeenEncoded(x) /\ x \notin R
  BY DEF QueueInv
<1>4. v \in Int /\ (~IsResolved(f) => v = 0)
  BY <1>2, <1>3, FixedIs
<1>5. \A y : HasBeenEncoded(y)' <=> HasBeenEncoded(y)
  BY DEF HasBeenEncoded
<1>6. CASE i.op # "jump"
  <2>1. word' = word
    BY <1>2, <1>3, <1>6, JumpIs
  <2>2. WordInv(i)'
    BY <1>5, <2>1 DEF WordInv
  <2>3. JumpInv(i, G, S)'
    BY <1>6 DEF JumpInv
  <2> QED BY <1>1, <2>2, <2>3
<1>7. CASE i.op = "jump"
  <2>1. f.kind = "10_pcrel" /\ x = "dst" /\ Opnd(i, x) = i.dst
    BY <1>2, <1>3, <1>7, JumpIs
  <2>2. word.off = 0 /\ word.cond = CCOpValue[i.cond]
    BY <1>3, <1>7, <2>1 DEF JumpInv
  <2>3. PICK w : w = Words(v) % (2 * Field) /\ w \in 0..(2 * Field - 1) /\ BitOr[0][w] = w
    <3>1. Words(v) % (2 * Field) \in 0..(2 * Field - 1)
      BY <1>4, WordsIs, FieldOf
    <3>2. Words(v) % (2 * Field) \in Nat
      BY <3>1, SpaceIs
    <3> QED BY <3>1, <3>2, OrZero
  <2>4. word' = [word EXCEPT !.off = w]
    <3>1. BitOr[word.off][w] = w
      BY <2>2, <2>3
    <3>2. word' = [word EXCEPT !.off = BitOr[@][w]]
      BY <1>2, <2>1, <2>3
    <3>3. word' = [word EXCEPT !.off = BitOr[word.off][w]]
      BY <3>2
    <3> QED BY <3>1, <3>3
  <2>5. errors' = errors \cup JumpErrors(v)
    BY <1>2, <2>1
  <2>6. PICK o, r, a, b, d, c, g :
          /\ word = [op |-> o, rs |-> r, as |-> a, ad |-> b, rd |-> d, cond |-> c, off |-> g]
          /\ o \in Ops /\ r \in 0..15 /\ a \in 0..3 /\ b \in 0..1 /\ d \in 0..15 /\ c \in 0..7
    BY DEF WordInv
  <2>7. word' = [op |-> o, rs |-> r, as |-> a, ad |-> b, rd |-> d, cond |-> c, off |-> w]
    BY <2>4, <2>6
  <2>8. WordInv(i)'
    BY <1>5, <2>3, <2>6, <2>7 DEF WordInv
  <2>9. word'.off = w /\ word'.cond = CCOpValue[i.cond]
    BY <2>2, <2>6, <2>7
  <2>10. JumpInv(i, G, S)'
    <3>1. "dst" \notin G /\ HasSym(i.dst) /\ f = Fix(i, "dst") /\ ("dst" \in S <=> ~IsResolved(f))
      BY <1>1, <1>2, <1>3, <2>1
    <3>2. FinalValue(f)' = FinalValue(f) /\ (IsResolved(f) => FinalValue(f) = v)
      BY <1>2, FinalSame DEF FinalValue
    <3>3. IsResolved(f) => word'.off = Words(FinalValue(f)') % (2 * Field)
                           /\ JumpErrors(FinalValue(f)') \subseteq errors'
      BY <2>3, <2>5, <2>9, <3>2
    <3> QED BY <2>9, <3>1, <3>3 DEF JumpInv
  <2> QED BY <1>1, <2>8, <2>10
<1> QED BY <1>6, <1>7

\* Why a fixup is refused.
LEMMA FixupMisfit ==
  ASSUME NEW i, Sound(i), at \in Nat, base = 0, NEW x \in Names, HasSym(Opnd(i, x)),
         i.op = "jump", JumpErrors(FixedValue(Fix(i, x))) # {}
  PROVE  Misfit(i)
<1>1. PICK d, v : d = i.dst.disp /\ v = FixedValue(Fix(i, x))
  OBVIOUS
<1>2. Opnd(i, x) = i.dst /\ Fix(i, x).offset = 0
  BY JumpIs
<1>3. v \in Int /\ (~IsResolved(Fix(i, x)) => v = 0)
  BY <1>1, FixedIs
<1>4. IsResolved(Fix(i, x))
  BY <1>1, <1>3, NoJumpError
<1>5. v = Address(d.sym) + d.add - (base + at + 0)
  BY <1>1, <1>2, <1>4, FixedIs
<1>6. Signed(v - 2) % 2 = 1 \/ ~isInRage(Signed(v - 2))
  BY <1>1, <1>3, OutOfReach
<1>7. Address(d.sym) \in Int /\ d.add \in Int
  BY <1>1, <1>2, SymIs, SpaceIs DEF Address
<1>8. v - 2 = Address(d.sym) + d.add - (base + at + 2)
  BY <1>5, <1>7
<1>9. Signed(v - 2) = Distance(i)
  BY <1>1, <1>8 DEF Distance
<1> QED BY <1>6, <1>9 DEF Misfit

LEMMA FixupInv ==
  ASSUME NEW i, NEW F, NEW R, Emitted(i, F, R), at \in Nat, Fixup
  PROVE  \E G, S \in SUBSET Names : Emitted(i, G, S)'
<1>1. Sound(i) /\ PhaseInv(i) /\ QueueInv(i, F, R) /\ WordInv(i) /\ ExtInv(i, F, R) /\ JumpInv(i, F, R)
  BY DEF Emitted
<1>2. PICK x \in F :
        /\ Head(fixups) = Fix(i, x)
        /\ QueueInv(i, F \ {x}, IF IsResolved(Fix(i, x)) THEN R ELSE R \cup {x})'
  BY <1>1, FixupIs
<1>3. PICK G, S : G = F \ {x} /\ S = IF IsResolved(Fix(i, x)) THEN R ELSE R \cup {x}
  OBVIOUS
<1>4. PICK f, v : f = Fix(i, x) /\ v = FixedValue(f)
  OBVIOUS
<1>5. /\ pc = "fixups" /\ pc' = pc /\ base = 0 /\ UNCHANGED <<at, base, todo, Offset>>
      /\ IF f.kind = "10_pcrel"
           THEN /\ word' = [word EXCEPT !.off = BitOr[@][Words(v) % (2 * Field)]]
                /\ errors' = errors \cup JumpErrors(v)
                /\ ext' = ext
           ELSE /\ ext' = [ext EXCEPT ![f.offset \div 2] = BitOr[@][v % Space]]
                /\ word' = word /\ errors' = errors
  BY <1>1, <1>2, <1>4 DEF Fixup, PhaseInv
<1>6. ExtInv(i, G, S)'
  <2>1. ext' = IF f.kind = "10_pcrel" THEN ext ELSE [ext EXCEPT ![f.offset \div 2] = BitOr[@][v % Space]]
    BY <1>5
  <2> QED BY <1>1, <1>3, <1>4, <1>5, <2>1, FixupExt
<1>7. WordInv(i)' /\ JumpInv(i, G, S)'
  BY <1>1, <1>3, <1>4, <1>5, FixupWord
<1>8. QueueInv(i, G, S)' /\ G \in SUBSET Names /\ S \in SUBSET Names
  BY <1>1, <1>2, <1>3 DEF QueueInv
<1>9. PhaseInv(i)'
  <2>1. errors' \subseteq {"unaligned", "range"}
    BY <1>1, <1>5 DEF PhaseInv, JumpErrors
  <2> QED BY <1>1, <1>5, <2>1 DEF PhaseInv
<1>10. errors' # {} => Misfit(i)'
  <2> SUFFICES ASSUME errors' # {} PROVE Misfit(i)'
    OBVIOUS
  <2>1. Misfit(i)
    <3>1. CASE errors # {}
      BY <3>1 DEF Emitted
    <3>2. CASE errors = {}
      <4>1. f.kind = "10_pcrel" /\ JumpErrors(v) # {}
        BY <1>5, <3>2
      <4>2. x \in Names /\ HasSym(Opnd(i, x))
        BY <1>1 DEF QueueInv
      <4>3. i.op = "jump"
        BY <1>1, <1>4, <4>1, <4>2, JumpIs
      <4> QED BY <1>1, <1>4, <1>5, <4>1, <4>2, <4>3, FixupMisfit
    <3> QED BY <3>1, <3>2
  <2> QED BY <1>5, <2>1 DEF Misfit, Distance, Address
<1> QED BY <1>1, <1>6, <1>7, <1>8, <1>9, <1>10 DEF Emitted

LEMMA FixupsDoneInv ==
  ASSUME NEW i, NEW F, NEW R, Emitted(i, F, R), FixupsDone
  PROVE  Emitted(i, F, R)'
<1>1. /\ pc = "fixups" /\ fixups = <<>> /\ pc' = IF errors = {} THEN "link" ELSE "rejected"
      /\ UNCHANGED <<at, base, todo, Offset, word, ext, fixups, relocs, errors>>
  BY DEF FixupsDone
<1>2. Sound(i) /\ PhaseInv(i) /\ QueueInv(i, F, R) /\ WordInv(i) /\ ExtInv(i, F, R) /\ JumpInv(i, F, R)
  BY DEF Emitted
<1>3. F = {}
  <2>1. F \in SUBSET Names /\ Queue(fixups, F, Fix(i, "src"), Fix(i, "dst"))
    BY <1>2 DEF QueueInv
  <2> QED BY <1>1, <2>1, QueueEmpty
<1>4. QueueInv(i, F, R)'
  BY <1>1, <1>2, <1>3, StillQueues
<1>5. WordInv(i)' /\ ExtInv(i, F, R)' /\ JumpInv(i, F, R)'
  BY <1>1, <1>2, StillWords DEF Relocating
<1>6. PhaseInv(i)'
  BY <1>1, <1>2 DEF PhaseInv
<1>7. errors' # {} => Misfit(i)'
  BY <1>1 DEF Emitted, Misfit, Distance, Address
<1> QED BY <1>2, <1>4, <1>5, <1>6, <1>7 DEF Emitted

-------------------------------------------------------------------------------
(* Linking *)

LEMMA LayoutInv ==
  ASSUME NEW i, NEW F, NEW R, Emitted(i, F, R), NEW b \in Bases, Layout(b)
  PROVE  Emitted(i, F, R)'
<1>1. /\ pc = "link" /\ pc' = "relocate" /\ base' = b
      /\ UNCHANGED <<at, todo, Offset, word, ext, fixups, relocs, errors>>
  BY DEF Layout
<1>2. Sound(i) /\ PhaseInv(i) /\ QueueInv(i, F, R) /\ WordInv(i) /\ ExtInv(i, F, R) /\ JumpInv(i, F, R)
  BY DEF Emitted
<1>3. F = {}
  BY <1>1, <1>2 DEF QueueInv
<1>4. QueueInv(i, F, R)'
  BY <1>1, <1>2, <1>3, StillQueues
<1>5. \A x : HasBeenEncoded(x)' <=> HasBeenEncoded(x)
  BY <1>1 DEF HasBeenEncoded
<1>6. \A x : IsResolved(Fix(i, x)) => FinalValue(Fix(i, x))' = FinalValue(Fix(i, x))
  BY <1>1 DEF FinalValue, FixedValue
<1>7. ~Relocating
  BY <1>1 DEF Relocating
<1>8. WordInv(i)'
  BY <1>1, <1>2, <1>5 DEF WordInv
<1>9. ExtInv(i, F, R)'
  <2>1. ASSUME NEW x, ExtIs(i, x, F, R) PROVE ExtIs(i, x, F, R)'
    BY <1>1, <1>5, <1>6, <1>7, <2>1 DEF ExtIs
  <2> QED BY <1>1, <1>2, <2>1 DEF ExtInv
<1>10. JumpInv(i, F, R)'
  BY <1>1, <1>2, <1>5, <1>6, <1>7 DEF JumpInv
<1>11. PhaseInv(i)'
  BY <1>1, <1>2 DEF PhaseInv
<1>12. errors' = {}
  BY <1>1, <1>2 DEF PhaseInv
<1> QED BY <1>2, <1>4, <1>8, <1>9, <1>10, <1>11, <1>12 DEF Emitted

\* relocateOne does that of operand x.
LEMMA RelocIs ==
  ASSUME NEW i, NEW F, NEW R, QueueInv(i, F, R), relocateOne
  PROVE  \E x \in R : Head(relocs) = Reloc(Fix(i, x)) /\ QueueInv(i, F, R \ {x})'
<1>1. PICK s, d : s = Fix(i, "src") /\ d = Fix(i, "dst")
  OBVIOUS
<1>2. /\ F = {} /\ R \subseteq Names
      /\ Queue(fixups, F, s, d) /\ Queue(relocs, R, Reloc(s), Reloc(d))
      /\ \A y \in R : HasSym(Opnd(i, y)) /\ HasBeenEncoded(y)
      /\ \A y \in R : ~IsResolved(Fix(i, y))
  BY <1>1 DEF QueueInv, relocateOne
<1>3. /\ pc = "relocate" /\ pc' = "relocate" /\ relocs # <<>> /\ relocs' = Tail(relocs)
      /\ UNCHANGED <<at, todo, fixups>>
  BY DEF relocateOne
<1>4. PICK x \in R : /\ Head(relocs) = IF x = "src" THEN Reloc(s) ELSE Reloc(d)
                     /\ Queue(Tail(relocs), R \ {x}, Reloc(s), Reloc(d))
  BY <1>2, <1>3, QueueHead
<1>5. Head(relocs) = Reloc(Fix(i, x))
  BY <1>1, <1>2, <1>4, NamesAre
<1>6. Reloc(s)' = Reloc(s) /\ Reloc(d)' = Reloc(d)
  BY <1>3 DEF Reloc
<1>7. \A y : HasBeenEncoded(y)' <=> HasBeenEncoded(y)
  BY <1>3 DEF HasBeenEncoded
<1>8. PICK S : S = R \ {x}
  OBVIOUS
<1>9. Queue(fixups, F, s, d)' /\ Queue(relocs, S, Reloc(s), Reloc(d))'
  BY <1>2, <1>3, <1>4, <1>6, <1>8 DEF Queue
<1>10. QueueInv(i, F, S)'
  BY <1>1, <1>2, <1>3, <1>7, <1>8, <1>9 DEF QueueInv
<1> QED BY <1>5, <1>8, <1>10

\* What a relocation adds, and where.
LEMMA RelocatedIs ==
  ASSUME NEW i, Sound(i), NEW x \in Names, HasSym(Opnd(i, x)), at \in Nat, base \in Bases
  PROVE  LET f == Fix(i, x)
             r == Reloc(f)
             d == Opnd(i, x).disp
         IN /\ r.kind = f.kind /\ r.disp = d /\ r.offset - at = f.offset
            /\ RelocTargetVA(r) \in Int
            /\ Address(d.sym) \in Int /\ d.add \in Int /\ base \in Nat
            /\ Address(d.sym) + d.add \in 0..(Space - 1)
            /\ IsPCRel(f.kind) => RelocTargetVA(r) = Address(d.sym) + d.add - (base + at + f.offset)
            /\ ~IsPCRel(f.kind) => RelocTargetVA(r) = Address(d.sym) + d.add
<1>1. PICK f, d, o : f = Fix(i, x) /\ d = Opnd(i, x).disp /\ o = f.offset
  OBVIOUS
<1>2. o \in {0, 2, 4} /\ f.disp = d /\ f = [offset |-> o, kind |-> f.kind, disp |-> d]
  BY <1>1, FixIs
<1>3. PICK r : r = Reloc(f)
  OBVIOUS
<1>4. r.kind = f.kind /\ r.disp = d /\ r.offset = at + o
  BY <1>2, <1>3 DEF Reloc
<1>5. base \in Nat
  BY BasesAssumption, SpaceIs
<1>6. d.add \in Int /\ Address(d.sym) \in Int /\ Address(d.sym) + d.add \in 0..(Space - 1)
  <2>1. \A b \in Bases : AddressAt(b, d.sym) + d.add \in 0..(Space - 1)
    BY <1>1, SymIs
  <2>2. d.add \in Int /\ \A b \in Int : AddressAt(b, d.sym) \in Int
    BY <1>1, SymIs
  <2> QED BY <1>5, <2>1, <2>2 DEF Address
<1>7. RelocTargetVA(r) = Address(d.sym) + d.add - (IF IsPCRel(f.kind) THEN base + (at + o) ELSE 0)
  BY <1>4 DEF RelocTargetVA
<1> QED BY <1>1, <1>2, <1>3, <1>4, <1>5, <1>6, <1>7

LEMMA RelocExt ==
  ASSUME NEW i, NEW F, NEW R, Sound(i), at \in Nat, base \in Bases, UNCHANGED <<at, base, todo, pc>>,
         pc = "relocate", ExtInv(i, F, R), QueueInv(i, F, R), NEW x \in R,
         LET f == Fix(i, x) IN
         ext' = IF f.kind = "10_pcrel" THEN ext
                  ELSE [ext EXCEPT ![f.offset \div 2] = RelocTargetVA(Reloc(f)) % Space]
  PROVE  ExtInv(i, F, R \ {x})'
<1>1. PICK S : S = R \ {x}
  OBVIOUS
<1>2. PICK f, k, n : f = Fix(i, x) /\ k = Slot(i, x) /\ n = WordCount(i)
  OBVIOUS
<1>3. x \in Names /\ HasSym(Opnd(i, x)) /\ HasBeenEncoded(x) /\ x \notin F /\ ~IsResolved(f)
  BY <1>2 DEF QueueInv
<1>4. ext \in [1..n -> 0..(Space - 1)] /\ \A y \in Names : HasWord(Opnd(i, y)) => ExtIs(i, y, F, R)
  BY <1>2 DEF ExtInv
<1>5. \A y : HasBeenEncoded(y)' <=> HasBeenEncoded(y)
  BY DEF HasBeenEncoded
<1>6. \A y : FinalValue(Fix(i, y))' = FinalValue(Fix(i, y))
  BY FinalSame
<1>7. \A y \in Names : y # x => (y \in F \cup S <=> y \in F \cup R)
  BY <1>1
<1>8. CASE HasWord(Opnd(i, x))
  <2>1. k \in 1..n /\ f.kind # "10_pcrel" /\ f.offset \div 2 = k
    BY <1>2, <1>3, <1>8, FixIs, SlotIs DEF HasWord
  <2>2. PICK v : v = RelocTargetVA(Reloc(f)) % Space /\ v \in 0..(Space - 1)
    <3>1. RelocTargetVA(Reloc(f)) \in Int
      BY <1>2, <1>3, RelocatedIs
    <3> QED BY <3>1, WordOf
  <2>3. ext' = [ext EXCEPT ![k] = v]
    BY <1>2, <2>1, <2>2
  <2>4. ext' \in [1..n -> 0..(Space - 1)] /\ ext'[k] = v /\ \A j \in 1..n : j # k => ext'[j] = ext[j]
    BY <1>4, <2>1, <2>2, <2>3
  <2>5. ExtIs(i, x, F, S)'
    <3>1. x \notin F \cup S /\ FinalValue(f) = RelocTargetVA(Reloc(f))
      BY <1>1, <1>3 DEF FinalValue
    <3>2. FinalValue(Fix(i, x))' = RelocTargetVA(Reloc(f))
      BY <1>2, <1>6, <3>1
    <3>3. ext'[Slot(i, x)] = RelocTargetVA(Reloc(f)) % Space /\ HasBeenEncoded(x)' /\ Relocating'
      BY <1>2, <1>3, <1>5, <2>2, <2>4 DEF Relocating
    <3> QED BY <1>3, <3>1, <3>2, <3>3 DEF ExtIs
  <2>6. ASSUME NEW y \in Names, y # x, HasWord(Opnd(i, y)) PROVE ExtIs(i, y, F, S)'
    <3>1. PICK j : j = Slot(i, y) /\ j \in 1..n /\ j # k
      BY <1>2, <1>3, <1>8, <2>6, SlotIs
    <3>2. ext'[j] = ext[j]
      BY <2>4, <3>1
    <3>3. ExtIs(i, y, F, R)
      BY <1>4, <2>6
    <3> QED BY <1>5, <1>6, <1>7, <2>6, <3>1, <3>2, <3>3 DEF ExtIs, Relocating
  <2>7. \A y \in Names : HasWord(Opnd(i, y)) => ExtIs(i, y, F, S)'
    <3> SUFFICES ASSUME NEW y \in Names, HasWord(Opnd(i, y)) PROVE ExtIs(i, y, F, S)'
      OBVIOUS
    <3> QED BY <2>5, <2>6
  <2> QED BY <1>1, <1>2, <2>4, <2>7 DEF ExtInv
<1>9. CASE ~HasWord(Opnd(i, x))
  <2>1. ext' = ext
    <3>1. f.kind = "10_pcrel"
      BY <1>2, <1>3, <1>9, OpndIs, FixIs
    <3> QED BY <1>2, <3>1
  <2>2. ASSUME NEW y \in Names, HasWord(Opnd(i, y)) PROVE ExtIs(i, y, F, S)'
    <3>1. ExtIs(i, y, F, R) /\ y # x
      BY <1>4, <1>9, <2>2
    <3> QED BY <1>5, <1>6, <1>7, <2>1, <3>1 DEF ExtIs, Relocating
  <2> QED BY <1>1, <1>2, <1>4, <2>1, <2>2 DEF ExtInv
<1> QED BY <1>8, <1>9

LEMMA RelocWord ==
  ASSUME NEW i, NEW F, NEW R, Sound(i), at \in Nat, base \in Bases, UNCHANGED <<at, base, todo, pc>>,
         pc = "relocate", WordInv(i), JumpInv(i, F, R), QueueInv(i, F, R), NEW x \in R,
         LET f == Fix(i, x)
             v == RelocTargetVA(Reloc(f))
         IN IF f.kind = "10_pcrel"
              THEN /\ word' = [word EXCEPT !.off = Words(v) % (2 * Field)]
                   /\ errors' = errors \cup JumpErrors(v)
              ELSE word' = word
  PROVE  WordInv(i)' /\ JumpInv(i, F, R \ {x})'
<1>1. PICK S : S = R \ {x}
  OBVIOUS
<1>2. PICK f, v : f = Fix(i, x) /\ v = RelocTargetVA(Reloc(f))
  OBVIOUS
<1>3. x \in Names /\ HasSym(Opnd(i, x)) /\ HasBeenEncoded(x) /\ x \notin F /\ ~IsResolved(f)
  BY <1>2 DEF QueueInv
<1>4. v \in Int
  BY <1>2, <1>3, RelocatedIs
<1>5. \A y : HasBeenEncoded(y)' <=> HasBeenEncoded(y)
  BY DEF HasBeenEncoded
<1>6. CASE i.op # "jump"
  <2>1. word' = word
    BY <1>2, <1>3, <1>6, JumpIs
  <2>2. WordInv(i)'
    BY <1>5, <2>1 DEF WordInv
  <2>3. JumpInv(i, F, S)'
    BY <1>6 DEF JumpInv
  <2> QED BY <1>1, <2>2, <2>3
<1>7. CASE i.op = "jump"
  <2>1. f.kind = "10_pcrel" /\ x = "dst" /\ Opnd(i, x) = i.dst
    BY <1>2, <1>3, <1>7, JumpIs
  <2>2. word.cond = CCOpValue[i.cond]
    BY <1>3, <1>7, <2>1 DEF JumpInv
  <2>3. PICK w : w = Words(v) % (2 * Field) /\ w \in 0..(2 * Field - 1)
    BY <1>4, WordsIs, FieldOf
  <2>4. word' = [word EXCEPT !.off = w] /\ errors' = errors \cup JumpErrors(v)
    BY <1>2, <2>1, <2>3
  <2>5. PICK o, r, a, b, d, c, g :
          /\ word = [op |-> o, rs |-> r, as |-> a, ad |-> b, rd |-> d, cond |-> c, off |-> g]
          /\ o \in Ops /\ r \in 0..15 /\ a \in 0..3 /\ b \in 0..1 /\ d \in 0..15 /\ c \in 0..7
    BY DEF WordInv
  <2>6. word' = [op |-> o, rs |-> r, as |-> a, ad |-> b, rd |-> d, cond |-> c, off |-> w]
    BY <2>4, <2>5
  <2>7. WordInv(i)'
    BY <1>5, <2>3, <2>5, <2>6 DEF WordInv
  <2>8. word'.off = w /\ word'.cond = CCOpValue[i.cond]
    BY <2>2, <2>5, <2>6
  <2>9. JumpInv(i, F, S)'
    <3>1. "dst" \notin F \cup S /\ HasSym(i.dst) /\ f = Fix(i, "dst")
      BY <1>1, <1>2, <1>3, <2>1
    <3>2. FinalValue(f)' = FinalValue(f) /\ FinalValue(f) = v
      BY <1>2, <1>3, FinalSame DEF FinalValue
    <3>3. word'.off = Words(FinalValue(f)') % (2 * Field) /\ JumpErrors(FinalValue(f)') \subseteq errors'
      BY <2>3, <2>4, <2>8, <3>2
    <3>4. Relocating'
      BY DEF Relocating
    <3> QED BY <2>8, <3>1, <3>3, <3>4 DEF JumpInv
  <2> QED BY <1>1, <2>7, <2>9
<1> QED BY <1>6, <1>7

\* Why a relocation is refused.
LEMMA RelocMisfit ==
  ASSUME NEW i, Sound(i), at \in Nat, base \in Bases, NEW x \in Names, HasSym(Opnd(i, x)),
         LET f == Fix(i, x)
             v == RelocTargetVA(Reloc(f))
         IN IF f.kind = "10_pcrel" THEN JumpErrors(v) # {} ELSE checkIntUInt(v) # {}
  PROVE  Misfit(i)
<1>1. PICK f, d, v : f = Fix(i, x) /\ d = Opnd(i, x).disp /\ v = RelocTargetVA(Reloc(f))
  OBVIOUS
<1>2. /\ v \in Int /\ Address(d.sym) \in Int /\ d.add \in Int /\ base \in Nat
      /\ Address(d.sym) + d.add \in 0..(Space - 1)
      /\ IsPCRel(f.kind) => v = Address(d.sym) + d.add - (base + at + f.offset)
      /\ ~IsPCRel(f.kind) => v = Address(d.sym) + d.add
  BY <1>1, RelocatedIs
<1>3. CASE i.op = "jump"
  <2>1. f.kind = "10_pcrel" /\ f.offset = 0 /\ d = i.dst.disp
    BY <1>1, <1>3, JumpIs
  <2>2. v = Address(d.sym) + d.add - (base + at + 0)
    BY <1>2, <2>1 DEF IsPCRel
  <2>3. JumpErrors(v) # {}
    BY <1>1, <2>1
  <2>4. Signed(v - 2) % 2 = 1 \/ ~isInRage(Signed(v - 2))
    BY <1>2, <2>3, OutOfReach
  <2>5. v - 2 = Address(d.sym) + d.add - (base + at + 2)
    BY <1>2, <2>2
  <2>6. Signed(v - 2) = Distance(i)
    BY <2>1, <2>5 DEF Distance
  <2> QED BY <1>3, <2>4, <2>6 DEF Misfit
<1>4. CASE i.op # "jump"
  <2>1. f.kind # "10_pcrel" /\ f.offset \in {2, 4} /\ f.kind = FixupKind(Opnd(i, x))
    BY <1>1, <1>4, JumpIs, FixIs
  <2>2. checkIntUInt(v) # {}
    BY <1>1, <2>1
  <2>3. PICK a, h, n, t \in Nat : a = Address(d.sym) + d.add /\ h = Space \div 2 /\ n = Space /\ t = base + at
    <3>1. Address(d.sym) + d.add \in Nat /\ base + at \in Nat
      BY <1>2, SpaceIs
    <3>2. Space \div 2 \in Nat /\ Space \in Nat
      BY SpaceIs
    <3> QED BY <3>1, <3>2
  <2>4. PICK o \in {2, 4} : o = f.offset
    BY <2>1
  <2>5. (IsPCRel(f.kind) => v = a - (t + o)) /\ (~IsPCRel(f.kind) => v = a) /\ a < n
    <3>1. Address(d.sym) + d.add - (base + at + f.offset) = a - (t + o)
      <4>1. base + at + f.offset = t + o
        BY <2>3, <2>4
      <4>2. Address(d.sym) + d.add = a
        BY <2>3
      <4>3. PICK e, g \in Int : e = Address(d.sym) /\ g = d.add
        BY <1>2
      <4>4. e + g = a /\ e + (g - (t + o)) = (e + g) - (t + o)
        BY <4>2, <4>3
      <4>5. e + (g - (t + o)) = a - (t + o)
        BY <4>4
      <4> QED BY <4>1, <4>3, <4>5, Zenon
    <3>2. a < n
      BY <1>2, <2>3
    <3> QED BY <1>2, <2>3, <3>1, <3>2
  <2>6. v < -h \/ v >= n
    <3>1. v \notin -(Space \div 2)..(Space - 1)
      BY <2>2 DEF checkIntUInt
    <3>2. v \notin -h..(n - 1)
      BY <2>3, <3>1
    <3> QED BY <1>2, <3>2
  <2>7. IsPCRel(f.kind) /\ a - (t + 2) < 2 - h
    BY <2>5, <2>6
  <2>8. f.kind = "16_pcrel_byte"
    BY <2>1, <2>7 DEF IsPCRel
  <2>9. Address(Opnd(i, x).disp.sym) + Opnd(i, x).disp.add - (base + at + 2) < 2 - Space \div 2
    <3>1. Address(Opnd(i, x).disp.sym) + Opnd(i, x).disp.add - (base + at + 2) = a - (t + 2)
      <4>1. Address(Opnd(i, x).disp.sym) + Opnd(i, x).disp.add = a
        BY <1>1, <2>3
      <4>2. base + at + 2 = t + 2
        BY <2>3
      <4>3. PICK e, g \in Int : e = Address(Opnd(i, x).disp.sym) /\ g = Opnd(i, x).disp.add
        BY <1>1, <1>2
      <4>4. e + g = a /\ e + (g - (t + 2)) = (e + g) - (t + 2)
        BY <4>1, <4>3
      <4>5. e + (g - (t + 2)) = a - (t + 2)
        BY <4>4
      <4> QED BY <4>2, <4>3, <4>5, Zenon
    <3> QED BY <2>3, <2>7, <3>1
  <2> QED BY <1>4, <2>1, <2>8, <2>9 DEF Misfit
<1> QED BY <1>3, <1>4

LEMMA RelocInv ==
  ASSUME NEW i, NEW F, NEW R, Emitted(i, F, R), at \in Nat, relocateOne
  PROVE  \E S \in SUBSET Names : Emitted(i, F, S)'
<1>1. Sound(i) /\ PhaseInv(i) /\ QueueInv(i, F, R) /\ WordInv(i) /\ ExtInv(i, F, R) /\ JumpInv(i, F, R)
  BY DEF Emitted
<1>2. PICK x \in R : Head(relocs) = Reloc(Fix(i, x)) /\ QueueInv(i, F, R \ {x})'
  BY <1>1, RelocIs
<1>3. PICK S : S = R \ {x}
  OBVIOUS
<1>4. PICK f, r, v : f = Fix(i, x) /\ r = Reloc(f) /\ v = RelocTargetVA(r)
  OBVIOUS
<1>5. x \in Names /\ HasSym(Opnd(i, x))
  BY <1>1 DEF QueueInv
<1>6. pc = "relocate" /\ base \in Bases
  BY <1>1 DEF relocateOne, PhaseInv
<1>7. r.kind = f.kind /\ r.offset - at = f.offset
  BY <1>1, <1>4, <1>5, <1>6, RelocatedIs
<1>8. /\ pc' = pc /\ UNCHANGED <<at, base, todo, Offset, fixups>>
      /\ IF f.kind = "10_pcrel"
           THEN /\ word' = [word EXCEPT !.off = Words(v) % (2 * Field)]
                /\ errors' = errors \cup JumpErrors(v)
                /\ ext' = ext
           ELSE /\ ext' = [ext EXCEPT ![f.offset \div 2] = v % Space]
                /\ errors' = errors \cup checkIntUInt(v)
                /\ word' = word
  BY <1>2, <1>4, <1>7 DEF relocateOne
<1>9. ExtInv(i, F, S)'
  <2>1. ext' = IF f.kind = "10_pcrel" THEN ext ELSE [ext EXCEPT ![f.offset \div 2] = RelocTargetVA(Reloc(f)) % Space]
    BY <1>4, <1>8
  <2> QED BY <1>1, <1>3, <1>4, <1>6, <1>8, <2>1, RelocExt
<1>10. WordInv(i)' /\ JumpInv(i, F, S)'
  BY <1>1, <1>3, <1>4, <1>6, <1>8, RelocWord
<1>11. QueueInv(i, F, S)' /\ S \in SUBSET Names
  BY <1>1, <1>2, <1>3 DEF QueueInv
<1>12. PhaseInv(i)'
  <2>1. errors' \subseteq {"unaligned", "range"}
    BY <1>1, <1>8 DEF PhaseInv, JumpErrors, checkIntUInt
  <2> QED BY <1>1, <1>6, <1>8, <2>1 DEF PhaseInv
<1>13. errors' # {} => Misfit(i)'
  <2> SUFFICES ASSUME errors' # {} PROVE Misfit(i)'
    OBVIOUS
  <2>1. CASE errors # {}
    BY <1>8, <2>1 DEF Emitted, Misfit, Distance, Address
  <2>2. CASE errors = {}
    <3>1. IF f.kind = "10_pcrel" THEN JumpErrors(v) # {} ELSE checkIntUInt(v) # {}
      BY <1>8, <2>2
    <3>2. Misfit(i)
      BY <1>1, <1>4, <1>5, <1>6, <3>1, RelocMisfit
    <3> QED BY <1>8, <3>2 DEF Misfit, Distance, Address
  <2> QED BY <2>1, <2>2
<1> QED BY <1>1, <1>9, <1>10, <1>11, <1>12, <1>13 DEF Emitted

LEMMA LinkedInv ==
  ASSUME NEW i, NEW F, NEW R, Emitted(i, F, R), Linked
  PROVE  Emitted(i, F, R)'
<1>1. /\ pc = "relocate" /\ relocs = <<>> /\ pc' = IF errors = {} THEN "linked" ELSE "rejected"
      /\ UNCHANGED <<at, base, todo, Offset, word, ext, fixups, relocs, errors>>
  BY DEF Linked
<1>2. Sound(i) /\ PhaseInv(i) /\ QueueInv(i, F, R) /\ WordInv(i) /\ ExtInv(i, F, R) /\ JumpInv(i, F, R)
  BY DEF Emitted
<1>3. F = {} /\ R = {}
  <2>1. R \in SUBSET Names /\ Queue(relocs, R, Reloc(Fix(i, "src")), Reloc(Fix(i, "dst")))
    BY <1>2 DEF QueueInv
  <2> QED BY <1>1, <1>2, <2>1, QueueEmpty DEF QueueInv
<1>4. QueueInv(i, F, R)'
  BY <1>1, <1>2, <1>3, StillQueues
<1>5. WordInv(i)' /\ ExtInv(i, F, R)' /\ JumpInv(i, F, R)'
  BY <1>1, <1>2, StillWords DEF Relocating
<1>6. PhaseInv(i)'
  BY <1>1, <1>2 DEF PhaseInv
<1>7. errors' # {} => Misfit(i)'
  BY <1>1 DEF Emitted, Misfit, Distance, Address
<1> QED BY <1>2, <1>4, <1>5, <1>6, <1>7 DEF Emitted

LEMMA DumpInv ==
  ASSUME NEW i, NEW F, NEW R, Emitted(i, F, R), Dump
  PROVE  Emitted(i, F, R)'
<1>1. /\ pc = "linked" /\ pc' = "dumped"
      /\ UNCHANGED <<at, base, todo, Offset, word, ext, fixups, relocs, errors>>
  BY DEF Dump
<1>2. Sound(i) /\ PhaseInv(i) /\ QueueInv(i, F, R) /\ WordInv(i) /\ ExtInv(i, F, R) /\ JumpInv(i, F, R)
  BY DEF Emitted
<1>3. F = {} /\ R = {}
  BY <1>1, <1>2 DEF QueueInv
<1>4. QueueInv(i, F, R)'
  BY <1>1, <1>2, <1>3, StillQueues
<1>5. WordInv(i)' /\ ExtInv(i, F, R)' /\ JumpInv(i, F, R)'
  BY <1>1, <1>2, StillWords DEF Relocating
<1>6. PhaseInv(i)'
  BY <1>1, <1>2 DEF PhaseInv
<1>7. errors' # {} => Misfit(i)'
  BY <1>1 DEF Emitted, Misfit, Distance, Address
<1> QED BY <1>2, <1>4, <1>5, <1>6, <1>7 DEF Emitted

-------------------------------------------------------------------------------
(* The invariant *)

LEMMA InitInv == Init => IInv
BY SpaceIs DEF Init, IInv, Placed

LEMMA StillInv == IInv /\ UNCHANGED vars => IInv'
<1> SUFFICES ASSUME IInv, UNCHANGED vars PROVE IInv'
  OBVIOUS
<1>1. UNCHANGED <<pc, written, inst, at, todo, Offset, word, ext, fixups, relocs, base, errors>>
  BY DEF vars
<1>2. Placed'
  BY <1>1 DEF IInv, Placed
<1>3. CASE pc = "text"
  BY <1>1, <1>2, <1>3 DEF IInv
<1>4. CASE pc # "text"
  <2>1. PICK i \in {written, ThroughText(written)}, F \in SUBSET Names, R \in SUBSET Names :
          IsOf(i) /\ Emitted(i, F, R) /\ inst = IF pc = "dumped" THEN ThroughText(Decoded) ELSE i
    BY <1>4 DEF IInv
  <2>2. IsOf(i)' /\ i \in {written, ThroughText(written)}'
    BY <1>1, <2>1 DEF IsOf
  <2>3. Sound(i)
    BY <2>1 DEF Emitted
  <2>4. Emitted(i, F, R)'
    <3>1. QueueInv(i, F, R)'
      BY <1>1, <2>1 DEF Emitted, QueueInv, Queue, HasBeenEncoded, Reloc
    <3>2. WordInv(i)' /\ ExtInv(i, F, R)' /\ JumpInv(i, F, R)'
      BY <1>1, <2>1, StillWords DEF Emitted, Relocating
    <3>3. PhaseInv(i)'
      BY <1>1, <2>1 DEF Emitted, PhaseInv
    <3>4. errors' # {} => Misfit(i)'
      BY <1>1, <2>1 DEF Emitted, Misfit, Distance, Address
    <3> QED BY <2>3, <3>1, <3>2, <3>3, <3>4 DEF Emitted
  <2>5. Decoded' = Decoded
    BY <1>1 DEF Decoded, DecodedSrc, DecodedDst, DecodedTarget
  <2>6. inst' = IF pc' = "dumped" THEN ThroughText(Decoded)' ELSE i
    BY <1>1, <2>1, <2>5
  <2> QED BY <1>1, <1>2, <1>4, <2>1, <2>2, <2>4, <2>6 DEF IInv
<1> QED BY <1>3, <1>4

\* What the steps after the beginning leave.
LEMMA LaterInv ==
  ASSUME IInv, pc # "text", Encode \/ Encoded \/ Fixup \/ FixupsDone \/ (\E b \in Bases : Layout(b))
                            \/ relocateOne \/ Linked \/ Dump
  PROVE  IInv'
<1>1. PICK i \in {written, ThroughText(written)}, F \in SUBSET Names, R \in SUBSET Names :
        IsOf(i) /\ Emitted(i, F, R) /\ inst = IF pc = "dumped" THEN ThroughText(Decoded) ELSE i
  BY DEF IInv
<1>2. Placed /\ at \in Nat
  BY ProgramIs DEF IInv
<1>3. UNCHANGED <<written, at>> /\ pc # "dumped" /\ pc' # "text"
  <2>1. CASE Encode \/ Encoded
    BY <2>1 DEF Encode, Encoded
  <2>2. CASE Fixup \/ FixupsDone
    BY <2>2 DEF Fixup, FixupsDone
  <2>3. CASE (\E b \in Bases : Layout(b)) \/ relocateOne \/ Linked \/ Dump
    BY <2>3 DEF Layout, relocateOne, Linked, Dump
  <2> QED BY <2>1, <2>2, <2>3
<1>4. base' \in 0..(Space - 1)
  <2>1. CASE \E b \in Bases : Layout(b)
    BY <2>1, BasesAssumption DEF Layout
  <2>2. CASE ~\E b \in Bases : Layout(b)
    <3>1. base' = base
      <4>1. CASE Encode \/ Encoded
        BY <4>1 DEF Encode, Encoded
      <4>2. CASE Fixup \/ FixupsDone
        BY <4>2 DEF Fixup, FixupsDone
      <4>3. CASE relocateOne \/ Linked \/ Dump
        BY <4>3 DEF relocateOne, Linked, Dump
      <4> QED BY <2>2, <4>1, <4>2, <4>3
    <3> QED BY <1>2, <3>1 DEF Placed
  <2> QED BY <2>1, <2>2
<1>5. Placed'
  BY <1>2, <1>3, <1>4 DEF Placed
<1>6. IsOf(i)' /\ i \in {written, ThroughText(written)}'
  BY <1>1, <1>3 DEF IsOf
<1>7. inst = i
  BY <1>1, <1>3
<1>8. CASE Dump
  <2>1. Emitted(i, F, R)' /\ pc' = "dumped" /\ inst' = ThroughText(Decoded) /\ UNCHANGED <<word, ext>>
    BY <1>1, <1>8, DumpInv DEF Dump
  <2>2. Decoded' = Decoded
    BY <2>1 DEF Decoded, DecodedSrc, DecodedDst, DecodedTarget
  <2>3. inst' = ThroughText(Decoded)'
    BY <2>1, <2>2
  <2> QED BY <1>1, <1>3, <1>5, <1>6, <2>1, <2>3 DEF IInv
<1>9. CASE ~Dump
  <2>1. inst' = i /\ pc' # "dumped"
    <3>1. CASE Encode \/ Encoded
      BY <1>3, <1>7, <3>1 DEF Encode, Encoded
    <3>2. CASE Fixup \/ FixupsDone
      BY <1>3, <1>7, <3>2 DEF Fixup, FixupsDone
    <3>3. CASE (\E b \in Bases : Layout(b)) \/ relocateOne \/ Linked
      BY <1>3, <1>7, <3>3 DEF Layout, relocateOne, Linked
    <3> QED BY <1>9, <3>1, <3>2, <3>3
  <2>2. \E G, S \in SUBSET Names : Emitted(i, G, S)'
    <3>1. CASE Encode
      BY <1>1, <1>7, <3>1, EncodeInv
    <3>2. CASE Encoded \/ FixupsDone \/ Linked
      BY <1>1, <3>2, EncodedInv, FixupsDoneInv, LinkedInv
    <3>3. CASE Fixup
      BY <1>1, <1>2, <3>3, FixupInv
    <3>4. CASE \E b \in Bases : Layout(b)
      BY <1>1, <3>4, LayoutInv
    <3>5. CASE relocateOne
      BY <1>1, <1>2, <3>5, RelocInv
    <3> QED BY <1>9, <3>1, <3>2, <3>3, <3>4, <3>5
  <2>3. PICK G \in SUBSET Names, S \in SUBSET Names : Emitted(i, G, S)'
    BY <2>2
  <2> QED BY <1>3, <1>5, <1>6, <2>1, <2>3 DEF IInv
<1> QED BY <1>8, <1>9

LEMMA NextInv == IInv /\ [Next]_vars => IInv'
<1> SUFFICES ASSUME IInv, [Next]_vars PROVE IInv'
  OBVIOUS
<1>1. CASE EmitInstruction
  BY <1>1, EmitInv
<1>2. CASE PrintAndParse
  BY <1>2, ParseInv
<1>3. CASE Encode \/ Encoded \/ Fixup \/ FixupsDone \/ (\E b \in Bases : Layout(b)) \/ relocateOne \/ Linked \/ Dump
  <2>1. pc # "text"
    BY <1>3 DEF Encode, Encoded, Fixup, FixupsDone, Layout, relocateOne, Linked, Dump
  <2> QED BY <1>3, <2>1, LaterInv
<1>4. CASE UNCHANGED vars
  BY <1>4, StillInv
<1> QED BY <1>1, <1>2, <1>3, <1>4 DEF Next

\* IInv is an invariant of the emission of any program.
THEOREM Invariant == Spec => []IInv
BY InitInv, NextInv, PTL DEF Spec

-------------------------------------------------------------------------------
(* What follows *)

\* The places of the fixups of an instruction.
LEMMA PlaceOfFix ==
  ASSUME NEW i, Sound(i), NEW x \in Names, HasSym(Opnd(i, x))
  PROVE  LET f == Fix(i, x) IN
         /\ f.offset \in Nat /\ f.offset + 2 <= Size(i)
         /\ f.kind # "10_pcrel" => f.offset >= 2
         /\ \A y \in Names : y # x /\ HasSym(Opnd(i, y)) => Fix(i, y).offset # f.offset
<1>1. PICK f : f = Fix(i, x)
  OBVIOUS
<1>2. CASE i.op = "jump"
  <2>1. f.kind = "10_pcrel" /\ f.offset = 0
    BY <1>1, <1>2, JumpIs
  <2>2. WordCount(i) \in 0..2 /\ Size(i) = 2 + 2 * WordCount(i)
    BY SlotIs
  <2>3. \A y \in Names : HasSym(Opnd(i, y)) => y = x
    BY <1>2, JumpIs
  <2> QED BY <1>1, <2>1, <2>2, <2>3
<1>3. CASE i.op # "jump"
  <2>1. ASSUME NEW y \in Names, HasSym(Opnd(i, y))
        PROVE  HasWord(Opnd(i, y)) /\ Fix(i, y).offset = 2 * Slot(i, y)
    BY <1>3, <2>1, JumpIs, OpndIs, FixIs
  <2>2. PICK k, n \in Nat : k = Slot(i, x) /\ n = WordCount(i) /\ k \in 1..n /\ k \in {1, 2}
    BY <2>1, SlotIs
  <2>3. Size(i) = 2 + 2 * n
    BY <2>2, SlotIs
  <2>4. f.offset = 2 * k
    BY <1>1, <2>1, <2>2
  <2>5. ASSUME NEW y \in Names, y # x, HasSym(Opnd(i, y)) PROVE Fix(i, y).offset # f.offset
    <3>1. Slot(i, y) # k /\ Slot(i, y) \in {1, 2}
      BY <2>1, <2>2, <2>5, SlotIs
    <3>2. Fix(i, y).offset = 2 * Slot(i, y)
      BY <2>1, <2>5
    <3> QED BY <2>2, <2>4, <3>1, <3>2
  <2> QED BY <1>1, <2>2, <2>3, <2>4, <2>5
<1> QED BY <1>2, <1>3

LEMMA InvType == IInv => TypeOK
<1> SUFFICES ASSUME IInv PROVE TypeOK
  OBVIOUS
<1>1. CASE pc = "text"
  <2>1. word = BlankWord /\ ext = <<>> /\ fixups = <<>>
    BY <1>1 DEF IInv
  <2>2. DOMAIN ext = {} /\ DOMAIN fixups = {}
    BY <2>1
  <2>3. word.rs = 0 /\ word.rd = 0 /\ word.off = 0
    BY <2>1 DEF BlankWord
  <2> QED BY <1>1, <2>2, <2>3, SpaceIs DEF TypeOK
<1>2. CASE pc # "text"
  <2>1. PICK i, F, R : Emitted(i, F, R) /\ inst = IF pc = "dumped" THEN ThroughText(Decoded) ELSE i
    BY <1>2 DEF IInv
  <2>2. Sound(i) /\ PhaseInv(i) /\ QueueInv(i, F, R) /\ WordInv(i) /\ ExtInv(i, F, R)
    BY <2>1 DEF Emitted
  <2>3. \A k \in DOMAIN ext : ext[k] \in 0..(Space - 1)
    BY <2>2 DEF ExtInv
  <2>4. word.rs \in 0..15 /\ word.rd \in 0..15 /\ word.off \in 0..(2 * Field - 1)
    BY <2>2 DEF WordInv
  <2>5. PICK s, d : s = Fix(i, "src") /\ d = Fix(i, "dst")
    OBVIOUS
  <2>6. F \in SUBSET Names /\ Queue(fixups, F, s, d) /\ \A x \in F : HasSym(Opnd(i, x))
    BY <2>2, <2>5 DEF QueueInv
  <2>7. F # {} => inst = i
    BY <2>1, <2>2 DEF QueueInv
  <2>8. /\ \A k \in DOMAIN fixups :
             /\ fixups[k].offset + 2 <= Size(inst)
             /\ fixups[k].kind # "10_pcrel" => fixups[k].offset >= 2
        /\ \A k, j \in DOMAIN fixups : j # k => fixups[j].offset # fixups[k].offset
    <3>1. CASE F = {}
      <4>1. DOMAIN fixups = {}
        BY <2>6, <3>1 DEF Queue
      <4> QED BY <4>1
    <3>2. "src" \in F => s.offset + 2 <= Size(i) /\ (s.kind # "10_pcrel" => s.offset >= 2)
      BY <2>2, <2>5, <2>6, PlaceOfFix
    <3>3. "dst" \in F => d.offset + 2 <= Size(i) /\ (d.kind # "10_pcrel" => d.offset >= 2)
      BY <2>2, <2>5, <2>6, PlaceOfFix
    <3>4. CASE F = {"src"}
      <4>1. fixups = <<s>>
        BY <2>6, <3>4 DEF Queue
      <4>2. DOMAIN fixups = {1} /\ fixups[1] = s
        BY <4>1
      <4> QED BY <2>7, <3>2, <3>4, <4>2
    <3>5. CASE F = {"dst"}
      <4>1. fixups = <<d>>
        BY <2>6, <3>5 DEF Queue
      <4>2. DOMAIN fixups = {1} /\ fixups[1] = d
        BY <4>1
      <4> QED BY <2>7, <3>3, <3>5, <4>2
    <3>6. CASE F = {"src", "dst"}
      <4>1. fixups = <<s, d>>
        BY <2>6, <3>6 DEF Queue
      <4>2. DOMAIN fixups = {1, 2} /\ fixups[1] = s /\ fixups[2] = d
        BY <4>1
      <4>3. s.offset # d.offset
        <5>1. HasSym(Opnd(i, "src")) /\ HasSym(Opnd(i, "dst")) /\ "src" \in Names /\ "dst" \in Names
          BY <2>6, <3>6 DEF Names
        <5> QED BY <2>2, <2>5, <5>1, PlaceOfFix
      <4> QED BY <2>7, <3>2, <3>3, <3>6, <4>2, <4>3
    <3> QED BY <2>6, <3>1, <3>4, <3>5, <3>6, NamesAre
  <2>9. pc \in {"text", "encode", "fixups", "link", "relocate", "linked", "dumped", "rejected"}
    BY <2>2 DEF PhaseInv
  <2> QED BY <2>3, <2>4, <2>8, <2>9 DEF TypeOK
<1> QED BY <1>1, <1>2

\* The fields fit the first word and the words fit; every fixup lies inside its
\* instruction, at a word no other fixup is at.
THEOREM TypeCorrect == Spec => []TypeOK
BY Invariant, InvType, PTL

LEMMA InvFits == IInv => SelectedBranchesFit
<1> SUFFICES ASSUME IInv, pc = "rejected" PROVE SelectedBranchesFit
  BY DEF SelectedBranchesFit
<1>1. PICK i, F, R : Emitted(i, F, R) /\ inst = i
  BY DEF IInv
<1>2. Misfit(i) /\ "syntax" \notin errors
  BY <1>1 DEF Emitted, PhaseInv
<1>3. inst.op = "jump" => DistanceInBytes % 2 = 1 \/ ~isInRage(DistanceInBytes)
  BY <1>1, <1>2 DEF Misfit, Distance, DistanceInBytes
<1>4. ASSUME inst.op # "jump"
      PROVE  \E o \in {inst.src, inst.dst} :
               /\ FixupKind(o) = "16_pcrel_byte"
               /\ Address(o.disp.sym) + o.disp.add - (base + at + 2) < 2 - Space \div 2
  <2>1. PICK x \in Names :
          /\ FixupKind(Opnd(i, x)) = "16_pcrel_byte"
          /\ Address(Opnd(i, x).disp.sym) + Opnd(i, x).disp.add - (base + at + 2) < 2 - Space \div 2
    BY <1>1, <1>2, <1>4 DEF Misfit
  <2>2. PICK o : o = Opnd(i, x)
    OBVIOUS
  <2>3. o \in {inst.src, inst.dst}
    BY <1>1, <2>2 DEF Opnd
  <2> QED BY <2>1, <2>2, <2>3
<1> QED BY <1>2, <1>3, <1>4 DEF SelectedBranchesFit

\* A jump with a target that is even and as near as the branch selector lets one
\* be is refused neither by the assembler nor by the linker, wherever the section
\* is put; nor is any other instruction, unless it names a place beside PC more
\* than half of memory before it.
THEOREM SelectedBranchesFitCorrect == Spec => []SelectedBranchesFit
BY Invariant, InvFits, PTL

-------------------------------------------------------------------------------
(* What the CPU makes of what is linked *)

Settled(i) == Emitted(i, {}, {}) /\ pc \in {"linked", "dumped"} /\ at \in Nat /\ base \in Bases

LEMMA InvSettled ==
  ASSUME IInv, pc \in {"linked", "dumped"}
  PROVE  \E i \in {written, ThroughText(written)} :
           IsOf(i) /\ Settled(i) /\ inst = IF pc = "dumped" THEN ThroughText(Decoded) ELSE i
<1>1. PICK i \in {written, ThroughText(written)}, F \in SUBSET Names, R \in SUBSET Names :
        IsOf(i) /\ Emitted(i, F, R) /\ inst = IF pc = "dumped" THEN ThroughText(Decoded) ELSE i
  BY DEF IInv
<1>2. F = {} /\ R = {} /\ base \in Bases
  BY <1>1 DEF Emitted, QueueInv, PhaseInv
<1>3. at \in Nat
  BY ProgramIs DEF IInv
<1> QED BY <1>1, <1>2, <1>3 DEF Settled

\* The value of a fixup once everything has an address.
LEMMA FinalIs ==
  ASSUME NEW i, Sound(i), NEW x \in Names, HasSym(Opnd(i, x)), at \in Nat, base \in Bases
  PROVE  LET f == Fix(i, x)
             d == Opnd(i, x).disp
         IN /\ FinalValue(f) \in Int /\ Value(d) \in Int /\ base \in Nat
            /\ IsPCRel(f.kind) => FinalValue(f) = Value(d) - (base + at + f.offset)
            /\ ~IsPCRel(f.kind) => FinalValue(f) = Value(d)
<1>1. PICK f, d : f = Fix(i, x) /\ d = Opnd(i, x).disp
  OBVIOUS
<1>2. /\ RelocTargetVA(Reloc(f)) \in Int /\ base \in Nat
      /\ Address(d.sym) \in Int /\ d.add \in Int
      /\ IsPCRel(f.kind) => RelocTargetVA(Reloc(f)) = Address(d.sym) + d.add - (base + at + f.offset)
      /\ ~IsPCRel(f.kind) => RelocTargetVA(Reloc(f)) = Address(d.sym) + d.add
  BY <1>1, RelocatedIs
<1>3. PICK s, a, b, t \in Int : s = Address(d.sym) /\ a = d.add /\ b = base /\ t = at
  BY <1>2
<1>4. PICK o \in Nat : o = f.offset
  BY <1>1, FixIs
<1>5. Value(d) = s + a
  BY <1>1, <1>3 DEF Value, HasSym
<1>6. (IsPCRel(f.kind) => RelocTargetVA(Reloc(f)) = (s + a) - (b + t + o))
      /\ (~IsPCRel(f.kind) => RelocTargetVA(Reloc(f)) = s + a)
  BY <1>2, <1>3, <1>4
<1>7. IsResolved(f) => FixedValue(f) = (s + a) - (b + t + o)
  <2> SUFFICES ASSUME IsResolved(f) PROVE FixedValue(f) = (s + a) - (b + t + o)
    OBVIOUS
  <2>1. f.disp = d
    BY <1>1, FixIs
  <2>2. d.sym.def = "here"
    BY <2>1 DEF IsResolved
  <2>3. PICK e \in Int : e = d.sym.off
    BY <1>1, SymIs
  <2>4. s = b + e
    BY <1>3, <2>2, <2>3 DEF Address, AddressAt
  <2>5. FixedValue(f) = e + a - (t + o)
    BY <1>3, <1>4, <2>1, <2>3 DEF FixedValue
  <2> QED BY <2>4, <2>5
<1>8. IsResolved(f) => IsPCRel(f.kind)
  BY DEF IsResolved
<1>9. FinalValue(f) = IF IsPCRel(f.kind) THEN (s + a) - (b + t + o) ELSE s + a
  BY <1>6, <1>7, <1>8 DEF FinalValue
<1>10. IsPCRel(f.kind) => FinalValue(f) = Value(d) - (base + at + f.offset)
  BY <1>3, <1>4, <1>5, <1>9
<1>11. FinalValue(f) \in Int /\ Value(d) \in Int
  BY <1>5, <1>9
<1> QED BY <1>1, <1>2, <1>5, <1>9, <1>10, <1>11

LEMMA ValueIs ==
  ASSUME NEW i, Sound(i), NEW x \in Names, at \in Nat, base \in Bases
  PROVE  LET o == Opnd(i, x) IN
         /\ Value(o.disp) \in Int /\ base \in Nat
         /\ ~HasSym(o) => Value(o.disp) = o.disp.add
<1>1. CASE HasSym(Opnd(i, x))
  BY <1>1, FinalIs
<1>2. CASE ~HasSym(Opnd(i, x))
  <2>1. Opnd(i, x).disp.add \in Int
    BY SymIs
  <2>2. Value(Opnd(i, x).disp) = Opnd(i, x).disp.add
    BY <1>2, <2>1 DEF Value, HasSym
  <2>3. base \in Nat
    BY BasesAssumption, SpaceIs
  <2> QED BY <2>1, <2>2, <2>3
<1> QED BY <1>1, <1>2

\* The extension word of an operand says what the operand says.
LEMMA ExtSays ==
  ASSUME NEW i, Settled(i), NEW x \in Names, HasWord(Opnd(i, x))
  PROVE  LET o == Opnd(i, x)
             k == Slot(i, x)
         IN /\ ext[k] \in 0..(Space - 1)
            /\ o.mode = "imm" \/ o.reg # PCReg => ext[k] = Value(o.disp) % Space
            /\ o.mode = "mem" /\ o.reg = PCReg =>
                 Absolute(WordAddress(k) + ext[k]) =
                   Absolute(IF HasSym(o) THEN Value(o.disp) ELSE WordAddress(k) + o.disp.add)
<1>1. PICK o, k, f : o = Opnd(i, x) /\ k = Slot(i, x) /\ f = Fix(i, x)
  OBVIOUS
<1>2. Sound(i) /\ at \in Nat /\ base \in Bases /\ ExtInv(i, {}, {}) /\ HasBeenEncoded(x)
  <2>1. todo = <<>>
    BY DEF Settled, Emitted, PhaseInv
  <2>2. HasBeenEncoded(x)
    BY <2>1, NamesAre DEF HasBeenEncoded
  <2> QED BY <2>2 DEF Settled, Emitted
<1>3. k \in 1..WordCount(i) /\ k \in {1, 2}
  BY <1>1, SlotIs
<1>4. ext[k] \in 0..(Space - 1)
  BY <1>2, <1>3 DEF ExtInv
<1>5. ExtIs(i, x, {}, {})
  BY <1>2 DEF ExtInv
<1>6. ~HasSym(o) => ext[k] = o.disp.add % Space
  BY <1>1, <1>2, <1>5 DEF ExtIs
<1>7. HasSym(o) => ext[k] = FinalValue(f) % Space
  BY <1>1, <1>2, <1>5 DEF ExtIs
<1>8. Value(o.disp) \in Int /\ base \in Nat /\ (~HasSym(o) => Value(o.disp) = o.disp.add)
  BY <1>1, <1>2, ValueIs
<1>9. f.kind = FixupKind(o) /\ f.offset = 2 * k
  BY <1>1, <1>2, FixIs DEF HasWord
<1>10. o.mode = "imm" \/ o.reg # PCReg => ext[k] = Value(o.disp) % Space
  <2> SUFFICES ASSUME o.mode = "imm" \/ o.reg # PCReg PROVE ext[k] = Value(o.disp) % Space
    OBVIOUS
  <2>1. ~IsPCRel(f.kind)
    BY <1>1, <1>9 DEF HasWord, FixupKind, IsPCRel
  <2>2. HasSym(o) => FinalValue(f) = Value(o.disp)
    BY <1>1, <1>2, <2>1, FinalIs
  <2> QED BY <1>6, <1>7, <1>8, <2>2
<1>11. ASSUME o.mode = "mem", o.reg = PCReg
       PROVE  Absolute(WordAddress(k) + ext[k]) =
                Absolute(IF HasSym(o) THEN Value(o.disp) ELSE WordAddress(k) + o.disp.add)
  <2>1. IsPCRel(f.kind)
    BY <1>9, <1>11 DEF FixupKind, IsPCRel
  <2>2. PICK a, v \in Int : a = WordAddress(k) /\ v = Value(o.disp) /\ a = base + at + f.offset
    BY <1>2, <1>3, <1>8, <1>9 DEF WordAddress
  <2>3. CASE HasSym(o)
    <3>1. FinalValue(f) = v - a
      BY <1>1, <1>2, <2>1, <2>2, <2>3, FinalIs
    <3>2. (a + ((v - a) % Space)) % Space = (a + (v - a)) % Space
      BY <2>2, WordSum
    <3>3. a + (v - a) = v
      OBVIOUS
    <3>4. (a + ext[k]) % Space = v % Space
      BY <1>7, <2>3, <3>1, <3>2, <3>3
    <3> QED BY <2>2, <2>3, <3>4 DEF Absolute, Place
  <2>4. CASE ~HasSym(o)
    <3>1. (a + (v % Space)) % Space = (a + v) % Space
      BY <2>2, WordSum
    <3>2. v = o.disp.add /\ ext[k] = v % Space
      BY <1>6, <1>8, <2>2, <2>4
    <3> QED BY <2>2, <2>4, <3>1, <3>2 DEF Absolute, Place
  <2> QED BY <2>3, <2>4
<1> QED BY <1>1, <1>4, <1>10, <1>11

\* The source of a settled instruction, and whether it has a word.
LEMMA SrcSays ==
  ASSUME NEW i, Settled(i), i.op # "jump"
  PROVE  /\ word.rs \in 0..15 /\ word.as \in 0..3 /\ i.src \in Operands /\ HasMode(i.src)
         /\ i.src.mode \in {"reg", "imm", "cg", "mem", "ind", "post"}
         /\ word.rs = SrcFields(i.src)[1] /\ word.as = SrcFields(i.src)[2]
         /\ i.src.mode = "cg" => i.src.disp.sym = NoSym /\ i.src.disp.add \in CGValues
<1>1. Sound(i) /\ WordInv(i)
  BY DEF Settled, Emitted
<1>2. todo # <<"src", "dst">>
  <2>1. todo = <<>> /\ <<"src", "dst">> # <<>>
    BY DEF Settled, Emitted, PhaseInv
  <2> QED BY <2>1
<1>3. i.src \in Operands /\ HasMode(i.src) /\ i.src.mode \in {"reg", "imm", "cg", "mem", "ind", "post"}
  <2>1. "src" \in Names /\ Opnd(i, "src") = i.src
    BY DEF Names, Opnd
  <2>2. i.src.mode \in {"none", "reg", "imm", "cg", "mem", "ind", "post"} /\ i.src.mode # "none"
    BY <1>1, <2>1, OpndIs
  <2> QED BY <1>1, <2>2 DEF Sound
<1>4. word.rs \in 0..15 /\ word.as \in 0..3
  BY <1>1 DEF WordInv
<1>5. word.rs = SrcFields(i.src)[1] /\ word.as = SrcFields(i.src)[2]
  BY <1>1, <1>2, <1>3 DEF WordInv, HasBeenEncoded
<1> QED BY <1>1, <1>3, <1>4, <1>5 DEF Sound, WellFormed

LEMMA SrcHasWord ==
  ASSUME NEW i, Settled(i), i.op # "jump"
  PROVE  CpuSrcHasWord <=> HasWord(i.src)
<1>1. /\ i.src \in Operands /\ HasMode(i.src)
      /\ i.src.mode \in {"reg", "imm", "cg", "mem", "ind", "post"}
      /\ word.rs = SrcFields(i.src)[1] /\ word.as = SrcFields(i.src)[2]
      /\ i.src.mode = "cg" => i.src.disp.add \in CGValues
  BY SrcSays
<1>2. CASE i.src.mode = "cg"
  <2>1. <<word.rs, word.as>> \in {<<2, 2>>, <<2, 3>>, <<3, 0>>, <<3, 1>>, <<3, 2>>, <<3, 3>>}
    <3>1. SrcFields(i.src) = CGCode(i.src.disp.add)
      BY <1>1, <1>2, FieldsAre
    <3>2. CGCode(i.src.disp.add) \in {<<2, 2>>, <<2, 3>>, <<3, 0>>, <<3, 1>>, <<3, 2>>, <<3, 3>>}
      BY <1>1, <1>2, CodeIs
    <3> QED BY <1>1, <3>1, <3>2
  <2> QED BY <1>2, <2>1 DEF CpuSrcHasWord, HasWord, CG, PCReg
<1>3. CASE i.src.mode # "cg"
  <2>1. /\ i.src.mode = "reg" => word.rs = i.src.reg /\ word.as = 0
        /\ i.src.mode = "mem" => word.rs = i.src.reg /\ word.as = 1
        /\ i.src.mode = "ind" => word.rs = i.src.reg /\ word.as = 2
        /\ i.src.mode = "post" => word.rs = i.src.reg /\ word.as = 3
        /\ i.src.mode = "imm" => word.rs = 0 /\ word.as = 3
    BY <1>1, <1>3, FieldsAre
  <2> QED BY <1>1, <1>3, <2>1 DEF CpuSrcHasWord, HasWord, HasMode, CG, PCReg
<1> QED BY <1>2, <1>3

LEMMA SrcExecuted ==
  ASSUME NEW i, Settled(i), i.op # "jump"
  PROVE  CpuSrc = Meaning(i.src, 1)
<1>1. /\ i.src \in Operands /\ HasMode(i.src)
      /\ i.src.mode \in {"reg", "imm", "cg", "mem", "ind", "post"}
      /\ word.rs = SrcFields(i.src)[1] /\ word.as = SrcFields(i.src)[2]
      /\ i.src.mode = "cg" => i.src.disp.sym = NoSym /\ i.src.disp.add \in CGValues
  BY SrcSays
<1>2. i.src.reg \in 0..15
  BY <1>1, OperandIs
<1>3. CASE i.src.mode = "reg"
  <2>1. word.rs = i.src.reg /\ word.as = 0 /\ i.src.reg # CG
    BY <1>1, <1>3, FieldsAre DEF HasMode
  <2>2. CpuSrc = InReg(i.src.reg)
    BY <1>2, <2>1 DEF CpuSrc, CG, SR, PCReg
  <2> QED BY <1>3, <2>2 DEF Meaning
<1>4. CASE i.src.mode = "ind"
  <2>1. word.rs = i.src.reg /\ word.as = 2 /\ i.src.reg \notin {PCReg, SR, CG}
    BY <1>1, <1>4, FieldsAre DEF HasMode
  <2>2. CpuSrc = Near(i.src.reg, 0)
    BY <1>2, <2>1 DEF CpuSrc, CG, SR, PCReg
  <2> QED BY <1>4, <2>2 DEF Meaning
<1>5. CASE i.src.mode = "post"
  <2>1. word.rs = i.src.reg /\ word.as = 3 /\ i.src.reg \notin {PCReg, SR, CG}
    BY <1>1, <1>5, FieldsAre DEF HasMode
  <2>2. CpuSrc = PostInc(i.src.reg)
    BY <1>2, <2>1 DEF CpuSrc, CG, SR, PCReg
  <2> QED BY <1>5, <2>2 DEF Meaning
<1>6. CASE i.src.mode = "cg"
  <2>1. PICK c \in {0, 1, 2, 4, 8, -1} : c = i.src.disp.add
    BY <1>1, <1>6 DEF CGValues
  <2>2. c \in CGValues /\ <<word.rs, word.as>> = CGCode(c)
    <3>1. c \in CGValues
      BY <2>1 DEF CGValues
    <3>2. SrcFields(i.src) = CGCode(c)
      BY <1>1, <1>6, <2>1, FieldsAre
    <3>3. CGCode(c) \in {<<2, 2>>, <<2, 3>>, <<3, 0>>, <<3, 1>>, <<3, 2>>, <<3, 3>>}
      BY <3>1, CodeIs
    <3> QED BY <1>1, <3>1, <3>2, <3>3
  <2>3. Meaning(i.src, 1) = Const(c)
    <3>1. Value(i.src.disp) = 0 + c
      BY <1>1, <1>6, <2>1 DEF Value
    <3>2. Value(i.src.disp) = c
      BY <2>1, <3>1
    <3>3. Meaning(i.src, 1) = Const(Value(i.src.disp))
      BY <1>6 DEF Meaning
    <3> QED BY <3>2, <3>3
  <2>4. CASE c = 4
    <3>1. word.rs = 2 /\ word.as = 2
      BY <2>2, <2>4, CodeIs
    <3>2. CpuSrc = Const(4)
      BY <3>1 DEF CpuSrc, CG, SR, PCReg
    <3> QED BY <2>3, <2>4, <3>2
  <2>5. CASE c = 8
    <3>1. word.rs = 2 /\ word.as = 3
      BY <2>2, <2>5, CodeIs
    <3>2. CpuSrc = Const(8)
      BY <3>1 DEF CpuSrc, CG, SR, PCReg
    <3> QED BY <2>3, <2>5, <3>2
  <2>6. CASE c = -1
    <3>1. word.rs = 3 /\ word.as = 3
      BY <2>2, <2>6, CodeIs
    <3>2. CpuSrc = Const(-1)
      BY <3>1 DEF CpuSrc, CG, SR, PCReg
    <3> QED BY <2>3, <2>6, <3>2
  <2>7. CASE c \in {0, 1, 2}
    <3>1. word.rs = 3 /\ word.as = c
      BY <2>2, <2>7, CodeIs
    <3>2. CpuSrc = Const(c)
      BY <2>7, <3>1 DEF CpuSrc, CG, SR, PCReg
    <3> QED BY <2>3, <3>2
  <2> QED BY <2>4, <2>5, <2>6, <2>7
<1>7. "src" \in Names /\ Opnd(i, "src") = i.src /\ Slot(i, "src") = 1
  BY DEF Names, Opnd, Slot
<1>8. CASE i.src.mode = "imm"
  <2>1. word.rs = 0 /\ word.as = 3
    BY <1>1, <1>8, FieldsAre
  <2>2. CpuSrc = Const(ext[1])
    BY <2>1 DEF CpuSrc, CG, SR, PCReg
  <2>3. ext[1] = Value(i.src.disp) % Space /\ ext[1] \in 0..(Space - 1)
    BY <1>7, <1>8, ExtSays DEF HasWord
  <2>4. ext[1] % Space = Value(i.src.disp) % Space
    BY <2>3, WordIs
  <2> QED BY <1>8, <2>2, <2>4 DEF Meaning, Const, Place
<1>9. CASE i.src.mode = "mem"
  <2>1. word.rs = i.src.reg /\ word.as = 1 /\ i.src.reg # CG
    BY <1>1, <1>9, FieldsAre DEF HasMode
  <2>2. HasWord(Opnd(i, "src"))
    BY <1>7, <1>9 DEF HasWord
  <2>3. CASE i.src.reg = PCReg
    <3>1. CpuSrc = Absolute(WordAddress(1) + ext[1])
      BY <2>1, <2>3 DEF CpuSrc, CG, SR, PCReg
    <3>2. Absolute(WordAddress(1) + ext[1]) =
            Absolute(IF HasSym(i.src) THEN Value(i.src.disp) ELSE WordAddress(1) + i.src.disp.add)
      BY <1>7, <1>9, <2>2, <2>3, ExtSays
    <3>3. Meaning(i.src, 1) =
            Absolute(IF HasSym(i.src) THEN Value(i.src.disp) ELSE WordAddress(1) + i.src.disp.add)
      BY <1>9, <2>3 DEF Meaning, HasSym, PCReg, SR
    <3> QED BY <3>1, <3>2, <3>3
  <2>4. CASE i.src.reg # PCReg
    <3>1. ext[1] = Value(i.src.disp) % Space /\ ext[1] \in 0..(Space - 1)
      BY <1>7, <2>2, <2>4, ExtSays
    <3>2. ext[1] % Space = Value(i.src.disp) % Space
      BY <3>1, WordIs
    <3>3. CASE i.src.reg = SR
      <4>1. CpuSrc = Absolute(ext[1])
        BY <2>1, <3>3 DEF CpuSrc, CG, SR, PCReg
      <4>2. Meaning(i.src, 1) = Absolute(Value(i.src.disp))
        BY <1>9, <3>3 DEF Meaning, PCReg, SR
      <4> QED BY <3>2, <4>1, <4>2 DEF Absolute, Place
    <3>4. CASE i.src.reg # SR
      <4>1. CpuSrc = Near(i.src.reg, ext[1])
        BY <2>1, <2>4, <3>4 DEF CpuSrc, CG, SR, PCReg
      <4>2. Meaning(i.src, 1) = Near(i.src.reg, Value(i.src.disp))
        BY <1>9, <2>4, <3>4 DEF Meaning
      <4> QED BY <3>2, <4>1, <4>2 DEF Near, Place
    <3> QED BY <3>3, <3>4
  <2> QED BY <2>3, <2>4
<1> QED BY <1>1, <1>3, <1>4, <1>5, <1>6, <1>8, <1>9

LEMMA DstExecuted ==
  ASSUME NEW i, Settled(i), i.op \in {"add", "mov", "br"}
  PROVE  CpuDst = Meaning(i.dst, DstSlot(i)) /\ word.ad = IF HasWord(i.dst) THEN 1 ELSE 0
<1>1. Sound(i) /\ WordInv(i) /\ todo = <<>>
  BY DEF Settled, Emitted, PhaseInv
<1>2. "dst" \in Names /\ Opnd(i, "dst") = i.dst /\ Slot(i, "dst") = DstSlot(i)
  BY DEF Names, Opnd, Slot
<1>3. i.dst.mode \in {"reg", "mem"} /\ HasMode(i.dst) /\ i.dst.reg \in 0..15
  BY <1>1, ModesIs, OperandIs DEF Sound
<1>4. word.rd = i.dst.reg /\ word.ad = IF i.dst.mode = "mem" THEN 1 ELSE 0
  BY <1>1, <1>3 DEF WordInv, HasBeenEncoded
<1>5. PICK k : k = DstSlot(i)
  OBVIOUS
<1>6. k = IF CpuSrcHasWord THEN 2 ELSE 1
  BY <1>5, SrcHasWord DEF DstSlot
<1>7. HasWord(i.dst) <=> i.dst.mode = "mem"
  BY <1>3 DEF HasWord
<1>8. CASE i.dst.mode = "reg"
  <2>1. CpuDst = Place("reg", i.dst.reg, 0)
    BY <1>4, <1>8 DEF CpuDst
  <2>2. Meaning(i.dst, k) = InReg(i.dst.reg)
    BY <1>8 DEF Meaning
  <2>3. i.dst.reg # CG
    BY <1>3, <1>8 DEF HasMode
  <2> QED BY <1>4, <1>5, <1>7, <1>8, <2>1, <2>2, <2>3 DEF InReg
<1>9. CASE i.dst.mode = "mem"
  <2>1. word.rd = i.dst.reg /\ word.ad = 1
    BY <1>4, <1>9
  <2>2. CASE i.dst.reg = PCReg
    <3>1. CpuDst = Absolute(WordAddress(k) + ext[k])
      BY <1>6, <2>1, <2>2 DEF CpuDst, SR, PCReg
    <3>2. Absolute(WordAddress(k) + ext[k]) =
            Absolute(IF HasSym(i.dst) THEN Value(i.dst.disp) ELSE WordAddress(k) + i.dst.disp.add)
      BY <1>2, <1>5, <1>7, <1>9, <2>2, ExtSays
    <3>3. Meaning(i.dst, k) =
            Absolute(IF HasSym(i.dst) THEN Value(i.dst.disp) ELSE WordAddress(k) + i.dst.disp.add)
      BY <1>9, <2>2 DEF Meaning, HasSym, PCReg, SR
    <3> QED BY <1>5, <1>7, <1>9, <2>1, <3>1, <3>2, <3>3
  <2>3. CASE i.dst.reg # PCReg
    <3>1. ext[k] = Value(i.dst.disp) % Space /\ ext[k] \in 0..(Space - 1)
      BY <1>2, <1>5, <1>7, <1>9, <2>3, ExtSays
    <3>2. ext[k] % Space = Value(i.dst.disp) % Space
      BY <3>1, WordIs
    <3>3. CASE i.dst.reg = SR
      <4>1. CpuDst = Absolute(ext[k])
        BY <1>6, <2>1, <3>3 DEF CpuDst, SR, PCReg
      <4>2. Meaning(i.dst, k) = Absolute(Value(i.dst.disp))
        BY <1>9, <3>3 DEF Meaning, SR, PCReg
      <4> QED BY <1>5, <1>7, <1>9, <2>1, <3>2, <4>1, <4>2 DEF Absolute, Place
    <3>4. CASE i.dst.reg # SR
      <4>1. CpuDst = Near(i.dst.reg, ext[k])
        BY <1>6, <2>1, <2>3, <3>4 DEF CpuDst, SR, PCReg
      <4>2. Meaning(i.dst, k) = Near(i.dst.reg, Value(i.dst.disp))
        BY <1>9, <2>3, <3>4 DEF Meaning
      <4> QED BY <1>5, <1>7, <1>9, <2>1, <3>2, <4>1, <4>2 DEF Near, Place
    <3> QED BY <3>3, <3>4
  <2> QED BY <2>2, <2>3
<1> QED BY <1>3, <1>8, <1>9

LEMMA TargetExecuted ==
  ASSUME NEW i, Settled(i), i.op = "jump"
  PROVE  /\ CpuTarget = Meaning(i.dst, DstSlot(i)) /\ word.ad = 0
         /\ word.off \in 0..(2 * Field - 1) /\ word.cond = CCOpValue[i.cond]
<1>1. Sound(i) /\ WordInv(i) /\ JumpInv(i, {}, {}) /\ todo = <<>> /\ errors = {}
  BY DEF Settled, Emitted, PhaseInv
<1>2. "dst" \in Names /\ Opnd(i, "dst") = i.dst
  BY DEF Names, Opnd
<1>3. i.dst.mode = "target" /\ i.src.mode = "none"
  BY <1>1, ModesIs DEF Sound, Ops
<1>4. word.ad = 0 /\ word.off \in 0..(2 * Field - 1)
  BY <1>1, <1>3 DEF WordInv
<1>5. PICK f : f = Fix(i, "dst")
  OBVIOUS
<1>6. /\ word.cond = CCOpValue[i.cond]
      /\ ~HasSym(i.dst) => word.off = i.dst.disp.add % (2 * Field)
      /\ HasSym(i.dst) => /\ word.off = Words(FinalValue(f)) % (2 * Field)
                          /\ JumpErrors(FinalValue(f)) = {}
  BY <1>1, <1>5 DEF JumpInv, HasBeenEncoded
<1>7. PICK a \in Nat : a = base + at
  BY <1>1, <1>2, ValueIs DEF Settled
<1>8. ASSUME NEW o \in -Field..(Field - 1), word.off = o % (2 * Field)
      PROVE  CpuTarget = Absolute(a + 2 + 2 * o)
  <2>1. (IF word.off >= Field THEN word.off - 2 * Field ELSE word.off) = o
    BY <1>8, FieldBack
  <2>2. CpuTarget = Absolute(base + at + 2 + 2 * o)
    BY <2>1 DEF CpuTarget
  <2> QED BY <1>7, <2>2
<1>9. CASE ~HasSym(i.dst)
  <2>1. i.dst.disp.add \in -Field..(Field - 1)
    BY <1>1, <1>9 DEF Sound, ParsesTarget, HasSym
  <2>2. CpuTarget = Absolute(a + 2 + 2 * i.dst.disp.add)
    BY <1>6, <1>8, <1>9, <2>1
  <2>3. Meaning(i.dst, DstSlot(i)) = Absolute(base + at + 2 + 2 * i.dst.disp.add)
    BY <1>3, <1>9 DEF Meaning, HasSym
  <2> QED BY <1>4, <1>6, <1>7, <2>2, <2>3
<1>10. CASE HasSym(i.dst)
  <2>1. PICK v \in Int : v = FinalValue(f) /\ v = Value(i.dst.disp) - a
    <3>1. f.kind = "10_pcrel" /\ f.offset = 0
      BY <1>1, <1>2, <1>5, <1>10, JumpIs
    <3>2. IsPCRel(f.kind)
      BY <3>1 DEF IsPCRel
    <3>3. /\ FinalValue(f) \in Int /\ Value(i.dst.disp) \in Int
          /\ FinalValue(f) = Value(i.dst.disp) - (base + at + f.offset)
      BY <1>1, <1>2, <1>5, <1>10, <3>2, FinalIs DEF Settled
    <3>4. base + at + f.offset = a
      BY <1>7, <3>1
    <3> QED BY <3>3, <3>4
  <2>2. Value(i.dst.disp) = a + v /\ v \in Int
    <3>1. PICK u \in Int : u = Value(i.dst.disp)
      BY <1>1, <1>2, ValueIs DEF Settled
    <3> QED BY <2>1, <3>1
  <2>3. v % 2 # 1 /\ Words(v) \in -Field..(Field - 1)
    BY <1>6, <1>10, <2>1 DEF JumpErrors
  <2>4. CpuTarget = Absolute(a + 2 + 2 * Words(v))
    BY <1>6, <1>8, <1>10, <2>1, <2>3
  <2>5. (a + 2 + 2 * Words(v)) % Space = (a + v) % Space
    BY <1>7, <2>1, <2>3, JumpTo
  <2>6. Meaning(i.dst, DstSlot(i)) = Absolute(a + v)
    BY <1>3, <1>10, <2>2 DEF Meaning, HasSym
  <2> QED BY <1>4, <1>6, <2>4, <2>5, <2>6 DEF Absolute, Place
<1> QED BY <1>9, <1>10

LEMMA Executed ==
  ASSUME NEW i, Settled(i)
  PROVE  Execution = Meant(i)
<1>1. Sound(i) /\ WordInv(i) /\ i.op \in Ops
  BY DEF Settled, Emitted, Sound
<1>2. word.op = i.op /\ WellFormed(i) /\ i.cond \in CondCodes
  BY <1>1 DEF WordInv, Sound
<1>3. i.op # "jump" => i.cond = "NONE"
  BY <1>2 DEF WellFormed
<1>4. CASE i.op = "jump"
  <2>1. i.src.mode = "none" /\ i.dst.mode = "target"
    BY <1>1, <1>2, <1>4, ModesIs
  <2>2. CpuTarget = Meaning(i.dst, DstSlot(i)) /\ word.ad = 0 /\ Jumps[word.cond + 1] = i.cond
    BY <1>2, <1>4, TargetExecuted, CondBack
  <2>3. Meaning(i.src, 1) = Nowhere
    BY <2>1 DEF Meaning
  <2>4. Size(i) = 2 /\ CpuLength = 2
    BY <1>2, <1>4, <2>1, <2>2 DEF Size, HasWord, CpuLength
  <2>5. Execution = [src |-> Nowhere, dst |-> CpuTarget, cond |-> Jumps[word.cond + 1], length |-> CpuLength]
    BY <1>2, <1>4 DEF Execution, SingleOperand
  <2>6. Execution = [src |-> Meaning(i.src, 1), dst |-> Meaning(i.dst, DstSlot(i)),
                     cond |-> i.cond, length |-> Size(i)]
    BY <2>2, <2>3, <2>4, <2>5, Zenon
  <2> QED BY <2>6 DEF Meant
<1>5. CASE SingleOperand(i.op)
  <2>1. i.dst.mode = "none" /\ i.op # "jump"
    BY <1>1, <1>2, <1>5, ModesIs DEF SingleOperand
  <2>2. CpuSrc = Meaning(i.src, 1) /\ (CpuSrcHasWord <=> HasWord(i.src)) /\ word.ad = 0
    BY <1>1, <2>1, SrcExecuted, SrcHasWord DEF WordInv
  <2>3. Meaning(i.dst, DstSlot(i)) = Nowhere
    BY <2>1 DEF Meaning
  <2>4. Size(i) = CpuLength
    BY <1>2, <2>1, <2>2 DEF Size, HasWord, CpuLength
  <2> QED BY <1>2, <1>3, <1>5, <2>1, <2>2, <2>3, <2>4 DEF Execution, Meant
<1>6. CASE i.op \in {"add", "mov", "br"}
  <2>1. CpuDst = Meaning(i.dst, DstSlot(i)) /\ word.ad = IF HasWord(i.dst) THEN 1 ELSE 0
    BY <1>6, DstExecuted
  <2>2. CpuSrc = Meaning(i.src, 1) /\ (CpuSrcHasWord <=> HasWord(i.src))
    BY <1>6, SrcExecuted, SrcHasWord
  <2>3. Size(i) = CpuLength
    BY <1>2, <1>6, <2>1, <2>2 DEF Size, CpuLength
  <2> QED BY <1>2, <1>3, <1>6, <2>1, <2>2, <2>3 DEF Execution, Meant, SingleOperand
<1> QED BY <1>1, <1>4, <1>5, <1>6 DEF Ops, SingleOperand

LEMMA InvExecuted == IInv => ExecutedAsWritten
<1> SUFFICES ASSUME IInv, pc = "linked" PROVE ExecutedAsWritten
  BY DEF ExecutedAsWritten
<1>1. PICK i \in {written, ThroughText(written)} : IsOf(i) /\ Settled(i) /\ inst = i
  BY InvSettled
<1>2. Execution = Meant(i)
  BY <1>1, Executed
<1>3. i.op = written.op /\ i.cond = written.cond /\ Meant(i).src = Meant(written).src
      /\ Meant(i).dst = Meant(written).dst
  <2>1. CASE i = written
    BY <2>1
  <2>2. CASE i # written
    <3>1. i = ThroughText(written) /\ (written.op = "jump" => written.dst.disp.sym # NoSym)
      BY <1>1, <2>2 DEF IsOf
    <3>2. PICK w : w = written
      OBVIOUS
    <3>3. /\ Sound(w)
          /\ w.op = "br" => ~ZeroIndexed(w.src)
          /\ CountedFromPC(w.dst) => ~ZeroIndexed(w.src) /\ (w.src.mode = "imm" => ~Generated(w.src))
      BY <3>2, ProgramIs DEF IInv
    <3>4. w \in Instructions /\ WellFormed(w)
      BY <3>3 DEF Sound, Instructions
    <3>5. ThroughText(w).op = w.op /\ ThroughText(w).cond = w.cond
      BY <3>4, ThroughTextIs
    <3>6. ASSUME CountedFromPC(w.dst) PROVE HasWord(ThroughText(w).src) = HasWord(w.src)
      <4>1. w.src \in Operands /\ w.op \in Ops /\ w.dst.mode = "mem"
        BY <3>4, <3>6 DEF Instructions, CountedFromPC
      <4>2. w.src.mode \in {"reg", "imm", "cg", "mem", "ind", "post"} /\ w.op \in {"add", "mov"}
        BY <3>4, <4>1, ModesIs DEF Ops
      <4>3. PICK t : t = ThroughText(w).src /\ t = SourceText(w.op, w.src)
        BY <3>4, ThroughTextIs
      <4>4. w.src.mode = "cg" => Generated(w.src)
        BY <3>4 DEF WellFormed, Generated
      <4>5. t.mode = w.src.mode
        BY <3>3, <3>6, <4>1, <4>2, <4>3, <4>4, SourceTextIs
      <4> QED BY <4>3, <4>5 DEF HasWord
    <3>7. Meant(ThroughText(w)).src = Meant(w).src /\ Meant(ThroughText(w)).dst = Meant(w).dst
      BY <3>1, <3>2, <3>3, <3>4, <3>6, TextMeans
    <3> QED BY <3>1, <3>2, <3>5, <3>7
  <2> QED BY <2>1, <2>2
<1>4. Execution.cond = i.cond /\ Execution.src = Meant(i).src /\ Execution.dst = Meant(i).dst
  BY <1>2 DEF Meant
<1> QED BY <1>1, <1>2, <1>3, <1>4 DEF ExecutedAsWritten

\* Of every linked instruction, whatever the addresses and whether it went through
\* text or not, the CPU executes the operation, the condition and the operands
\* that were written: the encoder, the fixups and the linker agree on the place of
\* every extension word and on what it counts from.
THEOREM ExecutedCorrect == Spec => []ExecutedAsWritten
BY Invariant, InvExecuted, PTL

-------------------------------------------------------------------------------
(* What the disassembler makes of it *)

LEMMA ImmIs ==
  ASSUME NEW s \in Int
  PROVE  Imm(s).sym = NoSym /\ Imm(s).add = s /\ Value(Imm(s)) = s
<1>1. Imm(s).sym = NoSym /\ Imm(s).add = s
  BY DEF Imm
<1>2. Value(Imm(s)) = 0 + s
  BY <1>1 DEF Value
<1> QED BY <1>1, <1>2

LEMMA OperandOf ==
  ASSUME NEW m, NEW r, NEW d
  PROVE  Operand(m, r, d).mode = m /\ Operand(m, r, d).reg = r /\ Operand(m, r, d).disp = d
BY DEF Operand

\* The constant generator has a code for each of its constants.
LEMMA DecodeIs ==
  ASSUME NEW c \in CGValues, NEW rs, NEW as, CGCode(c) = <<rs, as>>
  PROVE  DecodeCGImm(rs, as) = c
<1>1. ASSUME NEW e \in CGValues, CGCode(e) = CGCode(c) PROVE e = c
  <2>1. /\ <<2, 2>> # <<2, 3>> /\ <<2, 2>> # <<3, 0>> /\ <<2, 2>> # <<3, 1>> /\ <<2, 2>> # <<3, 2>> /\ <<2, 2>> # <<3, 3>>
        /\ <<2, 3>> # <<3, 0>> /\ <<2, 3>> # <<3, 1>> /\ <<2, 3>> # <<3, 2>> /\ <<2, 3>> # <<3, 3>>
        /\ <<3, 0>> # <<3, 1>> /\ <<3, 0>> # <<3, 2>> /\ <<3, 0>> # <<3, 3>>
        /\ <<3, 1>> # <<3, 2>> /\ <<3, 1>> # <<3, 3>> /\ <<3, 2>> # <<3, 3>>
    OBVIOUS
  <2>2. \A x \in CGValues :
          x = 4 \/ x = 8 \/ x = 0 \/ x = 1 \/ x = 2 \/ x = -1
    BY DEF CGValues
  <2>3. \A x \in CGValues :
          /\ x = 4 => CGCode(x) = <<2, 2>>
          /\ x = 8 => CGCode(x) = <<2, 3>>
          /\ x = 0 => CGCode(x) = <<3, 0>>
          /\ x = 1 => CGCode(x) = <<3, 1>>
          /\ x = 2 => CGCode(x) = <<3, 2>>
          /\ x = -1 => CGCode(x) = <<3, 3>>
    BY CodeIs
  <2> QED BY <1>1, <2>1, <2>2, <2>3, ZenonT(60)
<1> QED BY <1>1 DEF DecodeCGImm

LEMMA AddrModeIs ==
  /\ \A r \in 0..15 : r # CG => SrcAddrMode(r, 0) = "register"
  /\ \A r \in 0..15 \ {PCReg, SR, CG} :
       SrcAddrMode(r, 1) = "indexed" /\ SrcAddrMode(r, 2) = "indirect" /\ SrcAddrMode(r, 3) = "indirectpost"
  /\ SrcAddrMode(PCReg, 1) = "symbolic" /\ SrcAddrMode(PCReg, 3) = "immediate"
  /\ SrcAddrMode(SR, 1) = "absolute"
  /\ \A p \in {<<2, 2>>, <<2, 3>>, <<3, 0>>, <<3, 1>>, <<3, 2>>, <<3, 3>>} : SrcAddrMode(p[1], p[2]) = "constant"
<1>1. ASSUME NEW r \in 0..15, r # CG PROVE SrcAddrMode(r, 0) = "register"
  BY <1>1 DEF SrcAddrMode, PCReg, SR, CG
<1>2. ASSUME NEW r \in 0..15 \ {PCReg, SR, CG}
      PROVE  SrcAddrMode(r, 1) = "indexed" /\ SrcAddrMode(r, 2) = "indirect" /\ SrcAddrMode(r, 3) = "indirectpost"
  BY <1>2 DEF SrcAddrMode, PCReg, SR, CG
<1>3. /\ SrcAddrMode(PCReg, 1) = "symbolic" /\ SrcAddrMode(PCReg, 3) = "immediate"
      /\ SrcAddrMode(SR, 1) = "absolute"
  BY DEF SrcAddrMode, PCReg, SR, CG
<1>4. ASSUME NEW r, NEW a, <<r, a>> \in {<<2, 2>>, <<2, 3>>, <<3, 0>>, <<3, 1>>, <<3, 2>>, <<3, 3>>}
      PROVE SrcAddrMode(r, a) = "constant"
  BY <1>4 DEF SrcAddrMode, PCReg, SR, CG
<1>5. \A p \in {<<2, 2>>, <<2, 3>>, <<3, 0>>, <<3, 1>>, <<3, 2>>, <<3, 3>>} : SrcAddrMode(p[1], p[2]) = "constant"
  BY <1>4
<1> QED BY <1>1, <1>2, <1>3, <1>5

\* The source that is disassembled.
LEMMA DecodedSrcIs ==
  ASSUME NEW i, Settled(i), i.op # "jump"
  PROVE  /\ i.src.mode \in {"reg", "ind", "post"} => DecodedSrc = Operand(i.src.mode, i.src.reg, Imm(0))
         /\ i.src.mode = "imm" => DecodedSrc = Operand("imm", 0, Imm(ext[1]))
         /\ i.src.mode = "cg" => DecodedSrc = Operand("cg", 0, Imm(i.src.disp.add))
         /\ i.src.mode = "mem" => DecodedSrc = Operand("mem", i.src.reg, Imm(Signed(ext[1])))
         /\ SrcWords(SrcAddrMode(word.rs, word.as)) = IF HasWord(i.src) THEN 1 ELSE 0
<1>1. /\ i.src \in Operands /\ HasMode(i.src)
      /\ i.src.mode \in {"reg", "imm", "cg", "mem", "ind", "post"}
      /\ word.rs = SrcFields(i.src)[1] /\ word.as = SrcFields(i.src)[2]
      /\ i.src.mode = "cg" => i.src.disp.sym = NoSym /\ i.src.disp.add \in CGValues
  BY SrcSays
<1>2. PICK r, am : r = i.src.reg /\ am = SrcAddrMode(word.rs, word.as)
  OBVIOUS
<1>3. r \in 0..15
  BY <1>1, <1>2, OperandIs
<1>4. CASE i.src.mode = "reg"
  <2>1. word.rs = r /\ word.as = 0 /\ r # CG
    BY <1>1, <1>2, <1>4, FieldsAre DEF HasMode
  <2>2. am = "register"
    BY <1>2, <1>3, <2>1, AddrModeIs
  <2>3. DecodedSrc = Operand("reg", r, Imm(0))
    BY <1>2, <2>1, <2>2 DEF DecodedSrc
  <2> QED BY <1>2, <1>4, <2>2, <2>3 DEF SrcWords, HasWord
<1>5. CASE i.src.mode = "ind"
  <2>1. word.rs = r /\ word.as = 2 /\ r \notin {PCReg, SR, CG}
    BY <1>1, <1>2, <1>5, FieldsAre DEF HasMode
  <2>2. am = "indirect"
    BY <1>2, <1>3, <2>1, AddrModeIs
  <2>3. DecodedSrc = Operand("ind", r, Imm(0))
    BY <1>2, <2>1, <2>2 DEF DecodedSrc
  <2> QED BY <1>2, <1>5, <2>2, <2>3 DEF SrcWords, HasWord
<1>6. CASE i.src.mode = "post"
  <2>1. word.rs = r /\ word.as = 3 /\ r \notin {PCReg, SR, CG}
    BY <1>1, <1>2, <1>6, FieldsAre DEF HasMode
  <2>2. am = "indirectpost"
    BY <1>2, <1>3, <2>1, AddrModeIs
  <2>3. DecodedSrc = Operand("post", r, Imm(0))
    BY <1>2, <2>1, <2>2 DEF DecodedSrc
  <2> QED BY <1>2, <1>6, <2>2, <2>3 DEF SrcWords, HasWord
<1>7. CASE i.src.mode = "imm"
  <2>1. word.rs = PCReg /\ word.as = 3
    BY <1>1, <1>7, FieldsAre DEF PCReg
  <2>2. am = "immediate"
    BY <1>2, <2>1, AddrModeIs
  <2>3. DecodedSrc = Operand("imm", 0, Imm(ext[1]))
    BY <1>2, <2>2 DEF DecodedSrc
  <2> QED BY <1>2, <1>7, <2>2, <2>3 DEF SrcWords, HasWord
<1>8. CASE i.src.mode = "cg"
  <2>1. PICK c \in CGValues : c = i.src.disp.add
    BY <1>1, <1>8
  <2>2. CGCode(c) \in {<<2, 2>>, <<2, 3>>, <<3, 0>>, <<3, 1>>, <<3, 2>>, <<3, 3>>}
    BY CodeIs
  <2>3. CGCode(c) = <<word.rs, word.as>>
    <3>1. SrcFields(i.src) = CGCode(c)
      BY <1>1, <1>8, <2>1, FieldsAre
    <3> QED BY <1>1, <2>2, <3>1
  <2>4. am = "constant"
    <3>1. PICK p : p = <<word.rs, word.as>>
      OBVIOUS
    <3>2. p \in {<<2, 2>>, <<2, 3>>, <<3, 0>>, <<3, 1>>, <<3, 2>>, <<3, 3>>}
      BY <2>2, <2>3, <3>1
    <3>3. SrcAddrMode(p[1], p[2]) = "constant"
      BY <3>2, AddrModeIs
    <3>4. p[1] = word.rs /\ p[2] = word.as
      BY <3>1
    <3> QED BY <1>2, <3>3, <3>4
  <2>5. DecodeCGImm(word.rs, word.as) = c
    BY <2>3, DecodeIs
  <2>6. DecodedSrc = Operand("cg", 0, Imm(c))
    BY <1>2, <2>4, <2>5 DEF DecodedSrc
  <2> QED BY <1>2, <1>8, <2>1, <2>4, <2>6 DEF SrcWords, HasWord
<1>9. CASE i.src.mode = "mem"
  <2>1. word.rs = r /\ word.as = 1 /\ r # CG
    BY <1>1, <1>2, <1>9, FieldsAre DEF HasMode
  <2>2. am \in {"indexed", "symbolic", "absolute"}
    BY <1>2, <1>3, <2>1, AddrModeIs
  <2>3. DecodedSrc = Operand("mem", r, Imm(Signed(ext[1])))
    BY <1>2, <2>1, <2>2 DEF DecodedSrc
  <2> QED BY <1>2, <1>9, <2>2, <2>3 DEF SrcWords, HasWord
<1> QED BY <1>1, <1>4, <1>5, <1>6, <1>7, <1>8, <1>9

LEMMA DecodedDstIs ==
  ASSUME NEW i, Settled(i), i.op \in {"add", "mov", "br"}
  PROVE  /\ i.dst.mode \in {"reg", "mem"} /\ i.dst.reg \in 0..15 /\ i.dst.reg # CG
         /\ i.dst.mode = "reg" => DecodedDst = Operand("reg", i.dst.reg, Imm(0))
         /\ i.dst.mode = "mem" => DecodedDst = Operand("mem", i.dst.reg, Imm(Signed(ext[DstSlot(i)])))
<1>1. Sound(i) /\ WordInv(i) /\ todo = <<>>
  BY DEF Settled, Emitted, PhaseInv
<1>2. i.dst.mode \in {"reg", "mem"} /\ HasMode(i.dst) /\ i.dst.reg \in 0..15
  BY <1>1, ModesIs, OperandIs DEF Sound
<1>3. i.dst.reg # CG
  BY <1>2 DEF HasMode
<1>4. word.rd = i.dst.reg /\ word.ad = IF i.dst.mode = "mem" THEN 1 ELSE 0
  BY <1>1, <1>2 DEF WordInv, HasBeenEncoded
<1>5. PICK k : k = DstSlot(i)
  OBVIOUS
<1>6. 1 + SrcWords(SrcAddrMode(word.rs, word.as)) = k
  <2>1. SrcWords(SrcAddrMode(word.rs, word.as)) = IF HasWord(i.src) THEN 1 ELSE 0
    BY DecodedSrcIs
  <2> QED BY <1>5, <2>1 DEF DstSlot
<1>7. CASE i.dst.mode = "reg"
  BY <1>2, <1>3, <1>4, <1>7 DEF DecodedDst
<1>8. CASE i.dst.mode = "mem"
  <2>1. word.ad # 0
    BY <1>4, <1>8
  <2>2. DecodedDst = Operand("mem", word.rd, Imm(Signed(ext[k])))
    BY <1>6, <2>1 DEF DecodedDst
  <2> QED BY <1>2, <1>3, <1>4, <1>5, <1>8, <2>2
<1> QED BY <1>2, <1>7, <1>8

\* A word that is read as a displacement means what the word does.
LEMMA Displaced ==
  ASSUME NEW e \in 0..(Space - 1), NEW a \in Int, NEW r, NEW k, WordAddress(k) = a
  PROVE  LET o == Operand("mem", r, Imm(Signed(e))) IN
         Meaning(o, k) = IF r = SR THEN Absolute(e)
                           ELSE IF r = PCReg THEN Absolute(WordAddress(k) + e) ELSE Near(r, e)
<1>1. PICK s \in Int : s = Signed(e) /\ s % Space = e % Space
  <2>1. e \in Int
    BY SpaceIs
  <2>2. Signed(e) \in Int /\ Signed(e) % Space = e % Space
    BY <2>1, SignedIs
  <2> QED BY <2>2
<1>2. Imm(s).sym = NoSym /\ Imm(s).add = s /\ Value(Imm(s)) = s
  BY ImmIs
<1>3. PICK o : o = Operand("mem", r, Imm(s)) /\ o.mode = "mem" /\ o.reg = r /\ o.disp = Imm(s)
  BY OperandOf
<1>4. Absolute(s) = Absolute(e) /\ Near(r, s) = Near(r, e)
  BY <1>1 DEF Absolute, Near, Place
<1>5. Absolute(a + s) = Absolute(a + e)
  <2>1. (a + (s % Space)) % Space = (a + s) % Space
    BY <1>1, WordSum
  <2>2. (a + (e % Space)) % Space = (a + e) % Space
    BY SpaceIs, WordSum
  <2> QED BY <1>1, <2>1, <2>2 DEF Absolute, Place
<1>6. CASE r = SR
  <2>1. Meaning(o, k) = Absolute(Value(o.disp))
    BY <1>3, <1>6 DEF Meaning, SR, PCReg
  <2> QED BY <1>1, <1>2, <1>3, <1>4, <1>6, <2>1
<1>7. CASE r = PCReg
  <2>1. Meaning(o, k) = Absolute(WordAddress(k) + o.disp.add)
    BY <1>2, <1>3, <1>7 DEF Meaning, SR, PCReg
  <2>2. Meaning(o, k) = Absolute(WordAddress(k) + e)
    BY <1>2, <1>3, <1>5, <2>1
  <2>3. r # SR
    BY <1>7 DEF SR, PCReg
  <2> QED BY <1>1, <1>3, <1>7, <2>2, <2>3
<1>8. CASE r \notin {SR, PCReg}
  <2>1. Meaning(o, k) = Near(r, Value(o.disp))
    BY <1>3, <1>8 DEF Meaning
  <2> QED BY <1>1, <1>2, <1>3, <1>4, <1>8, <2>1
<1> QED BY <1>6, <1>7, <1>8

\* The words at the end of an instruction.
LEMMA ExtWord ==
  ASSUME NEW i, Settled(i), NEW x \in Names, HasWord(Opnd(i, x))
  PROVE  ext[Slot(i, x)] \in 0..(Space - 1) /\ WordAddress(Slot(i, x)) \in Int
<1>1. base \in Nat
  BY ValueIs DEF Settled, Emitted
<1> QED BY <1>1, ExtSays, SlotIs DEF Settled, WordAddress

LEMMA DecodedSrcMeans ==
  ASSUME NEW i, Settled(i), i.op # "jump"
  PROVE  Meaning(DecodedSrc, 1) = CpuSrc /\ (HasWord(DecodedSrc) <=> HasWord(i.src))
<1>1. /\ i.src \in Operands /\ HasMode(i.src)
      /\ i.src.mode \in {"reg", "imm", "cg", "mem", "ind", "post"}
      /\ word.rs = SrcFields(i.src)[1] /\ word.as = SrcFields(i.src)[2]
      /\ i.src.mode = "cg" => i.src.disp.sym = NoSym /\ i.src.disp.add \in CGValues
  BY SrcSays
<1>2. PICK m, r, o : m = i.src.mode /\ r = i.src.reg /\ o = DecodedSrc
  OBVIOUS
<1>3. CpuSrc = Meaning(i.src, 1) /\ r \in 0..15
  BY <1>1, <1>2, SrcExecuted, OperandIs
<1>4. CASE m \in {"reg", "ind", "post"}
  <2>1. o.mode = m /\ o.reg = r
    BY <1>2, <1>4, DecodedSrcIs DEF Operand
  <2> QED BY <1>2, <1>3, <1>4, <2>1 DEF Meaning, HasWord
<1>5. CASE m = "cg"
  <2>1. PICK c \in Int : c = i.src.disp.add
    BY <1>1, <1>2, <1>5 DEF CGValues
  <2>2. o.mode = "cg" /\ o.disp = Imm(c)
    <3>1. o = Operand("cg", 0, Imm(c))
      BY <1>2, <1>5, <2>1, DecodedSrcIs
    <3> QED BY <3>1, OperandOf
  <2>3. Meaning(o, 1) = Const(c)
    BY <2>2, ImmIs DEF Meaning
  <2>4. Value(i.src.disp) = c
    <3>1. Value(i.src.disp) = 0 + c
      BY <1>1, <1>2, <1>5, <2>1 DEF Value
    <3> QED BY <3>1
  <2>5. Meaning(i.src, 1) = Const(c)
    BY <1>2, <1>5, <2>4 DEF Meaning
  <2> QED BY <1>2, <1>3, <1>5, <2>2, <2>3, <2>5 DEF HasWord
<1>6. "src" \in Names /\ Opnd(i, "src") = i.src /\ Slot(i, "src") = 1
  BY DEF Names, Opnd, Slot
<1>7. CASE m = "imm"
  <2>1. PICK e \in 0..(Space - 1) : e = ext[1]
    BY <1>2, <1>6, <1>7, ExtWord DEF HasWord
  <2>2. o.mode = "imm" /\ o.disp = Imm(e)
    <3>1. o = Operand("imm", 0, Imm(e))
      BY <1>2, <1>7, <2>1, DecodedSrcIs
    <3> QED BY <3>1, OperandOf
  <2>3. Meaning(o, 1) = Const(e)
    BY <2>2, ImmIs, SpaceIs DEF Meaning
  <2>4. CpuSrc = Const(e)
    <3>1. word.rs = 0 /\ word.as = 3
      BY <1>1, <1>2, <1>7, FieldsAre
    <3> QED BY <2>1, <3>1 DEF CpuSrc, CG, SR, PCReg
  <2> QED BY <1>2, <1>7, <2>2, <2>3, <2>4 DEF HasWord
<1>8. CASE m = "mem"
  <2>1. PICK e \in 0..(Space - 1), a \in Int : e = ext[1] /\ WordAddress(1) = a
    BY <1>2, <1>6, <1>8, ExtWord DEF HasWord
  <2>2. o = Operand("mem", r, Imm(Signed(e)))
    BY <1>2, <1>8, <2>1, DecodedSrcIs
  <2>3. o.mode = "mem"
    BY <2>2 DEF Operand
  <2>4. Meaning(o, 1) = IF r = SR THEN Absolute(e)
                          ELSE IF r = PCReg THEN Absolute(WordAddress(1) + e) ELSE Near(r, e)
    BY <2>1, <2>2, Displaced
  <2>5. word.rs = r /\ word.as = 1 /\ r # CG
    BY <1>1, <1>2, <1>8, FieldsAre DEF HasMode
  <2>6. CpuSrc = IF r = SR THEN Absolute(e)
                   ELSE IF r = PCReg THEN Absolute(WordAddress(1) + e) ELSE Near(r, e)
    BY <1>3, <2>1, <2>5 DEF CpuSrc, CG, SR, PCReg
  <2> QED BY <1>2, <1>8, <2>3, <2>4, <2>6 DEF HasWord
<1> QED BY <1>1, <1>2, <1>4, <1>5, <1>7, <1>8

LEMMA DecodedDstMeans ==
  ASSUME NEW i, Settled(i), i.op \in {"add", "mov", "br"}
  PROVE  Meaning(DecodedDst, DstSlot(i)) = CpuDst /\ (HasWord(DecodedDst) <=> word.ad = 1)
<1>1. /\ i.dst.mode \in {"reg", "mem"} /\ i.dst.reg \in 0..15 /\ i.dst.reg # CG
      /\ i.dst.mode = "reg" => DecodedDst = Operand("reg", i.dst.reg, Imm(0))
      /\ i.dst.mode = "mem" => DecodedDst = Operand("mem", i.dst.reg, Imm(Signed(ext[DstSlot(i)])))
  BY DecodedDstIs
<1>2. CpuDst = Meaning(i.dst, DstSlot(i)) /\ word.ad = IF HasWord(i.dst) THEN 1 ELSE 0
  BY DstExecuted
<1>3. PICK k, r, o : k = DstSlot(i) /\ r = i.dst.reg /\ o = DecodedDst
  OBVIOUS
<1>4. CASE i.dst.mode = "reg"
  <2>1. o.mode = "reg" /\ o.reg = r
    BY <1>1, <1>3, <1>4 DEF Operand
  <2> QED BY <1>2, <1>3, <1>4, <2>1 DEF Meaning, HasWord
<1>5. CASE i.dst.mode = "mem"
  <2>1. "dst" \in Names /\ Opnd(i, "dst") = i.dst /\ Slot(i, "dst") = k
    BY <1>3 DEF Names, Opnd, Slot
  <2>2. PICK e \in 0..(Space - 1), a \in Int : e = ext[k] /\ WordAddress(k) = a
    BY <1>5, <2>1, ExtWord DEF HasWord
  <2>3. o = Operand("mem", r, Imm(Signed(e)))
    BY <1>1, <1>3, <1>5, <2>2
  <2>4. o.mode = "mem" /\ HasWord(i.dst)
    BY <1>5, <2>3 DEF Operand, HasWord
  <2>5. Meaning(o, k) = IF r = SR THEN Absolute(e)
                          ELSE IF r = PCReg THEN Absolute(WordAddress(k) + e) ELSE Near(r, e)
    BY <2>2, <2>3, Displaced
  <2>6. word.rd = r /\ word.ad = 1
    <3>1. WordInv(i) /\ todo = <<>>
      BY DEF Settled, Emitted, PhaseInv
    <3> QED BY <1>3, <1>5, <3>1 DEF WordInv, HasBeenEncoded
  <2>7. k = IF CpuSrcHasWord THEN 2 ELSE 1
    BY <1>3, SrcHasWord DEF DstSlot
  <2>8. CpuDst = IF r = SR THEN Absolute(e)
                   ELSE IF r = PCReg THEN Absolute(WordAddress(k) + e) ELSE Near(r, e)
    BY <1>1, <1>3, <2>2, <2>6, <2>7 DEF CpuDst, SR, PCReg
  <2> QED BY <1>3, <2>4, <2>5, <2>6, <2>8 DEF HasWord
<1> QED BY <1>1, <1>4, <1>5

\* What is disassembled, field by field.
LEMMA DecodedIs ==
  ASSUME NEW i, Settled(i)
  PROVE  /\ i.op \in Ops /\ word.op = i.op
         /\ Decoded.op = i.op
         /\ Decoded.cond = i.cond /\ Execution.cond = i.cond /\ i.cond \in CondCodes
         /\ i.op # "jump" => i.cond = "NONE"
         /\ Decoded.src = IF i.op = "jump" THEN NoOperand ELSE DecodedSrc
         /\ i.op = "jump" => Decoded.dst = DecodedTarget
         /\ i.op \in {"call", "push", "rra"} => Decoded.dst = NoOperand
         /\ i.op \in {"add", "mov", "br"} => Decoded.dst = DecodedDst
<1>1. i.op \in Ops /\ word.op = i.op /\ i.cond \in CondCodes /\ WellFormed(i)
  BY DEF Settled, Emitted, Sound, WordInv
<1>2. i.op # "jump" => i.cond = "NONE"
  BY <1>1 DEF WellFormed
<1>3. Execution.cond = i.cond
  BY Executed DEF Meant
<1>4. Decoded.cond = i.cond
  <2>1. i.op = "jump" => getCondCode[word.cond + 1] = i.cond
    BY <1>1, TargetExecuted, CondBack
  <2>2. Decoded.cond = IF word.op = "jump" THEN getCondCode[word.cond + 1] ELSE "NONE"
    BY DEF Decoded
  <2> QED BY <1>1, <1>2, <2>1, <2>2
<1>5. Decoded.op = word.op /\ Decoded.src = IF word.op = "jump" THEN NoOperand ELSE DecodedSrc
  BY DEF Decoded
<1>6. Decoded.dst = CASE word.op = "jump" -> DecodedTarget
                      [] SingleOperand(word.op) -> NoOperand
                      [] OTHER -> DecodedDst
  BY DEF Decoded
<1>7. i.op = "jump" => Decoded.dst = DecodedTarget
  BY <1>1, <1>6 DEF SingleOperand
<1>8. i.op \in {"call", "push", "rra"} => Decoded.dst = NoOperand
  BY <1>1, <1>6 DEF SingleOperand
<1>9. i.op \in {"add", "mov", "br"} => Decoded.dst = DecodedDst
  BY <1>1, <1>6 DEF SingleOperand
<1> QED BY <1>1, <1>2, <1>3, <1>4, <1>5, <1>7, <1>8, <1>9

LEMMA DecodedMeans ==
  ASSUME NEW i, Settled(i)
  PROVE  Meant(Decoded) = Execution
<1>1. PICK n : n = Decoded
  OBVIOUS
<1>2. /\ i.op \in Ops /\ word.op = i.op
      /\ n.op = i.op
      /\ n.cond = i.cond /\ Execution.cond = i.cond
      /\ n.src = IF i.op = "jump" THEN NoOperand ELSE DecodedSrc
      /\ i.op = "jump" => n.dst = DecodedTarget
      /\ i.op \in {"call", "push", "rra"} => n.dst = NoOperand
      /\ i.op \in {"add", "mov", "br"} => n.dst = DecodedDst
  BY <1>1, DecodedIs
<1>3. NoOperand.mode = "none" /\ \A k : Meaning(NoOperand, k) = Nowhere
  <2>1. NoOperand.mode = "none"
    BY OperandOf DEF NoOperand
  <2> QED BY <2>1 DEF Meaning
<1>4. PICK x : x = Execution
  OBVIOUS
<1>5. /\ x.src = IF word.op = "jump" THEN Nowhere ELSE CpuSrc
      /\ x.dst = CASE word.op = "jump" -> CpuTarget
                   [] SingleOperand(word.op) -> Nowhere
                   [] OTHER -> CpuDst
      /\ x.length = CpuLength
      /\ x = [src |-> x.src, dst |-> x.dst, cond |-> x.cond, length |-> x.length]
  BY <1>4 DEF Execution
<1>6. /\ i.op = "jump" => x.dst = CpuTarget
      /\ i.op \in {"call", "push", "rra"} => x.dst = Nowhere
      /\ i.op \in {"add", "mov", "br"} => x.dst = CpuDst
  BY <1>2, <1>5 DEF SingleOperand
<1>7. i.op # "jump" => /\ x.src = CpuSrc
                       /\ Meaning(n.src, 1) = CpuSrc /\ (HasWord(n.src) <=> HasWord(i.src))
                       /\ (CpuSrcHasWord <=> HasWord(i.src))
  BY <1>2, <1>5, DecodedSrcMeans, SrcHasWord
<1>8. CASE i.op = "jump"
  <2>1. PICK o : /\ o = IF word.off >= Field THEN word.off - 2 * Field ELSE word.off
                 /\ o \in Int
    BY <1>8, TargetExecuted, SpaceIs
  <2>2. CpuTarget = Absolute(base + at + 2 + 2 * o)
    BY <2>1 DEF CpuTarget
  <2>3. n.dst = Operand("target", 0, Imm(o))
    BY <1>2, <1>8, <2>1 DEF DecodedTarget
  <2>4. n.dst.mode = "target" /\ n.dst.disp = Imm(o)
    BY <2>3, OperandOf
  <2>5. Imm(o).sym = NoSym /\ Imm(o).add = o
    BY <2>1, ImmIs
  <2>6. Meaning(n.dst, DstSlot(n)) = Absolute(base + at + 2 + 2 * o)
    BY <2>4, <2>5 DEF Meaning
  <2>7. Meaning(n.src, 1) = x.src /\ ~HasWord(n.src)
    BY <1>2, <1>3, <1>5, <1>8 DEF HasWord
  <2>8. Size(n) = x.length
    BY <1>2, <1>5, <1>8, <2>4, <2>7, TargetExecuted DEF Size, HasWord, CpuLength
  <2> QED BY <1>1, <1>2, <1>4, <1>5, <1>6, <1>8, <2>2, <2>6, <2>7, <2>8 DEF Meant
<1>9. CASE i.op \in {"call", "push", "rra"}
  <2>1. Meaning(n.dst, DstSlot(n)) = x.dst /\ ~HasWord(n.dst)
    BY <1>2, <1>3, <1>6, <1>9 DEF HasWord
  <2>2. word.ad = 0
    <3>1. Sound(i) /\ WordInv(i)
      BY DEF Settled, Emitted
    <3>2. i.dst.mode = "none"
      BY <1>9, <3>1, ModesIs DEF Sound
    <3> QED BY <3>1, <3>2 DEF WordInv
  <2>3. Size(n) = x.length
    BY <1>2, <1>5, <1>7, <1>9, <2>1, <2>2 DEF Size, CpuLength
  <2> QED BY <1>1, <1>2, <1>4, <1>5, <1>7, <1>9, <2>1, <2>3 DEF Meant
<1>10. CASE i.op \in {"add", "mov", "br"}
  <2>1. DstSlot(n) = DstSlot(i)
    BY <1>7, <1>10 DEF DstSlot
  <2>2. Meaning(n.dst, DstSlot(n)) = x.dst /\ (HasWord(n.dst) <=> word.ad = 1)
    BY <1>2, <1>6, <1>10, <2>1, DecodedDstMeans
  <2>3. word.ad \in {0, 1}
    BY <1>10, DstExecuted
  <2>4. Size(n) = x.length
    BY <1>2, <1>5, <1>7, <1>10, <2>2, <2>3 DEF Size, CpuLength
  <2> QED BY <1>1, <1>2, <1>4, <1>5, <1>7, <1>10, <2>2, <2>4 DEF Meant
<1> QED BY <1>2, <1>8, <1>9, <1>10 DEF Ops

LEMMA InvDisassembles == IInv => DisassemblesBack
<1> SUFFICES ASSUME IInv, pc = "linked" PROVE Meant(Decoded) = Execution
  BY DEF DisassemblesBack
<1>1. PICK i \in {written, ThroughText(written)} : Settled(i)
  BY InvSettled
<1> QED BY <1>1, DecodedMeans

\* Whatever is linked, the disassembler makes of its words the operands, the
\* condition and the length that the CPU makes of them.
THEOREM DisassemblesBackCorrect == Spec => []DisassemblesBack
BY Invariant, InvDisassembles, PTL

-------------------------------------------------------------------------------
(* The listing of what is linked, assembled again *)

LEMMA SomeOperand ==
  ASSUME NEW o, NEW m, NEW r, NEW c, o = Operand(m, r, Imm(c)),
         m \in {"none", "reg", "imm", "cg", "mem", "ind", "post", "target"}, r \in 0..15, c \in Int
  PROVE  o \in Operands /\ o.mode = m /\ o.reg = r /\ o.disp = Imm(c)
<1>1. Imm(c) \in References
  BY DEF Imm, References
<1> QED BY <1>1 DEF Operand, Operands

LEMMA DecodedFormed ==
  ASSUME NEW i, Settled(i), i.op # "jump"
  PROVE  Decoded \in Instructions /\ WellFormed(Decoded)
<1>1. PICK n : n = Decoded
  OBVIOUS
<1>2. /\ i.op \in Ops /\ n.op = i.op /\ n.cond = i.cond /\ i.cond \in CondCodes /\ i.cond = "NONE"
      /\ n.src = DecodedSrc
      /\ i.op \in {"call", "push", "rra"} => n.dst = NoOperand
      /\ i.op \in {"add", "mov", "br"} => n.dst = DecodedDst
      /\ n = [op |-> n.op, cond |-> n.cond, src |-> n.src, dst |-> n.dst]
  <2>1. n = [op |-> n.op, cond |-> n.cond, src |-> n.src, dst |-> n.dst]
    BY <1>1 DEF Decoded
  <2> QED BY <1>1, <2>1, DecodedIs
<1>3. Sound(i) /\ WellFormed(i)
  BY DEF Settled, Emitted, Sound
<1>4. n.src \in Operands /\ n.src.mode = i.src.mode
      /\ (n.src.mode = "cg" => n.src.disp.sym = NoSym /\ n.src.disp.add \in CGValues)
  <2>1. /\ i.src \in Operands /\ i.src.mode \in {"reg", "imm", "cg", "mem", "ind", "post"}
        /\ i.src.mode = "cg" => i.src.disp.add \in CGValues
    BY SrcSays
  <2>2. i.src.reg \in 0..15 /\ 0 \in 0..15 /\ 0 \in Int
    BY <2>1, OperandIs
  <2>3. CASE i.src.mode \in {"reg", "ind", "post"}
    <3>1. n.src = Operand(i.src.mode, i.src.reg, Imm(0))
      BY <1>2, <2>3, DecodedSrcIs
    <3>2. i.src.mode \in {"none", "reg", "imm", "cg", "mem", "ind", "post", "target"}
      BY <2>1
    <3>3. PICK m, r : m = i.src.mode /\ r = i.src.reg
      OBVIOUS
    <3>4. PICK o : o = n.src
      OBVIOUS
    <3>5. o \in Operands /\ o.mode = m
      <4>1. o = Operand(m, r, Imm(0)) /\ r \in 0..15
        BY <2>2, <3>1, <3>3, <3>4
      <4>2. m \in {"none", "reg", "imm", "cg", "mem", "ind", "post", "target"}
        BY <3>2, <3>3
      <4> QED BY <2>2, <4>1, <4>2, SomeOperand
    <3> QED BY <2>3, <3>3, <3>4, <3>5
  <2>4. CASE i.src.mode = "cg"
    <3>1. PICK c \in Int : c = i.src.disp.add /\ c \in CGValues
      BY <2>1, <2>4 DEF CGValues
    <3>2. n.src = Operand("cg", 0, Imm(c))
      BY <1>2, <2>4, <3>1, DecodedSrcIs
    <3>3. n.src \in Operands /\ n.src.mode = "cg" /\ n.src.disp = Imm(c)
      BY <2>2, <3>2, SomeOperand
    <3> QED BY <2>4, <3>1, <3>3, ImmIs
  <2>5. CASE HasWord(i.src)
    <3>1. "src" \in Names /\ Opnd(i, "src") = i.src /\ Slot(i, "src") = 1
      BY DEF Names, Opnd, Slot
    <3>2. ext[1] \in Int
      BY <2>5, <3>1, ExtWord, SpaceIs
    <3>3. Signed(ext[1]) \in Int
      BY <3>2, SignedIs
    <3>4. PICK e, s \in Int : e = ext[1] /\ s = Signed(ext[1])
      BY <3>2, <3>3
    <3>5. n.src = Operand("imm", 0, Imm(e)) \/ n.src = Operand("mem", i.src.reg, Imm(s))
      BY <1>2, <2>5, <3>4, DecodedSrcIs DEF HasWord
    <3>6. i.src.mode = "imm" => n.src = Operand("imm", 0, Imm(e))
      BY <1>2, <3>4, DecodedSrcIs
    <3>7. i.src.mode = "mem" => n.src = Operand("mem", i.src.reg, Imm(s))
      BY <1>2, <3>4, DecodedSrcIs
    <3>8. n.src \in Operands
      <4>1. PICK o, r : o = n.src /\ r = i.src.reg
        OBVIOUS
      <4>2. r \in 0..15 /\ 0 \in 0..15
        BY <2>2, <4>1
      <4>3. CASE o = Operand("imm", 0, Imm(e))
        BY <4>1, <4>2, <4>3, SomeOperand
      <4>4. CASE o = Operand("mem", r, Imm(s))
        BY <4>1, <4>2, <4>4, SomeOperand
      <4> QED BY <3>5, <4>1, <4>3, <4>4
    <3>9. n.src.mode = i.src.mode
      BY <2>5, <3>6, <3>7, OperandOf DEF HasWord
    <3> QED BY <2>5, <3>8, <3>9 DEF HasWord
  <2> QED BY <2>1, <2>3, <2>4, <2>5 DEF HasWord
<1>5. n.dst \in Operands /\ n.dst.mode = i.dst.mode /\ (i.op = "br" => n.dst.reg = PCReg)
  <2>1. CASE i.op \in {"call", "push", "rra"}
    <3>1. n.dst = Operand("none", 0, Imm(0)) /\ i.dst.mode = "none"
      BY <1>2, <1>3, <2>1, ModesIs DEF NoOperand
    <3>2. n.dst \in Operands /\ n.dst.mode = "none"
      <4>1. 0 \in 0..15 /\ 0 \in Int
        OBVIOUS
      <4> QED BY <3>1, <4>1, SomeOperand
    <3> QED BY <2>1, <3>1, <3>2
  <2>2. CASE i.op \in {"add", "mov", "br"}
    <3>1. /\ i.dst.mode \in {"reg", "mem"} /\ i.dst.reg \in 0..15
          /\ i.dst.mode = "reg" => n.dst = Operand("reg", i.dst.reg, Imm(0))
          /\ i.dst.mode = "mem" => n.dst = Operand("mem", i.dst.reg, Imm(Signed(ext[DstSlot(i)])))
      BY <1>2, <2>2, DecodedDstIs
    <3>2. i.op = "br" => i.dst.reg = PCReg
      BY <1>3 DEF WellFormed
    <3>3. CASE i.dst.mode = "reg"
      <4>1. 0 \in Int
        OBVIOUS
      <4>2. PICK o, r : o = n.dst /\ r = i.dst.reg
        OBVIOUS
      <4>3. o = Operand("reg", r, Imm(0)) /\ r \in 0..15
        BY <3>1, <3>3, <4>2
      <4>4. o \in Operands /\ o.mode = "reg" /\ o.reg = r
        BY <4>1, <4>3, SomeOperand
      <4> QED BY <3>2, <3>3, <4>2, <4>4
    <3>4. CASE i.dst.mode = "mem"
      <4>1. "dst" \in Names /\ Opnd(i, "dst") = i.dst /\ Slot(i, "dst") = DstSlot(i)
        BY DEF Names, Opnd, Slot
      <4>2. ext[DstSlot(i)] \in Int
        BY <3>4, <4>1, ExtWord, SpaceIs DEF HasWord
      <4>3. PICK s \in Int : s = Signed(ext[DstSlot(i)])
        BY <4>2, SignedIs
      <4>4. n.dst = Operand("mem", i.dst.reg, Imm(s))
        BY <3>1, <3>4, <4>3
      <4>5. PICK o, r : o = n.dst /\ r = i.dst.reg
        OBVIOUS
      <4>6. o = Operand("mem", r, Imm(s)) /\ r \in 0..15
        BY <3>1, <4>4, <4>5
      <4>7. o \in Operands /\ o.mode = "mem" /\ o.reg = r
        BY <4>3, <4>6, SomeOperand
      <4> QED BY <3>2, <3>4, <4>5, <4>7
    <3> QED BY <3>1, <3>3, <3>4
  <2> QED BY <1>2, <2>1, <2>2 DEF Ops
<1>6. n \in Instructions
  BY <1>2, <1>4, <1>5 DEF Instructions
<1>7. WellFormed(n)
  <2>1. <<i.src.mode, i.dst.mode>> \in Forms(i.op)
    BY <1>3 DEF WellFormed
  <2>2. <<n.src.mode, n.dst.mode>> \in Forms(n.op)
    BY <1>2, <1>4, <1>5, <2>1
  <2> QED BY <1>2, <1>4, <1>5, <2>2 DEF WellFormed
<1> QED BY <1>1, <1>6, <1>7

\* What is read for a listing is as long as what was listed, where that matters:
\* in a branch, which has no form with @rn, and before a word counted from PC.
ListingKeeps ==
  pc = "dumped" /\ Size(inst) # Size(Decoded) => inst.op # "br" /\ ~CountedFromPC(inst.dst)

LEMMA InvReassembles == IInv /\ ListingKeeps => ListingReassembles
<1> SUFFICES ASSUME IInv, ListingKeeps, pc = "dumped", inst.op # "jump"
             PROVE  /\ WellFormed(inst)
                    /\ <<Meant(inst).src, Meant(inst).dst>> = <<Execution.src, Execution.dst>>
  BY DEF ListingReassembles
<1>1. PICK i \in {written, ThroughText(written)} : Settled(i) /\ inst = ThroughText(Decoded)
  BY InvSettled
<1>2. PICK n : n = Decoded
  OBVIOUS
<1>3. n.op = i.op /\ i.op \in Ops
  BY <1>1, <1>2, DecodedIs
<1>4. PICK t : t = ThroughText(n) /\ t = inst
  BY <1>1, <1>2
<1>5. i.op # "jump"
  <2>1. ASSUME i.op = "jump" PROVE FALSE
    <3>1. t.op = n.op
      BY <1>4 DEF ThroughText, Matched
    <3> QED BY <1>3, <1>4, <2>1, <3>1
  <2> QED BY <2>1
<1>6. n \in Instructions /\ WellFormed(n)
  BY <1>1, <1>2, <1>5, DecodedFormed
<1>7. t.op = n.op /\ t.src = SourceText(n.op, n.src) /\ t.dst = Reparsed(n.dst, TRUE)
  BY <1>4, <1>6, ThroughTextIs
<1>8. n.src \in Operands /\ n.dst \in Operands /\ n.src.mode # "target" /\ n.dst.mode \in {"none", "reg", "mem"}
  BY <1>3, <1>5, <1>6, ModesIs DEF Instructions, Ops
<1>9. t.dst = n.dst
  BY <1>7, <1>8, ReparsedIs
<1>10. Size(t) = Size(n) => HasWord(t.src) = HasWord(n.src)
  BY <1>9 DEF Size, HasWord
<1>11. n.op = "br" => ~ZeroIndexed(n.src)
  <2> SUFFICES ASSUME n.op = "br", ZeroIndexed(n.src) PROVE FALSE
    OBVIOUS
  <2>1. t.src.mode = "ind"
    BY <1>7, <1>8, SourceTextIs
  <2>2. HasWord(n.src) /\ ~HasWord(t.src)
    BY <2>1 DEF HasWord, ZeroIndexed
  <2>3. Size(t) = Size(n)
    BY <1>2, <1>4, <1>7 DEF ListingKeeps
  <2> QED BY <1>10, <2>2, <2>3
<1>12. CountedFromPC(n.dst) => HasWord(t.src) = HasWord(n.src)
  BY <1>2, <1>4, <1>9, <1>10 DEF ListingKeeps
<1>13. WellFormed(t)
  BY <1>3, <1>4, <1>5, <1>6, <1>11, TextWellFormed
<1>14. Meant(t).src = Meant(n).src /\ Meant(t).dst = Meant(n).dst
  BY <1>3, <1>4, <1>5, <1>6, <1>11, <1>12, TextMeans
<1>15. Meant(n) = Execution
  BY <1>1, <1>2, DecodedMeans
<1> QED BY <1>4, <1>13, <1>14, <1>15

\* Of every linked instruction that is no jump, the listing is read again as an
\* instruction that means the same at its place, unless it is read as a shorter
\* one where that matters.
THEOREM ListingReassemblesCorrect == Spec => [](ListingKeeps => ListingReassembles)
<1>1. IInv => (ListingKeeps => ListingReassembles)
  BY InvReassembles
<1> QED BY <1>1, Invariant, PTL
===============================================================================
