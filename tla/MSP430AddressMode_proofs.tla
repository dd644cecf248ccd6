------------------------ MODULE MSP430AddressMode_proofs ------------------------
(***************************************************************************)
(* Every address is matched, and the operand selected for it, whatever     *)
(* MatchAddress backtracked over, names the place the node stands for:     *)
(* proofs for every DAG of any size, every frame and every word size.      *)
(***************************************************************************)
EXTENDS MSP430AddressMode, WellFoundedInduction, SequenceTheorems, TLAPS

-------------------------------------------------------------------------------
(* Induction and recursion over the nodes of a DAG *)

LEMMA LeastNumber ==
  ASSUME NEW T \in SUBSET Nat, T # {}
  PROVE  \E x \in T : \A y \in T : x <= y
<1> DEFINE R == {p \in Nat \X Nat : p[1] < p[2]}
<1>1. IsWellFoundedOn(R, Nat)
  BY NatLessThanWellFounded DEF OpToRel
<1>2. PICK x \in T : \A y \in T : ~(<<y, x>> \in R)
  <2> HIDE DEF R
  <2> QED BY <1>1, WFMin
<1>3. \A y \in T : ~(y < x)
  BY <1>2
<1> QED BY <1>3

LEMMA Heights == \A n \in Nodes : n.height \in Nat
BY NodesAssumption

\* What holds of a node when it holds of all lower ones holds of all.
LEMMA NodeInduct ==
  ASSUME NEW S, \A n \in Nodes : (\A m \in Nodes : m.height < n.height => m \in S) => n \in S
  PROVE  Nodes \subseteq S
<1> SUFFICES ASSUME Nodes \ S # {} PROVE FALSE
  OBVIOUS
<1> DEFINE T == {n.height : n \in Nodes \ S}
<1>1. T \in SUBSET Nat /\ T # {}
  BY Heights
<1>2. PICK h \in T : \A k \in T : h <= k
  <2> HIDE DEF T
  <2> QED BY <1>1, LeastNumber
<1>3. PICK n \in Nodes \ S : n.height = h
  BY <1>2
<1>4. \A m \in Nodes : m.height < n.height => m \in S
  <2> SUFFICES ASSUME NEW m \in Nodes, m.height < n.height, m \notin S PROVE FALSE
    OBVIOUS
  <2>1. m.height \in T
    OBVIOUS
  <2>2. h <= m.height
    BY <1>2, <2>1
  <2> HIDE DEF T
  <2> QED BY <1>3, <2>2, Heights
<1> QED BY <1>3, <1>4

\* f and g agree on the nodes below height k.
Agree(f, g, k) == \A n \in Nodes : n.height < k => f[n] = g[n]

\* f does what G says on the nodes below height k.
Solves(G, f, k) == \A n \in Nodes : n.height < k => f[n] = G[n][f]

\* G takes from a function only what it is for lower nodes.
Local(G, V) ==
  \A n \in Nodes, f, g \in [Nodes -> V] : Agree(f, g, n.height) => G[n][f] = G[n][g]

LEMMA SolutionsAgree ==
  ASSUME NEW V, NEW G, Local(G, V), NEW k \in Nat, NEW f \in [Nodes -> V], NEW g \in [Nodes -> V],
         Solves(G, f, k), Solves(G, g, k)
  PROVE  Agree(f, g, k)
<1> DEFINE S == {n \in Nodes : n.height < k => f[n] = g[n]}
<1>1. ASSUME NEW n \in Nodes, \A m \in Nodes : m.height < n.height => m \in S PROVE n \in S
  <2> SUFFICES ASSUME n.height < k PROVE f[n] = g[n]
    OBVIOUS
  <2>1. \A m \in Nodes : m.height < n.height => m.height < k
    BY Heights
  <2>2. Agree(f, g, n.height)
    BY <1>1, <2>1 DEF Agree
  <2>3. G[n][f] = G[n][g]
    BY <2>2 DEF Local
  <2> QED BY <2>3 DEF Solves
<1>2. Nodes \subseteq S
  <2> HIDE DEF S
  <2> QED BY <1>1, NodeInduct
<1> QED BY <1>2 DEF Agree

LEMMA SolvesMore ==
  ASSUME NEW V, NEW G \in [Nodes -> [[Nodes -> V] -> V]], Local(G, V), NEW k \in Nat,
         NEW f \in [Nodes -> V], Solves(G, f, k)
  PROVE  \E g \in [Nodes -> V] : Solves(G, g, k + 1)
<1> DEFINE g == [n \in Nodes |-> IF n.height < k THEN f[n] ELSE G[n][f]]
<1>1. g \in [Nodes -> V]
  OBVIOUS
<1>2. ASSUME NEW n \in Nodes, n.height < k + 1 PROVE g[n] = G[n][f] /\ Agree(f, g, n.height)
  <2>1. \A m \in Nodes : m.height < n.height => m.height < k
    BY <1>2, Heights
  <2>2. Agree(f, g, n.height)
    BY <2>1 DEF Agree
  <2>3. g[n] = G[n][f]
    BY DEF Solves
  <2> QED BY <2>2, <2>3
<1> HIDE DEF g
<1>3. Solves(G, g, k + 1)
  <2> SUFFICES ASSUME NEW n \in Nodes, n.height < k + 1 PROVE g[n] = G[n][g]
    BY DEF Solves
  <2>1. G[n][f] = G[n][g]
    BY <1>1, <1>2 DEF Local
  <2> QED BY <1>2, <2>1
<1> QED BY <1>1, <1>3

LEMMA SolvesAny ==
  ASSUME NEW V, NEW v \in V, NEW G \in [Nodes -> [[Nodes -> V] -> V]], Local(G, V)
  PROVE  \A k \in Nat : \E f \in [Nodes -> V] : Solves(G, f, k)
<1> DEFINE T == {k \in Nat : ~\E f \in [Nodes -> V] : Solves(G, f, k)}
<1> SUFFICES ASSUME T # {} PROVE FALSE
  OBVIOUS
<1>1. PICK k \in T : \A j \in T : k <= j
  <2>1. T \in SUBSET Nat
    OBVIOUS
  <2> HIDE DEF T
  <2> QED BY <2>1, LeastNumber
<1>2. k \in Nat /\ ~\E f \in [Nodes -> V] : Solves(G, f, k)
  OBVIOUS
<1>3. CASE k = 0
  <2>1. [n \in Nodes |-> v] \in [Nodes -> V]
    OBVIOUS
  <2>2. \A f : Solves(G, f, 0)
    BY Heights DEF Solves
  <2> QED BY <1>2, <1>3, <2>1, <2>2
<1>4. CASE k # 0
  <2>1. k - 1 \in Nat /\ ~(k <= k - 1) /\ (k - 1) + 1 = k
    BY <1>2, <1>4
  <2>2. PICK f \in [Nodes -> V] : Solves(G, f, k - 1)
    BY <1>1, <2>1
  <2>3. \E g \in [Nodes -> V] : Solves(G, g, (k - 1) + 1)
    BY <2>1, <2>2, SolvesMore
  <2> QED BY <1>2, <2>1, <2>3
<1> QED BY <1>3, <1>4

\* f does what G says on every node.
Solution(G, f) == \A n \in Nodes : f[n] = G[n][f]

\* A recursive definition over the nodes of a DAG defines a function.
LEMMA Recursion ==
  ASSUME NEW V, NEW v \in V, NEW G \in [Nodes -> [[Nodes -> V] -> V]], Local(G, V)
  PROVE  \E f \in [Nodes -> V] : Solution(G, f)
<1> DEFINE Upto(k) == CHOOSE f \in [Nodes -> V] : Solves(G, f, k)
           f == [n \in Nodes |-> Upto(n.height + 1)[n]]
<1>1. \A k \in Nat : Upto(k) \in [Nodes -> V] /\ Solves(G, Upto(k), k)
  BY SolvesAny
<1>2. \A n \in Nodes : f[n] = Upto(n.height + 1)[n]
  OBVIOUS
<1>3. f \in [Nodes -> V]
  <2> SUFFICES ASSUME NEW n \in Nodes PROVE Upto(n.height + 1)[n] \in V
    OBVIOUS
  <2>1. n.height + 1 \in Nat
    BY Heights
  <2> HIDE DEF Upto
  <2> QED BY <1>1, <2>1
<1> HIDE DEF Upto, f
<1>4. ASSUME NEW n \in Nodes PROVE f[n] = G[n][f]
  <2>1. PICK g : g = Upto(n.height + 1)
    OBVIOUS
  <2>2. n.height \in Nat /\ n.height + 1 \in Nat /\ n.height < n.height + 1
    BY Heights
  <2>3. g \in [Nodes -> V] /\ Solves(G, g, n.height + 1)
    BY <1>1, <2>1, <2>2
  <2>4. f[n] = G[n][g]
    BY <1>2, <2>1, <2>2, <2>3 DEF Solves
  <2>5. ASSUME NEW m \in Nodes, m.height < n.height PROVE g[m] = f[m]
    <3>1. PICK h : h = Upto(m.height + 1)
      OBVIOUS
    <3>2. m.height \in Nat /\ m.height + 1 \in Nat /\ m.height < m.height + 1
      BY Heights
    <3>3. h \in [Nodes -> V] /\ Solves(G, h, m.height + 1)
      BY <1>1, <3>1, <3>2
    <3>4. Solves(G, g, m.height + 1)
      <4>1. \A x \in Nodes : x.height < m.height + 1 => x.height < n.height + 1
        BY <2>2, <2>5, <3>2, Heights
      <4> QED BY <2>3, <4>1 DEF Solves
    <3>5. Agree(h, g, m.height + 1)
      BY <2>3, <3>2, <3>3, <3>4, SolutionsAgree
    <3> QED BY <1>2, <3>1, <3>2, <3>5 DEF Agree
  <2>6. G[n][g] = G[n][f]
    <3>1. Agree(g, f, n.height)
      BY <2>5 DEF Agree
    <3> QED BY <1>3, <2>3, <3>1 DEF Local
  <2> QED BY <2>4, <2>6
<1> QED BY <1>3, <1>4 DEF Solution

-------------------------------------------------------------------------------
(* Nodes, modes and addresses *)

\* A leaf has no operands; ADD and OR have two lower ones.
LEMMA NodeIs ==
  ASSUME NEW n \in Nodes
  PROVE  /\ n.op \in {"const", "reg", "sym", "fi", "add", "or"}
         /\ n.op \in {"const", "sym", "reg"} => n.val \in Nat
         /\ n.op \in {"add", "or"} =>
              /\ n.args[1] \in Nodes /\ n.args[1].height < n.height
              /\ n.args[2] \in Nodes /\ n.args[2].height < n.height
         /\ n.op = "or" => n.args[2].op = "const"
<1>1. CASE n.op \in {"const", "reg", "sym"}
  <2>1. n.val \in Nat
    BY <1>1, NodesAssumption DEF FrameIndex, Leaf, Add, Sum
  <2> QED BY <1>1, <2>1
<1>2. CASE n = FrameIndex
  BY <1>2 DEF FrameIndex, Leaf
<1>3. CASE n.op \in {"add", "or"}
  <2>1. n.args \in Nodes \X Nodes
    BY <1>3, NodesAssumption
  <2>2. PICK x \in Nodes, y \in Nodes : n.args = <<x, y>>
    BY <2>1
  <2>3. n.height = 1 + x.height + y.height
    <3>1. n = Sum(n.op, n.args[1], n.args[2])
      BY <1>3, NodesAssumption DEF Add, FrameIndex, Leaf
    <3>2. n = Sum(n.op, x, y)
      BY <2>2, <3>1
    <3> QED BY <3>2 DEF Sum
  <2>4. x.height \in Nat /\ y.height \in Nat
    BY Heights
  <2>5. n.op = "or" => n.args[2].op = "const"
    BY NodesAssumption DEF FrameIndex, Leaf
  <2>6. /\ n.args[1] \in Nodes /\ n.args[1].height < n.height
        /\ n.args[2] \in Nodes /\ n.args[2].height < n.height
    BY <2>2, <2>3, <2>4
  <2> QED BY <1>3, <2>5, <2>6
<1>4. \/ n.op \in {"const", "reg", "sym"}
      \/ n = FrameIndex
      \/ n.op \in {"add", "or"}
  BY NodesAssumption
<1> QED BY <1>1, <1>2, <1>3, <1>4

LEMMA BaseNodes ==
  /\ FrameIndex \in Nodes /\ SP \in Nodes /\ None \notin Nodes
  /\ \A n \in Nodes : n # None
  /\ FrameIndex.op = "fi" /\ SP.op = "reg" /\ None.op = "none"
<1>1. None.op = "none" /\ FrameIndex.op = "fi" /\ SP.op = "reg"
  BY DEF None, FrameIndex, SP, Register, Leaf
<1>2. \A n \in Nodes : n # None
  BY <1>1, NodeIs
<1> QED BY <1>1, <1>2 DEF Nodes

Atoms == Nodes \cup {Wrapper(n.name, 0) : n \in Nodes}

AtomBags == UNION {[S -> Nat \ {0}] : S \in SUBSET Atoms}

Values == [atoms : AtomBags, disp : 0..(Words - 1)]

LEMMA BagSums ==
  ASSUME NEW b \in AtomBags, NEW c \in AtomBags
  PROVE  /\ b (+) c \in AtomBags
         /\ b (+) c = c (+) b
         /\ b (+) EmptyBag = b
<1>1. PICK S \in SUBSET Atoms : b \in [S -> Nat \ {0}]
  BY DEF AtomBags
<1>2. PICK T \in SUBSET Atoms : c \in [T -> Nat \ {0}]
  BY DEF AtomBags
<1>3. b (+) c \in [S \cup T -> Nat \ {0}]
  BY <1>1, <1>2 DEF (+)
<1>4. b (+) c = c (+) b
  <2>1. (DOMAIN b) \cup (DOMAIN c) = (DOMAIN c) \cup (DOMAIN b)
    OBVIOUS
  <2>2. \A e \in S \cup T :
          (IF e \in S THEN b[e] ELSE 0) + (IF e \in T THEN c[e] ELSE 0)
            = (IF e \in T THEN c[e] ELSE 0) + (IF e \in S THEN b[e] ELSE 0)
    BY <1>1, <1>2
  <2> QED BY <1>1, <1>2, <2>1, <2>2 DEF (+)
<1>5. b (+) EmptyBag = b
  BY <1>1 DEF (+), EmptyBag, SetToBag
<1>6. b (+) c \in AtomBags
  BY <1>3 DEF AtomBags
<1> QED BY <1>4, <1>5, <1>6

LEMMA BagSumsAssociate ==
  ASSUME NEW b \in AtomBags, NEW c \in AtomBags, NEW d \in AtomBags
  PROVE  (b (+) c) (+) d = b (+) (c (+) d)
<1>1. PICK S \in SUBSET Atoms : b \in [S -> Nat \ {0}]
  BY DEF AtomBags
<1>2. PICK T \in SUBSET Atoms : c \in [T -> Nat \ {0}]
  BY DEF AtomBags
<1>3. PICK U \in SUBSET Atoms : d \in [U -> Nat \ {0}]
  BY DEF AtomBags
<1> DEFINE e1 == (b (+) c) (+) d
           e2 == b (+) (c (+) d)
<1>4. DOMAIN e1 = S \cup T \cup U /\ DOMAIN e2 = S \cup T \cup U
  BY <1>1, <1>2, <1>3 DEF (+)
<1>5. \A e \in S \cup T \cup U : e1[e] = e2[e]
  BY <1>1, <1>2, <1>3 DEF (+)
<1>6. e1 = [e \in DOMAIN e1 |-> e1[e]] /\ e2 = [e \in DOMAIN e2 |-> e2[e]]
  BY DEF (+)
<1> HIDE DEF e1, e2
<1>7. e1 = e2
  BY <1>4, <1>5, <1>6
<1> QED BY <1>7 DEF e1, e2

\* Remainders are unique.
LEMMA Remainder ==
  ASSUME NEW b \in Nat, b > 0, NEW q \in Int, NEW r \in Int, 0 <= r, r < b
  PROVE  (b * q + r) % b = r
<1> DEFINE a == b * q + r
<1>1. /\ a \in Int /\ (a % b) \in Int /\ (a \div b) \in Int
      /\ 0 <= (a % b) /\ (a % b) < b /\ a = b * (a \div b) + (a % b)
  OBVIOUS
<1>2. b * (a \div b - q) = r - (a % b) /\ b * (q - a \div b) = (a % b) - r
  BY <1>1
<1>3. \A d \in Int : d >= 1 => b * d >= b
  OBVIOUS
<1> HIDE DEF a
<1>4. ~(a \div b - q >= 1) /\ ~(q - a \div b >= 1)
  BY <1>1, <1>2, <1>3
<1>5. a \div b = q
  BY <1>1, <1>4
<1>6. a % b = r
  BY <1>1, <1>2, <1>5
<1> QED BY <1>6 DEF a

\* Words wrap once or twice to the same word.
LEMMA Wraps ==
  ASSUME NEW a \in Int, NEW c \in Int
  PROVE  /\ a % Words \in 0..(Words - 1)
         /\ ((a % Words) + c) % Words = (a + c) % Words
         /\ (c + (a % Words)) % Words = (a + c) % Words
<1> DEFINE b == Words
           q == a \div b
           s == a % b
           t == (s + c) \div b
           r == (s + c) % b
<1>1. b \in Nat /\ b > 0
  BY WordsAssumption
<1>2. q \in Int /\ s \in 0..(b - 1) /\ a = b * q + s
  BY <1>1
<1>3. t \in Int /\ r \in 0..(b - 1) /\ s + c = b * t + r
  BY <1>1, <1>2
<1> HIDE DEF q, s, t, r
<1>4. a + c = b * (q + t) + r
  BY <1>1, <1>2, <1>3
<1>5. (b * (q + t) + r) % b = r
  <2>1. PICK k \in Int : k = q + t
    BY <1>2, <1>3
  <2>2. (b * k + r) % b = r
    BY <1>1, <1>3, Remainder
  <2> QED BY <2>1, <2>2
<1>6. (a + c) % b = r
  BY <1>4, <1>5
<1>7. s + c = c + s
  BY <1>2
<1> QED BY <1>2, <1>6, <1>7 DEF r, s

LEMMA WordIs ==
  ASSUME NEW d \in 0..(Words - 1)
  PROVE  d % Words = d
<1>1. Words \in Nat /\ Words > 0 /\ d \in Int /\ 0 <= d /\ d < Words
  BY WordsAssumption
<1>2. (Words * 0 + d) % Words = d
  BY <1>1, Remainder
<1> QED BY <1>1, <1>2

\* Sums of addresses commute and associate.
LEMMA PlusIs ==
  ASSUME NEW v \in Values, NEW w \in Values
  PROVE  /\ Plus(v, w) \in Values
         /\ Plus(v, w) = Plus(w, v)
<1>1. /\ v.atoms \in AtomBags /\ w.atoms \in AtomBags
      /\ v.disp \in Int /\ w.disp \in Int
  BY DEF Values
<1>2. (v.disp + w.disp) % Words \in 0..(Words - 1)
  BY <1>1, WordsAssumption
<1>3. v.disp + w.disp = w.disp + v.disp
  BY <1>1
<1>4. v.atoms (+) w.atoms \in AtomBags /\ v.atoms (+) w.atoms = w.atoms (+) v.atoms
  BY <1>1, BagSums
<1> QED BY <1>2, <1>3, <1>4 DEF Values, Plus

LEMMA PlusAssoc ==
  ASSUME NEW u \in Values, NEW v \in Values, NEW w \in Values
  PROVE  Plus(Plus(u, v), w) = Plus(u, Plus(v, w))
<1>1. /\ u.atoms \in AtomBags /\ v.atoms \in AtomBags /\ w.atoms \in AtomBags
      /\ u.disp \in Int /\ v.disp \in Int /\ w.disp \in Int
  BY DEF Values
<1>2. (u.atoms (+) v.atoms) (+) w.atoms = u.atoms (+) (v.atoms (+) w.atoms)
  BY <1>1, BagSumsAssociate
<1>3. (((u.disp + v.disp) % Words) + w.disp) % Words
        = ((u.disp + v.disp) + w.disp) % Words
  <2>1. PICK a \in Int : a = u.disp + v.disp
    BY <1>1
  <2> QED BY <1>1, <2>1, Wraps
<1>4. (u.disp + ((v.disp + w.disp) % Words)) % Words
        = ((v.disp + w.disp) + u.disp) % Words
  <2>1. PICK a \in Int : a = v.disp + w.disp
    BY <1>1
  <2> QED BY <1>1, <2>1, Wraps
<1>5. (u.disp + v.disp) + w.disp = (v.disp + w.disp) + u.disp
  BY <1>1
<1> QED BY <1>2, <1>3, <1>4, <1>5 DEF Plus

LEMMA LeafValues ==
  /\ \A c \in Int : Exactly(c) \in Values
  /\ \A a \in Atoms : Unknown(a) \in Values
  /\ \A v \in Values : Plus(v, Exactly(0)) = v
  /\ \A a, c \in Int : Plus(Exactly(a), Exactly(c)) = Exactly(a + c)
  /\ \A c \in Int : Exactly(c % Words) = Exactly(c)
<1>1. EmptyBag \in AtomBags
  <2>1. EmptyBag \in [{} -> Nat \ {0}]
    BY DEF EmptyBag, SetToBag
  <2> QED BY <2>1 DEF AtomBags
<1>2. \A c \in Int : Exactly(c) \in Values
  <2>1. \A c \in Int : c % Words \in 0..(Words - 1)
    BY WordsAssumption
  <2> QED BY <1>1, <2>1 DEF Exactly, Values
<1>3. \A a \in Atoms : Unknown(a) \in Values
  <2> SUFFICES ASSUME NEW a \in Atoms PROVE Unknown(a) \in Values
    OBVIOUS
  <2>1. SetToBag({a}) \in [{a} -> Nat \ {0}] /\ {a} \in SUBSET Atoms
    BY DEF SetToBag
  <2>2. SetToBag({a}) \in AtomBags
    BY <2>1 DEF AtomBags
  <2>3. 0 \in 0..(Words - 1)
    BY WordsAssumption
  <2> QED BY <2>2, <2>3 DEF Unknown, Values
<1>4. \A v \in Values : Plus(v, Exactly(0)) = v
  <2> SUFFICES ASSUME NEW v \in Values PROVE Plus(v, Exactly(0)) = v
    OBVIOUS
  <2>1. v.atoms \in AtomBags /\ v.disp \in 0..(Words - 1) /\ v.disp \in Int
    BY DEF Values
  <2>2. v.atoms (+) EmptyBag = v.atoms
    BY <1>1, <2>1, BagSums
  <2>3. 0 % Words = 0
    <3>1. 0 \in 0..(Words - 1)
      BY WordsAssumption
    <3> QED BY <3>1, WordIs
  <2>4. (v.disp + 0) % Words = v.disp
    <3>1. v.disp + 0 = v.disp
      BY <2>1
    <3> QED BY <2>1, <3>1, WordIs
  <2>5. Plus(v, Exactly(0)) = [atoms |-> v.atoms, disp |-> v.disp]
    BY <2>2, <2>3, <2>4 DEF Plus, Exactly
  <2> QED BY <2>5 DEF Values
<1>5. \A a, c \in Int : Plus(Exactly(a), Exactly(c)) = Exactly(a + c)
  <2> SUFFICES ASSUME NEW a \in Int, NEW c \in Int
               PROVE  Plus(Exactly(a), Exactly(c)) = Exactly(a + c)
    OBVIOUS
  <2>1. PICK d \in Int : d = c % Words
    BY WordsAssumption
  <2>2. ((a % Words) + d) % Words = (a + d) % Words
    BY Wraps
  <2>3. (a + (c % Words)) % Words = (c + a) % Words
    BY Wraps
  <2>4. c + a = a + c
    OBVIOUS
  <2>5. EmptyBag (+) EmptyBag = EmptyBag
    BY <1>1, BagSums
  <2> QED BY <2>1, <2>2, <2>3, <2>4, <2>5 DEF Plus, Exactly
<1>6. \A c \in Int : Exactly(c % Words) = Exactly(c)
  <2> SUFFICES ASSUME NEW c \in Int PROVE (c % Words) % Words = c % Words
    BY DEF Exactly
  <2>1. PICK d : d = c % Words
    OBVIOUS
  <2>2. d \in 0..(Words - 1)
    BY <2>1, Wraps
  <2> QED BY <2>1, <2>2, WordIs
<1> QED BY <1>2, <1>3, <1>4, <1>5, <1>6

-------------------------------------------------------------------------------
(* What a node is worth is an address *)

\* What a node is worth, by what it is.
LEMMA NodeValueBy ==
  ASSUME NEW n \in Nodes, NEW val
  PROVE  /\ n.op = "const" => NodeValue(val, n) = Exactly(n.val)
         /\ n.op = "reg" => NodeValue(val, n) = Unknown(n)
         /\ n.op = "sym" => NodeValue(val, n) = Plus(Unknown(Wrapper(n.name, 0)), Exactly(n.val))
         /\ n.op = "fi" => NodeValue(val, n) = Plus(Unknown(SP), Exactly(frame))
         /\ n.op = "add" => NodeValue(val, n) = Plus(val[n.args[1]], val[n.args[2]])
         /\ n.op = "or" =>
              NodeValue(val, n) = IF MaskedValueIsZero(n.args[1], n.args[2].val)
                                  THEN Plus(val[n.args[1]], val[n.args[2]])
                                  ELSE Unknown(n)
BY DEF NodeValue

LEMMA NodeValueIn ==
  ASSUME frame \in Int, NEW n \in Nodes, NEW f,
         \A m \in Nodes : m.height < n.height => f[m] \in Values
  PROVE  NodeValue(f, n) \in Values
<1>1. n \in Atoms /\ SP \in Atoms /\ Wrapper(n.name, 0) \in Atoms
  BY BaseNodes DEF Atoms
<1>2. CASE n.op = "const"
  BY <1>2, NodeIs, NodeValueBy, LeafValues
<1>3. CASE n.op = "reg"
  BY <1>1, <1>3, NodeValueBy, LeafValues
<1>4. CASE n.op = "sym"
  <2>1. Unknown(Wrapper(n.name, 0)) \in Values /\ Exactly(n.val) \in Values
    BY <1>1, <1>4, NodeIs, LeafValues
  <2> QED BY <1>4, <2>1, NodeValueBy, PlusIs
<1>5. CASE n.op = "fi"
  <2>1. PICK v, w : v = Unknown(SP) /\ w = Exactly(frame)
    OBVIOUS
  <2>2. v \in Values /\ w \in Values
    BY <1>1, <2>1, LeafValues
  <2> QED BY <1>5, <2>1, <2>2, NodeValueBy, PlusIs
<1>6. CASE n.op \in {"add", "or"}
  <2>1. f[n.args[1]] \in Values /\ f[n.args[2]] \in Values
    BY <1>6, NodeIs
  <2>2. Plus(f[n.args[1]], f[n.args[2]]) \in Values
    BY <2>1, PlusIs
  <2>3. Unknown(n) \in Values
    BY <1>1, LeafValues
  <2> QED BY <1>6, <2>2, <2>3, NodeValueBy
<1> QED BY <1>2, <1>3, <1>4, <1>5, <1>6, NodeIs

LEMMA NodeValueLocal ==
  ASSUME NEW n \in Nodes, NEW f, NEW g, Agree(f, g, n.height)
  PROVE  NodeValue(f, n) = NodeValue(g, n)
<1>1. CASE n.op \in {"add", "or"}
  <2>1. f[n.args[1]] = g[n.args[1]] /\ f[n.args[2]] = g[n.args[2]]
    BY <1>1, NodeIs DEF Agree
  <2> QED BY <1>1, <2>1, NodeValueBy
<1>2. CASE n.op \in {"const", "reg", "sym", "fi"}
  BY <1>2, NodeValueBy
<1> QED BY <1>1, <1>2, NodeIs

\* The recursive definition of Value is one.
LEMMA ValueIs ==
  ASSUME frame \in Int
  PROVE  \A n \in Nodes : Value[n] = NodeValue(Value, n) /\ Value[n] \in Values
<1> DEFINE F == [n \in Nodes |-> [f \in [Nodes -> Values] |-> NodeValue(f, n)]]
<1>1. PICK G : G = F
  OBVIOUS
<1>2. F \in [Nodes -> [[Nodes -> Values] -> Values]]
  BY NodeValueIn
<1>3. \A n \in Nodes : \A f \in [Nodes -> Values] : G[n][f] = NodeValue(f, n)
  BY <1>1
<1>4. G \in [Nodes -> [[Nodes -> Values] -> Values]]
  <2> HIDE DEF F
  <2> QED BY <1>1, <1>2
<1> HIDE DEF F
<1>5. Local(G, Values)
  <2> SUFFICES ASSUME NEW n \in Nodes, NEW f \in [Nodes -> Values], NEW g \in [Nodes -> Values],
                      Agree(f, g, n.height)
               PROVE  G[n][f] = G[n][g]
    BY DEF Local
  <2> QED BY <1>3, NodeValueLocal
<1>6. PICK v : v \in Values
  BY LeafValues
<1>7. PICK h \in [Nodes -> Values] : Solution(G, h)
  BY <1>4, <1>5, <1>6, Recursion
<1>8. \A n \in Nodes : h[n] = NodeValue(h, n)
  BY <1>3, <1>7 DEF Solution
<1>9. h = [n \in Nodes |-> NodeValue(h, n)]
  <2> DEFINE k == [n \in Nodes |-> NodeValue(h, n)]
  <2>1. \A n \in Nodes : h[n] = k[n]
    BY <1>8
  <2>2. DOMAIN k = Nodes /\ k = [n \in Nodes |-> k[n]]
    OBVIOUS
  <2> HIDE DEF k
  <2>3. h = k
    BY <2>1, <2>2
  <2> QED BY <2>3 DEF k
<1>10. Value = [n \in Nodes |-> NodeValue(Value, n)]
  <2>1. \E f : f = [n \in Nodes |-> NodeValue(f, n)]
    BY <1>9, Zenon
  <2> QED BY <2>1, Zenon DEF Value
<1>11. \A n \in Nodes : Value[n] = NodeValue(Value, n)
  <2>1. PICK w : w = Value
    OBVIOUS
  <2>2. w = [n \in Nodes |-> NodeValue(w, n)]
    BY <1>10, <2>1, Zenon
  <2>3. \A n \in Nodes : w[n] = NodeValue(w, n)
    BY <2>2, Zenon
  <2> QED BY <2>1, <2>3, Zenon
<1>12. PICK w : w = Value
  OBVIOUS
<1> DEFINE S == {n \in Nodes : w[n] \in Values}
<1>13. ASSUME NEW n \in Nodes, \A m \in Nodes : m.height < n.height => m \in S PROVE n \in S
  <2>1. w[n] = NodeValue(w, n)
    BY <1>11, <1>12, Zenon
  <2> QED BY <1>13, <2>1, NodeValueIn
<1>14. Nodes \subseteq S
  <2> HIDE DEF S
  <2> QED BY <1>13, NodeInduct
<1> QED BY <1>11, <1>12, <1>14

-------------------------------------------------------------------------------
(* MatchAddress computes an addressing mode *)

Symbols == {Wrapper(n.name, 0) : n \in {x \in Nodes : x.op = "sym"}}

Results == [ok : BOOLEAN, am : Modes]

\* The tries of MatchAddress, with what each makes of the mode.
LEMMA Tries ==
  ASSUME NEW am \in Modes
  PROVE  /\ am.base \in Nodes \cup {None} /\ am.sym \in Symbols \cup {None}
         /\ am.disp \in 0..(Words - 1)
         /\ am = [base |-> am.base, sym |-> am.sym, disp |-> am.disp]
         /\ Matched(am) \in Results /\ Matched(am).ok /\ Matched(am).am = am
         /\ Failed(am) \in Results /\ ~Failed(am).ok /\ Failed(am).am = am
BY DEF Modes, Symbols, Matched, Failed, Results

LEMMA DisplacedMode ==
  ASSUME NEW am \in Modes, NEW c \in Int
  PROVE  /\ Displaced(am, c) \in Modes
         /\ Displaced(am, c).base = am.base /\ Displaced(am, c).sym = am.sym
         /\ Displaced(am, c).disp = (am.disp + c) % Words
<1>1. (am.disp + c) % Words \in 0..(Words - 1)
  <2>1. am.disp + c \in Int
    BY Tries
  <2> QED BY <2>1, WordsAssumption
<1>2. Displaced(am, c) = [base |-> am.base, sym |-> am.sym, disp |-> (am.disp + c) % Words]
  BY Tries DEF Displaced
<1> QED BY <1>1, <1>2, Tries DEF Modes, Symbols

LEMMA BaseMode ==
  ASSUME NEW am \in Modes, NEW n \in Nodes
  PROVE  /\ [am EXCEPT !.base = n] \in Modes
         /\ [am EXCEPT !.base = n].base = n
         /\ [am EXCEPT !.base = n].sym = am.sym /\ [am EXCEPT !.base = n].disp = am.disp
<1>1. [am EXCEPT !.base = n] = [base |-> n, sym |-> am.sym, disp |-> am.disp]
  BY Tries
<1> QED BY <1>1, Tries DEF Modes, Symbols

LEMMA WrapperMode ==
  ASSUME NEW am \in Modes, NEW n \in Nodes, n.op = "sym"
  PROVE  /\ MatchWrapper(n, am) \in Modes
         /\ MatchWrapper(n, am).base = am.base
         /\ MatchWrapper(n, am).sym = Wrapper(n.name, 0)
         /\ MatchWrapper(n, am).disp = (am.disp + n.val) % Words
<1>1. PICK bm : bm = [base |-> am.base, sym |-> Wrapper(n.name, 0), disp |-> am.disp]
  OBVIOUS
<1>2. [am EXCEPT !.sym = Wrapper(n.name, 0)] = bm
  BY <1>1 DEF Modes
<1>3. bm \in Modes
  BY <1>1, Tries DEF Modes, Symbols
<1>4. n.val \in Int
  BY NodeIs
<1>5. MatchWrapper(n, am) = Displaced(bm, n.val)
  BY <1>2 DEF MatchWrapper
<1>6. bm.base = am.base /\ bm.sym = Wrapper(n.name, 0) /\ bm.disp = am.disp
  BY <1>1
<1> QED BY <1>3, <1>4, <1>5, <1>6, DisplacedMode

\* MatchAddress, by what the node is.
LEMMA MatchNodeBy ==
  ASSUME NEW n \in Nodes, NEW am, NEW match
  PROVE  /\ n.op = "const" => MatchNode(match, n, am) = Matched(Displaced(am, n.val))
         /\ n.op = "reg" => MatchNode(match, n, am) = MatchAddressBase(n, am)
         /\ n.op = "sym" =>
              MatchNode(match, n, am) = IF hasSymbolicDisplacement(am) THEN MatchAddressBase(n, am)
                                        ELSE Matched(MatchWrapper(n, am))
         /\ n.op = "fi" =>
              MatchNode(match, n, am) = IF am.base = None THEN Matched([am EXCEPT !.base = n])
                                        ELSE MatchAddressBase(n, am)
         /\ n.op = "add" =>
              LET one == MatchInTurn(match, n.args[1], n.args[2], am)
                  two == MatchInTurn(match, n.args[2], n.args[1], am)
              IN  MatchNode(match, n, am) = IF one.ok THEN one ELSE IF two.ok THEN two
                                            ELSE MatchAddressBase(n, am)
         /\ n.op = "or" =>
              LET left == match[n.args[1]][am]
              IN  MatchNode(match, n, am) =
                    IF left.ok /\ OrIsAdd(n, left.am)
                    THEN Matched(Displaced(left.am, n.args[2].val))
                    ELSE MatchAddressBase(n, am)
<1>1. CASE n.op = "const"
  BY <1>1 DEF MatchNode
<1>2. CASE n.op = "reg"
  BY <1>2 DEF MatchNode
<1>3. CASE n.op = "sym"
  BY <1>3 DEF MatchNode
<1>4. CASE n.op = "fi"
  BY <1>4 DEF MatchNode
<1>5. CASE n.op = "add"
  BY <1>5 DEF MatchNode, Backup
<1>6. CASE n.op = "or"
  BY <1>6 DEF MatchNode, Backup
<1> QED BY <1>1, <1>2, <1>3, <1>4, <1>5, <1>6, NodeIs

LEMMA MatchBase ==
  ASSUME NEW n \in Nodes, NEW am \in Modes
  PROVE  /\ MatchAddressBase(n, am) \in Results
         /\ MatchAddressBase(n, am).ok <=> am.base = None
         /\ am.base = None => /\ MatchAddressBase(n, am).am.base = n
                              /\ MatchAddressBase(n, am).am.sym = am.sym
                              /\ MatchAddressBase(n, am).am.disp = am.disp
<1>1. CASE am.base # None
  BY <1>1, Tries DEF MatchAddressBase
<1>2. CASE am.base = None
  <2>1. PICK bm : bm = [am EXCEPT !.base = n]
    OBVIOUS
  <2>2. bm \in Modes /\ bm.base = n /\ bm.sym = am.sym /\ bm.disp = am.disp
    BY <2>1, BaseMode
  <2>3. MatchAddressBase(n, am) = Matched(bm)
    BY <1>2, <2>1 DEF MatchAddressBase
  <2> QED BY <1>2, <2>2, <2>3, Tries
<1> QED BY <1>1, <1>2

LEMMA MatchNodeIn ==
  ASSUME NEW n \in Nodes, NEW am \in Modes, NEW match,
         \A m \in Nodes : m.height < n.height => match[m] \in [Modes -> Results]
  PROVE  MatchNode(match, n, am) \in Results
<1>1. MatchAddressBase(n, am) \in Results
  BY MatchBase
<1>2. \A r \in Results : r.am \in Modes /\ r.ok \in BOOLEAN
  BY DEF Results
<1>3. CASE n.op = "const"
  <2>1. n.val \in Int
    BY <1>3, NodeIs
  <2>2. Displaced(am, n.val) \in Modes
    BY <2>1, DisplacedMode
  <2>3. Matched(Displaced(am, n.val)) \in Results
    BY <2>2, Tries
  <2> QED BY <1>3, <2>3, MatchNodeBy
<1>4. CASE n.op = "reg"
  BY <1>1, <1>4, MatchNodeBy
<1>5. CASE n.op = "sym"
  <2>1. Matched(MatchWrapper(n, am)) \in Results
    BY <1>5, WrapperMode, Tries
  <2> QED BY <1>1, <1>5, <2>1, MatchNodeBy
<1>6. CASE n.op = "fi"
  <2>1. Matched([am EXCEPT !.base = n]) \in Results
    BY BaseMode, Tries
  <2> QED BY <1>1, <1>6, <2>1, MatchNodeBy
<1>7. CASE n.op = "add"
  <2>1. PICK x, y : x = n.args[1] /\ y = n.args[2]
    OBVIOUS
  <2>2. x \in Nodes /\ y \in Nodes /\ match[x] \in [Modes -> Results] /\ match[y] \in [Modes -> Results]
    BY <1>7, <2>1, NodeIs
  <2>3. MatchInTurn(match, x, y, am) \in Results /\ MatchInTurn(match, y, x, am) \in Results
    BY <1>2, <2>2 DEF MatchInTurn
  <2> QED BY <1>1, <1>7, <2>1, <2>3, MatchNodeBy
<1>8. CASE n.op = "or"
  <2>1. PICK left : left = match[n.args[1]][am]
    OBVIOUS
  <2>2. left \in Results /\ n.args[2].val \in Int
    BY <1>8, <2>1, NodeIs
  <2>3. Matched(Displaced(left.am, n.args[2].val)) \in Results
    <3>1. PICK c \in Int : c = n.args[2].val
      BY <2>2
    <3>2. Displaced(left.am, c) \in Modes
      BY <1>2, <2>2, DisplacedMode
    <3> QED BY <3>1, <3>2, Tries
  <2> QED BY <1>1, <1>8, <2>1, <2>3, MatchNodeBy
<1> QED BY <1>3, <1>4, <1>5, <1>6, <1>7, <1>8, NodeIs

LEMMA MatchNodeLocal ==
  ASSUME NEW n \in Nodes, NEW am, NEW f, NEW g, Agree(f, g, n.height)
  PROVE  MatchNode(f, n, am) = MatchNode(g, n, am)
<1>1. CASE n.op \in {"add", "or"}
  <2>1. f[n.args[1]] = g[n.args[1]] /\ f[n.args[2]] = g[n.args[2]]
    BY <1>1, NodeIs DEF Agree
  <2>2. CASE n.op = "add"
    <3>1. /\ MatchInTurn(f, n.args[1], n.args[2], am) = MatchInTurn(g, n.args[1], n.args[2], am)
          /\ MatchInTurn(f, n.args[2], n.args[1], am) = MatchInTurn(g, n.args[2], n.args[1], am)
      BY <2>1 DEF MatchInTurn
    <3> QED BY <2>2, <3>1, MatchNodeBy
  <2>3. CASE n.op = "or"
    <3>1. f[n.args[1]][am] = g[n.args[1]][am]
      BY <2>1
    <3> QED BY <2>3, <3>1, MatchNodeBy
  <2> QED BY <1>1, <2>2, <2>3
<1>2. CASE n.op \in {"const", "reg", "sym", "fi"}
  BY <1>2, MatchNodeBy
<1> QED BY <1>1, <1>2, NodeIs

\* The recursive definition of MatchAddress is one.
LEMMA MatchIs ==
  \A n \in Nodes : /\ MatchAddress[n] \in [Modes -> Results]
                   /\ \A am \in Modes : MatchAddress[n][am] = MatchNode(MatchAddress, n, am)
<1> DEFINE V == [Modes -> Results]
           G == [n \in Nodes |-> [f \in [Nodes -> V] |-> [am \in Modes |-> MatchNode(f, n, am)]]]
<1>1. ASSUME NEW n \in Nodes, NEW f \in [Nodes -> V]
      PROVE  [am \in Modes |-> MatchNode(f, n, am)] \in V
  <2>1. \A m \in Nodes : f[m] \in [Modes -> Results]
    OBVIOUS
  <2>2. \A am \in Modes : MatchNode(f, n, am) \in Results
    BY <2>1, MatchNodeIn
  <2> QED BY <2>2
<1>2. \A n \in Nodes : \A f \in [Nodes -> V] : G[n][f] = [am \in Modes |-> MatchNode(f, n, am)]
  OBVIOUS
<1>3. G \in [Nodes -> [[Nodes -> V] -> V]]
  <2> HIDE DEF V
  <2> QED BY <1>1
<1>4. PICK v : v \in V
  <2>1. \A am \in Modes : Failed(am) \in Results
    BY Tries
  <2>2. [am \in Modes |-> Failed(am)] \in V
    BY <2>1
  <2> HIDE DEF V
  <2> QED BY <2>2
<1> HIDE DEF V, G
<1>5. Local(G, V)
  <2> SUFFICES ASSUME NEW n \in Nodes, NEW f \in [Nodes -> V], NEW g \in [Nodes -> V],
                      Agree(f, g, n.height)
               PROVE  G[n][f] = G[n][g]
    BY DEF Local
  <2>1. \A am \in Modes : MatchNode(f, n, am) = MatchNode(g, n, am)
    BY MatchNodeLocal
  <2>2. [am \in Modes |-> MatchNode(f, n, am)] = [am \in Modes |-> MatchNode(g, n, am)]
    BY <2>1
  <2>3. G[n][f] = [am \in Modes |-> MatchNode(f, n, am)]
    BY <1>2
  <2>4. G[n][g] = [am \in Modes |-> MatchNode(g, n, am)]
    BY <1>2
  <2> QED BY <2>2, <2>3, <2>4
<1>6. PICK h \in [Nodes -> V] : Solution(G, h)
  BY <1>3, <1>4, <1>5, Recursion
<1>7. \A n \in Nodes : h[n] = [am \in Modes |-> MatchNode(h, n, am)]
  BY <1>2, <1>6 DEF Solution
<1>8. h = [n \in Nodes |-> [am \in Modes |-> MatchNode(h, n, am)]]
  <2> DEFINE k == [n \in Nodes |-> [am \in Modes |-> MatchNode(h, n, am)]]
  <2>1. \A n \in Nodes : h[n] = k[n]
    BY <1>7, Zenon
  <2>2. DOMAIN k = Nodes /\ k = [n \in Nodes |-> k[n]]
    BY Zenon
  <2> HIDE DEF k
  <2>3. h = k
    BY <2>1, <2>2
  <2> QED BY <2>3 DEF k
<1>9. MatchAddress = [n \in Nodes |-> [am \in Modes |-> MatchNode(MatchAddress, n, am)]]
  <2>1. \E f : f = [n \in Nodes |-> [am \in Modes |-> MatchNode(f, n, am)]]
    BY <1>8, Zenon
  <2> QED BY <2>1, Zenon DEF MatchAddress
<1>10. \A n \in Nodes : MatchAddress[n] = [am \in Modes |-> MatchNode(MatchAddress, n, am)]
  BY <1>9, Zenon
<1>11. \A n \in Nodes : \A am \in Modes : MatchAddress[n][am] = MatchNode(MatchAddress, n, am)
  BY <1>10, Zenon
<1>12. PICK w : w = MatchAddress
  OBVIOUS
<1> DEFINE S == {n \in Nodes : w[n] \in V}
<1>13. ASSUME NEW n \in Nodes, \A m \in Nodes : m.height < n.height => m \in S PROVE n \in S
  <2>1. w[n] = [am \in Modes |-> MatchNode(w, n, am)]
    BY <1>10, <1>12, Zenon
  <2>2. \A m \in Nodes : m.height < n.height => w[m] \in [Modes -> Results]
    BY <1>13 DEF V
  <2>3. \A am \in Modes : MatchNode(w, n, am) \in Results
    BY <2>2, MatchNodeIn
  <2>4. [am \in Modes |-> MatchNode(w, n, am)] \in V
    BY <2>3 DEF V
  <2>5. w[n] \in V
    BY <2>1, <2>4, Zenon
  <2> QED BY <2>5
<1>14. Nodes \subseteq S
  <2> HIDE DEF S
  <2> QED BY <1>13, NodeInduct
<1> QED BY <1>11, <1>12, <1>14 DEF V

-------------------------------------------------------------------------------
(* A mode that MatchAddress finds for a node adds what the node is worth *)

LEMMA PlusFour ==
  ASSUME NEW a \in Values, NEW b \in Values, NEW c \in Values, NEW d \in Values
  PROVE  Plus(Plus(a, b), Plus(c, d)) = Plus(Plus(a, c), Plus(b, d))
<1>1. PICK cd \in Values : cd = Plus(c, d)
  BY PlusIs
<1>2. PICK bd \in Values : bd = Plus(b, d)
  BY PlusIs
<1>3. Plus(Plus(a, b), cd) = Plus(a, Plus(b, cd))
  BY PlusAssoc
<1>4. Plus(b, Plus(c, d)) = Plus(Plus(b, c), d) /\ Plus(c, Plus(b, d)) = Plus(Plus(c, b), d)
  BY PlusAssoc
<1>5. Plus(b, c) = Plus(c, b)
  BY PlusIs
<1>6. Plus(Plus(a, c), bd) = Plus(a, Plus(c, bd))
  BY PlusAssoc
<1> QED BY <1>1, <1>2, <1>3, <1>4, <1>5, <1>6

BaseValue(b) == IF b = None THEN Exactly(0) ELSE Value[b]
SymValue(s)  == IF s = None THEN Exactly(0) ELSE Unknown(s)

\* What the operands of an addressing mode are worth.
ModeValue(am) == Plus(Plus(BaseValue(am.base), SymValue(am.sym)), Exactly(am.disp))

LEMMA ModeValueIn ==
  ASSUME frame \in Int, NEW am \in Modes
  PROVE  /\ BaseValue(am.base) \in Values /\ SymValue(am.sym) \in Values
         /\ Exactly(am.disp) \in Values /\ ModeValue(am) \in Values
         /\ Plus(BaseValue(am.base), SymValue(am.sym)) \in Values
<1>1. BaseValue(am.base) \in Values
  BY Tries, ValueIs, LeafValues DEF BaseValue
<1>2. SymValue(am.sym) \in Values
  <2>1. am.sym \in Symbols => am.sym \in Atoms
    BY DEF Symbols, Atoms
  <2>2. am.sym \in Atoms => Unknown(am.sym) \in Values
    BY LeafValues
  <2> QED BY <2>1, <2>2, Tries, LeafValues DEF SymValue
<1>3. Exactly(am.disp) \in Values
  <2>1. am.disp \in Int
    BY Tries
  <2> QED BY <2>1, LeafValues
<1>4. PICK b, s, d : b = BaseValue(am.base) /\ s = SymValue(am.sym) /\ d = Exactly(am.disp)
  OBVIOUS
<1>5. Plus(b, s) \in Values
  BY <1>1, <1>2, <1>4, PlusIs
<1>6. PICK bs : bs = Plus(b, s)
  OBVIOUS
<1>7. Plus(bs, d) \in Values
  BY <1>3, <1>4, <1>5, <1>6, PlusIs
<1> QED BY <1>1, <1>2, <1>3, <1>4, <1>5, <1>6, <1>7 DEF ModeValue

LEMMA DisplacedValue ==
  ASSUME frame \in Int, NEW am \in Modes, NEW c \in Int
  PROVE  ModeValue(Displaced(am, c)) = Plus(ModeValue(am), Exactly(c))
<1>1. PICK bs : bs = Plus(BaseValue(am.base), SymValue(am.sym))
  OBVIOUS
<1>2. PICK d \in Int : d = am.disp
  BY Tries
<1>3. bs \in Values /\ Exactly(d) \in Values /\ Exactly(c) \in Values
  BY <1>1, ModeValueIn, LeafValues
<1>4. ModeValue(Displaced(am, c)) = Plus(bs, Exactly((d + c) % Words))
  <2>1. PICK bm : bm = Displaced(am, c)
    OBVIOUS
  <2>2. bm.base = am.base /\ bm.sym = am.sym /\ bm.disp = (d + c) % Words
    BY <1>2, <2>1, DisplacedMode
  <2>3. ModeValue(bm) = Plus(bs, Exactly((d + c) % Words))
    BY <1>1, <2>2 DEF ModeValue
  <2> QED BY <2>1, <2>3
<1>5. Exactly((d + c) % Words) = Plus(Exactly(d), Exactly(c))
  <2>1. PICK e \in Int : e = d + c
    OBVIOUS
  <2>2. Exactly(e % Words) = Exactly(e)
    BY LeafValues
  <2>3. Plus(Exactly(d), Exactly(c)) = Exactly(d + c)
    BY LeafValues
  <2> QED BY <2>1, <2>2, <2>3
<1>6. PICK u, v : u = Exactly(d) /\ v = Exactly(c)
  OBVIOUS
<1>7. Plus(Plus(bs, u), v) = Plus(bs, Plus(u, v))
  BY <1>3, <1>6, PlusAssoc
<1>8. ModeValue(am) = Plus(bs, u)
  BY <1>1, <1>2, <1>6 DEF ModeValue
<1> QED BY <1>4, <1>5, <1>6, <1>7, <1>8

LEMMA BasedValue ==
  ASSUME frame \in Int, NEW am \in Modes, am.base = None, NEW n \in Nodes,
         NEW bm, bm.base = n, bm.sym = am.sym, bm.disp = am.disp
  PROVE  ModeValue(bm) = Plus(ModeValue(am), Value[n])
<1>1. PICK v, s, d, z : v = Value[n] /\ s = SymValue(am.sym) /\ d = Exactly(am.disp) /\ z = Exactly(0)
  OBVIOUS
<1>2. v \in Values /\ s \in Values /\ d \in Values /\ z \in Values
  BY <1>1, ValueIs, ModeValueIn, LeafValues
<1>3. ModeValue(bm) = Plus(Plus(v, s), d)
  BY <1>1, BaseNodes DEF ModeValue, BaseValue
<1>4. ModeValue(am) = Plus(Plus(z, s), d)
  BY <1>1 DEF ModeValue, BaseValue
<1>5. Plus(z, s) = s
  <2>1. Plus(s, z) = s
    BY <1>1, <1>2, LeafValues
  <2> QED BY <1>2, <2>1, PlusIs
<1>6. Plus(Plus(v, s), d) = Plus(v, Plus(s, d))
  BY <1>2, PlusAssoc
<1>7. PICK sd \in Values : sd = Plus(s, d)
  BY <1>2, PlusIs
<1>8. Plus(v, sd) = Plus(sd, v)
  BY <1>2, PlusIs
<1> QED BY <1>1, <1>3, <1>4, <1>5, <1>6, <1>7, <1>8

LEMMA WrapperValue ==
  ASSUME frame \in Int, NEW am \in Modes, am.sym = None, NEW n \in Nodes, n.op = "sym"
  PROVE  ModeValue(MatchWrapper(n, am)) = Plus(ModeValue(am), Value[n])
<1>1. PICK a, c, d : a = Wrapper(n.name, 0) /\ c = n.val /\ d = am.disp
  OBVIOUS
<1>2. c \in Int /\ d \in Int /\ a \in Atoms /\ a # None
  <2>1. a # None
    BY <1>1 DEF Wrapper, Leaf, None
  <2> QED BY <1>1, <2>1, NodeIs, Tries DEF Atoms
<1>3. PICK b, u, v, w : b = BaseValue(am.base) /\ u = Unknown(a) /\ v = Exactly(d) /\ w = Exactly(c)
  OBVIOUS
<1>4. b \in Values /\ u \in Values /\ v \in Values /\ w \in Values
  BY <1>2, <1>3, ModeValueIn, LeafValues
<1>5. ModeValue(am) = Plus(b, v)
  <2>1. PICK z : z = Exactly(0)
    OBVIOUS
  <2>2. Plus(b, z) = b
    BY <1>4, <2>1, LeafValues
  <2> QED BY <1>1, <1>3, <2>1, <2>2 DEF ModeValue, SymValue
<1>6. Value[n] = Plus(u, w)
  BY <1>1, <1>3, ValueIs, NodeValueBy
<1>7. ModeValue(MatchWrapper(n, am)) = Plus(Plus(b, u), Exactly((d + c) % Words))
  <2>1. PICK bm : bm = MatchWrapper(n, am)
    OBVIOUS
  <2>2. bm.base = am.base /\ bm.sym = a /\ bm.disp = (d + c) % Words
    BY <1>1, <2>1, WrapperMode
  <2>3. ModeValue(bm) = Plus(Plus(b, u), Exactly((d + c) % Words))
    BY <1>2, <1>3, <2>2 DEF ModeValue, SymValue
  <2> QED BY <2>1, <2>3
<1>8. Exactly((d + c) % Words) = Plus(v, w)
  <2>1. PICK e \in Int : e = d + c
    BY <1>2
  <2>2. Exactly(e % Words) = Exactly(e)
    BY LeafValues
  <2>3. Plus(Exactly(d), Exactly(c)) = Exactly(d + c)
    BY <1>2, LeafValues
  <2> QED BY <1>3, <2>1, <2>2, <2>3
<1>9. Plus(Plus(b, u), Plus(v, w)) = Plus(Plus(b, v), Plus(u, w))
  BY <1>4, PlusFour
<1> QED BY <1>5, <1>6, <1>7, <1>8, <1>9

\* A result found for node n from mode am is worth what both are.
Adds(r, am, n) == r.ok => ModeValue(r.am) = Plus(ModeValue(am), Value[n])

LEMMA BaseAdds ==
  ASSUME frame \in Int, NEW n \in Nodes, NEW am \in Modes
  PROVE  Adds(MatchAddressBase(n, am), am, n)
<1>1. PICK bm : bm = MatchAddressBase(n, am).am
  OBVIOUS
<1>2. SUFFICES ASSUME MatchAddressBase(n, am).ok
               PROVE  ModeValue(bm) = Plus(ModeValue(am), Value[n])
  BY <1>1 DEF Adds
<1>3. am.base = None /\ bm.base = n /\ bm.sym = am.sym /\ bm.disp = am.disp
  BY <1>1, <1>2, MatchBase
<1> QED BY <1>3, BasedValue

\* Both operands of a sum were matched: in either order, the sum was.
LEMMA InTurnAdds ==
  ASSUME frame \in Int, NEW am \in Modes, NEW x \in Nodes, NEW y \in Nodes, NEW match,
         match[x] \in [Modes -> Results], match[y] \in [Modes -> Results],
         \A bm \in Modes : Adds(match[x][bm], bm, x) /\ Adds(match[y][bm], bm, y),
         MatchInTurn(match, x, y, am).ok
  PROVE  ModeValue(MatchInTurn(match, x, y, am).am) = Plus(ModeValue(am), Plus(Value[x], Value[y]))
<1>1. PICK first : first = match[x][am]
  OBVIOUS
<1>2. PICK cm : cm = first.am
  OBVIOUS
<1>3. first.ok /\ MatchInTurn(match, x, y, am) = match[y][cm]
  BY <1>1, <1>2 DEF MatchInTurn
<1>4. cm \in Modes
  BY <1>1, <1>2 DEF Results
<1>5. ModeValue(cm) = Plus(ModeValue(am), Value[x])
  BY <1>1, <1>2, <1>3 DEF Adds
<1>6. ModeValue(match[y][cm].am) = Plus(ModeValue(cm), Value[y])
  BY <1>3, <1>4 DEF Adds
<1>7. PICK u, v, w : u = ModeValue(am) /\ v = Value[x] /\ w = Value[y]
  OBVIOUS
<1>8. u \in Values /\ v \in Values /\ w \in Values
  BY <1>7, ValueIs, ModeValueIn
<1>9. Plus(Plus(u, v), w) = Plus(u, Plus(v, w))
  BY <1>8, PlusAssoc
<1> QED BY <1>3, <1>5, <1>6, <1>7, <1>9

\* If the operands of a node are matched as they should be, so is the node.
LEMMA NodeAdds ==
  ASSUME frame \in Int, NEW n \in Nodes, NEW am \in Modes,
         \A m \in Nodes : m.height < n.height =>
            \A bm \in Modes : Adds(MatchAddress[m][bm], bm, m)
  PROVE  Adds(MatchNode(MatchAddress, n, am), am, n)
<1>1. PICK f : f = MatchAddress
  OBVIOUS
<1>2. \A m \in Nodes : f[m] \in [Modes -> Results]
  BY <1>1, MatchIs
<1>3. Adds(MatchAddressBase(n, am), am, n)
  BY BaseAdds
<1>4. CASE n.op = "const"
  <2>1. PICK c \in Int : c = n.val
    BY <1>4, NodeIs
  <2>2. Displaced(am, c) \in Modes /\ ModeValue(Displaced(am, c)) = Plus(ModeValue(am), Exactly(c))
    BY DisplacedMode, DisplacedValue
  <2>3. Value[n] = Exactly(c)
    BY <1>4, <2>1, ValueIs, NodeValueBy
  <2>4. MatchNode(f, n, am) = Matched(Displaced(am, c))
    BY <1>4, <2>1, MatchNodeBy
  <2> QED BY <1>1, <2>2, <2>3, <2>4 DEF Adds, Matched
<1>5. CASE n.op = "reg"
  <2>1. MatchNode(f, n, am) = MatchAddressBase(n, am)
    BY <1>5, MatchNodeBy
  <2> QED BY <1>1, <1>3, <2>1
<1>6. CASE n.op = "sym"
  <2>1. CASE am.sym = None
    <3>1. MatchNode(f, n, am) = Matched(MatchWrapper(n, am))
      BY <1>6, <2>1, MatchNodeBy DEF hasSymbolicDisplacement
    <3>2. ModeValue(MatchWrapper(n, am)) = Plus(ModeValue(am), Value[n])
      BY <1>6, <2>1, WrapperValue
    <3> QED BY <1>1, <3>1, <3>2 DEF Adds, Matched
  <2>2. CASE am.sym # None
    <3>1. MatchNode(f, n, am) = MatchAddressBase(n, am)
      BY <1>6, <2>2, MatchNodeBy DEF hasSymbolicDisplacement
    <3> QED BY <1>1, <1>3, <3>1
  <2> QED BY <2>1, <2>2
<1>7. CASE n.op = "fi"
  <2>1. CASE am.base = None
    <3>1. PICK bm : bm = [am EXCEPT !.base = n]
      OBVIOUS
    <3>2. bm.base = n /\ bm.sym = am.sym /\ bm.disp = am.disp
      BY <3>1, BaseMode
    <3>3. MatchNode(f, n, am) = Matched(bm)
      BY <1>7, <2>1, <3>1, MatchNodeBy
    <3>4. ModeValue(bm) = Plus(ModeValue(am), Value[n])
      BY <2>1, <3>2, BasedValue
    <3> QED BY <1>1, <3>3, <3>4 DEF Adds, Matched
  <2>2. CASE am.base # None
    <3>1. MatchNode(f, n, am) = MatchAddressBase(n, am)
      BY <1>7, <2>2, MatchNodeBy
    <3> QED BY <1>1, <1>3, <3>1
  <2> QED BY <2>1, <2>2
<1>8. CASE n.op = "add"
  <2>1. PICK x, y : x = n.args[1] /\ y = n.args[2]
    OBVIOUS
  <2>2. x \in Nodes /\ y \in Nodes /\ x.height < n.height /\ y.height < n.height
    BY <1>8, <2>1, NodeIs
  <2>3. \A bm \in Modes : Adds(f[x][bm], bm, x) /\ Adds(f[y][bm], bm, y)
    BY <1>1, <2>2
  <2>4. f[x] \in [Modes -> Results] /\ f[y] \in [Modes -> Results]
    BY <1>2, <2>2
  <2>5. PICK one, two : one = MatchInTurn(f, x, y, am) /\ two = MatchInTurn(f, y, x, am)
    OBVIOUS
  <2>6. Value[n] = Plus(Value[x], Value[y]) /\ Value[n] = Plus(Value[y], Value[x])
    <3>1. Value[n] = Plus(Value[x], Value[y])
      BY <1>8, <2>1, ValueIs, NodeValueBy
    <3>2. PICK v \in Values, w \in Values : v = Value[x] /\ w = Value[y]
      BY <2>2, ValueIs
    <3>3. Plus(v, w) = Plus(w, v)
      BY PlusIs
    <3> QED BY <3>1, <3>2, <3>3
  <2>7. one.ok => ModeValue(one.am) = Plus(ModeValue(am), Value[n])
    <3>1. SUFFICES ASSUME one.ok PROVE ModeValue(one.am) = Plus(ModeValue(am), Value[n])
      OBVIOUS
    <3>2. MatchInTurn(f, x, y, am).ok
      BY <2>5, <3>1
    <3>3. ModeValue(MatchInTurn(f, x, y, am).am) = Plus(ModeValue(am), Plus(Value[x], Value[y]))
      BY <2>2, <2>3, <2>4, <3>2, InTurnAdds
    <3> QED BY <2>5, <2>6, <3>3
  <2>8. two.ok => ModeValue(two.am) = Plus(ModeValue(am), Value[n])
    <3>1. SUFFICES ASSUME two.ok PROVE ModeValue(two.am) = Plus(ModeValue(am), Value[n])
      OBVIOUS
    <3>2. MatchInTurn(f, y, x, am).ok
      BY <2>5, <3>1
    <3>3. ModeValue(MatchInTurn(f, y, x, am).am) = Plus(ModeValue(am), Plus(Value[y], Value[x]))
      BY <2>2, <2>3, <2>4, <3>2, InTurnAdds
    <3> QED BY <2>5, <2>6, <3>3
  <2>9. MatchNode(f, n, am) = IF one.ok THEN one ELSE IF two.ok THEN two
                              ELSE MatchAddressBase(n, am)
    BY <1>8, <2>1, <2>5, MatchNodeBy
  <2> QED BY <1>1, <1>3, <2>7, <2>8, <2>9 DEF Adds
<1>9. CASE n.op = "or"
  <2>1. PICK x, y : x = n.args[1] /\ y = n.args[2]
    OBVIOUS
  <2>2. x \in Nodes /\ y \in Nodes /\ x.height < n.height /\ y.op = "const"
    BY <1>9, <2>1, NodeIs
  <2>3. PICK left : left = f[x][am]
    OBVIOUS
  <2>4. PICK cm \in Modes : cm = left.am
    BY <1>2, <2>2, <2>3 DEF Results
  <2>5. PICK c \in Int : c = y.val
    BY <2>2, NodeIs
  <2>6. CASE left.ok /\ OrIsAdd(n, cm)
    <3>1. Value[n] = Plus(Value[x], Value[y])
      BY <1>9, <2>1, <2>6, ValueIs, NodeValueBy DEF OrIsAdd
    <3>2. Value[y] = Exactly(c)
      BY <2>2, <2>5, ValueIs, NodeValueBy
    <3>3. ModeValue(cm) = Plus(ModeValue(am), Value[x])
      <4>1. Adds(left, am, x)
        BY <1>1, <2>2, <2>3
      <4> QED BY <2>4, <2>6, <4>1 DEF Adds
    <3>4. ModeValue(Displaced(cm, c)) = Plus(ModeValue(cm), Exactly(c))
      BY DisplacedValue
    <3>5. PICK u, v, w : u = ModeValue(am) /\ v = Value[x] /\ w = Value[y]
      OBVIOUS
    <3>6. u \in Values /\ v \in Values /\ w \in Values
      BY <2>2, <3>5, ValueIs, ModeValueIn
    <3>7. Plus(Plus(u, v), w) = Plus(u, Plus(v, w))
      BY <3>6, PlusAssoc
    <3>8. MatchNode(f, n, am) = Matched(Displaced(cm, c))
      BY <1>9, <2>1, <2>3, <2>4, <2>5, <2>6, MatchNodeBy
    <3>9. ModeValue(Displaced(cm, c)) = Plus(ModeValue(am), Value[n])
      BY <3>1, <3>2, <3>3, <3>4, <3>5, <3>7
    <3> QED BY <1>1, <3>8, <3>9 DEF Adds, Matched
  <2>7. CASE ~(left.ok /\ OrIsAdd(n, cm))
    <3>1. MatchNode(f, n, am) = MatchAddressBase(n, am)
      BY <1>9, <2>1, <2>3, <2>4, <2>7, MatchNodeBy
    <3> QED BY <1>1, <1>3, <3>1
  <2> QED BY <2>6, <2>7
<1> QED BY <1>4, <1>5, <1>6, <1>7, <1>8, <1>9, NodeIs

LEMMA MatchAdds ==
  ASSUME frame \in Int
  PROVE  \A n \in Nodes : \A am \in Modes : Adds(MatchAddress[n][am], am, n)
<1> DEFINE S == {n \in Nodes : \A am \in Modes : Adds(MatchAddress[n][am], am, n)}
<1>1. PICK T : T = S
  OBVIOUS
<1>2. ASSUME NEW n \in Nodes, \A m \in Nodes : m.height < n.height => m \in T PROVE n \in T
  <2>1. \A m \in Nodes : m.height < n.height =>
          \A am \in Modes : Adds(MatchAddress[m][am], am, m)
    BY <1>1, <1>2
  <2>2. ASSUME NEW am \in Modes PROVE Adds(MatchAddress[n][am], am, n)
    <3>1. Adds(MatchNode(MatchAddress, n, am), am, n)
      BY <2>1, NodeAdds
    <3>2. MatchAddress[n][am] = MatchNode(MatchAddress, n, am)
      BY MatchIs
    <3> QED BY <3>1, <3>2
  <2> QED BY <1>1, <2>2
<1>3. Nodes \subseteq T
  <2> HIDE DEF S
  <2> QED BY <1>2, NodeInduct
<1> QED BY <1>1, <1>3

\* Without a base so far, there is always a way.
LEMMA MatchAlways ==
  ASSUME NEW n \in Nodes, NEW am \in Modes, am.base = None
  PROVE  MatchAddress[n][am].ok
<1>1. PICK f : f = MatchAddress
  OBVIOUS
<1>2. MatchAddressBase(n, am).ok
  BY MatchBase
<1>3. \A cm : Matched(cm).ok
  BY DEF Matched
<1>4. MatchNode(f, n, am).ok
  <2>1. CASE n.op = "const"
    BY <1>3, <2>1, MatchNodeBy
  <2>2. CASE n.op = "reg"
    BY <1>2, <2>2, MatchNodeBy
  <2>3. CASE n.op = "sym"
    <3>1. MatchNode(f, n, am) = IF hasSymbolicDisplacement(am) THEN MatchAddressBase(n, am)
                                ELSE Matched(MatchWrapper(n, am))
      BY <2>3, MatchNodeBy
    <3> QED BY <1>2, <1>3, <3>1
  <2>4. CASE n.op = "fi"
    <3>1. MatchNode(f, n, am) = IF am.base = None THEN Matched([am EXCEPT !.base = n])
                                ELSE MatchAddressBase(n, am)
      BY <2>4, MatchNodeBy
    <3> QED BY <1>2, <1>3, <3>1
  <2>5. CASE n.op = "add"
    BY <1>2, <2>5, MatchNodeBy
  <2>6. CASE n.op = "or"
    BY <1>2, <1>3, <2>6, MatchNodeBy
  <2> QED BY <2>1, <2>2, <2>3, <2>4, <2>5, <2>6, NodeIs
<1>5. MatchAddress[n][am] = MatchNode(f, n, am)
  BY <1>1, MatchIs
<1> QED BY <1>4, <1>5

-------------------------------------------------------------------------------
(* Operands of instructions, before and after the frame is laid out *)

\* The operands of an address are <<base, displacement>>.
LEMMA OperandsAre ==
  ASSUME NEW form \in Forms, NEW src, NEW dst
  PROVE  /\ form \in {"mov_rm", "cmp_rm", "bit_rm"} =>
              SrcDispIdx(form) = 3 /\ Operands(form, src, dst) = <<Rd>> \o src
         /\ form = "op_rm" => SrcDispIdx(form) = 4 /\ Operands(form, src, dst) = <<Rd, Rd>> \o src
         /\ form = "op_m" => SrcDispIdx(form) = 2 /\ Operands(form, src, dst) = src
         /\ form \in MemoryToMemory =>
              SrcDispIdx(form) = 4 /\ Operands(form, src, dst) = dst \o src
<1>1. CASE form \in {"mov_rm", "cmp_rm", "bit_rm"}
  BY <1>1 DEF Operands, SrcDispIdx, MemoryToMemory
<1>2. CASE form = "op_rm"
  BY <1>2 DEF Operands, SrcDispIdx, MemoryToMemory
<1>3. CASE form = "op_m"
  BY <1>3 DEF Operands, SrcDispIdx, MemoryToMemory
<1>4. CASE form \in MemoryToMemory
  BY <1>4 DEF Operands, SrcDispIdx, MemoryToMemory
<1> QED BY <1>1, <1>2, <1>3, <1>4 DEF Forms, MemoryToMemory

\* r is s with the two elements of t after it.
IsJoined(S, r, s, t) ==
  /\ r \in Seq(S) /\ Len(r) = Len(s) + 2
  /\ r[Len(s) + 1] = t[1] /\ r[Len(s) + 2] = t[2]
  /\ \A i \in 1..Len(s) : r[i] = s[i]

LEMMA Joined ==
  ASSUME NEW S, NEW s \in Seq(S), NEW t \in Seq(S), Len(t) = 2
  PROVE  IsJoined(S, s \o t, s, t)
<1>6. /\ s \o t \in Seq(S)
      /\ Len(s \o t) = Len(s) + Len(t)
      /\ \A i \in 1..(Len(s) + Len(t)) :
           (s \o t)[i] = IF i <= Len(s) THEN s[i] ELSE t[i - Len(s)]
  BY ConcatProperties, Zenon
<1>7. PICK r : r = s \o t
  OBVIOUS
<1>1. r \in Seq(S) /\ Len(r) = Len(s) + 2
  BY <1>6, <1>7
<1>2. \A i \in 1..(Len(s) + 2) : r[i] = IF i <= Len(s) THEN s[i] ELSE t[i - Len(s)]
  BY <1>6, <1>7
<1>3. PICK n \in Nat : n = Len(s)
  OBVIOUS
<1>4. /\ n + 1 \in 1..(n + 2) /\ ~(n + 1 <= n) /\ (n + 1) - n = 1
      /\ n + 2 \in 1..(n + 2) /\ ~(n + 2 <= n) /\ (n + 2) - n = 2
      /\ \A i \in 1..n : i \in 1..(n + 2) /\ i <= n
  OBVIOUS
<1>5. r[n + 1] = t[1] /\ r[n + 2] = t[2] /\ \A i \in 1..n : r[i] = s[i]
  BY <1>2, <1>3, <1>4
<1> QED BY <1>1, <1>3, <1>5, <1>7 DEF IsJoined

\* The parts of the operands that the passes after selection go by.
Parts(form, k, ops, b, d, x, y) ==
  /\ k \in {2, 3, 4} /\ Len(ops) = k
  /\ ops[k] = d /\ ops[k - 1] = b
  /\ form \in MemoryToMemory => k = 4 /\ ops[1] = x /\ ops[2] = y
  /\ form \notin MemoryToMemory => \A i \in 1..(k - 2) : ops[i] = Rd

LEMMA OperandParts ==
  ASSUME NEW form \in Forms, NEW S, Rd \in S, NEW b \in S, NEW d \in S, NEW x, NEW y, NEW dst,
         form \in MemoryToMemory => x \in S /\ y \in S /\ dst = <<x, y>>
  PROVE  /\ Operands(form, <<b, d>>, dst) \in Seq(S)
         /\ Parts(form, SrcDispIdx(form), Operands(form, <<b, d>>, dst), b, d, x, y)
<1>1. PICK ops, k : ops = Operands(form, <<b, d>>, dst) /\ k = SrcDispIdx(form)
  OBVIOUS
<1>2. SUFFICES ops \in Seq(S) /\ Parts(form, k, ops, b, d, x, y)
  BY <1>1
<1>9. PICK t : t = <<b, d>>
  OBVIOUS
<1>7. t \in Seq(S) /\ Len(t) = 2 /\ t[1] = b /\ t[2] = d
  BY <1>9
<1>8. ops = Operands(form, t, dst) /\ k = SrcDispIdx(form)
  BY <1>1, <1>9
<1>3. CASE form \in {"mov_rm", "cmp_rm", "bit_rm"}
  <2>1. k = 3 /\ ops = <<Rd>> \o t
    BY <1>3, <1>8, OperandsAre
  <2>2. PICK s : s = <<Rd>>
    OBVIOUS
  <2>3. s \in Seq(S) /\ Len(s) = 1 /\ s[1] = Rd
    BY <2>2
  <2>4. ops \in Seq(S) /\ Len(ops) = 3 /\ ops[2] = b /\ ops[3] = d /\ ops[1] = Rd
    <3>1. IsJoined(S, s \o t, s, t) /\ ops = s \o t
      BY <1>7, <2>1, <2>2, <2>3, Joined
    <3>2. IsJoined(S, ops, s, t)
      BY <3>1
    <3> QED BY <1>7, <2>3, <3>2 DEF IsJoined
  <2>5. \A i \in 1..(3 - 2) : i = 1
    OBVIOUS
  <2>6. form \notin MemoryToMemory
    BY <1>3 DEF MemoryToMemory
  <2> QED BY <2>1, <2>4, <2>5, <2>6 DEF Parts
<1>4. CASE form = "op_rm"
  <2>1. k = 4 /\ ops = <<Rd, Rd>> \o t
    BY <1>4, <1>8, OperandsAre
  <2>2. PICK s : s = <<Rd, Rd>>
    OBVIOUS
  <2>3. s \in Seq(S) /\ Len(s) = 2 /\ s[1] = Rd /\ s[2] = Rd
    BY <2>2
  <2>4. ops = s \o t
    BY <2>1, <2>2
  <2>5. ops \in Seq(S) /\ Len(ops) = 4 /\ ops[3] = b /\ ops[4] = d /\ ops[1] = Rd /\ ops[2] = Rd
    <3>1. IsJoined(S, s \o t, s, t)
      BY <1>7, <2>3, Joined
    <3>2. IsJoined(S, ops, s, t)
      BY <2>4, <3>1
    <3> QED BY <1>7, <2>3, <3>2 DEF IsJoined
  <2>6. \A i \in 1..(4 - 2) : i = 1 \/ i = 2
    OBVIOUS
  <2>7. form \notin MemoryToMemory
    BY <1>4 DEF MemoryToMemory
  <2> QED BY <2>1, <2>5, <2>6, <2>7 DEF Parts
<1>5. CASE form = "op_m"
  <2>1. k = 2 /\ ops = t
    BY <1>5, <1>8, OperandsAre
  <2>2. ops \in Seq(S) /\ Len(ops) = 2 /\ ops[1] = b /\ ops[2] = d
    BY <1>7, <2>1
  <2>3. form \notin MemoryToMemory
    BY <1>5 DEF MemoryToMemory
  <2> QED BY <2>1, <2>2, <2>3 DEF Parts
<1>6. CASE form \in MemoryToMemory
  <2>1. k = 4 /\ ops = dst \o t
    BY <1>6, <1>8, OperandsAre
  <2>2. PICK s : s = dst
    OBVIOUS
  <2>3. s \in Seq(S) /\ Len(s) = 2 /\ s[1] = x /\ s[2] = y
    <3>1. s = <<x, y>>
      BY <1>6, <2>2
    <3>2. x \in S /\ y \in S
      BY <1>6
    <3> QED BY <3>1, <3>2
  <2>4. ops \in Seq(S) /\ Len(ops) = 4 /\ ops[3] = b /\ ops[4] = d /\ ops[1] = x /\ ops[2] = y
    <3>1. IsJoined(S, s \o t, s, t)
      BY <1>7, <2>3, Joined
    <3>2. IsJoined(S, ops, s, t)
      BY <2>1, <2>2, <3>1
    <3> QED BY <1>7, <2>3, <3>2 DEF IsJoined
  <2> QED BY <1>6, <2>1, <2>4 DEF Parts
<1> QED BY <1>3, <1>4, <1>5, <1>6 DEF Forms, MemoryToMemory

\* eliminateFrameIndex on the two operands of an address.
PlacedBase(b)    == IF b.kind = "FI" THEN GR(SP) ELSE b
PlacedDisp(b, d) == IF b.kind = "FI" THEN Imm((d.val + frame) % Words) ELSE d

LEMMA ResolvedOperands ==
  ASSUME NEW form \in Forms, NEW b, NEW d, NEW x, NEW y, NEW dst, NEW placed,
         d.kind # "FI", y.kind # "FI",
         form \in MemoryToMemory => /\ dst = <<x, y>>
                                    /\ placed = <<PlacedBase(x), PlacedDisp(x, y)>>
  PROVE  Resolved(Operands(form, <<b, d>>, dst))
           = Operands(form, <<PlacedBase(b), PlacedDisp(b, d)>>, placed)
<1>1. Rd.kind # "FI"
  BY DEF Rd, GR, Operand
<1>2. PICK pb, pd, px, py : /\ pb = PlacedBase(b) /\ pd = PlacedDisp(b, d)
                            /\ px = PlacedBase(x) /\ py = PlacedDisp(x, y)
  OBVIOUS
<1>3. PICK ops, k : ops = Operands(form, <<b, d>>, dst) /\ k = SrcDispIdx(form)
  OBVIOUS
<1> DEFINE S == {Rd, b, d, x, y, pb, pd, px, py}
<1>4. ops \in Seq(S) /\ Parts(form, k, ops, b, d, x, y)
  <2>1. Rd \in S /\ b \in S /\ d \in S /\ x \in S /\ y \in S
    OBVIOUS
  <2> HIDE DEF S
  <2> QED BY <1>3, <2>1, OperandParts
<1>5. PICK res : res = Operands(form, <<pb, pd>>, placed)
  OBVIOUS
<1>6. res \in Seq(S) /\ Parts(form, k, res, pb, pd, px, py)
  <2>1. Rd \in S /\ pb \in S /\ pd \in S /\ px \in S /\ py \in S
    OBVIOUS
  <2> HIDE DEF S
  <2> QED BY <1>2, <1>3, <1>5, <2>1, OperandParts
<1> HIDE DEF S
<1> USE DEF Parts
<1>7. PICK to : to = Resolved(ops)
  OBVIOUS
<1>8. /\ to = [i \in 1..k |-> to[i]]
      /\ \A i \in 1..k :
           /\ ops[i].kind = "FI" => to[i] = GR(SP)
           /\ ops[i].kind # "FI" /\ i > 1 /\ ops[i - 1].kind = "FI" =>
                to[i] = Imm((ops[i].val + frame) % Words)
           /\ ops[i].kind # "FI" /\ ~(i > 1 /\ ops[i - 1].kind = "FI") => to[i] = ops[i]
  <2>1. DOMAIN ops = 1..k
    BY <1>4
  <2>2. DOMAIN to = 1..k /\ to = [i \in DOMAIN to |-> to[i]]
    BY <1>7, <2>1 DEF Resolved
  <2>3. ASSUME NEW i \in 1..k
        PROVE  to[i] = CASE ops[i].kind = "FI" -> GR(SP)
                         [] i > 1 /\ ops[i - 1].kind = "FI" -> Imm((ops[i].val + frame) % Words)
                         [] OTHER -> ops[i]
    BY <1>7, <2>1 DEF Resolved
  <2>4. ASSUME NEW i \in 1..k, ops[i].kind = "FI", ~(i > 1 /\ ops[i - 1].kind = "FI")
        PROVE  to[i] = GR(SP)
    BY <2>3, <2>4
  <2>5. ASSUME NEW i \in 1..k, ops[i].kind # "FI", i > 1 /\ ops[i - 1].kind = "FI"
        PROVE  to[i] = Imm((ops[i].val + frame) % Words)
    BY <2>3, <2>5
  <2>6. ASSUME NEW i \in 1..k, ops[i].kind # "FI", ~(i > 1 /\ ops[i - 1].kind = "FI")
        PROVE  to[i] = ops[i]
    BY <2>3, <2>6
  <2>7. \A i \in 1..k : ops[i].kind = "FI" => ~(i > 1 /\ ops[i - 1].kind = "FI")
    <3> SUFFICES ASSUME NEW i \in 1..k, ops[i].kind = "FI", i > 1, ops[i - 1].kind = "FI"
                 PROVE  FALSE
      OBVIOUS
    <3>1. CASE form \in MemoryToMemory
      <4>1. i \in {1, 2, 3, 4} /\ k = 4
        BY <1>4, <3>1
      <4> QED BY <1>4, <3>1, <4>1
    <3>2. CASE form \notin MemoryToMemory
      <4>1. i \in 1..(k - 2) \/ i = k - 1 \/ i = k
        BY <1>4
      <4>2. i = k - 1 => i - 1 \in 1..(k - 2)
        BY <1>4
      <4> QED BY <1>1, <1>4, <3>2, <4>1, <4>2
    <3> QED BY <3>1, <3>2
  <2> QED BY <2>2, <2>4, <2>5, <2>6, <2>7
<1>9. to[k - 1] = pb /\ to[k] = pd
  <2>1. k - 1 \in 1..k /\ k \in 1..k /\ k > 1 /\ (k - 1) - 1 = k - 2
    BY <1>4
  <2>2. k - 1 > 1 => ops[k - 2].kind # "FI"
    <3>1. CASE form \in MemoryToMemory
      BY <1>4, <3>1
    <3>2. CASE form \notin MemoryToMemory
      <4>1. k - 1 > 1 => k - 2 \in 1..(k - 2)
        BY <1>4
      <4> QED BY <1>1, <1>4, <3>2, <4>1
    <3> QED BY <3>1, <3>2
  <2>3. /\ ops[k - 1].kind = "FI" => to[k - 1] = GR(SP)
        /\ ops[k - 1].kind # "FI" => to[k - 1] = ops[k - 1]
    BY <1>8, <2>1, <2>2
  <2>4. /\ ops[k].kind # "FI" /\ ops[k - 1].kind = "FI" =>
             to[k] = Imm((ops[k].val + frame) % Words)
        /\ ops[k].kind # "FI" /\ ops[k - 1].kind # "FI" => to[k] = ops[k]
    BY <1>8, <2>1
  <2>5. to[k - 1] = pb
    BY <1>2, <1>4, <2>3 DEF PlacedBase
  <2>6. to[k] = pd
    BY <1>2, <1>4, <2>4 DEF PlacedDisp
  <2> QED BY <2>5, <2>6
<1>10. form \in MemoryToMemory => to[1] = px /\ to[2] = py
  <2> SUFFICES ASSUME form \in MemoryToMemory PROVE to[1] = px /\ to[2] = py
    OBVIOUS
  <2>1. 1 \in 1..k /\ 2 \in 1..k /\ ~(1 > 1) /\ 2 - 1 = 1 /\ 2 > 1
    BY <1>4
  <2>2. /\ ops[1].kind = "FI" => to[1] = GR(SP)
        /\ ops[1].kind # "FI" => to[1] = ops[1]
    BY <1>8, <2>1
  <2>3. /\ ops[2].kind # "FI" /\ ops[1].kind = "FI" => to[2] = Imm((ops[2].val + frame) % Words)
        /\ ops[2].kind # "FI" /\ ops[1].kind # "FI" => to[2] = ops[2]
    BY <1>8, <2>1
  <2>4. to[1] = px
    BY <1>2, <1>4, <2>2 DEF PlacedBase
  <2>5. to[2] = py
    BY <1>2, <1>4, <2>3 DEF PlacedDisp
  <2> QED BY <2>4, <2>5
<1>11. form \notin MemoryToMemory => \A i \in 1..(k - 2) : to[i] = Rd
  <2> SUFFICES ASSUME form \notin MemoryToMemory, NEW i \in 1..(k - 2) PROVE to[i] = Rd
    OBVIOUS
  <2>1. i \in 1..k /\ (i > 1 => i - 1 \in 1..(k - 2))
    BY <1>4
  <2> QED BY <1>1, <1>4, <1>8, <2>1
<1>12. \A i \in 1..k : to[i] = res[i]
  <2>1. CASE form \in MemoryToMemory
    <3>1. \A i \in 1..k : i \in {1, 2, k - 1, k}
      BY <1>4, <2>1
    <3> QED BY <1>6, <1>9, <1>10, <2>1, <3>1
  <2>2. CASE form \notin MemoryToMemory
    <3>1. \A i \in 1..k : i \in 1..(k - 2) \/ i = k - 1 \/ i = k
      BY <1>4
    <3> QED BY <1>6, <1>9, <1>11, <2>2, <3>1
  <2> QED BY <2>1, <2>2
<1>13. res = [i \in 1..k |-> res[i]]
  BY <1>4, <1>6
<1>14. to = res
  BY <1>8, <1>12, <1>13
<1> QED BY <1>2, <1>3, <1>5, <1>7, <1>14

-------------------------------------------------------------------------------
(* The operand selected for an address is at the address *)

\* The mode MatchAddress finds for n.
ModeOf(n) == MatchAddress[n][EmptyMode].am

LEMMA ModeIs ==
  ASSUME NEW n \in Nodes
  PROVE  ModeOf(n) \in Modes /\ MatchAddress[n][EmptyMode].ok
<1>1. EmptyMode \in Modes /\ EmptyMode.base = None
  BY WordsAssumption DEF EmptyMode, Modes
<1>2. MatchAddress[n][EmptyMode] \in Results
  BY <1>1, MatchIs
<1> QED BY <1>1, <1>2, MatchAlways DEF Results, ModeOf

LEMMA ModeValueIs ==
  ASSUME frame \in Int, NEW n \in Nodes
  PROVE  ModeValue(ModeOf(n)) = Value[n]
<1>1. EmptyMode \in Modes /\ EmptyMode.base = None /\ EmptyMode.sym = None /\ EmptyMode.disp = 0
  BY WordsAssumption DEF EmptyMode, Modes
<1>2. PICK z, v : z = Exactly(0) /\ v = Value[n]
  OBVIOUS
<1>3. z \in Values /\ v \in Values
  BY <1>2, ValueIs, LeafValues
<1>4. Plus(z, z) = z /\ Plus(v, z) = v
  BY <1>2, <1>3, LeafValues
<1>5. Plus(z, v) = v
  BY <1>3, <1>4, PlusIs
<1>6. ModeValue(EmptyMode) = z
  BY <1>1, <1>2, <1>4 DEF ModeValue, BaseValue, SymValue
<1>7. Adds(MatchAddress[n][EmptyMode], EmptyMode, n)
  BY <1>1, MatchAdds
<1>8. ModeValue(ModeOf(n)) = Plus(ModeValue(EmptyMode), Value[n])
  BY <1>7, ModeIs DEF Adds, ModeOf
<1> QED BY <1>2, <1>5, <1>6, <1>8

\* SelectAddr, by what MatchAddress found.
LEMMA OperandOf ==
  ASSUME NEW am
  PROVE  /\ am.base = None => BaseOf(am) = SR
         /\ am.base # None /\ am.base.op = "fi" => BaseOf(am) = Operand("FI", FrameIndex, 0)
         /\ am.base # None /\ am.base.op # "fi" => BaseOf(am) = GR(am.base)
         /\ am.sym = None => DispOf(am) = Imm(am.disp)
         /\ am.sym # None /\ am.sym.name = "JT" => DispOf(am) = Sym(am.sym, 0)
         /\ am.sym # None /\ am.sym.name # "JT" => DispOf(am) = Sym(am.sym, am.disp)
<1>1. None.op # "fi" /\ None.name # "JT"
  BY DEF None, Leaf
<1>2. am.base = None => BaseOf(am) = SR
  BY <1>1 DEF BaseOf
<1>3. am.base # None /\ am.base.op = "fi" => BaseOf(am) = Operand("FI", FrameIndex, 0)
  BY DEF BaseOf
<1>4. am.base # None /\ am.base.op # "fi" => BaseOf(am) = GR(am.base)
  BY DEF BaseOf
<1>5. am.sym = None => DispOf(am) = Imm(am.disp)
  BY <1>1 DEF DispOf
<1>6. am.sym # None /\ am.sym.name = "JT" => DispOf(am) = Sym(am.sym, 0)
  BY DEF DispOf
<1>7. am.sym # None /\ am.sym.name # "JT" => DispOf(am) = Sym(am.sym, am.disp)
  BY DEF DispOf
<1> QED BY <1>2, <1>3, <1>4, <1>5, <1>6, <1>7

MachineOperands == [kind : {"GR", "SR", "FI", "imm", "sym"},
                    node : Nodes \cup Symbols \cup {None, Register("rd", 0)},
                    val  : 0..(Words - 1)]

\* The machine operands of an address: base and displacement.
LEMMA OperandsIn ==
  ASSUME NEW n \in Nodes
  PROVE  /\ SelectAddr(n).ok
         /\ SelectAddr(n).operand = <<BaseOf(ModeOf(n)), DispOf(ModeOf(n))>>
         /\ BaseOf(ModeOf(n)) \in MachineOperands /\ BaseOf(ModeOf(n)).kind \in {"SR", "FI", "GR"}
         /\ DispOf(ModeOf(n)) \in MachineOperands /\ DispOf(ModeOf(n)).kind \in {"imm", "sym"}
<1>1. PICK am \in Modes : am = ModeOf(n)
  BY ModeIs
<1>2. SelectAddr(n).ok /\ SelectAddr(n).operand = <<BaseOf(am), DispOf(am)>>
  BY <1>1, ModeIs DEF SelectAddr, ModeOf
<1>3. /\ am.base \in Nodes \cup {None} /\ am.sym \in Symbols \cup {None}
      /\ am.disp \in 0..(Words - 1) /\ 0 \in 0..(Words - 1)
  BY Tries, WordsAssumption
<1>4. BaseOf(am) \in MachineOperands /\ BaseOf(am).kind \in {"SR", "FI", "GR"}
  <2>1. CASE am.base = None
    BY <1>3, <2>1, OperandOf DEF SR, Operand, MachineOperands
  <2>2. CASE am.base # None /\ am.base.op = "fi"
    BY <1>3, <2>2, OperandOf, BaseNodes DEF Operand, MachineOperands
  <2>3. CASE am.base # None /\ am.base.op # "fi"
    BY <1>3, <2>3, OperandOf DEF GR, Operand, MachineOperands
  <2> QED BY <2>1, <2>2, <2>3
<1>5. DispOf(am) \in MachineOperands /\ DispOf(am).kind \in {"imm", "sym"}
  <2>1. CASE am.sym = None
    BY <1>3, <2>1, OperandOf DEF Imm, Operand, MachineOperands
  <2>2. CASE am.sym # None /\ am.sym.name = "JT"
    BY <1>3, <2>2, OperandOf DEF Sym, Operand, MachineOperands
  <2>3. CASE am.sym # None /\ am.sym.name # "JT"
    BY <1>3, <2>3, OperandOf DEF Sym, Operand, MachineOperands
  <2> QED BY <2>1, <2>2, <2>3
<1> QED BY <1>1, <1>2, <1>4, <1>5

\* Frame elimination of an operand, and whether what it becomes is at n.
LEMMA PlacedRight ==
  ASSUME frame \in Int, NEW n \in Nodes, Addressable(n),
         NEW b, b = PlacedBase(BaseOf(ModeOf(n))),
         NEW d, d = PlacedDisp(BaseOf(ModeOf(n)), DispOf(ModeOf(n)))
  PROVE  /\ Effective(b, d) = Value[n]
         /\ d = Imm(0) => Indirect(b) = Value[n]
<1>1. PICK am \in Modes : am = ModeOf(n)
  BY ModeIs
<1>2. /\ ~(am.base.op = "fi" /\ am.sym # None)
      /\ am.sym.name = "JT" => am.disp = 0
      /\ am # EmptyMode
  BY <1>1 DEF Addressable, ModeOf, hasSymbolicDisplacement
<1>3. /\ am.base \in Nodes \cup {None} /\ am.sym \in Symbols \cup {None}
      /\ am.disp \in 0..(Words - 1) /\ am.disp \in Int
      /\ am = [base |-> am.base, sym |-> am.sym, disp |-> am.disp]
  BY Tries
<1>4. ModeValue(am) = Value[n]
  BY <1>1, ModeValueIs
<1>5. PICK z, bv, sv, dv : z = Exactly(0) /\ bv = BaseValue(am.base) /\ sv = SymValue(am.sym)
                           /\ dv = Exactly(am.disp)
  OBVIOUS
<1>6. z \in Values /\ bv \in Values /\ sv \in Values /\ dv \in Values
  BY <1>5, ModeValueIn, LeafValues
<1>7. Value[n] = Plus(Plus(bv, sv), dv)
  BY <1>4, <1>5 DEF ModeValue
<1>8. Plus(Plus(bv, sv), dv) = Plus(bv, Plus(sv, dv))
  BY <1>6, PlusAssoc
<1>9. PICK off \in Values : off = Plus(sv, dv)
  BY <1>6, PlusIs
<1>10. am.sym = None => sv = z /\ off = dv
  <2>1. Plus(dv, z) = dv
    BY <1>5, <1>6, LeafValues
  <2>2. Plus(z, dv) = Plus(dv, z)
    BY <1>6, PlusIs
  <2> QED BY <1>5, <1>9, <2>1, <2>2 DEF SymValue
<1>11. PICK o : o = DispOf(am)
  OBVIOUS
\* What the displacement adds.
<1>12. /\ am.sym = None => o.kind = "imm" /\ o.val = am.disp /\ o.node = None
       /\ am.sym # None => o.kind = "sym" /\ o.val = am.disp /\ o.node = am.sym
  <2>1. CASE am.sym = None
    BY <1>11, <2>1, OperandOf DEF Imm, Operand
  <2>2. CASE am.sym # None /\ am.sym.name = "JT"
    BY <1>2, <1>11, <2>2, OperandOf DEF Sym, Operand
  <2>3. CASE am.sym # None /\ am.sym.name # "JT"
    BY <1>11, <2>3, OperandOf DEF Sym, Operand
  <2> QED BY <2>1, <2>2, <2>3
<1>13. \A e : Effective(e, o) = IF e.kind = "SR" THEN off ELSE Plus(Value[e.node], off)
  <2>1. CASE am.sym = None
    BY <1>5, <1>10, <1>12, <2>1 DEF Effective
  <2>2. CASE am.sym # None
    BY <1>5, <1>9, <1>12, <2>2 DEF Effective, SymValue
  <2> QED BY <2>1, <2>2
<1>14. CASE am.base = None
  <2>1. b = SR /\ d = o /\ b.kind = "SR"
    BY <1>1, <1>11, <1>14, OperandOf DEF PlacedBase, PlacedDisp, SR, Operand
  <2>2. Effective(b, d) = off
    BY <1>13, <2>1
  <2>3. bv = z
    BY <1>5, <1>14 DEF BaseValue
  <2>4. Plus(z, off) = off
    <3>1. Plus(off, z) = off
      BY <1>5, <1>6, LeafValues
    <3> QED BY <1>6, <3>1, PlusIs
  <2>5. Effective(b, d) = Value[n]
    BY <1>7, <1>8, <1>9, <2>2, <2>3, <2>4
  <2>6. d # Imm(0)
    <3>1. CASE am.sym = None
      <4>1. am.disp # 0
        BY <1>2, <1>3, <1>14, <3>1 DEF EmptyMode
      <4>2. Imm(0).val = 0
        BY DEF Imm, Operand
      <4> QED BY <1>12, <2>1, <3>1, <4>1, <4>2
    <3>2. CASE am.sym # None
      <4>1. Imm(0).kind = "imm"
        BY DEF Imm, Operand
      <4> QED BY <1>12, <2>1, <3>2, <4>1
    <3> QED BY <3>1, <3>2
  <2> QED BY <2>5, <2>6
<1>15. ASSUME b.kind # "SR", Effective(b, Imm(0)) = Value[n] PROVE Indirect(b) = Value[n]
  <2>1. Imm(0).kind = "imm" /\ Imm(0).val = 0
    BY DEF Imm, Operand
  <2>2. Effective(b, Imm(0)) = Plus(Value[b.node], z)
    BY <1>5, <1>15, <2>1 DEF Effective
  <2>3. Indirect(b) = Value[b.node]
    BY <1>15 DEF Indirect
  <2>4. b.node \in Nodes
    <3>1. CASE am.base = None
      BY <1>1, <1>15, <3>1, OperandOf DEF PlacedBase, SR, Operand
    <3>2. CASE am.base # None /\ am.base.op = "fi"
      BY <1>1, <3>2, BaseNodes, OperandOf DEF PlacedBase, GR, Operand
    <3>3. CASE am.base # None /\ am.base.op # "fi"
      BY <1>1, <1>3, <3>3, OperandOf DEF PlacedBase, GR, Operand
    <3> QED BY <3>1, <3>2, <3>3
  <2>5. PICK v \in Values : v = Value[b.node]
    BY <2>4, ValueIs
  <2>6. Plus(v, z) = v
    BY <1>5, LeafValues
  <2> QED BY <1>15, <2>2, <2>3, <2>5, <2>6
<1>16. CASE am.base # None /\ am.base.op = "fi"
  <2>1. am.base = FrameIndex /\ am.sym = None
    <3>1. am.base \in Nodes
      BY <1>3, <1>16
    <3>2. am.base = FrameIndex
      BY <1>16, <3>1, NodesAssumption
    <3> QED BY <1>2, <1>16, <3>2
  <2>2. PICK m \in Int : m = am.disp
    BY <1>3
  <2>3. b = GR(SP) /\ d = Imm((m + frame) % Words)
    BY <1>1, <1>11, <1>12, <1>16, <2>1, <2>2, OperandOf DEF PlacedBase, PlacedDisp, Operand
  <2>4. PICK f \in Int : f = frame
    OBVIOUS
  <2>5. PICK s, fv : s = Unknown(SP) /\ fv = Exactly(f)
    OBVIOUS
  <2>6. s \in Values /\ fv \in Values
    BY <2>5, BaseNodes, LeafValues DEF Atoms
  <2>7. Value[SP] = s
    BY <2>5, BaseNodes, ValueIs, NodeValueBy
  <2>8. Value[FrameIndex] = Plus(s, fv)
    BY <2>4, <2>5, BaseNodes, ValueIs, NodeValueBy
  <2>9. Effective(b, d) = Plus(s, Exactly((m + f) % Words))
    BY <2>3, <2>4, <2>7 DEF Effective, GR, Imm, Operand
  <2>10. Exactly((m + f) % Words) = Plus(fv, dv)
    <3>1. PICK e \in Int : e = m + f
      OBVIOUS
    <3>2. Exactly(e % Words) = Exactly(e)
      BY LeafValues
    <3>3. Plus(Exactly(f), Exactly(m)) = Exactly(f + m)
      BY LeafValues
    <3>4. f + m = e
      BY <3>1
    <3> QED BY <1>5, <2>2, <2>5, <3>1, <3>2, <3>3, <3>4
  <2>11. Plus(Plus(s, fv), dv) = Plus(s, Plus(fv, dv))
    BY <1>6, <2>6, PlusAssoc
  <2>12. bv = Plus(s, fv)
    BY <1>5, <2>1, <2>8, BaseNodes DEF BaseValue
  <2>13. Effective(b, d) = Value[n]
    BY <1>7, <1>8, <1>9, <1>10, <2>1, <2>9, <2>10, <2>11, <2>12
  <2>14. b.kind # "SR"
    BY <2>3 DEF GR, Operand
  <2> QED BY <1>15, <2>13, <2>14
<1>17. CASE am.base # None /\ am.base.op # "fi"
  <2>1. b = GR(am.base) /\ d = o
    BY <1>1, <1>11, <1>17, OperandOf DEF PlacedBase, PlacedDisp, GR, Operand
  <2>2. b.kind # "SR" /\ b.node = am.base
    BY <2>1 DEF GR, Operand
  <2>3. bv = Value[am.base]
    BY <1>5, <1>17 DEF BaseValue
  <2>4. Effective(b, d) = Value[n]
    BY <1>7, <1>8, <1>9, <1>13, <2>1, <2>2, <2>3
  <2> QED BY <1>15, <2>2, <2>4
<1> QED BY <1>14, <1>16, <1>17

LEMMA PlusAtoms ==
  \A v, w : DOMAIN Plus(v, w).atoms = (DOMAIN v.atoms) \cup (DOMAIN w.atoms)
BY DEF Plus, (+)

LEMMA UnknownAtoms == \A a : a \in DOMAIN Unknown(a).atoms
BY DEF Unknown, SetToBag

(***************************************************************************)
(* What Addressable asks of an address, in terms of what it is worth: that *)
(* it is not SP and a symbol, has no jump table in it and is not zero.     *)
(***************************************************************************)
LEMMA MeantAddressable ==
  ASSUME frame \in Int, NEW n \in Nodes,
         SP \in DOMAIN Value[n].atoms => \A s \in Symbols : s \notin DOMAIN Value[n].atoms,
         \A s \in Symbols : s \in DOMAIN Value[n].atoms => s.name # "JT",
         Value[n] # Exactly(0)
  PROVE  Addressable(n)
<1>1. PICK am \in Modes : am = ModeOf(n)
  BY ModeIs
<1>2. PICK v : v = Value[n]
  OBVIOUS
<1>3. PICK bv, sv, dv : /\ bv = BaseValue(am.base) /\ sv = SymValue(am.sym)
                        /\ dv = Exactly(am.disp)
  OBVIOUS
<1>4. v = Plus(Plus(bv, sv), dv)
  BY <1>1, <1>2, <1>3, ModeValueIs DEF ModeValue
<1>5. DOMAIN v.atoms = (DOMAIN bv.atoms \cup DOMAIN sv.atoms) \cup DOMAIN dv.atoms
  BY <1>4, PlusAtoms
<1>6. am.sym # None => am.sym \in Symbols /\ am.sym \in DOMAIN v.atoms
  <2> SUFFICES ASSUME am.sym # None PROVE am.sym \in Symbols /\ am.sym \in DOMAIN v.atoms
    OBVIOUS
  <2>1. am.sym \in Symbols
    BY Tries
  <2>2. sv = Unknown(am.sym)
    BY <1>3 DEF SymValue
  <2>3. am.sym \in DOMAIN sv.atoms
    BY <2>2, UnknownAtoms
  <2> QED BY <1>5, <2>1, <2>3
<1>7. am.base.op = "fi" => SP \in DOMAIN v.atoms
  <2> SUFFICES ASSUME am.base.op = "fi" PROVE SP \in DOMAIN v.atoms
    OBVIOUS
  <2>1. am.base \in Nodes /\ am.base # None
    BY Tries, BaseNodes
  <2>2. bv = NodeValue(Value, am.base)
    BY <1>3, <2>1, ValueIs DEF BaseValue
  <2>3. bv = Plus(Unknown(SP), Exactly(frame))
    BY <2>1, <2>2, NodeValueBy
  <2>4. SP \in DOMAIN bv.atoms
    BY <2>3, PlusAtoms, UnknownAtoms
  <2> QED BY <1>5, <2>4
<1>8. am # EmptyMode
  <2> SUFFICES ASSUME am = EmptyMode PROVE FALSE
    OBVIOUS
  <2>1. am.base = None /\ am.sym = None /\ am.disp = 0
    BY DEF EmptyMode
  <2>2. bv = Exactly(0) /\ sv = Exactly(0) /\ dv = Exactly(0)
    BY <1>3, <2>1 DEF BaseValue, SymValue
  <2>3. Exactly(0) \in Values /\ Plus(Exactly(0), Exactly(0)) = Exactly(0)
    BY LeafValues
  <2> QED BY <1>2, <1>4, <2>2, <2>3
<1>9. am.sym.name # "JT"
  <2>1. None.name # "JT"
    BY DEF None, Leaf
  <2> QED BY <1>2, <1>6, <2>1
<1>10. ~(am.base.op = "fi" /\ am.sym # None)
  BY <1>2, <1>6, <1>7
<1> QED BY <1>1, <1>8, <1>9, <1>10 DEF Addressable, ModeOf, hasSymbolicDisplacement

-------------------------------------------------------------------------------
(* The instruction after each pass *)

\* As it is selected.
SelectedOps(n) ==
  Operands(n.form, SelectAddr(n.src).operand,
           IF n.form \in MemoryToMemory THEN SelectAddr(n.dst).operand ELSE <<>>)

PlacedAddr(n) == <<PlacedBase(BaseOf(ModeOf(n))), PlacedDisp(BaseOf(ModeOf(n)), DispOf(ModeOf(n)))>>

\* With the frame laid out.
PlacedOps(n) ==
  Operands(n.form, PlacedAddr(n.src),
           IF n.form \in MemoryToMemory THEN PlacedAddr(n.dst) ELSE <<>>)

\* With the displacement of the source left out.
IndirectOps(n) ==
  LET i == SrcDispIdx(n.form)
  IN  SubSeq(PlacedOps(n), 1, i - 1) \o SubSeq(PlacedOps(n), i + 1, Len(PlacedOps(n)))

LEMMA PlacedIn ==
  ASSUME frame \in Int, NEW n \in Nodes,
         NEW b, b = PlacedBase(BaseOf(ModeOf(n))),
         NEW d, d = PlacedDisp(BaseOf(ModeOf(n)), DispOf(ModeOf(n)))
  PROVE  b \in MachineOperands /\ d \in MachineOperands
<1>1. PICK x, y : x = BaseOf(ModeOf(n)) /\ y = DispOf(ModeOf(n))
  OBVIOUS
<1>2. x \in MachineOperands /\ y \in MachineOperands
  BY <1>1, OperandsIn
<1>3. CASE x.kind = "FI"
  <2>1. b = GR(SP)
    BY <1>1, <1>3 DEF PlacedBase
  <2>2. 0 \in 0..(Words - 1)
    BY WordsAssumption
  <2>3. b \in MachineOperands
    BY <2>1, <2>2, BaseNodes DEF GR, Operand, MachineOperands
  <2>4. d = Imm((y.val + frame) % Words)
    BY <1>1, <1>3 DEF PlacedDisp
  <2>5. y.val + frame \in Int
    BY <1>2 DEF MachineOperands
  <2>6. (y.val + frame) % Words \in 0..(Words - 1)
    BY <2>5, WordsAssumption
  <2>7. d \in MachineOperands
    BY <2>4, <2>6 DEF Imm, Operand, MachineOperands
  <2> QED BY <2>3, <2>7
<1>4. CASE x.kind # "FI"
  BY <1>1, <1>2, <1>4 DEF PlacedBase, PlacedDisp
<1> QED BY <1>3, <1>4

LEMMA RdIn == Rd \in MachineOperands
BY WordsAssumption DEF Rd, GR, Operand, MachineOperands

\* The addresses of an instruction are nodes.
LEMMA AccessIs ==
  ASSUME NEW n \in Access
  PROVE  /\ n.form \in Forms /\ n.src \in Nodes
         /\ n.form \in MemoryToMemory => n.dst \in Nodes
<1>1. CASE n \in [form : Forms \ MemoryToMemory, src : Addresses, dst : {None}]
  BY <1>1, AddressesAssumption DEF Nodes
<1>2. CASE n \in [form : MemoryToMemory, src : BothAddresses, dst : BothAddresses]
  BY <1>2, AddressesAssumption DEF Nodes, MemoryToMemory, Forms
<1> QED BY <1>1, <1>2 DEF Access

LEMMA SelectedIs ==
  ASSUME NEW n \in Access
  PROVE  SelectedOps(n) \in Seq(MachineOperands) /\ Len(SelectedOps(n)) \in {2, 3, 4}
<1>1. PICK b, d, x, y : /\ b = BaseOf(ModeOf(n.src)) /\ d = DispOf(ModeOf(n.src))
                        /\ x = BaseOf(ModeOf(n.dst)) /\ y = DispOf(ModeOf(n.dst))
  OBVIOUS
<1>2. PICK dst : dst = IF n.form \in MemoryToMemory THEN SelectAddr(n.dst).operand ELSE <<>>
  OBVIOUS
<1>3. SelectAddr(n.src).operand = <<b, d>> /\ b \in MachineOperands /\ d \in MachineOperands
  BY <1>1, AccessIs, OperandsIn
<1>4. n.form \in MemoryToMemory =>
        x \in MachineOperands /\ y \in MachineOperands /\ dst = <<x, y>>
  BY <1>1, <1>2, AccessIs, OperandsIn
<1>5. /\ Operands(n.form, <<b, d>>, dst) \in Seq(MachineOperands)
      /\ Parts(n.form, SrcDispIdx(n.form), Operands(n.form, <<b, d>>, dst), b, d, x, y)
  BY <1>3, <1>4, AccessIs, RdIn, OperandParts
<1>6. SelectedOps(n) = Operands(n.form, <<b, d>>, dst)
  BY <1>2, <1>3 DEF SelectedOps
<1> QED BY <1>5, <1>6 DEF Parts

LEMMA ResolvedIs ==
  ASSUME NEW n \in Access
  PROVE  Resolved(SelectedOps(n)) = PlacedOps(n)
<1>1. PICK b, d, x, y : /\ b = BaseOf(ModeOf(n.src)) /\ d = DispOf(ModeOf(n.src))
                        /\ x = BaseOf(ModeOf(n.dst))
                        /\ y = IF n.form \in MemoryToMemory THEN DispOf(ModeOf(n.dst)) ELSE Imm(0)
  OBVIOUS
<1>2. PICK dst, placed :
        /\ dst = IF n.form \in MemoryToMemory THEN SelectAddr(n.dst).operand ELSE <<>>
        /\ placed = IF n.form \in MemoryToMemory THEN PlacedAddr(n.dst) ELSE <<>>
  OBVIOUS
<1>3. SelectAddr(n.src).operand = <<b, d>> /\ d.kind # "FI"
  <2>1. DispOf(ModeOf(n.src)).kind \in {"imm", "sym"}
    BY AccessIs, OperandsIn
  <2> QED BY <1>1, <2>1, AccessIs, OperandsIn
<1>4. y.kind # "FI"
  <2>1. CASE n.form \in MemoryToMemory
    <3>1. DispOf(ModeOf(n.dst)).kind \in {"imm", "sym"}
      BY <2>1, AccessIs, OperandsIn
    <3> QED BY <1>1, <2>1, <3>1
  <2>2. CASE n.form \notin MemoryToMemory
    BY <1>1, <2>2 DEF Imm, Operand
  <2> QED BY <2>1, <2>2
<1>5. n.form \in MemoryToMemory =>
        dst = <<x, y>> /\ placed = <<PlacedBase(x), PlacedDisp(x, y)>>
  BY <1>1, <1>2, AccessIs, OperandsIn DEF PlacedAddr
<1>6. Resolved(Operands(n.form, <<b, d>>, dst))
        = Operands(n.form, <<PlacedBase(b), PlacedDisp(b, d)>>, placed)
  <2>1. PICK form \in Forms : form = n.form
    BY AccessIs
  <2>2. d.kind # "FI" /\ y.kind # "FI"
    BY <1>3, <1>4
  <2>3. form \in MemoryToMemory => /\ dst = <<x, y>>
                                   /\ placed = <<PlacedBase(x), PlacedDisp(x, y)>>
    BY <1>5, <2>1
  <2>4. Resolved(Operands(form, <<b, d>>, dst))
          = Operands(form, <<PlacedBase(b), PlacedDisp(b, d)>>, placed)
    BY <2>2, <2>3, ResolvedOperands
  <2> QED BY <2>1, <2>4
<1>7. SelectedOps(n) = Operands(n.form, <<b, d>>, dst)
  BY <1>2, <1>3 DEF SelectedOps
<1>8. PlacedOps(n) = Operands(n.form, <<PlacedBase(b), PlacedDisp(b, d)>>, placed)
  BY <1>1, <1>2 DEF PlacedOps, PlacedAddr
<1> QED BY <1>6, <1>7, <1>8

LEMMA PlacedIs ==
  ASSUME frame \in Int, NEW n \in Access,
         NEW b, b = PlacedBase(BaseOf(ModeOf(n.src))),
         NEW d, d = PlacedDisp(BaseOf(ModeOf(n.src)), DispOf(ModeOf(n.src))),
         NEW x, x = PlacedBase(BaseOf(ModeOf(n.dst))),
         NEW y, y = PlacedDisp(BaseOf(ModeOf(n.dst)), DispOf(ModeOf(n.dst)))
  PROVE  /\ PlacedOps(n) \in Seq(MachineOperands)
         /\ Parts(n.form, SrcDispIdx(n.form), PlacedOps(n), b, d, x, y)
<1>1. PICK placed : placed = IF n.form \in MemoryToMemory THEN PlacedAddr(n.dst) ELSE <<>>
  OBVIOUS
<1>2. b \in MachineOperands /\ d \in MachineOperands
  BY AccessIs, PlacedIn
<1>3. n.form \in MemoryToMemory =>
        x \in MachineOperands /\ y \in MachineOperands /\ placed = <<x, y>>
  BY <1>1, AccessIs, PlacedIn DEF PlacedAddr
<1>4. /\ Operands(n.form, <<b, d>>, placed) \in Seq(MachineOperands)
      /\ Parts(n.form, SrcDispIdx(n.form), Operands(n.form, <<b, d>>, placed), b, d, x, y)
  BY <1>2, <1>3, AccessIs, RdIn, OperandParts
<1>5. PlacedOps(n) = Operands(n.form, <<b, d>>, placed)
  BY <1>1 DEF PlacedOps, PlacedAddr
<1> QED BY <1>4, <1>5

\* Leaving out the last of k operands.
LEMMA Shortened ==
  ASSUME NEW S, NEW s \in Seq(S), NEW k \in {2, 3, 4}, Len(s) = k,
         NEW r, r = SubSeq(s, 1, k - 1) \o SubSeq(s, k + 1, Len(s))
  PROVE  r \in Seq(S) /\ Len(r) = k - 1 /\ \A i \in 1..(k - 1) : r[i] = s[i]
<1>1. PICK u, v : u = SubSeq(s, 1, k - 1) /\ v = SubSeq(s, k + 1, Len(s))
  OBVIOUS
<1>2. u \in Seq(S) /\ Len(u) = k - 1 /\ \A i \in 1..(k - 1) : u[i] = s[i]
  <2>1. u \in Seq(S) /\ Len(u) = k - 1
    BY <1>1
  <2>2. \A i \in 1..(k - 1) : u[i] = s[i]
    BY <1>1
  <2> QED BY <2>1, <2>2
<1>3. v \in Seq(S) /\ Len(v) = 0
  BY <1>1
<1>4. v = <<>>
  BY <1>3
<1>5. u \o <<>> = u
  BY <1>2, ConcatEmptySeq
<1>6. r = u
  BY <1>1, <1>4, <1>5
<1> QED BY <1>2, <1>6

-------------------------------------------------------------------------------
(* The invariant *)

Inst(n, ind, ops) == [form |-> n.form, ind |-> ind, ops |-> ops]

TypeInv ==
  /\ access \in Access \cup IndexedOp
  /\ frame \in FrameOffsets
  /\ pc \in {"select", "frame", "transform", "run", "combine", "fold", "indexed", "done"}
  /\ inst.ops \in Seq(MachineOperands) /\ Len(inst.ops) <= 4
  /\ indexed \in [post : BOOLEAN, folded : BOOLEAN]
  /\ out.reads \in 0..2 /\ out.advance \in {0, 1, 2, 4}

\* Which operands the instruction has before each pass.
PassInv ==
  /\ pc \in {"select", "frame", "transform", "run"} => access \in Access /\ out = NoOut
  /\ pc = "frame" => inst = Inst(access, FALSE, SelectedOps(access))
  /\ pc = "transform" => inst = Inst(access, FALSE, PlacedOps(access))
  /\ pc = "run" =>
       \/ inst = Inst(access, FALSE, PlacedOps(access))
       \/ /\ PlacedOps(access)[SrcDispIdx(access.form)] = Imm(0)
          /\ inst = Inst(access, TRUE, IndirectOps(access))

\* What is known of an indexed operation at each step.
FoldInv ==
  /\ pc \in {"combine", "fold", "indexed"} => access \in IndexedOp /\ out = NoOut
  /\ pc \in {"fold", "indexed"} => indexed.post = getPostIndexedAddressParts(access)
  /\ pc = "indexed" => indexed.folded = Folds(access)

IInv == TypeInv /\ PassInv /\ FoldInv

LEMMA FrameIn == frame \in FrameOffsets => frame \in Int
BY FrameAssumption

LEMMA InitInv == Init => IInv
<1> SUFFICES ASSUME Init PROVE IInv
  OBVIOUS
<1>1. inst.ops = <<>> /\ out = NoOut /\ indexed = [post |-> FALSE, folded |-> FALSE]
  BY DEF Init
<1>2. out.reads = 0 /\ out.advance = 0
  BY <1>1 DEF NoOut
<1>3. inst.ops \in Seq(MachineOperands) /\ Len(inst.ops) = 0
  BY <1>1
<1>4. TypeInv
  BY <1>1, <1>2, <1>3 DEF Init, TypeInv
<1>5. PassInv /\ FoldInv
  BY <1>1 DEF Init, PassInv, FoldInv
<1> QED BY <1>4, <1>5 DEF IInv

\* The frame does not change: nothing that is computed from it does.
LEMMA SamePlaces ==
  ASSUME UNCHANGED frame, NEW n \in Access
  PROVE  /\ PlacedOps(n)' = PlacedOps(n)
         /\ IndirectOps(n)' = IndirectOps(n)
         /\ \A m : Value[m]' = Value[m]
<1>1. PlacedOps(n)' = PlacedOps(n)
  BY DEF PlacedOps, PlacedAddr, PlacedDisp
<1>2. IndirectOps(n)' = IndirectOps(n)
  BY <1>1 DEF IndirectOps
<1>3. Value' = Value
  BY Zenon DEF Value, NodeValue
<1> QED BY <1>1, <1>2, <1>3

LEMMA SelectInv == IInv /\ Select => IInv'
<1> SUFFICES ASSUME IInv, Select PROVE IInv'
  OBVIOUS
<1>1. PICK n : n = access
  OBVIOUS
<1>2. n \in Access /\ out = NoOut
  BY <1>1 DEF IInv, PassInv, Select
<1>3. PICK src, dst : /\ src = SelectAddr(n.src)
                      /\ dst = IF n.form \in MemoryToMemory THEN SelectAddr(n.dst)
                                                           ELSE [ok |-> TRUE, operand |-> <<>>]
  OBVIOUS
<1>4. src.ok /\ dst.ok
  BY <1>2, <1>3, AccessIs, OperandsIn
<1>5. /\ inst' = [form |-> n.form, ind |-> FALSE, ops |-> Operands(n.form, src.operand, dst.operand)]
      /\ pc' = "frame" /\ UNCHANGED <<access, frame, indexed, out>>
  BY <1>1, <1>3, <1>4 DEF Select
<1>6. Operands(n.form, src.operand, dst.operand) = SelectedOps(n)
  <2>1. dst.operand = IF n.form \in MemoryToMemory THEN SelectAddr(n.dst).operand ELSE <<>>
    BY <1>3
  <2> QED BY <1>3, <2>1 DEF SelectedOps
<1>7. inst' = Inst(n, FALSE, SelectedOps(n)) /\ inst'.ops = SelectedOps(n)
  BY <1>5, <1>6 DEF Inst
<1>8. inst'.ops \in Seq(MachineOperands) /\ Len(inst'.ops) <= 4
  <2>1. PICK s : s = SelectedOps(n)
    OBVIOUS
  <2>2. s \in Seq(MachineOperands) /\ Len(s) \in {2, 3, 4}
    BY <1>2, <2>1, SelectedIs
  <2>3. inst'.ops = s
    BY <1>7, <2>1
  <2>4. Len(s) <= 4
    <3>1. PICK k : k = Len(s)
      OBVIOUS
    <3>2. k \in {2, 3, 4}
      BY <2>2, <3>1
    <3>3. k <= 4
      BY <3>2
    <3> QED BY <3>1, <3>3, Zenon
  <2> QED BY <2>2, <2>3, <2>4, Zenon
<1>9. TypeInv'
  BY <1>5, <1>8 DEF IInv, TypeInv
<1>10. PassInv'
  BY <1>1, <1>2, <1>5, <1>7 DEF PassInv
<1>11. FoldInv'
  BY <1>5 DEF FoldInv
<1> QED BY <1>9, <1>10, <1>11 DEF IInv

LEMMA EliminateInv == IInv /\ EliminateFrameIndex => IInv'
<1> SUFFICES ASSUME IInv, EliminateFrameIndex PROVE IInv'
  OBVIOUS
<1>1. PICK n : n = access
  OBVIOUS
<1>2. n \in Access /\ out = NoOut /\ inst = Inst(n, FALSE, SelectedOps(n))
  BY <1>1 DEF IInv, PassInv, EliminateFrameIndex
<1>3. frame \in Int
  BY FrameIn DEF IInv, TypeInv
<1>4. inst' = Inst(n, FALSE, Resolved(SelectedOps(n)))
  BY <1>2 DEF EliminateFrameIndex, Inst
<1>5. inst' = Inst(n, FALSE, PlacedOps(n)) /\ inst'.ops = PlacedOps(n)
  <2>1. Resolved(SelectedOps(n)) = PlacedOps(n)
    BY <1>2, ResolvedIs
  <2> QED BY <1>4, <2>1 DEF Inst
<1>6. pc' = "transform" /\ UNCHANGED <<access, frame, indexed, out>>
  BY DEF EliminateFrameIndex
<1>7. PlacedOps(n) \in Seq(MachineOperands) /\ Len(PlacedOps(n)) \in {2, 3, 4}
  BY <1>2, <1>3, PlacedIs DEF Parts
<1>8. TypeInv'
  <2>1. PICK s : s = PlacedOps(n)
    OBVIOUS
  <2>2. s \in Seq(MachineOperands) /\ Len(s) \in {2, 3, 4}
    BY <1>7, <2>1
  <2>3. inst'.ops = s
    BY <1>5, <2>1
  <2>4. Len(s) <= 4
    <3>1. PICK k : k = Len(s)
      OBVIOUS
    <3>2. k \in {2, 3, 4}
      BY <2>2, <3>1
    <3>3. k <= 4
      BY <3>2
    <3> QED BY <3>1, <3>3, Zenon
  <2>5. inst'.ops \in Seq(MachineOperands) /\ Len(inst'.ops) <= 4
    BY <2>2, <2>3, <2>4, Zenon
  <2> QED BY <1>6, <2>5 DEF IInv, TypeInv
<1>9. PassInv'
  <2>1. PlacedOps(n)' = PlacedOps(n)
    BY <1>2, <1>6, SamePlaces
  <2>2. inst' = Inst(n, FALSE, PlacedOps(n)') /\ n = access'
    BY <1>1, <1>5, <1>6, <2>1
  <2> QED BY <1>2, <1>6, <2>2 DEF PassInv
<1>10. FoldInv'
  BY <1>6 DEF FoldInv
<1> QED BY <1>8, <1>9, <1>10 DEF IInv

LEMMA TransformInv == IInv /\ Transform => IInv'
<1> SUFFICES ASSUME IInv, Transform PROVE IInv'
  OBVIOUS
<1>1. PICK n : n = access
  OBVIOUS
<1>2. n \in Access /\ out = NoOut /\ inst = Inst(n, FALSE, PlacedOps(n))
  BY <1>1 DEF IInv, PassInv, Transform
<1>3. frame \in Int
  BY FrameIn DEF IInv, TypeInv
<1>4. PICK k, s : k = SrcDispIdx(n.form) /\ s = PlacedOps(n)
  OBVIOUS
<1>5. s \in Seq(MachineOperands) /\ k \in {2, 3, 4} /\ Len(s) = k
  BY <1>2, <1>3, <1>4, PlacedIs DEF Parts
<1>6. pc' = "run" /\ UNCHANGED <<access, frame, indexed, out>>
  BY DEF Transform
<1>7. \/ inst' = Inst(n, FALSE, s)
      \/ (s[k] = Imm(0) /\ inst' = Inst(n, TRUE, IndirectOps(n)))
  <2>1. inst.form = n.form /\ inst.ops = s
    BY <1>2, <1>4 DEF Inst
  <2>2. CASE HasIndRegForm(inst.form) /\ s[k] = Imm(0)
    <3>1. inst' = [inst EXCEPT !.ind = TRUE,
                     !.ops = SubSeq(@, 1, k - 1) \o SubSeq(@, k + 1, Len(@))]
      BY <1>4, <2>1, <2>2 DEF Transform
    <3>2. inst' = [form |-> n.form, ind |-> TRUE,
                   ops  |-> SubSeq(s, 1, k - 1) \o SubSeq(s, k + 1, Len(s))]
      BY <1>2, <1>4, <3>1 DEF Inst
    <3> QED BY <1>4, <2>2, <3>2 DEF Inst, IndirectOps
  <2>3. CASE ~(HasIndRegForm(inst.form) /\ s[k] = Imm(0))
    BY <1>2, <1>4, <2>1, <2>3 DEF Transform
  <2> QED BY <2>2, <2>3
<1>8. inst'.ops \in Seq(MachineOperands) /\ Len(inst'.ops) <= 4
  <2>1. CASE inst' = Inst(n, FALSE, s)
    BY <1>5, <2>1 DEF Inst
  <2>2. CASE inst' = Inst(n, TRUE, IndirectOps(n))
    <3>1. IndirectOps(n) = SubSeq(s, 1, k - 1) \o SubSeq(s, k + 1, Len(s))
      BY <1>4 DEF IndirectOps
    <3>2. IndirectOps(n) \in Seq(MachineOperands) /\ Len(IndirectOps(n)) = k - 1
      BY <1>5, <3>1, Shortened
    <3> QED BY <1>5, <2>2, <3>2 DEF Inst
  <2> QED BY <1>7, <2>1, <2>2
<1>9. TypeInv'
  BY <1>6, <1>8 DEF IInv, TypeInv
<1>10. PassInv'
  <2>1. PlacedOps(n)' = s /\ IndirectOps(n)' = IndirectOps(n)
    BY <1>2, <1>4, <1>6, SamePlaces
  <2>2. n = access'
    BY <1>1, <1>6
  <2> QED BY <1>2, <1>4, <1>6, <1>7, <2>1, <2>2 DEF PassInv
<1>11. FoldInv'
  BY <1>6 DEF FoldInv
<1> QED BY <1>9, <1>10, <1>11 DEF IInv

LEMMA RunInv == IInv /\ Run => IInv'
<1> SUFFICES ASSUME IInv, Run PROVE IInv'
  OBVIOUS
<1>1. out = NoOut
  BY DEF IInv, PassInv, Run
<1>2. out'.reads = 0 /\ out'.advance = 0
  BY <1>1 DEF Run, NoOut
<1>3. pc' = "done" /\ UNCHANGED <<access, frame, inst, indexed>>
  BY DEF Run
<1>4. TypeInv'
  BY <1>2, <1>3 DEF IInv, TypeInv
<1>5. PassInv' /\ FoldInv'
  BY <1>3 DEF PassInv, FoldInv
<1> QED BY <1>4, <1>5 DEF IInv

LEMMA IndexedInv == IInv /\ (CombinePostIndexed \/ FoldIndexed \/ RunIndexed) => IInv'
<1> SUFFICES ASSUME IInv, CombinePostIndexed \/ FoldIndexed \/ RunIndexed PROVE IInv'
  OBVIOUS
<1>1. access \in IndexedOp /\ out = NoOut /\ UNCHANGED <<access, frame, inst>>
  BY DEF IInv, FoldInv, CombinePostIndexed, FoldIndexed, RunIndexed
<1>2. CASE CombinePostIndexed
  <2>1. /\ pc' = "fold" /\ UNCHANGED out
        /\ indexed' = [indexed EXCEPT !.post = getPostIndexedAddressParts(access)]
    BY <1>2 DEF CombinePostIndexed
  <2>2. getPostIndexedAddressParts(access) \in BOOLEAN
    BY DEF getPostIndexedAddressParts
  <2>3. /\ indexed' \in [post : BOOLEAN, folded : BOOLEAN]
        /\ indexed'.post = getPostIndexedAddressParts(access)
    BY <2>1, <2>2 DEF IInv, TypeInv
  <2>4. TypeInv'
    BY <1>1, <2>1, <2>3 DEF IInv, TypeInv
  <2>5. PassInv' /\ FoldInv'
    BY <1>1, <2>1, <2>3 DEF PassInv, FoldInv
  <2> QED BY <2>4, <2>5 DEF IInv
<1>3. CASE FoldIndexed
  <2>1. indexed.post = getPostIndexedAddressParts(access)
    BY <1>3 DEF IInv, FoldInv, FoldIndexed
  \* What is made POST_INC is what is selected.
  <2>2. ~(indexed.post /\ ~isValidIndexedLoad(access))
    BY <2>1 DEF getPostIndexedAddressParts, isValidIndexedLoad
  <2>3. /\ pc' = "indexed" /\ UNCHANGED out
        /\ indexed' = [indexed EXCEPT !.folded = Folds(access)]
    BY <1>3, <2>2 DEF FoldIndexed
  <2>4. Folds(access) \in BOOLEAN
    BY DEF Folds
  <2>5. /\ indexed' \in [post : BOOLEAN, folded : BOOLEAN]
        /\ indexed'.post = indexed.post /\ indexed'.folded = Folds(access)
    BY <2>3, <2>4 DEF IInv, TypeInv
  <2>6. Folds(access)' = Folds(access)
    BY <1>1, <2>5 DEF Folds, TriedFirst, TriedNext, isValidIndexedLoad
  <2>7. TypeInv'
    BY <1>1, <2>3, <2>5 DEF IInv, TypeInv
  <2>8. PassInv'
    BY <2>3 DEF PassInv
  <2>9. FoldInv'
    BY <1>1, <2>1, <2>3, <2>5, <2>6 DEF FoldInv, getPostIndexedAddressParts
  <2> QED BY <2>7, <2>8, <2>9 DEF IInv
<1>4. CASE RunIndexed
  <2>1. pc' = "done" /\ UNCHANGED indexed
    BY <1>4 DEF RunIndexed
  <2>2. /\ out'.reads = IF indexed.folded /\ ~access.oneUse THEN 2 ELSE 1
        /\ out'.advance = IF indexed.post THEN access.bytes ELSE access.inc
    BY <1>1, <1>4 DEF RunIndexed, NoOut
  <2>3. access.bytes \in 1..2 /\ access.inc \in {1, 2, 4}
    BY <1>1 DEF IndexedOp
  <2>4. out'.reads \in 0..2 /\ out'.advance \in {0, 1, 2, 4}
    BY <2>2, <2>3
  <2>5. TypeInv'
    BY <1>1, <2>1, <2>4 DEF IInv, TypeInv
  <2>6. PassInv' /\ FoldInv'
    BY <2>1 DEF PassInv, FoldInv
  <2> QED BY <2>5, <2>6 DEF IInv
<1> QED BY <1>2, <1>3, <1>4

LEMMA StepInv == IInv /\ [Next]_vars => IInv'
<1> SUFFICES ASSUME IInv, [Next]_vars PROVE IInv'
  OBVIOUS
<1>1. CASE Select
  BY <1>1, SelectInv
<1>2. CASE EliminateFrameIndex
  BY <1>2, EliminateInv
<1>3. CASE Transform
  BY <1>3, TransformInv
<1>4. CASE Run
  BY <1>4, RunInv
<1>5. CASE CombinePostIndexed \/ FoldIndexed \/ RunIndexed
  BY <1>5, IndexedInv
<1>6. CASE UNCHANGED vars
  <2>1. TypeInv'
    BY <1>6 DEF vars, IInv, TypeInv
  <2>2. PassInv'
    <3>1. PICK n : n = access
      OBVIOUS
    <3>2. CASE n \in Access
      <4>1. PlacedOps(n)' = PlacedOps(n) /\ IndirectOps(n)' = IndirectOps(n)
        BY <1>6, <3>2, SamePlaces DEF vars
      <4> QED BY <1>6, <3>1, <4>1 DEF vars, IInv, PassInv
    <3>3. CASE n \notin Access
      BY <1>6, <3>1, <3>3 DEF vars, IInv, PassInv
    <3> QED BY <3>2, <3>3
  <2>3. FoldInv'
    BY <1>6 DEF vars, IInv, FoldInv, Folds, TriedFirst, TriedNext, isValidIndexedLoad
  <2> QED BY <2>1, <2>2, <2>3 DEF IInv
<1> QED BY <1>1, <1>2, <1>3, <1>4, <1>5, <1>6 DEF Next

LEMMA Invariant == Spec => []IInv
<1>1. Init => IInv
  BY InitInv
<1>2. IInv /\ [Next]_vars => IInv'
  BY StepInv
<1> QED BY <1>1, <1>2, PTL DEF Spec

-------------------------------------------------------------------------------
(***************************************************************************)
(* Whatever the DAG, an instruction never has more than four operands, of  *)
(* the kinds the passes know, and the displacements stay words, through    *)
(* SelectAddr, frame index elimination and the address mode pass.          *)
(***************************************************************************)
THEOREM TypeCorrect == Spec => []TypeOK
<1>1. IInv => TypeOK
  <2> SUFFICES ASSUME IInv PROVE TypeOK
    OBVIOUS
  <2>1. \A i \in DOMAIN inst.ops : inst.ops[i] \in MachineOperands
    BY DEF IInv, TypeInv
  <2>2. \A o \in MachineOperands : /\ o.kind \in {"GR", "SR", "FI", "imm", "sym"}
                                   /\ o.val \in 0..(Words - 1)
    BY DEF MachineOperands
  <2> QED BY <2>1, <2>2 DEF IInv, TypeInv, TypeOK
<1> QED BY <1>1, Invariant, PTL

(***************************************************************************)
(* SelectAddr never gives up, for a DAG of any size: MatchAddress falls    *)
(* back on a base register.  And no POST_INC load is left without a        *)
(* pattern: getPostIndexedAddressParts makes only those that               *)
(* isValidIndexedLoad takes.                                               *)
(***************************************************************************)
THEOREM AlwaysSelectedCorrect == Spec => []AlwaysSelected
<1>1. IInv => AlwaysSelected
  BY DEF IInv, TypeInv, AlwaysSelected
<1> QED BY <1>1, Invariant, PTL

-------------------------------------------------------------------------------
(* The access *)

\* An instruction that has run has accessed the places its addresses name.
Accessed ==
  pc = "done" /\ access \in Access =>
    /\ Addressable(access.src) => out.src = Value[access.src]
    /\ access.form \in MemoryToMemory /\ Addressable(access.dst) => out.dst = Value[access.dst]

LEMMA RunAccesses == IInv /\ Run => Accessed'
<1> SUFFICES ASSUME IInv, Run PROVE Accessed'
  OBVIOUS
<1>1. PICK n : n = access
  OBVIOUS
<1>2. n \in Access /\ out = NoOut
  BY <1>1 DEF IInv, PassInv, Run
<1>3. frame \in Int
  BY FrameIn DEF IInv, TypeInv
<1>4. PICK b, d, x, y :
        /\ b = PlacedBase(BaseOf(ModeOf(n.src)))
        /\ d = PlacedDisp(BaseOf(ModeOf(n.src)), DispOf(ModeOf(n.src)))
        /\ x = PlacedBase(BaseOf(ModeOf(n.dst)))
        /\ y = PlacedDisp(BaseOf(ModeOf(n.dst)), DispOf(ModeOf(n.dst)))
  OBVIOUS
<1>5. PICK k, s : k = SrcDispIdx(n.form) /\ s = PlacedOps(n)
  OBVIOUS
<1>6. s \in Seq(MachineOperands) /\ Parts(n.form, k, s, b, d, x, y)
  BY <1>2, <1>3, <1>4, <1>5, PlacedIs
<1>7. /\ k \in {2, 3, 4} /\ Len(s) = k /\ s[k] = d /\ s[k - 1] = b
      /\ n.form \in MemoryToMemory => k = 4 /\ s[1] = x /\ s[2] = y
  BY <1>6 DEF Parts
<1>8. inst.form = n.form
  BY <1>1 DEF IInv, PassInv, Run, Inst
<1>9. /\ out'.src = IF inst.ind THEN Indirect(inst.ops[Len(inst.ops)])
                    ELSE Effective(inst.ops[Len(inst.ops) - 1], inst.ops[Len(inst.ops)])
      /\ n.form \in MemoryToMemory => out'.dst = Effective(inst.ops[1], inst.ops[2])
  BY <1>2, <1>8 DEF Run, NoOut
<1>10. /\ out'.src = Effective(b, d) \/ (d = Imm(0) /\ out'.src = Indirect(b))
       /\ n.form \in MemoryToMemory => out'.dst = Effective(x, y)
  <2>1. CASE inst = Inst(n, FALSE, s)
    <3>1. inst.ind = FALSE /\ inst.ops = s
      BY <2>1 DEF Inst
    <3> QED BY <1>7, <1>9, <3>1
  <2>2. CASE s[k] = Imm(0) /\ inst = Inst(n, TRUE, IndirectOps(n))
    <3>1. PICK r : r = IndirectOps(n)
      OBVIOUS
    <3>2. r = SubSeq(s, 1, k - 1) \o SubSeq(s, k + 1, Len(s))
      BY <1>5, <3>1 DEF IndirectOps
    <3>3. Len(r) = k - 1 /\ \A i \in 1..(k - 1) : r[i] = s[i]
      <4>1. s \in Seq(MachineOperands) /\ k \in {2, 3, 4} /\ Len(s) = k
        BY <1>6, <1>7
      <4> QED BY <3>2, <4>1, Shortened
    <3>4. inst.ind = TRUE /\ inst.ops = r
      BY <2>2, <3>1 DEF Inst
    <3>5. k - 1 \in 1..(k - 1) /\ (k = 4 => 1 \in 1..(k - 1) /\ 2 \in 1..(k - 1))
      BY <1>7
    <3> QED BY <1>7, <1>9, <2>2, <3>3, <3>4, <3>5
  <2> QED BY <1>1, <1>5, <2>1, <2>2 DEF IInv, PassInv, Run
<1>11. Addressable(n.src) => out'.src = Value[n.src]
  BY <1>2, <1>3, <1>4, <1>10, AccessIs, PlacedRight
<1>12. n.form \in MemoryToMemory /\ Addressable(n.dst) => out'.dst = Value[n.dst]
  BY <1>2, <1>3, <1>4, <1>10, AccessIs, PlacedRight
<1>13. \A m : Value[m]' = Value[m]
  BY <1>2, SamePlaces DEF Run
<1> QED BY <1>1, <1>11, <1>12, <1>13 DEF Accessed, Run

LEMMA StepAccessed == IInv /\ Accessed /\ [Next]_vars => Accessed'
<1> SUFFICES ASSUME IInv, Accessed, [Next]_vars PROVE Accessed'
  OBVIOUS
<1>1. CASE Run
  BY <1>1, RunAccesses
<1>2. CASE Select \/ EliminateFrameIndex \/ Transform \/ CombinePostIndexed \/ FoldIndexed
  <2>1. pc' # "done"
    BY <1>2 DEF Select, EliminateFrameIndex, Transform, CombinePostIndexed, FoldIndexed
  <2> QED BY <2>1 DEF Accessed
<1>3. CASE RunIndexed
  <2>1. access \in IndexedOp /\ access' = access
    BY <1>3 DEF IInv, FoldInv, RunIndexed
  <2>2. access \notin Access
    BY <2>1, AccessIs DEF IndexedOp, Ops, Forms
  <2> QED BY <2>1, <2>2 DEF Accessed
<1>4. CASE UNCHANGED vars
  <2>1. PICK n : n = access
    OBVIOUS
  <2>2. CASE n \in Access
    <3>1. \A m : Value[m]' = Value[m]
      BY <1>4, <2>2, SamePlaces DEF vars
    <3> QED BY <1>4, <2>1, <3>1 DEF vars, Accessed
  <2>3. CASE n \notin Access
    BY <1>4, <2>1, <2>3 DEF vars, Accessed
  <2> QED BY <2>2, <2>3
<1> QED BY <1>1, <1>2, <1>3, <1>4 DEF Next

(***************************************************************************)
(* Every instruction accesses the place its address node names, for DAGs   *)
(* of any size and shape, however MatchAddress backtracked, wherever the   *)
(* frame is, and whether or not the address mode pass made the operand     *)
(* @rn: for the addresses SelectAddr has operands for, see Addressable.    *)
(***************************************************************************)
THEOREM AddressesCorrect ==
  ASSUME \A n \in Addresses \cup BothAddresses : Addressable(n)
  PROVE  Spec => []AddressesAgree
<1>1. Init => Accessed
  BY DEF Init, Accessed
<1>2. IInv /\ Accessed /\ [Next]_vars => Accessed'
  BY StepAccessed
<1>3. IInv /\ Accessed => AddressesAgree
  <2> SUFFICES ASSUME IInv, Accessed, pc = "done", access.form \in Forms
               PROVE  /\ out.src = Value[access.src]
                      /\ access.form \in MemoryToMemory => out.dst = Value[access.dst]
    BY DEF AddressesAgree
  <2>1. access \in Access
    BY DEF IInv, TypeInv, IndexedOp, Ops, Forms
  <2>2. access.src \in Addresses \cup BothAddresses
    BY <2>1 DEF Access
  <2>3. access.form \in MemoryToMemory => access.dst \in BothAddresses
    BY <2>1 DEF Access
  <2> QED BY <2>1, <2>2, <2>3 DEF Accessed
<1> QED BY <1>1, <1>2, <1>3, Invariant, PTL DEF Spec

-------------------------------------------------------------------------------
(* Operations on *p++ *)

\* An operation with a load of *p++ as the first operand of a SUB.
SubFromLoad(n) == n.form = "sub" /\ n.load = 1

Computed ==
  pc = "done" /\ access \in IndexedOp /\ ~SubFromLoad(access) =>
    /\ \/ out.args = Meaning(access)
       \/ access.form # "sub" /\ out.args = Commuted(Meaning(access))
    /\ out.reads = 1
    /\ out.advance = access.inc

LEMMA RunComputes == IInv /\ RunIndexed => Computed'
<1> SUFFICES ASSUME IInv, RunIndexed, ~SubFromLoad(access) PROVE Computed'
  BY DEF Computed, RunIndexed
<1>1. PICK n : n = access
  OBVIOUS
<1>2. /\ n \in IndexedOp /\ out = NoOut /\ access' = n
      /\ indexed.post = getPostIndexedAddressParts(n) /\ indexed.folded = Folds(n)
  BY <1>1 DEF IInv, FoldInv, RunIndexed
<1>3. n.form \in Ops /\ n.load \in {1, 2}
  BY <1>2 DEF IndexedOp
<1>4. /\ out'.args = IF n.form = "load" THEN <<"*p">>
                     ELSE IF indexed.folded \/ n.load = 2 THEN <<"x", "*p">>
                     ELSE <<"*p", "x">>
      /\ out'.reads = IF indexed.folded /\ ~n.oneUse THEN 2 ELSE 1
      /\ out'.advance = IF indexed.post THEN n.bytes ELSE n.inc
  BY <1>1, <1>2 DEF RunIndexed, NoOut
<1>5. out'.reads = 1
  BY <1>2, <1>4 DEF Folds
<1>8. indexed.folded => n.form # "load"
  BY <1>2 DEF Folds, TriedFirst, TriedNext
<1>9. /\ n.form = "load" => out'.args = <<"*p">>
      /\ n.form # "load" /\ indexed.folded => out'.args = <<"x", "*p">>
      /\ n.form # "load" /\ ~indexed.folded /\ n.load = 1 => out'.args = <<"*p", "x">>
      /\ n.form # "load" /\ ~indexed.folded /\ n.load = 2 => out'.args = <<"x", "*p">>
  BY <1>4, <1>8
<1>6. out'.advance = n.inc
  BY <1>2, <1>4 DEF getPostIndexedAddressParts
<1>7. out'.args = Meaning(n) \/ (n.form # "sub" /\ out'.args = Commuted(Meaning(n)))
  <2>1. CASE n.form = "load"
    <3>1. Meaning(n) = <<"*p">>
      BY <2>1 DEF Meaning
    <3> QED BY <1>9, <2>1, <3>1
  <2>2. CASE n.form # "load" /\ n.load = 2
    <3>1. Meaning(n) = <<"x", "*p">>
      BY <2>2 DEF Meaning
    <3>2. out'.args = <<"x", "*p">>
      BY <1>9, <2>2
    <3> QED BY <3>1, <3>2
  <2>3. CASE n.form # "load" /\ n.load = 1
    <3>1. Meaning(n) = <<"*p", "x">> /\ n.form # "sub"
      BY <1>1, <2>3 DEF Meaning, SubFromLoad
    <3>2. CASE indexed.folded
      <4>1. out'.args = <<"x", "*p">>
        BY <1>9, <2>3, <3>2
      <4>2. Commuted(<<"*p", "x">>) = <<"x", "*p">>
        BY DEF Commuted
      <4> QED BY <3>1, <4>1, <4>2
    <3>3. CASE ~indexed.folded
      <4>1. out'.args = <<"*p", "x">>
        BY <1>9, <2>3, <3>3
      <4> QED BY <3>1, <4>1
    <3> QED BY <3>2, <3>3
  <2> QED BY <1>3, <2>1, <2>2, <2>3
<1> QED BY <1>2, <1>5, <1>6, <1>7 DEF Computed

LEMMA StepComputed == IInv /\ Computed /\ [Next]_vars => Computed'
<1> SUFFICES ASSUME IInv, Computed, [Next]_vars PROVE Computed'
  OBVIOUS
<1>1. CASE RunIndexed
  BY <1>1, RunComputes
<1>2. CASE Select \/ EliminateFrameIndex \/ Transform \/ CombinePostIndexed \/ FoldIndexed
  <2>1. pc' # "done"
    BY <1>2 DEF Select, EliminateFrameIndex, Transform, CombinePostIndexed, FoldIndexed
  <2> QED BY <2>1 DEF Computed
<1>3. CASE Run
  <2>1. access \in Access /\ access' = access
    BY <1>3 DEF IInv, PassInv, Run
  <2>2. access \notin IndexedOp
    BY <2>1, AccessIs DEF IndexedOp, Ops, Forms
  <2> QED BY <2>1, <2>2 DEF Computed
<1>4. CASE UNCHANGED vars
  BY <1>4 DEF vars, Computed
<1> QED BY <1>1, <1>2, <1>3, <1>4 DEF Next

(***************************************************************************)
(* An operation on *p++, folded into the instruction or not, computes what *)
(* it should, reads memory once and advances the pointer by what was       *)
(* added, if no SUB has the load as its first operand.                     *)
(***************************************************************************)
THEOREM ResultsCorrect ==
  ASSUME "sub" \notin LoadFirst
  PROVE  Spec => []ResultsAgree
<1>1. Init => Computed
  BY DEF Init, Computed
<1>2. IInv /\ Computed /\ [Next]_vars => Computed'
  BY StepComputed
<1>3. IInv /\ Computed => ResultsAgree
  <2> SUFFICES ASSUME IInv, Computed, pc = "done", access.form \in Ops PROVE ResultsAgree
    BY DEF ResultsAgree
  <2>1. access \in IndexedOp
    BY AccessIs DEF IInv, TypeInv, Ops, Forms
  <2>2. ~SubFromLoad(access)
    BY <2>1 DEF IndexedOp, SubFromLoad
  <2> QED BY <2>1, <2>2 DEF Computed, ResultsAgree
<1> QED BY <1>1, <1>2, <1>3, Invariant, PTL DEF Spec
===============================================================================
