----------------------------- MODULE MCAddressMode -----------------------------
(***************************************************************************)
(* Sums of up to four leaves in both shapes, ORs around and inside them.   *)
(***************************************************************************)
EXTENDS MSP430AddressMode

\* A register that may be odd, one known to be a multiple of four.
Registers == {Register("a", 0), Register("b", 2)}

\* A global, with and without an offset, and a constant pool entry.
Symbols == {Wrapper("GV", 0), Wrapper("GV", 2), Wrapper("CP", 0)}

\* Two, minus two, and bits that may be zero in a multiple of two or four.
SmallConstants == {1, 2, Words - 2}

Leaves == Registers \cup Symbols \cup {FrameIndex}

RECURSIVE Within(_, _)
Within(n, op) == n.op = op \/ \E i \in DOMAIN n.args : Within(n.args[i], op)

Sums == {Add(x, y) : x \in Leaves, y \in Leaves}
Ors  == {Or(x, c) : x \in Leaves \cup Sums, c \in {1, 2}}

Offsets(nodes) == {Add(x, Const(c)) : x \in nodes, c \in SmallConstants}

SmallNodes ==
  Leaves \cup Offsets(Leaves) \cup Sums \cup Offsets(Sums) \cup Ors \cup Offsets(Ors)
  \cup {Or(x, c) : x \in Offsets(Leaves), c \in {1, 2}}
  \cup {Add(x, y) : x \in Sums \cup Offsets(Leaves) \cup Ors,
                    y \in Sums \cup Offsets(Leaves) \cup Leaves}
  \cup {Add(Wrapper("JT", 0), x) : x \in Registers} \cup {Wrapper("JT", 0)}
  \cup {Const(c) : c \in {0} \cup SmallConstants}

\* A frame index and a symbol in one address are not folded apart, see README.
SmallAddresses ==
  {x \in SmallNodes : ~(Within(x, "fi") /\ Within(x, "sym")) /\ x # Const(0)}

ASSUME SmallAddressable == \A x \in SmallAddresses : Addressable(x)

\* One address of each kind for instructions that have two.
FewAddresses ==
  Leaves \cup Offsets({Register("a", 0), FrameIndex}) \cup {Const(2)}

ZeroAddresses == {Const(0), Const(2), Register("a", 0)}
===============================================================================
