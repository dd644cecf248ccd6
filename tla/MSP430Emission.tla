---------------------------- MODULE MSP430Emission ----------------------------
(***************************************************************************)
(* An instruction on its way from MCInst to the CPU: perhaps through text  *)
(* (MSP430InstPrinter.cpp, MSP430AsmParser.cpp), encoded                   *)
(* (MSP430MCCodeEmitter.cpp), its fixups resolved or made relocations      *)
(* (MSP430AsmBackend.cpp, MSP430ELFObjectWriter.cpp), linked (lld,         *)
(* Arch/MSP430.cpp), executed, and disassembled (MSP430Disassembler.cpp).  *)
(* Space stands for the 2^16 bytes of memory and values of a word, Field   *)
(* for the 512 words a jump reaches backwards.                             *)
(***************************************************************************)
EXTENDS Integers, Sequences

CONSTANTS
  Space,     \* the number of addresses, and of values of a word
  Field,     \* a jump's offset is in -Field..(Field - 1) words
  Programs,  \* instructions, each with its offset in the section
  Bases      \* where the linker may put the section

ASSUME SpaceAssumption == Space \in Nat /\ Space % 2 = 0
ASSUME FieldAssumption == Field \in Nat \ {0} /\ 4 * Field < Space
ASSUME BasesAssumption == \A b \in Bases : b \in 0..(Space - 1) /\ b % 2 = 0

VARIABLES
  pc,      \* "text", "encode", "fixups", "link", "relocate", "linked", "dumped", "rejected"
  written, \* the instruction the code generator or the parser made
  inst,    \* the one being encoded
  at,      \* its offset in the section
  todo,    \* the operands not yet encoded
  Offset,  \* the member of the emitter: where the next extension word is
  word,    \* the fields of the first word
  ext,     \* the extension words
  fixups, relocs,
  base,    \* the address of the section
  errors   \* what has been reported

vars == <<pc, written, inst, at, todo, Offset, word, ext, fixups, relocs, base, errors>>

-------------------------------------------------------------------------------
(* Instructions.  A displacement is a symbol and a number; a symbol is       *)
(* defined here, here but weak (and overridden), or elsewhere.               *)

PCReg == 0
SR == 2
CG == 3

NoSym == [def |-> "none", off |-> 0, addr |-> 0]
Imm(c) == [sym |-> NoSym, add |-> c]
Expr(s, c) == [sym |-> s, add |-> c]

References ==
  [sym : {NoSym} \cup [def : {"here", "weak", "else"}, off : Nat, addr : 0..(Space - 1)],
   add : Int]

\* Where a symbol is when the section is at b.
AddressAt(b, s) == IF s.def = "here" THEN b + s.off ELSE s.addr

Operand(mode, reg, disp) == [mode |-> mode, reg |-> reg, disp |-> disp]

NoOperand == Operand("none", 0, Imm(0))

\* The condition of a jump; the last is that of JMP, and of what is no jump.
CondCodes == {"E", "NE", "HS", "LO", "GE", "L", "N", "NONE"}

CGValues == {0, 1, 2, 4, 8, -1}

Operands ==
  [mode : {"none", "reg", "imm", "cg", "mem", "ind", "post", "target"}, reg : 0..15,
   disp : References]

Ops == {"add", "mov", "br", "call", "push", "rra", "jump"}

HasWord(o) == o.mode \in {"imm", "mem"}

\* The forms of each operation: modes of the source and of the destination.
Forms(op) ==
  CASE op = "add" -> {"reg", "imm", "cg", "mem", "ind", "post"} \X {"reg", "mem"}
    [] op = "mov" -> ({"reg", "imm", "cg", "mem", "ind", "post"} \X {"reg", "mem"}) \ {<<"post", "mem">>}
    [] op = "br" -> {<<"imm", "reg">>, <<"reg", "reg">>, <<"mem", "reg">>}
    [] op = "call" -> {"reg", "imm", "mem", "ind", "post"} \X {"none"}
    [] op = "push" -> {"reg", "imm", "cg"} \X {"none"}
    [] op = "rra" -> {"reg", "mem", "ind", "post"} \X {"none"}
    [] op = "jump" -> {<<"none", "target">>}

WellFormed(i) ==
  /\ <<i.src.mode, i.dst.mode>> \in Forms(i.op)
  /\ i.src.mode = "cg" => i.src.disp.sym = NoSym /\ i.src.disp.add \in CGValues
  /\ i.op = "br" => i.dst.reg = PCReg
  /\ i.cond \in CondCodes /\ (i.op # "jump" => i.cond = "NONE")

\* The size in the table, and the place there of the word of the destination.
Size(i) == 2 + (IF HasWord(i.src) THEN 2 ELSE 0) + (IF HasWord(i.dst) THEN 2 ELSE 0)

DstSlot(i) == IF HasWord(i.src) THEN 2 ELSE 1

-------------------------------------------------------------------------------
(* Text.  A constant and a displacement come back as the parser reads them.  *)

\* The emulation of @rn as 0(rn) forgotten.
BugReparsed(o, second) ==
  CASE o.mode \in {"imm", "cg"} ->
         [o EXCEPT !.mode = IF o.disp.sym = NoSym /\ o.disp.add \in CGValues THEN "cg" ELSE "imm"]
    [] o.mode = "mem" /\ o.reg \notin {PCReg, SR} /\ o.disp = Imm(0) -> [o EXCEPT !.mode = "ind"]
    [] OTHER -> o

\* A literal of the constant generator, and 0(rn).
Generated(o)   == o.mode \in {"imm", "cg"} /\ o.disp.sym = NoSym /\ o.disp.add \in CGValues
ZeroIndexed(o) == o.mode = "mem" /\ o.reg \notin {PCReg, SR} /\ o.disp = Imm(0)

Reparsed(o, second) ==
  CASE o.mode \in {"imm", "cg"} -> [o EXCEPT !.mode = IF Generated(o) THEN "cg" ELSE "imm"]
    [] ZeroIndexed(o) /\ ~second -> [o EXCEPT !.mode = "ind"]
    [] o.mode = "target" /\ o.disp.sym = NoSym -> [o EXCEPT !.disp = Imm(2 * o.disp.add + 2)]
    [] OTHER -> o

\* printCCOperand, and what parseJccInstruction makes of the mnemonic.
CondName == [E |-> "eq", NE |-> "ne", HS |-> "hs", LO |-> "lo", GE |-> "ge", L |-> "l",
             N |-> "n", NONE |-> "mp"]

NamedCond(name) ==
  CASE name = "ne" -> "NE" [] name = "eq" -> "E" [] name = "lo" -> "LO" [] name = "hs" -> "HS"
    [] name = "n" -> "N" [] name = "ge" -> "GE" [] name = "l" -> "L" [] name = "mp" -> "NONE"

\* CALL has no form for the constant generator.
Matched(i) ==
  IF i.op \in {"call", "br"} /\ i.src.mode = "cg" THEN [i EXCEPT !.src.mode = "imm"] ELSE i

ThroughText(i) ==
  Matched([i EXCEPT !.src = Reparsed(@, FALSE), !.dst = Reparsed(@, TRUE),
                    !.cond = NamedCond(CondName[@])])

ParsesTarget(i) ==
  (i.op = "jump" /\ i.dst.disp.sym = NoSym) => i.dst.disp.add \in -Field..(Field - 1)

ParsedAgain(i) == WellFormed(ThroughText(i)) /\ ParsesTarget(ThroughText(i))

(***************************************************************************)
(* The programs: even offsets; registers that have the mode they are used  *)
(* with; symbols whose places are in memory; jumps by a number that fits.  *)
(* A branch through 0(rn) has no text that is read again, and text that is *)
(* read as a shorter source would move what is counted from PC behind it.  *)
(***************************************************************************)
HasMode(o) ==
  /\ o.mode \in {"reg", "ind", "post"} => o.disp = Imm(0)
  /\ o.mode \in {"reg", "mem"} => o.reg # CG
  /\ o.mode \in {"ind", "post"} => o.reg \notin {PCReg, SR, CG}
  /\ o.mode = "none" => o = NoOperand

InMemory(d) ==
  d.sym # NoSym => \A b \in Bases : AddressAt(b, d.sym) + d.add \in 0..(Space - 1)

CountedFromPC(o) == o.mode = "mem" /\ o.reg = PCReg /\ o.disp.sym = NoSym

ASSUME ProgramsAssumption ==
  \A p \in Programs :
    /\ p.at \in Nat /\ p.at % 2 = 0
    /\ p.inst \in [op : Ops, cond : CondCodes, src : Operands, dst : Operands]
    /\ WellFormed(p.inst)
    /\ \A o \in {p.inst.src, p.inst.dst} : HasMode(o) /\ InMemory(o.disp)
    /\ p.inst.op = "jump" => ParsesTarget(p.inst)
    /\ p.inst.op = "br" => ~ZeroIndexed(p.inst.src)
    /\ CountedFromPC(p.inst.dst) =>
         ~ZeroIndexed(p.inst.src) /\ (p.inst.src.mode = "imm" => ~Generated(p.inst.src))

-------------------------------------------------------------------------------
(* encodeInstruction: the operands in the order of the format's fields, each *)
(* with its own fields of the first word and its place among the words.      *)

CGCode(c) ==
  CASE c = 4 -> <<2, 2>> [] c = 8 -> <<2, 3>> [] c = 0 -> <<3, 0>>
    [] c = 1 -> <<3, 1>> [] c = 2 -> <<3, 2>> [] c = -1 -> <<3, 3>>

SrcFields(o) ==
  CASE o.mode = "reg" -> <<o.reg, 0>>
    [] o.mode = "mem" -> <<o.reg, 1>>
    [] o.mode = "ind" -> <<o.reg, 2>>
    [] o.mode = "post" -> <<o.reg, 3>>
    [] o.mode = "imm" -> <<0, 3>>
    [] o.mode = "cg" -> CGCode(o.disp.add)

BlankWord == [op |-> "add", rs |-> 0, as |-> 0, ad |-> 0, rd |-> 0, cond |-> 0, off |-> 0]

CCOpValue == [NE |-> 0, E |-> 1, LO |-> 2, HS |-> 3, N |-> 4, GE |-> 5, L |-> 6, NONE |-> 7]

\* Of JMP the condition is part of the format.
WithTarget(w, i) ==
  [w EXCEPT !.cond = CCOpValue[i.cond],
            !.off = IF i.dst.disp.sym = NoSym THEN i.dst.disp.add % (2 * Field) ELSE 0]

WithSource(w, o) == [w EXCEPT !.rs = SrcFields(o)[1], !.as = SrcFields(o)[2]]

WithDest(w, o) == [w EXCEPT !.rd = o.reg, !.ad = IF o.mode = "mem" THEN 1 ELSE 0]

FixupKind(o) ==
  CASE o.mode = "target" -> "10_pcrel"
    [] o.mode = "mem" /\ o.reg = PCReg -> "16_pcrel_byte"
    [] OTHER -> "16_byte"

IsPCRel(kind) == kind \in {"10_pcrel", "16_pcrel_byte"}

\* Every operand counted, as if registers had a word of their own.
BugNextOffset(o) == Offset + 2

NextOffset(o) == IF HasWord(o) THEN Offset + 2 ELSE Offset

NewFixups(o) ==
  IF o.disp.sym = NoSym THEN <<>>
    ELSE <<[offset |-> IF o.mode = "target" THEN 0 ELSE Offset,
            kind |-> FixupKind(o), disp |-> o.disp]>>

Literal(o) == IF o.disp.sym = NoSym THEN o.disp.add ELSE 0

\* The operands in the order of the MCInst, the destination first.
BugFieldOrder(i) == <<"dst", "src">>

FieldOrder(i) == <<"src", "dst">>

Written(o, slot) == IF HasWord(o) THEN [ext EXCEPT ![slot] = Literal(o) % Space] ELSE ext

Encode ==
  /\ pc = "encode"
  /\ todo # <<>>
  /\ LET isSrc == Head(todo) = "src"
         o == IF isSrc THEN inst.src ELSE inst.dst
     IN /\ word' = CASE o.mode = "none" -> word
                      [] o.mode = "target" -> WithTarget(word, inst)
                      [] OTHER -> IF isSrc THEN WithSource(word, o) ELSE WithDest(word, o)
        /\ ext' = Written(o, IF isSrc THEN 1 ELSE DstSlot(inst))
        /\ fixups' = fixups \o NewFixups(o)
        /\ Offset' = NextOffset(o)
  /\ todo' = Tail(todo)
  /\ UNCHANGED <<pc, written, inst, at, relocs, base, errors>>

Encoded ==
  /\ pc = "encode"
  /\ todo = <<>>
  /\ pc' = "fixups"
  /\ UNCHANGED <<written, inst, at, todo, Offset, word, ext, fixups, relocs, base, errors>>

-------------------------------------------------------------------------------
(* MCAssembler: each fixup is evaluated, recorded if it has to be, applied.  *)

Signed(v) == LET w == v % Space IN IF w >= Space \div 2 THEN w - Space ELSE w

IsResolved(f) == IsPCRel(f.kind) /\ f.disp.sym.def = "here"

\* With an addend in the relocation nothing is left for the fixup.
FixedValue(f) ==
  IF IsResolved(f) THEN f.disp.sym.off + f.disp.add - (at + f.offset) ELSE 0

\* Counted from the jump itself.
BugWords(v) == Signed(v) \div 2

\* The program counter is past the jump.
Words(v) == Signed(v) \div 2 - 1

JumpErrors(v) ==
  (IF v % 2 = 1 THEN {"unaligned"} ELSE {})
  \cup (IF Words(v) \in -Field..(Field - 1) THEN {} ELSE {"range"})

BitOr[v \in 0..(Space - 1)] ==
  [w \in Nat |-> IF v = 0 THEN w
                 ELSE 2 * BitOr[v \div 2][w \div 2] + (IF v % 2 = 1 \/ w % 2 = 1 THEN 1 ELSE 0)]

Fixup ==
  /\ pc = "fixups"
  /\ fixups # <<>>
  /\ LET f == Head(fixups)
         v == FixedValue(f)
     IN /\ relocs' = IF IsResolved(f) THEN relocs
                       ELSE Append(relocs, [f EXCEPT !.offset = at + @])
        /\ IF f.kind = "10_pcrel"
             THEN /\ word' = [word EXCEPT !.off = BitOr[@][Words(v) % (2 * Field)]]
                  /\ errors' = errors \cup JumpErrors(v)
                  /\ UNCHANGED ext
             ELSE /\ ext' = [ext EXCEPT ![f.offset \div 2] = BitOr[@][v % Space]]
                  /\ UNCHANGED <<word, errors>>
  /\ fixups' = Tail(fixups)
  /\ UNCHANGED <<pc, written, inst, at, todo, Offset, base>>

FixupsDone ==
  /\ pc = "fixups"
  /\ fixups = <<>>
  /\ pc' = IF errors = {} THEN "link" ELSE "rejected"
  /\ UNCHANGED <<written, inst, at, todo, Offset, word, ext, fixups, relocs, base, errors>>

-------------------------------------------------------------------------------
(* lld: the section gets an address, then relocateOne for each relocation.   *)

\* The address a symbol has in the program.
Address(s) == AddressAt(base, s)

Layout(b) ==
  /\ pc = "link"
  /\ b + at + Size(inst) <= Space
  /\ base' = b
  /\ pc' = "relocate"
  /\ UNCHANGED <<written, inst, at, todo, Offset, word, ext, fixups, relocs, errors>>

RelocTargetVA(r) ==
  Address(r.disp.sym) + r.disp.add - (IF IsPCRel(r.kind) THEN base + r.offset ELSE 0)

checkIntUInt(v) == IF v \in -(Space \div 2)..(Space - 1) THEN {} ELSE {"range"}

relocateOne ==
  /\ pc = "relocate"
  /\ relocs # <<>>
  /\ LET r == Head(relocs)
         v == RelocTargetVA(r)
     IN IF r.kind = "10_pcrel"
          THEN /\ word' = [word EXCEPT !.off = Words(v) % (2 * Field)]
               /\ errors' = errors \cup JumpErrors(v)
               /\ UNCHANGED ext
          ELSE /\ ext' = [ext EXCEPT ![(r.offset - at) \div 2] = v % Space]
               /\ errors' = errors \cup checkIntUInt(v)
               /\ UNCHANGED word
  /\ relocs' = Tail(relocs)
  /\ UNCHANGED <<pc, written, inst, at, todo, Offset, fixups, base>>

Linked ==
  /\ pc = "relocate"
  /\ relocs = <<>>
  /\ pc' = IF errors = {} THEN "linked" ELSE "rejected"
  /\ UNCHANGED <<written, inst, at, todo, Offset, word, ext, fixups, relocs, base, errors>>
-------------------------------------------------------------------------------
(* The CPU.  An operand is a register, a constant, an address, a register    *)
(* and a displacement, or a register that is incremented after.              *)

Place(kind, reg, val) == [kind |-> kind, reg |-> reg, val |-> val % Space]

InReg(r)    == IF r = CG THEN Place("const", 0, 0) ELSE Place("reg", r, 0)
Const(c)    == Place("const", 0, c)
Absolute(a) == Place("memory", 0, a)
Near(r, d)  == Place("indexed", r, d)
PostInc(r)  == Place("post", r, 0)
Nowhere     == Place("none", 0, 0)

\* The address of extension word k.
WordAddress(k) == base + at + 2 * k

CpuSrcHasWord == (word.as = 1 /\ word.rs # CG) \/ (word.as = 3 /\ word.rs = PCReg)

CpuSrc ==
  LET r == word.rs IN
  CASE r = CG -> Const(IF word.as = 3 THEN -1 ELSE word.as)
    [] r = SR /\ word.as >= 2 -> Const(IF word.as = 2 THEN 4 ELSE 8)
    [] r # CG /\ word.as = 0 -> InReg(r)
    [] r = SR /\ word.as = 1 -> Absolute(ext[1])
    [] r = PCReg /\ word.as = 1 -> Absolute(WordAddress(1) + ext[1])
    [] r = PCReg /\ word.as = 3 -> Const(ext[1])
    [] r \notin {PCReg, SR, CG} /\ word.as = 1 -> Near(r, ext[1])
    [] r \notin {SR, CG} /\ word.as = 2 -> Near(r, 0)
    [] r \notin {PCReg, SR, CG} /\ word.as = 3 -> PostInc(r)

CpuDst ==
  LET k == IF CpuSrcHasWord THEN 2 ELSE 1 IN
  CASE word.ad = 0 -> Place("reg", word.rd, 0)
    [] word.ad = 1 /\ word.rd = SR -> Absolute(ext[k])
    [] word.ad = 1 /\ word.rd = PCReg -> Absolute(WordAddress(k) + ext[k])
    [] word.ad = 1 /\ word.rd \notin {PCReg, SR} -> Near(word.rd, ext[k])

CpuTarget == LET o == IF word.off >= Field THEN word.off - 2 * Field ELSE word.off
             IN Absolute(base + at + 2 + 2 * o)

SingleOperand(op) == op \in {"call", "push", "rra"}

CpuLength == 2 + (IF word.op # "jump" /\ CpuSrcHasWord THEN 2 ELSE 0) + 2 * word.ad

\* JNE, JEQ, JNC, JC, JN, JGE, JL, JMP
Jumps == <<"NE", "E", "LO", "HS", "N", "GE", "L", "NONE">>

Execution ==
  [src |-> IF word.op = "jump" THEN Nowhere ELSE CpuSrc,
   dst |-> CASE word.op = "jump" -> CpuTarget
             [] SingleOperand(word.op) -> Nowhere
             [] OTHER -> CpuDst,
   cond |-> IF word.op = "jump" THEN Jumps[word.cond + 1] ELSE "NONE",
   length |-> CpuLength]

(***************************************************************************)
(* What an operand of an MCInst names, its extension word being the k-th.  *)
(* A number beside PC is a displacement, an expression beside PC a place.  *)
(***************************************************************************)
Value(d) == (IF d.sym = NoSym THEN 0 ELSE Address(d.sym)) + d.add

Meaning(o, k) ==
  CASE o.mode = "none" -> Nowhere
    [] o.mode = "reg" -> InReg(o.reg)
    [] o.mode \in {"imm", "cg"} -> Const(Value(o.disp))
    [] o.mode = "mem" /\ o.reg = SR -> Absolute(Value(o.disp))
    [] o.mode = "mem" /\ o.reg = PCReg /\ o.disp.sym = NoSym -> Absolute(WordAddress(k) + o.disp.add)
    [] o.mode = "mem" /\ o.reg = PCReg /\ o.disp.sym # NoSym -> Absolute(Value(o.disp))
    [] o.mode = "mem" /\ o.reg \notin {PCReg, SR} -> Near(o.reg, Value(o.disp))
    [] o.mode = "ind" -> Near(o.reg, 0)
    [] o.mode = "post" -> PostInc(o.reg)
    [] o.mode = "target" /\ o.disp.sym = NoSym -> Absolute(base + at + 2 + 2 * o.disp.add)
    [] o.mode = "target" /\ o.disp.sym # NoSym -> Absolute(Value(o.disp))

Meant(i) ==
  [src |-> Meaning(i.src, 1), dst |-> Meaning(i.dst, DstSlot(i)),
   cond |-> i.cond, length |-> Size(i)]

-------------------------------------------------------------------------------
(* getInstruction of the disassembler, from the words of the instruction.    *)

SrcAddrMode(rs, as) ==
  CASE rs = PCReg /\ as = 1 -> "symbolic"
    [] rs = PCReg /\ as = 2 -> "invalid"
    [] rs = PCReg /\ as = 3 -> "immediate"
    [] rs = SR /\ as = 1 -> "absolute"
    [] rs = CG \/ (rs = SR /\ as >= 2) -> "constant"
    [] OTHER -> <<"register", "indexed", "indirect", "indirectpost">>[as + 1]

\* An immediate is decoded as having no word of its own.
BugSrcWords(am) == IF am \in {"indexed", "symbolic", "absolute"} THEN 1 ELSE 0

SrcWords(am) == IF am \in {"indexed", "symbolic", "absolute", "immediate"} THEN 1 ELSE 0

DecodeCGImm(rs, as) == CHOOSE c \in CGValues : CGCode(c) = <<rs, as>>

DecodedSrc ==
  LET am == SrcAddrMode(word.rs, word.as) IN
  CASE am = "register" -> Operand("reg", word.rs, Imm(0))
    [] am = "constant" -> Operand("cg", 0, Imm(DecodeCGImm(word.rs, word.as)))
    [] am = "immediate" -> Operand("imm", 0, Imm(ext[1]))
    [] am \in {"indexed", "symbolic", "absolute"} -> Operand("mem", word.rs, Imm(Signed(ext[1])))
    [] am = "indirect" -> Operand("ind", word.rs, Imm(0))
    [] am = "indirectpost" -> Operand("post", word.rs, Imm(0))

DecodedDst ==
  LET k == 1 + SrcWords(SrcAddrMode(word.rs, word.as)) IN
  IF word.ad = 0 THEN Operand("reg", word.rd, Imm(0))
    ELSE Operand("mem", word.rd, Imm(Signed(ext[k])))

DecodedTarget ==
  Operand("target", 0, Imm(IF word.off >= Field THEN word.off - 2 * Field ELSE word.off))

getCondCode == <<"NE", "E", "LO", "HS", "N", "GE", "L", "NONE">>

Decoded ==
  [op |-> word.op,
   cond |-> IF word.op = "jump" THEN getCondCode[word.cond + 1] ELSE "NONE",
   src |-> IF word.op = "jump" THEN NoOperand ELSE DecodedSrc,
   dst |-> CASE word.op = "jump" -> DecodedTarget
             [] SingleOperand(word.op) -> NoOperand
             [] OTHER -> DecodedDst]

-------------------------------------------------------------------------------

Start(i) ==
  /\ inst' = i
  /\ todo' = FieldOrder(i)
  /\ Offset' = 2
  /\ word' = [BlankWord EXCEPT !.op = i.op]
  /\ ext' = [k \in 1..((Size(i) - 2) \div 2) |-> 0]

Init ==
  /\ pc = "text"
  /\ \E p \in Programs : written = p.inst /\ at = p.at
  /\ inst = written
  /\ todo = <<>> /\ Offset = 2 /\ word = BlankWord /\ ext = <<>>
  /\ fixups = <<>> /\ relocs = <<>> /\ base = 0 /\ errors = {}

\* The object file is written directly.
EmitInstruction ==
  /\ pc = "text"
  /\ Start(written)
  /\ pc' = "encode"
  /\ UNCHANGED <<written, at, fixups, relocs, base, errors>>

\* The compiler writes text, where jumps go to labels, and the assembler reads it.
PrintAndParse ==
  /\ pc = "text"
  /\ written.op = "jump" => written.dst.disp.sym # NoSym
  /\ IF ParsedAgain(written)
       THEN Start(ThroughText(written)) /\ pc' = "encode" /\ UNCHANGED errors
       ELSE /\ pc' = "rejected"
            /\ errors' = {"syntax"}
            /\ UNCHANGED <<inst, todo, Offset, word, ext>>
  /\ UNCHANGED <<written, at, fixups, relocs, base>>

\* The linked program is disassembled, and the text assembled again.
Dump ==
  /\ pc = "linked"
  /\ inst' = ThroughText(Decoded)
  /\ pc' = "dumped"
  /\ UNCHANGED <<written, at, todo, Offset, word, ext, fixups, relocs, base, errors>>

Next ==
  \/ EmitInstruction \/ PrintAndParse
  \/ Encode \/ Encoded \/ Fixup \/ FixupsDone
  \/ \E b \in Bases : Layout(b)
  \/ relocateOne \/ Linked \/ Dump

Spec == Init /\ [][Next]_vars
-------------------------------------------------------------------------------
(* Properties.                                                               *)

\* The fields fit the word, and every fixup lies inside its instruction, as
\* applyFixup asserts, at a word of its own.
TypeOK ==
  /\ pc \in {"text", "encode", "fixups", "link", "relocate", "linked", "dumped", "rejected"}
  /\ \A k \in DOMAIN ext : ext[k] \in 0..(Space - 1)
  /\ word.rs \in 0..15 /\ word.rd \in 0..15 /\ word.off \in 0..(2 * Field - 1)
  /\ \A k \in DOMAIN fixups :
       /\ fixups[k].offset + 2 <= Size(inst)
       /\ fixups[k].kind # "10_pcrel" => fixups[k].offset >= 2
       /\ \A j \in DOMAIN fixups : j # k => fixups[j].offset # fixups[k].offset

\* What the CPU executes is what the instruction says, whether it went through
\* text or not: encoder, fixups and linker agree on the place of every
\* extension word and on what it counts from.
ExecutedAsWritten ==
  pc = "linked" =>
    /\ Execution = Meant(inst)
    /\ inst.op = written.op /\ Execution.cond = written.cond
    /\ <<Execution.src, Execution.dst>> = <<Meant(written).src, Meant(written).dst>>

\* How far the target of a jump is from the instruction after it.
DistanceInBytes == Signed(Address(inst.dst.disp.sym) + inst.dst.disp.add - (base + at + 2))

isInRage(d) == d \div 2 \in -Field..(Field - 1)

\* A jump the branch selector leaves short is neither refused by the assembler
\* nor by the linker, and no other instruction is, but a PC-relative one whose
\* place is more than half of memory back.
SelectedBranchesFit ==
  pc = "rejected" =>
    /\ "syntax" \notin errors
    /\ inst.op = "jump" => DistanceInBytes % 2 = 1 \/ ~isInRage(DistanceInBytes)
    /\ inst.op # "jump" =>
         \E o \in {inst.src, inst.dst} :
           /\ FixupKind(o) = "16_pcrel_byte"
           /\ Address(o.disp.sym) + o.disp.add - (base + at + 2) < 2 - Space \div 2

\* The disassembler tells of every linked instruction what the CPU makes of it:
\* its operands, its condition, and where the next one begins.
DisassemblesBack == pc = "linked" => Meant(Decoded) = Execution

\* Assembled again at its place, the listing of a disassembled instruction
\* that is no jump means what the instruction did.
ListingReassembles ==
  pc = "dumped" /\ inst.op # "jump" =>
    /\ WellFormed(inst)
    /\ <<Meant(inst).src, Meant(inst).dst>> = <<Execution.src, Execution.dst>>

\* The same of a jump: its listing is assembled to the same jump.
JumpListingReassembles ==
  pc = "dumped" /\ inst.op = "jump" => ParsesTarget(inst) /\ Meant(inst) = Execution
=============================================================================
