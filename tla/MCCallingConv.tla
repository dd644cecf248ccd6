----------------------------- MODULE MCCallingConv -----------------------------
(***************************************************************************)
(* Small calls for the calling convention: bytes, words, and arguments of  *)
(* two and four pieces in every order of up to three, which uses up the    *)
(* four registers in every way; words and pairs of words, up to five,      *)
(* follow a split.                                                         *)
(***************************************************************************)
EXTENDS MSP430CallingConv

Arg(n, vt, ext) == [pieces |-> [i \in 1..n |-> vt], ext |-> ext, byval |-> 0, align |-> 0]
Obj(size, align) == [pieces |-> <<"i16">>, ext |-> "AExt", byval |-> size, align |-> align]

Byte1 == Arg(1, "i8", "SExt")
Word1 == Arg(1, "i16", "AExt")
Word2 == Arg(2, "i16", "AExt")
Word4 == Arg(4, "i16", "AExt")

Kinds == {Byte1, Arg(1, "i8", "AExt"), Word1, Word2, Word4, Obj(1, 1), Obj(6, 4)}

Lists(S, k) == UNION {[1..m -> S] : m \in 0..k}

Call(conv, vararg, ret, args, fixed) ==
  [conv |-> conv, vararg |-> vararg, ret |-> ret, sret |-> FALSE,
   args |-> args, fixed |-> fixed]

Plain == {Call("C", FALSE, <<>>, args, Len(args)) :
            args \in Lists(Kinds, 3) \cup Lists({Word1, Word2}, 5)}

FiveWords == <<"i16", "i16", "i16", "i16", "i16">>

Demoted == {Call("C", vararg, FiveWords, args, Len(args)) :
              vararg \in BOOLEAN, args \in Lists({Byte1, Word2, Obj(6, 4)}, 3)}

\* Results in registers, and structures returned through a pointer, which
\* a variadic function finds on the stack.
Returning ==
  {Call("C", FALSE, ret, <<Word4>>, 1) : ret \in Lists({"i8", "i16"}, 4)}

SRet ==
  {[Call("C", vararg, <<>>, <<Word1>> \o args, 1 + Len(args)) EXCEPT !.sret = TRUE] :
     vararg \in BOOLEAN, args \in Lists({Byte1, Word2}, 3)}

\* What follows the fixed arguments is promoted to words by the front end.
Variadic ==
  {c \in {Call("C", TRUE, <<>>, args, fixed) :
            args \in Lists(Kinds \ {Word4}, 3), fixed \in 1..3} :
     /\ c.fixed <= Len(c.args)
     /\ \A i \in (c.fixed + 1)..Len(c.args) : c.args[i] \in {Word1, Word2}}

Builtin == {Call("builtin", FALSE, <<>>, <<Word4, Word4>>, 2)}

Calls == Plain \cup Demoted \cup Returning \cup SRet \cup Variadic \cup Builtin
===============================================================================
