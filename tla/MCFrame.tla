-------------------------------- MODULE MCFrame --------------------------------
(***************************************************************************)
(* Small functions for the stack frame: each kind of frame, with no, one   *)
(* or two callee-saved registers, a byte and a word among the locals and   *)
(* calls with and without stack arguments.                                 *)
(***************************************************************************)
EXTENDS MSP430Frame

Local(size) == [size |-> size, align |-> IF size = 1 THEN 1 ELSE 2]

\* Interrupts never meet a function with variable-sized objects here:
\* InterruptedVarSized has those.
Interruptible ==
  {g \in [intr : BOOLEAN, keepFP : BOOLEAN, var : BOOLEAN, enabled : BOOLEAN,
          uses : {{}, {4, 9, 12}, {9, 10}}, args : {{}, {0, 2}},
          locals : {<<>>, <<Local(1)>>, <<Local(2), Local(1)>>},
          calls : {{}, {0}, {2, 4}}, base : {0}] :
     /\ g.var => ~g.enabled
     /\ g.keepFP \/ g.var => 4 \notin g.uses
     /\ g.intr => g.args = {}}

InterruptedVarSized ==
  [intr : {FALSE}, keepFP : {FALSE}, var : {TRUE}, enabled : {TRUE},
   uses : {{9, 10}}, args : {{}}, locals : {<<>>}, calls : {{}}, base : {0}]

\* The caller keeps the stack pointer even, no more.
Overaligned ==
  [intr : {FALSE}, keepFP : BOOLEAN, var : {FALSE}, enabled : {FALSE},
   uses : {{9}}, args : {{}}, locals : {<<[size |-> 4, align |-> 4]>>},
   calls : {{}}, base : {0, 2}]
===============================================================================
