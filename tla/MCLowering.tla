------------------------------ MODULE MCLowering ------------------------------
(***************************************************************************)
(* Words of four bits for comparisons and shifts: every condition, every   *)
(* pair of values, constants and ANDs on either side, every amount.        *)
(***************************************************************************)
EXTENDS MSP430Lowering
===============================================================================
