-------------------------- MODULE MCLockFileManager --------------------------
(***************************************************************************)
(* Two compilers of one machine and one of another, on a shared cache.     *)
(***************************************************************************)
EXTENDS LockFileManager

CONSTANTS p1, p2, p3

AllLocal  == [p \in Proc |-> "here"]
OneRemote == [p \in Proc |-> IF p = p3 THEN "there" ELSE "here"]
===============================================================================
