--------------------------- MODULE MCBranchSelector ---------------------------
(***************************************************************************)
(* Small functions for the branch selector.  The field of a short branch   *)
(* is a few words instead of 512, so that blocks of a few bytes put        *)
(* branches out of reach, alone or through the growth of others.           *)
(***************************************************************************)
EXTENDS BranchSelectorRefines

\* An empty block, and one over which a short branch may or may not reach.
SmallBodies == {0, 4}
===============================================================================
