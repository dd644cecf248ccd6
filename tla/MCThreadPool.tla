---------------------------- MODULE MCThreadPool ----------------------------
(***************************************************************************)
(* A small pool with a task queue on it.                                   *)
(***************************************************************************)
EXTENDS TaskQueue
=============================================================================
