--------------------------- MODULE MCClientLifecycle ---------------------------
(***************************************************************************)
(* ClientLifecycle for TLC: two managers, and goroutines for two callers   *)
(* and a loop, or for two loops and a caller.                              *)
(***************************************************************************)
EXTENDS ClientLifecycle
===============================================================================
