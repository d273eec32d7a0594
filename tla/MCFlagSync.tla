------------------------------ MODULE MCFlagSync ------------------------------
(***************************************************************************)
(* FlagSync for TLC: the polling loop, a goroutine that initialises and one *)
(* that refreshes, over a cache for one flag.                              *)
(***************************************************************************)
EXTENDS FlagSync
===============================================================================
