------------------------------ MODULE MCStreaming ------------------------------
(***************************************************************************)
(* Streaming for TLC: two goroutines, so an attempt meets the reader of the *)
(* stream before it, the callback of a timer, or another attempt.          *)
(***************************************************************************)
EXTENDS Streaming
===============================================================================
