--------------------------- MODULE MCEventPipeline ---------------------------
(***************************************************************************)
(* EventPipeline for TLC: the loop, the closer and one application         *)
(* goroutine that calls Flush, over a queue for one event.                 *)
(***************************************************************************)
EXTENDS EventPipeline
===============================================================================
