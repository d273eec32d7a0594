------------------------------- MODULE MCPolling -------------------------------
(***************************************************************************)
(* Polling for TLC: two loops and a caller of PollNow.                     *)
(***************************************************************************)
EXTENDS Polling
===============================================================================
