----------------------------- MODULE MCHttpClient -----------------------------
(***************************************************************************)
(* HttpClient for TLC: two goroutines that perform signed Posts, one with  *)
(* a context that may be cancelled.                                        *)
(***************************************************************************)
EXTENDS HttpClient
===============================================================================
