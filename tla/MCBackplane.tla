----------------------------- MODULE MCBackplane -----------------------------
(* Two sinks that answer anything; two callers racing for the mutex, or a   *)
(* relay whose queue holds two notes.                                       *)
EXTENDS Relay
=============================================================================
