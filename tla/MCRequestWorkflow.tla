------------------------- MODULE MCRequestWorkflow -------------------------
(***************************************************************************)
(* RequestWorkflow with its constants left to the configurations:          *)
(*   MCRequestWorkflow.cfg  two calls in flight, with crashes and failures *)
(*   MCRequestTerminal.cfg  the claim that terminal statuses are final     *)
(***************************************************************************)
EXTENDS RequestWorkflow
=============================================================================
