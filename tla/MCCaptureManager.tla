-------------------------- MODULE MCCaptureManager --------------------------
(***************************************************************************)
(* CaptureManager with its constants left to the configurations:           *)
(*   MCCaptureReconcile.cfg  the tick, boot and stop alone, two cameras     *)
(*   MCCaptureHooks.cfg      one camera under the tick and request threads  *)
(*   MCCaptureLeak.cfg       the claim the code breaks                      *)
(***************************************************************************)
EXTENDS CaptureManager
=============================================================================
