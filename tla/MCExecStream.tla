---------------------------- MODULE MCExecStream ----------------------------
(* The exec stream on a small instance. *)
EXTENDS ExecStream
=============================================================================
