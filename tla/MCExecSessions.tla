--------------------------- MODULE MCExecSessions ---------------------------
(* The session registry on a small instance. *)
EXTENDS ExecSessions
=============================================================================
