--------------------------- MODULE MCRemoteControl ---------------------------
(* The remote-control transport on a small instance: one stream does       *)
(* everything, the other only pings and is answered that it is unknown.    *)
EXTENDS RemoteControl

MCKey == {"a", "b"}
MCWrites == ({"a"} \X {"init", "msg", "ping", "closed"}) \cup {<<"b", "ping">>}
=============================================================================
