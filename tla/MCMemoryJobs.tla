----------------------------- MODULE MCMemoryJobs -----------------------------
(* The memory pipeline on a small instance: two threads, one of them newer. *)
EXTENDS MemoryJobs

MCThread == {"a", "b"}
MCFirst == [t \in MCThread |-> IF t = "a" THEN 1 ELSE 2]
=============================================================================
