---------------------------- MODULE TaskContract ----------------------------
(***************************************************************************)
(* What the session promises about the tasks it runs, whoever starts,       *)
(* finishes or aborts them.  A task belongs to the session's active turn    *)
(* until it takes itself out to finish, or until an abort drains the whole  *)
(* turn.  An abort reports every task it drained, once, and it does so      *)
(* eventually; a task that has left the active turn never comes back.       *)
(***************************************************************************)
CONSTANT Turn

VARIABLES
    owner,      \* who may end the task of each turn
    reported    \* turns whose abort was reported to the client

cvars == <<owner, reported>>

Running == {t \in Turn : owner[t] = "session"}

Init ==
    /\ owner = [t \in Turn |-> "nobody"]
    /\ reported = {}

Start(t) ==
    /\ owner[t] = "nobody"
    /\ owner' = [owner EXCEPT ![t] = "session"]
    /\ UNCHANGED reported

Finish(t) ==
    /\ owner[t] = "session"
    /\ owner' = [owner EXCEPT ![t] = "over"]
    /\ UNCHANGED reported

Drain ==
    /\ Running # {}
    /\ owner' = [t \in Turn |-> IF t \in Running THEN "aborter" ELSE owner[t]]
    /\ UNCHANGED reported

Report(t) ==
    /\ owner[t] = "aborter"
    /\ owner' = [owner EXCEPT ![t] = "over"]
    /\ reported' = reported \cup {t}

Next == Drain \/ \E t \in Turn : Start(t) \/ Finish(t) \/ Report(t)

Safe == Init /\ [][Next]_cvars

Spec == Safe /\ \A t \in Turn : WF_cvars(Report(t))
=============================================================================
