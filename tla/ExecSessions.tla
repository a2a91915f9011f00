----------------------------- MODULE ExecSessions -----------------------------
(***************************************************************************)
(* The exec server's sessions: connections that open a session or resume   *)
(* one another connection left, the process each session runs, and the     *)
(* expiry of sessions nobody came back to.                                 *)
(*                                                                         *)
(* Source: exec-server/src/server/{session_registry,handler,processor,     *)
(* process_handler}.rs and start_process and shutdown of local_process.rs. *)
(*                                                                         *)
(* Time is kept as what remains of DETACHED_SESSION_TTL: `expires` for a   *)
(* session's deadline, `timer` for the sleep of the task that a detaching  *)
(* connection spawns.                                                      *)
(***************************************************************************)
EXTENDS Integers, FiniteSets

CONSTANTS
    Conn,       \* connections, each used once
    Session,    \* session ids
    TTL,        \* DETACHED_SESSION_TTL, in ticks
    None        \* no connection, no session

ASSUME NoneAssumption == None \notin Conn \cup Session
ASSUME TTLAssumption == TTL \in Nat \ {0}

VARIABLES
    registry,   \* sessions in the registry's map
    used,       \* session ids handed out (they are fresh UUIDs)
    current,    \* current_connection_id of each session
    detached,   \* detached_connection_id
    expires,    \* what remains until detached_expires_at; -1: none
    sender,     \* the connection the session's notifications go to
    entry,      \* the session's process map: "none", "starting", "running"
    child,      \* the session's child is alive
    pc,         \* run_connection: "idle", "run", "starting", "closing",
                \*   "detach", "clear", "spawn", "end"
    handle,     \* the session of the connection's handler
    closing,    \* the expired session the connection's initialize shuts down
                \*   (pc "closing") or was shutting down when it was dropped
    ready,      \* initialized was received
    timer,      \* what remains of the expiry task's sleep; -1: no task
    doomed,     \* sessions an expiry task took out of the map, to be shut down
    away        \* history: ticks since the last connection left, up to TTL

sessionVars == <<registry, used, current, detached, expires, sender, doomed, away>>
processVars == <<entry, child>>
connVars == <<pc, handle, closing, ready, timer>>
vars == <<sessionVars, processVars, connVars>>

Init ==
    /\ registry = {} /\ used = {} /\ doomed = {}
    /\ current = [s \in Session |-> None] /\ detached = [s \in Session |-> None]
    /\ expires = [s \in Session |-> -1] /\ sender = [s \in Session |-> None]
    /\ away = [s \in Session |-> 0]
    /\ entry = [s \in Session |-> "none"] /\ child = [s \in Session |-> FALSE]
    /\ pc = [c \in Conn |-> "idle"] /\ handle = [c \in Conn |-> None]
    /\ closing = [c \in Conn |-> None]
    /\ ready = [c \in Conn |-> FALSE] /\ timer = [c \in Conn |-> -1]

-----------------------------------------------------------------------------
(* A client connects: run_connection starts.                               *)
Connect(c) ==
    /\ pc[c] = "idle"
    /\ pc' = [pc EXCEPT ![c] = "run"]
    /\ UNCHANGED <<sessionVars, processVars, handle, closing, ready, timer>>

(* initialize without resume_session_id: attach inserts a new session.     *)
AttachNew(c, s) ==
    /\ pc[c] = "run" /\ handle[c] = None /\ s \notin used
    /\ used' = used \cup {s} /\ registry' = registry \cup {s}
    /\ current' = [current EXCEPT ![s] = c]
    /\ sender' = [sender EXCEPT ![s] = c]
    /\ handle' = [handle EXCEPT ![c] = s]
    /\ UNCHANGED <<detached, expires, doomed, away, processVars, pc, closing, ready, timer>>

(* initialize with resume_session_id, under the lock of the map: an        *)
(* expired session is taken out of the map, to be shut down ...            *)
AttachExpired(c, s) ==
    /\ pc[c] = "run" /\ handle[c] = None /\ s \in registry
    /\ expires[s] = 0
    /\ registry' = registry \ {s}
    /\ closing' = [closing EXCEPT ![c] = s]
    /\ pc' = [pc EXCEPT ![c] = "closing"]
    /\ UNCHANGED <<used, current, detached, expires, sender, doomed, away, processVars,
                   handle, ready, timer>>

(* ... which the request itself waits for, and then the client is told     *)
(* that the session is unknown ...                                         *)
AttachShutdown(c) ==
    /\ pc[c] = "closing"
    /\ entry' = [entry EXCEPT ![closing[c]] = "none"]
    /\ child' = [child EXCEPT ![closing[c]] = FALSE]
    /\ closing' = [closing EXCEPT ![c] = None]
    /\ pc' = [pc EXCEPT ![c] = "run"]
    /\ UNCHANGED <<sessionVars, handle, ready, timer>>

(* ... a session with an active connection is refused (the handler may try *)
(* again) and any other session is the caller's.                           *)
(* (Mutant: the active connection is not looked at.)                       *)
ResumableAnyway(s) == s \in registry /\ expires[s] # 0
Resumable(s) == s \in registry /\ expires[s] # 0 /\ current[s] = None

AttachResume(c, s) ==
    /\ pc[c] = "run" /\ handle[c] = None /\ Resumable(s)
    /\ sender' = [sender EXCEPT ![s] = c]
    /\ current' = [current EXCEPT ![s] = c]
    /\ detached' = [detached EXCEPT ![s] = None]
    /\ expires' = [expires EXCEPT ![s] = -1]
    /\ handle' = [handle EXCEPT ![c] = s]
    /\ away' = [away EXCEPT ![s] = 0]
    /\ UNCHANGED <<registry, used, doomed, processVars, pc, closing, ready, timer>>

(* The initialized notification.                                           *)
Initialized(c) ==
    /\ pc[c] = "run" /\ handle[c] # None /\ ~ready[c]
    /\ current[handle[c]] = c
    /\ ready' = [ready EXCEPT ![c] = TRUE]
    /\ UNCHANGED <<sessionVars, processVars, pc, handle, closing, timer>>

-----------------------------------------------------------------------------
(* exec: the loop of run_connection waits inside start_process.  A process *)
(* id in use, by a running process or a start that was cut off, is         *)
(* refused.                                                                *)
Exec(c) ==
    /\ pc[c] = "run" /\ ready[c] /\ current[handle[c]] = c
    /\ entry[handle[c]] = "none"
    /\ entry' = [entry EXCEPT ![handle[c]] = "starting"]
    /\ pc' = [pc EXCEPT ![c] = "starting"]
    /\ UNCHANGED <<sessionVars, child, handle, closing, ready, timer>>

ExecStarted(c) ==
    /\ pc[c] = "starting"
    /\ entry' = [entry EXCEPT ![handle[c]] = "running"]
    /\ child' = [child EXCEPT ![handle[c]] = TRUE]
    /\ pc' = [pc EXCEPT ![c] = "run"]
    /\ UNCHANGED <<sessionVars, handle, closing, ready, timer>>

ExecFailed(c) ==
    /\ pc[c] = "starting"
    /\ entry' = [entry EXCEPT ![handle[c]] = "none"]
    /\ pc' = [pc EXCEPT ![c] = "run"]
    /\ UNCHANGED <<sessionVars, child, handle, closing, ready, timer>>

(* The child ends and, EXITED_PROCESS_RETENTION later, its entry goes.     *)
ChildEnds(s) ==
    /\ child[s]
    /\ child' = [child EXCEPT ![s] = FALSE]
    /\ UNCHANGED <<sessionVars, entry, connVars>>

RemoveExited(s) ==
    /\ entry[s] = "running" /\ ~child[s]
    /\ entry' = [entry EXCEPT ![s] = "none"]
    /\ UNCHANGED <<sessionVars, child, connVars>>

-----------------------------------------------------------------------------
(* The transport is lost: the request being handled is dropped as it       *)
(* stands, an exec before its child runs, an initialize before it has shut *)
(* down the expired session it took; the handler is shut down.             *)
AfterLoss(c) == IF handle[c] = None THEN "end" ELSE "detach"

Disconnect(c) ==
    /\ pc[c] \in {"run", "starting", "closing"}
    /\ pc' = [pc EXCEPT ![c] = AfterLoss(c)]
    /\ UNCHANGED <<sessionVars, processVars, handle, closing, ready, timer>>

(* SessionHandle::detach, step one: the session loses its connection.      *)
(* (Mutant: the deadline is one tick after the expiry task wakes up.)      *)
DetachLate(c) ==
    /\ pc[c] = "detach"
    /\ LET s == handle[c]
       IN  IF current[s] # c
             THEN /\ pc' = [pc EXCEPT ![c] = "end"]
                  /\ UNCHANGED <<current, detached, expires, away>>
             ELSE /\ current' = [current EXCEPT ![s] = None]
                  /\ detached' = [detached EXCEPT ![s] = c]
                  /\ expires' = [expires EXCEPT ![s] = TTL + 1]
                  /\ away' = [away EXCEPT ![s] = 0]
                  /\ pc' = [pc EXCEPT ![c] = "clear"]
    /\ UNCHANGED <<registry, used, sender, doomed, processVars, handle, closing, ready,
                   timer>>

Detach(c) ==
    /\ pc[c] = "detach"
    /\ LET s == handle[c]
       IN  IF current[s] # c
             THEN /\ pc' = [pc EXCEPT ![c] = "end"]
                  /\ UNCHANGED <<current, detached, expires, away>>
             ELSE /\ current' = [current EXCEPT ![s] = None]
                  /\ detached' = [detached EXCEPT ![s] = c]
                  /\ expires' = [expires EXCEPT ![s] = TTL]
                  /\ away' = [away EXCEPT ![s] = 0]
                  /\ pc' = [pc EXCEPT ![c] = "clear"]
    /\ UNCHANGED <<registry, used, sender, doomed, processVars, handle, closing, ready,
                   timer>>

(* Step two: the notification sender goes.  The two steps hold no common   *)
(* lock.                                                                   *)
ClearSender(c) ==
    /\ pc[c] = "clear"
    /\ sender' = [sender EXCEPT ![handle[c]] = None]
    /\ pc' = [pc EXCEPT ![c] = "spawn"]
    /\ UNCHANGED <<registry, used, current, detached, expires, doomed, away, processVars,
                   handle, closing, ready, timer>>

(* Step three: the expiry task is spawned.                                 *)
SpawnExpiry(c) ==
    /\ pc[c] = "spawn"
    /\ timer' = [timer EXCEPT ![c] = TTL]
    /\ pc' = [pc EXCEPT ![c] = "end"]
    /\ UNCHANGED <<sessionVars, processVars, handle, closing, ready>>

(* expire_if_detached wakes up: the session goes if it is still detached   *)
(* from this connection and its deadline has passed.                       *)
(* (Mutant: the deadline is not checked.)                                  *)
ExpiryDueUnchecked(c, s) == s \in registry /\ current[s] = None
ExpiryDue(c, s) == s \in registry /\ current[s] = None /\ detached[s] = c /\ expires[s] = 0

ExpireIfDetached(c) ==
    /\ timer[c] = 0
    /\ timer' = [timer EXCEPT ![c] = -1]
    /\ LET s == handle[c]
       IN  IF ExpiryDue(c, s)
             THEN registry' = registry \ {s} /\ doomed' = doomed \cup {s}
             ELSE UNCHANGED <<registry, doomed>>
    /\ UNCHANGED <<used, current, detached, expires, sender, away, processVars, pc, handle,
                   closing, ready>>

(* The expiry task shuts down the session it removed: the process map is   *)
(* drained and its running child terminated.  Nobody drops this task.      *)
(* (Mutant: it is only drained.)                                           *)
ShutdownDrains(s) ==
    /\ s \in doomed
    /\ doomed' = doomed \ {s}
    /\ entry' = [entry EXCEPT ![s] = "none"]
    /\ UNCHANGED <<registry, used, current, detached, expires, sender, away, child,
                   connVars>>

Shutdown(s) ==
    /\ s \in doomed
    /\ doomed' = doomed \ {s}
    /\ entry' = [entry EXCEPT ![s] = "none"]
    /\ child' = [child EXCEPT ![s] = FALSE]
    /\ UNCHANGED <<registry, used, current, detached, expires, sender, away, connVars>>

Less(n) == IF n > 0 THEN n - 1 ELSE n

(* Time passes.                                                            *)
Tick ==
    /\ \/ \E s \in Session : expires[s] > 0
       \/ \E c \in Conn : timer[c] > 0
    /\ expires' = [s \in Session |-> Less(expires[s])]
    /\ timer' = [c \in Conn |-> Less(timer[c])]
    /\ away' = [s \in Session |-> IF s \in registry /\ current[s] = None /\ away[s] < TTL
                                  THEN away[s] + 1 ELSE away[s]]
    /\ UNCHANGED <<registry, used, current, detached, sender, doomed, processVars, pc,
                   handle, closing, ready>>

-----------------------------------------------------------------------------
ConnNext(c) ==
    \/ Connect(c) \/ Initialized(c) \/ Exec(c) \/ ExecStarted(c) \/ ExecFailed(c)
    \/ Disconnect(c) \/ Detach(c) \/ ClearSender(c) \/ SpawnExpiry(c) \/ ExpireIfDetached(c)
    \/ AttachShutdown(c)
    \/ \E s \in Session : AttachNew(c, s) \/ AttachExpired(c, s) \/ AttachResume(c, s)

Next ==
    \/ \E c \in Conn : ConnNext(c)
    \/ \E s \in Session : ChildEnds(s) \/ RemoveExited(s) \/ Shutdown(s)
    \/ Tick

Spec == Init /\ [][Next]_vars

(* Detaching, the expiry tasks and shutdowns run to their end (that of an  *)
(* attach unless its client is lost) and time passes; clients, children    *)
(* and transports do as they like.                                         *)
FairSpec ==
    /\ Spec
    /\ \A c \in Conn : WF_vars(Detach(c) \/ ClearSender(c) \/ SpawnExpiry(c))
    /\ \A c \in Conn : WF_vars(ExpireIfDetached(c))
    /\ \A c \in Conn : WF_vars(AttachShutdown(c))
    /\ \A s \in Session : WF_vars(Shutdown(s))
    /\ WF_vars(Tick)

-----------------------------------------------------------------------------
(* Type invariant.                                                         *)
SessionsTypeOK ==
    /\ registry \subseteq used /\ used \subseteq Session /\ doomed \subseteq used
    /\ current \in [Session -> Conn \cup {None}]
    /\ detached \in [Session -> Conn \cup {None}]
    /\ sender \in [Session -> Conn \cup {None}]
    /\ expires \in [Session -> -1..TTL] /\ away \in [Session -> 0..TTL]
    /\ entry \in [Session -> {"none", "starting", "running"}]
    /\ child \in [Session -> BOOLEAN]
    /\ pc \in [Conn -> {"idle", "run", "starting", "closing", "detach", "clear", "spawn",
                      "end"}]
    /\ handle \in [Conn -> Session \cup {None}]
    /\ closing \in [Conn -> used \cup {None}]
    /\ ready \in [Conn -> BOOLEAN] /\ timer \in [Conn -> -1..TTL]

(* A connection keeps its session for as long as its loop runs: neither a  *)
(* resume nor an expiry takes it away, so the "evicted after session       *)
(* resume" exit of run_connection is never taken (attach, processor.rs).   *)
SoleOwner ==
    \A c \in Conn : pc[c] \in {"run", "starting", "detach"} /\ handle[c] # None =>
        handle[c] \in registry /\ current[handle[c]] = c

(* Who will still terminate the child of a session: clients reach it       *)
(* through the map, or its shutdown is under way ...                       *)
BeingShut(s) == s \in doomed \/ \E c \in Conn : pc[c] = "closing" /\ closing[c] = s

(* ... and nobody, once the client that found it expired is lost before    *)
(* the shutdown its initialize waits for has run.                          *)
Abandoned(s) == \E c \in Conn : pc[c] = "end" /\ closing[c] = s

(* A child is alive only in a session that a client can still reach or     *)
(* that is being shut down.  A start in progress, a detach, an expiry or a *)
(* resumption, in any order, leaves no process that nobody will terminate; *)
(* the one thing that does is a client lost in the middle of the           *)
(* initialize that found the session expired (attach, session_registry.rs; *)
(* shutdown, local_process.rs; the select in run_connection).              *)
NoOrphanChild ==
    \A s \in Session : child[s] => s \in registry \/ BeingShut(s) \/ Abandoned(s)

(* A session is taken out of the map only after it has been without a      *)
(* connection for the whole TTL: the timer of an earlier loss never cuts   *)
(* short the time that a later loss grants (is_detached_connection_expired,*)
(* session_registry.rs).                                                   *)
ExpiresInFull ==
    [][\A s \in registry \ registry' : current[s] = None /\ away[s] = TTL]_vars

(* A session whose connection is gone is resumed or removed, and its child *)
(* with it unless the client that found it expired was lost before the     *)
(* shutdown (expire_if_detached and attach, session_registry.rs).          *)
EventuallyReaped ==
    \A s \in Session :
        s \in registry /\ current[s] = None
            ~> \/ current[s] # None
               \/ s \notin registry /\ (~child[s] \/ Abandoned(s))
=============================================================================
