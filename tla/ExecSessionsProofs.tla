-------------------------- MODULE ExecSessionsProofs --------------------------
(***************************************************************************)
(* Proofs about ExecSessions, for any number of connections and sessions   *)
(* and any TTL: a connection is the sole owner of its session while its    *)
(* loop runs, no child is left without somebody to terminate it unless a   *)
(* client is lost while it shuts an expired session down, and a session is *)
(* expired only after the whole TTL.                                       *)
(***************************************************************************)
EXTENDS ExecSessions, TLAPS

(* Who has a session: a connection that was initialized, one that waits    *)
(* for a start or leaves its session, and the expiry task it leaves behind.*)
HandlesKnown ==
    \A c \in Conn :
        /\ handle[c] # None => handle[c] \in used /\ pc[c] # "idle"
        /\ ready[c] \/ pc[c] \in {"starting", "detach", "clear", "spawn"} \/ timer[c] # -1
             => handle[c] # None

(* The clock of a session runs only while it has no connection, and        *)
(* deadline and absence add up to the TTL.                                 *)
ClockRuns ==
    /\ \A s \in registry : expires[s] # -1 => current[s] = None /\ away[s] + expires[s] = TTL
    /\ \A s \in Session : s \notin used => expires[s] = -1 /\ current[s] = None

(* A connection that shuts down an expired session has none of its own.    *)
ClosersKnown ==
    \A c \in Conn : pc[c] = "closing" => handle[c] = None /\ closing[c] \in Session

SessionsInv ==
    /\ SessionsTypeOK /\ HandlesKnown /\ ClosersKnown /\ ClockRuns /\ SoleOwner
    /\ NoOrphanChild

-----------------------------------------------------------------------------
LEMMA SessionsInit == Init => SessionsInv
<1> SUFFICES ASSUME Init PROVE SessionsInv
  OBVIOUS
<1>1. SessionsTypeOK
  BY TTLAssumption DEF Init, SessionsTypeOK
<1>2. HandlesKnown /\ ClosersKnown /\ ClockRuns /\ SoleOwner /\ NoOrphanChild
  BY DEF Init, HandlesKnown, ClosersKnown, ClockRuns, SoleOwner, NoOrphanChild
<1> QED BY <1>1, <1>2 DEF SessionsInv

\* A connection that begins has no session yet.
LEMMA ConnectKeeps ==
    ASSUME SessionsInv, NEW c \in Conn, Connect(c)
    PROVE  SessionsInv'
<1>1. SessionsTypeOK'
  BY DEF Connect, SessionsInv, sessionVars, processVars, SessionsTypeOK
<1>2. HandlesKnown'
  BY DEF Connect, SessionsInv, sessionVars, HandlesKnown
<1>3. SoleOwner'
  BY DEF Connect, SessionsInv, sessionVars, HandlesKnown, SoleOwner
<1>4. ClockRuns' /\ NoOrphanChild'
  BY DEF Connect, SessionsInv, sessionVars, processVars, ClockRuns, NoOrphanChild, BeingShut,
     Abandoned
<1>5. ClosersKnown'
  BY DEF Connect, SessionsInv, SessionsTypeOK, sessionVars, connVars, ClosersKnown
<1> QED BY <1>1, <1>2, <1>3, <1>4, <1>5 DEF SessionsInv

\* A session id that was never used has no clock, no connection and no child.
LEMMA AttachNewKeeps ==
    ASSUME SessionsInv, NEW c \in Conn, NEW s \in Session, AttachNew(c, s)
    PROVE  SessionsInv'
<1>1. SessionsTypeOK'
  BY DEF AttachNew, SessionsInv, processVars, SessionsTypeOK
<1>2. HandlesKnown'
  BY DEF AttachNew, SessionsInv, HandlesKnown
<1>3. ClockRuns'
  BY DEF AttachNew, SessionsInv, ClockRuns
<1>4. SoleOwner'
  BY DEF AttachNew, SessionsInv, SessionsTypeOK, SoleOwner
<1>5. NoOrphanChild'
  BY DEF AttachNew, SessionsInv, processVars, NoOrphanChild, BeingShut, Abandoned
<1>6. ClosersKnown'
  BY DEF AttachNew, SessionsInv, SessionsTypeOK, sessionVars, connVars, ClosersKnown
<1> QED BY <1>1, <1>2, <1>3, <1>4, <1>5, <1>6 DEF SessionsInv

\* A session whose deadline has passed has no connection that could lose it.
LEMMA AttachExpiredKeeps ==
    ASSUME SessionsInv, NEW c \in Conn, NEW s \in Session, AttachExpired(c, s)
    PROVE  SessionsInv'
<1>1. SessionsTypeOK'
  BY DEF AttachExpired, SessionsInv, processVars, connVars, SessionsTypeOK
<1>2. ClockRuns'
  BY DEF AttachExpired, SessionsInv, ClockRuns
<1>3. SoleOwner'
  BY NoneAssumption DEF AttachExpired, SessionsInv, connVars, SoleOwner, ClockRuns
<1>4. NoOrphanChild'
  BY DEF AttachExpired, SessionsInv, SessionsTypeOK, processVars, NoOrphanChild, BeingShut,
     Abandoned
<1>5. HandlesKnown'
  BY DEF AttachExpired, SessionsInv, connVars, HandlesKnown
<1>6. ClosersKnown'
  BY DEF AttachExpired, SessionsInv, SessionsTypeOK, sessionVars, connVars, ClosersKnown
<1> QED BY <1>1, <1>2, <1>3, <1>4, <1>5, <1>6 DEF SessionsInv

\* The child of the session the request shuts down is terminated with it.
LEMMA AttachShutdownKeeps ==
    ASSUME SessionsInv, NEW c \in Conn, AttachShutdown(c)
    PROVE  SessionsInv'
<1>1. SessionsTypeOK'
  BY DEF AttachShutdown, SessionsInv, sessionVars, SessionsTypeOK
<1>2. HandlesKnown'
  BY DEF AttachShutdown, SessionsInv, sessionVars, HandlesKnown
<1>3. SoleOwner'
  BY DEF AttachShutdown, SessionsInv, SessionsTypeOK, sessionVars, ClosersKnown, SoleOwner
<1>4. NoOrphanChild'
  BY NoneAssumption DEF AttachShutdown, SessionsInv, SessionsTypeOK, sessionVars,
     ClosersKnown, NoOrphanChild, BeingShut, Abandoned
<1>5. ClockRuns'
  BY DEF AttachShutdown, SessionsInv, sessionVars, ClockRuns
<1>6. ClosersKnown'
  BY DEF AttachShutdown, SessionsInv, SessionsTypeOK, ClosersKnown
<1> QED BY <1>1, <1>2, <1>3, <1>4, <1>5, <1>6 DEF SessionsInv

\* The session had no connection, so nobody loses it.
LEMMA AttachResumeKeeps ==
    ASSUME SessionsInv, NEW c \in Conn, NEW s \in Session, AttachResume(c, s)
    PROVE  SessionsInv'
<1>1. SessionsTypeOK'
  BY TTLAssumption DEF AttachResume, SessionsInv, processVars, SessionsTypeOK
<1>2. HandlesKnown'
  BY DEF AttachResume, SessionsInv, SessionsTypeOK, HandlesKnown, Resumable
<1>3. ClockRuns'
  BY DEF AttachResume, SessionsInv, SessionsTypeOK, ClockRuns, Resumable
<1>4. SoleOwner'
  BY NoneAssumption DEF AttachResume, SessionsInv, SessionsTypeOK, SoleOwner, Resumable
<1>5. NoOrphanChild'
  BY DEF AttachResume, SessionsInv, processVars, NoOrphanChild, BeingShut, Abandoned
<1>6. ClosersKnown'
  BY DEF AttachResume, SessionsInv, SessionsTypeOK, sessionVars, connVars, ClosersKnown
<1> QED BY <1>1, <1>2, <1>3, <1>4, <1>5, <1>6 DEF SessionsInv

LEMMA InitializedKeeps ==
    ASSUME SessionsInv, NEW c \in Conn, Initialized(c)
    PROVE  SessionsInv'
<1>1. SessionsTypeOK'
  BY DEF Initialized, SessionsInv, sessionVars, processVars, SessionsTypeOK
<1>2. HandlesKnown'
  BY DEF Initialized, SessionsInv, sessionVars, HandlesKnown
<1>3. ClockRuns' /\ SoleOwner' /\ NoOrphanChild'
  BY DEF Initialized, SessionsInv, sessionVars, processVars, ClockRuns, SoleOwner,
     NoOrphanChild, BeingShut, Abandoned
<1>4. ClosersKnown'
  BY DEF Initialized, SessionsInv, SessionsTypeOK, sessionVars, connVars, ClosersKnown
<1> QED BY <1>1, <1>2, <1>3, <1>4 DEF SessionsInv

LEMMA ExecKeeps ==
    ASSUME SessionsInv, NEW c \in Conn, Exec(c)
    PROVE  SessionsInv'
<1>1. SessionsTypeOK'
  BY DEF Exec, SessionsInv, sessionVars, SessionsTypeOK
<1>2. HandlesKnown'
  BY DEF Exec, SessionsInv, sessionVars, HandlesKnown
<1>3. SoleOwner'
  BY DEF Exec, SessionsInv, sessionVars, SoleOwner
<1>4. ClockRuns' /\ NoOrphanChild'
  BY DEF Exec, SessionsInv, sessionVars, ClockRuns, NoOrphanChild, BeingShut, Abandoned
<1>5. ClosersKnown'
  BY DEF Exec, SessionsInv, SessionsTypeOK, sessionVars, connVars, ClosersKnown
<1> QED BY <1>1, <1>2, <1>3, <1>4, <1>5 DEF SessionsInv

\* The connection that waits for the start still owns the session, so the new
\* child is in the map.
LEMMA ExecStartedKeeps ==
    ASSUME SessionsInv, NEW c \in Conn, ExecStarted(c)
    PROVE  SessionsInv'
<1>1. SessionsTypeOK'
  BY DEF ExecStarted, SessionsInv, sessionVars, SessionsTypeOK
<1>2. HandlesKnown'
  BY DEF ExecStarted, SessionsInv, sessionVars, HandlesKnown
<1>3. SoleOwner'
  BY DEF ExecStarted, SessionsInv, sessionVars, SoleOwner
<1>4. NoOrphanChild'
  BY NoneAssumption DEF ExecStarted, SessionsInv, sessionVars, SoleOwner, NoOrphanChild,
     BeingShut, Abandoned
<1>5. ClockRuns'
  BY DEF ExecStarted, SessionsInv, sessionVars, ClockRuns
<1>6. ClosersKnown'
  BY DEF ExecStarted, SessionsInv, SessionsTypeOK, sessionVars, connVars, ClosersKnown
<1> QED BY <1>1, <1>2, <1>3, <1>4, <1>5, <1>6 DEF SessionsInv

LEMMA ExecFailedKeeps ==
    ASSUME SessionsInv, NEW c \in Conn, ExecFailed(c)
    PROVE  SessionsInv'
<1>1. SessionsTypeOK'
  BY DEF ExecFailed, SessionsInv, sessionVars, SessionsTypeOK
<1>2. HandlesKnown'
  BY DEF ExecFailed, SessionsInv, sessionVars, HandlesKnown
<1>3. SoleOwner'
  BY DEF ExecFailed, SessionsInv, sessionVars, SoleOwner
<1>4. ClockRuns' /\ NoOrphanChild'
  BY DEF ExecFailed, SessionsInv, sessionVars, ClockRuns, NoOrphanChild, BeingShut, Abandoned
<1>5. ClosersKnown'
  BY DEF ExecFailed, SessionsInv, SessionsTypeOK, sessionVars, connVars, ClosersKnown
<1> QED BY <1>1, <1>2, <1>3, <1>4, <1>5 DEF SessionsInv

\* A loop that ends goes on to detach exactly if it has a session.
LEMMA DisconnectKeeps ==
    ASSUME SessionsInv, NEW c \in Conn, Disconnect(c)
    PROVE  SessionsInv'
<1>1. SessionsTypeOK'
  BY DEF Disconnect, SessionsInv, sessionVars, processVars, SessionsTypeOK, AfterLoss
<1>2. HandlesKnown'
  BY DEF Disconnect, SessionsInv, sessionVars, HandlesKnown, AfterLoss
<1>3. SoleOwner'
  BY DEF Disconnect, SessionsInv, sessionVars, ClosersKnown, SoleOwner, AfterLoss
<1>4. ClockRuns' /\ NoOrphanChild'
  BY DEF Disconnect, SessionsInv, SessionsTypeOK, sessionVars, processVars, ClosersKnown,
     ClockRuns, NoOrphanChild, BeingShut, Abandoned, AfterLoss
<1>5. ClosersKnown'
  BY DEF Disconnect, SessionsInv, SessionsTypeOK, ClosersKnown, AfterLoss
<1> QED BY <1>1, <1>2, <1>3, <1>4, <1>5 DEF SessionsInv

\* The connection that leaves is the owner; its clock starts at the full TTL.
LEMMA DetachKeeps ==
    ASSUME SessionsInv, NEW c \in Conn, Detach(c)
    PROVE  SessionsInv'
<1>1. SessionsTypeOK'
  BY TTLAssumption DEF Detach, SessionsInv, processVars, SessionsTypeOK
<1>2. HandlesKnown'
  BY DEF Detach, SessionsInv, SessionsTypeOK, HandlesKnown
<1>3. ClockRuns'
  <2> DEFINE s == handle[c]
  <2>1. s \in Session /\ s \in used /\ TTL \in Nat
    BY NoneAssumption, TTLAssumption DEF Detach, SessionsInv, SessionsTypeOK, HandlesKnown
  <2>2. CASE current[s] = c
    <3>1. /\ current' = [current EXCEPT ![s] = None] /\ expires' = [expires EXCEPT ![s] = TTL]
          /\ away' = [away EXCEPT ![s] = 0] /\ UNCHANGED <<registry, used>>
      BY <2>2 DEF Detach
    <3> QED BY <2>1, <3>1 DEF SessionsInv, SessionsTypeOK, ClockRuns
  <2>3. CASE current[s] # c
    BY <2>3 DEF Detach, SessionsInv, ClockRuns
  <2> QED BY <2>2, <2>3
<1>4. SoleOwner'
  BY DEF Detach, SessionsInv, SessionsTypeOK, SoleOwner
<1>5. NoOrphanChild'
  BY DEF Detach, SessionsInv, SessionsTypeOK, processVars, NoOrphanChild, BeingShut, Abandoned
<1>6. ClosersKnown'
  BY DEF Detach, SessionsInv, SessionsTypeOK, sessionVars, connVars, ClosersKnown
<1> QED BY <1>1, <1>2, <1>3, <1>4, <1>5, <1>6 DEF SessionsInv

LEMMA ClearSenderKeeps ==
    ASSUME SessionsInv, NEW c \in Conn, ClearSender(c)
    PROVE  SessionsInv'
<1>1. SessionsTypeOK'
  BY DEF ClearSender, SessionsInv, processVars, SessionsTypeOK
<1>2. HandlesKnown'
  BY DEF ClearSender, SessionsInv, HandlesKnown
<1>3. SoleOwner'
  BY DEF ClearSender, SessionsInv, SoleOwner
<1>4. ClockRuns' /\ NoOrphanChild'
  BY DEF ClearSender, SessionsInv, processVars, ClockRuns, NoOrphanChild, BeingShut, Abandoned
<1>5. ClosersKnown'
  BY DEF ClearSender, SessionsInv, SessionsTypeOK, sessionVars, connVars, ClosersKnown
<1> QED BY <1>1, <1>2, <1>3, <1>4, <1>5 DEF SessionsInv

LEMMA SpawnExpiryKeeps ==
    ASSUME SessionsInv, NEW c \in Conn, SpawnExpiry(c)
    PROVE  SessionsInv'
<1>1. SessionsTypeOK'
  BY TTLAssumption DEF SpawnExpiry, SessionsInv, sessionVars, processVars, SessionsTypeOK
<1>2. HandlesKnown'
  BY DEF SpawnExpiry, SessionsInv, sessionVars, HandlesKnown
<1>3. SoleOwner'
  BY DEF SpawnExpiry, SessionsInv, sessionVars, SoleOwner
<1>4. ClockRuns' /\ NoOrphanChild'
  BY DEF SpawnExpiry, SessionsInv, sessionVars, processVars, ClockRuns, NoOrphanChild,
     BeingShut, Abandoned
<1>5. ClosersKnown'
  BY DEF SpawnExpiry, SessionsInv, SessionsTypeOK, sessionVars, connVars, ClosersKnown
<1> QED BY <1>1, <1>2, <1>3, <1>4, <1>5 DEF SessionsInv

\* Only a session whose deadline has passed goes, and it has no connection.
LEMMA ExpireIfDetachedKeeps ==
    ASSUME SessionsInv, NEW c \in Conn, ExpireIfDetached(c)
    PROVE  SessionsInv'
<1>1. SessionsTypeOK'
  BY TTLAssumption DEF ExpireIfDetached, SessionsInv, processVars, SessionsTypeOK,
     HandlesKnown
<1>2. HandlesKnown'
  BY DEF ExpireIfDetached, SessionsInv, HandlesKnown
<1>3. ClockRuns'
  BY DEF ExpireIfDetached, SessionsInv, ClockRuns
<1>4. SoleOwner'
  BY NoneAssumption DEF ExpireIfDetached, SessionsInv, SoleOwner, ExpiryDue
<1>5. NoOrphanChild'
  BY DEF ExpireIfDetached, SessionsInv, processVars, NoOrphanChild, BeingShut, Abandoned
<1>6. ClosersKnown'
  BY DEF ExpireIfDetached, SessionsInv, SessionsTypeOK, sessionVars, connVars, ClosersKnown
<1> QED BY <1>1, <1>2, <1>3, <1>4, <1>5, <1>6 DEF SessionsInv

LEMMA ChildEndsKeeps ==
    ASSUME SessionsInv, NEW s \in Session, ChildEnds(s)
    PROVE  SessionsInv'
<1>1. SessionsTypeOK'
  BY DEF ChildEnds, SessionsInv, sessionVars, connVars, SessionsTypeOK
<1>2. NoOrphanChild'
  BY DEF ChildEnds, SessionsInv, SessionsTypeOK, sessionVars, connVars, NoOrphanChild,
     BeingShut, Abandoned
<1>3. HandlesKnown' /\ ClockRuns' /\ SoleOwner'
  BY DEF ChildEnds, SessionsInv, sessionVars, connVars, HandlesKnown, ClockRuns, SoleOwner
<1>4. ClosersKnown'
  BY DEF ChildEnds, SessionsInv, SessionsTypeOK, sessionVars, connVars, ClosersKnown
<1> QED BY <1>1, <1>2, <1>3, <1>4 DEF SessionsInv

LEMMA RemoveExitedKeeps ==
    ASSUME SessionsInv, NEW s \in Session, RemoveExited(s)
    PROVE  SessionsInv'
<1>1. SessionsTypeOK'
  BY DEF RemoveExited, SessionsInv, sessionVars, connVars, SessionsTypeOK
<1>2. HandlesKnown' /\ ClockRuns' /\ SoleOwner' /\ NoOrphanChild'
  BY DEF RemoveExited, SessionsInv, sessionVars, connVars, HandlesKnown, ClockRuns,
     SoleOwner, NoOrphanChild, BeingShut, Abandoned
<1>3. ClosersKnown'
  BY DEF RemoveExited, SessionsInv, SessionsTypeOK, sessionVars, connVars, ClosersKnown
<1> QED BY <1>1, <1>2, <1>3 DEF SessionsInv

\* The child of a session that is shut down is terminated with it.
LEMMA ShutdownKeeps ==
    ASSUME SessionsInv, NEW s \in Session, Shutdown(s)
    PROVE  SessionsInv'
<1>1. SessionsTypeOK'
  BY DEF Shutdown, SessionsInv, connVars, SessionsTypeOK
<1>2. NoOrphanChild'
  BY DEF Shutdown, SessionsInv, SessionsTypeOK, connVars, NoOrphanChild, BeingShut, Abandoned
<1>3. HandlesKnown' /\ ClockRuns' /\ SoleOwner'
  BY DEF Shutdown, SessionsInv, connVars, HandlesKnown, ClockRuns, SoleOwner
<1>4. ClosersKnown'
  BY DEF Shutdown, SessionsInv, SessionsTypeOK, sessionVars, connVars, ClosersKnown
<1> QED BY <1>1, <1>2, <1>3, <1>4 DEF SessionsInv

\* What the deadline loses the absence gains.
LEMMA TickKeeps ==
    ASSUME SessionsInv, Tick
    PROVE  SessionsInv'
<1>1. SessionsTypeOK'
  BY TTLAssumption DEF Tick, SessionsInv, processVars, SessionsTypeOK, Less
<1>2. HandlesKnown'
  BY DEF Tick, SessionsInv, HandlesKnown, Less
<1>3. ClockRuns'
  BY DEF Tick, SessionsInv, SessionsTypeOK, ClockRuns, Less
<1>4. SoleOwner' /\ NoOrphanChild'
  BY DEF Tick, SessionsInv, processVars, SoleOwner, NoOrphanChild, BeingShut, Abandoned
<1>5. ClosersKnown'
  BY DEF Tick, SessionsInv, SessionsTypeOK, sessionVars, connVars, ClosersKnown
<1> QED BY <1>1, <1>2, <1>3, <1>4, <1>5 DEF SessionsInv

-----------------------------------------------------------------------------
LEMMA SessionsStep == SessionsInv /\ [Next]_vars => SessionsInv'
<1> SUFFICES ASSUME SessionsInv, [Next]_vars PROVE SessionsInv'
  OBVIOUS
<1>1. ASSUME NEW c \in Conn, ConnNext(c) PROVE SessionsInv'
  BY <1>1, ConnectKeeps, AttachNewKeeps, AttachExpiredKeeps, AttachShutdownKeeps,
     AttachResumeKeeps, InitializedKeeps, ExecKeeps, ExecStartedKeeps, ExecFailedKeeps,
     DisconnectKeeps, DetachKeeps, ClearSenderKeeps, SpawnExpiryKeeps, ExpireIfDetachedKeeps
     DEF ConnNext
<1>2. ASSUME NEW s \in Session, ChildEnds(s) \/ RemoveExited(s) \/ Shutdown(s)
      PROVE  SessionsInv'
  BY <1>2, ChildEndsKeeps, RemoveExitedKeeps, ShutdownKeeps
<1>3. CASE UNCHANGED vars
  BY <1>3 DEF vars, sessionVars, processVars, connVars, SessionsInv, SessionsTypeOK,
     HandlesKnown, ClosersKnown, ClockRuns, SoleOwner, NoOrphanChild, BeingShut, Abandoned
<1> QED BY <1>1, <1>2, <1>3, TickKeeps DEF Next

(* The parts hold together: who has a session, who shuts one down, what    *)
(* its clock says and who answers for its child (session_registry.rs,      *)
(* run_connection).                                                        *)
THEOREM SessionsInductive == Spec => []SessionsInv
BY SessionsInit, SessionsStep, PTL DEF Spec

(* Types hold for every number of connections and sessions and every TTL:  *)
(* no deadline or timer runs below zero (session_registry.rs).             *)
THEOREM SessionsTypeCorrect == Spec => []SessionsTypeOK
<1>1. SessionsInv => SessionsTypeOK
  BY DEF SessionsInv
<1> QED BY <1>1, SessionsInductive, PTL

(* A connection keeps its session while its loop runs, however many        *)
(* clients try to resume it and however late expiry tasks wake up (attach  *)
(* and expire_if_detached, session_registry.rs).                           *)
THEOREM OwnersAreSole == Spec => []SoleOwner
<1>1. SessionsInv => SoleOwner
  BY DEF SessionsInv
<1> QED BY <1>1, SessionsInductive, PTL

(* A start that finishes after a loss, an expiry or a shutdown leaves no   *)
(* child that nobody will terminate; only a client lost while its          *)
(* initialize shuts down the expired session it asked for does             *)
(* (start_process and shutdown, local_process.rs; attach,                  *)
(* session_registry.rs).                                                   *)
THEOREM ChildrenAreReachable == Spec => []NoOrphanChild
<1>1. SessionsInv => NoOrphanChild
  BY DEF SessionsInv
<1> QED BY <1>1, SessionsInductive, PTL

-----------------------------------------------------------------------------
(* Which steps take a session out of the map.                              *)
LEMMA RemovalSteps ==
    ASSUME SessionsInv, [Next]_vars, NEW s \in registry \ registry'
    PROVE  expires[s] = 0
<1>1. ASSUME NEW c \in Conn, NEW q \in Session, AttachExpired(c, q) PROVE expires[s] = 0
  BY <1>1 DEF AttachExpired
<1>2. ASSUME NEW c \in Conn, ExpireIfDetached(c) PROVE expires[s] = 0
  BY <1>2 DEF ExpireIfDetached, ExpiryDue
<1>3. ASSUME NEW c \in Conn, NEW q \in Session, AttachNew(c, q) PROVE FALSE
  BY <1>3 DEF AttachNew
<1> QED
  BY <1>1, <1>2, <1>3 DEF Next, vars, sessionVars, ConnNext, Connect, AttachResume,
     Initialized, Exec, ExecStarted, ExecFailed, AttachShutdown, Disconnect, Detach,
     ClearSender, SpawnExpiry, ChildEnds, RemoveExited, Shutdown, Tick

(* A session is taken out of the map only after it was without a           *)
(* connection for the whole TTL, whatever timers of earlier losses are     *)
(* still pending (is_detached_connection_expired, session_registry.rs).    *)
THEOREM SessionsExpireInFull == Spec => ExpiresInFull
<1>1. ASSUME SessionsInv, [Next]_vars
      PROVE  \A s \in registry \ registry' : current[s] = None /\ away[s] = TTL
  <2> SUFFICES ASSUME NEW s \in registry \ registry'
               PROVE  current[s] = None /\ away[s] = TTL
    OBVIOUS
  <2>1. expires[s] = 0
    BY <1>1, RemovalSteps
  <2>2. current[s] = None /\ away[s] + expires[s] = TTL
    BY <1>1, <2>1 DEF SessionsInv, ClockRuns
  <2>3. away[s] \in Nat
    BY <1>1 DEF SessionsInv, SessionsTypeOK
  <2> QED BY <2>1, <2>2, <2>3
<1>2. SessionsInv /\ [Next]_vars
        => [\A s \in registry \ registry' : current[s] = None /\ away[s] = TTL]_vars
  BY <1>1
<1> QED BY <1>2, SessionsInductive, PTL DEF Spec, ExpiresInFull

-----------------------------------------------------------------------------
(* Who removes a session that nobody resumes.                              *)

(* A session without a connection is watched by the connection that left   *)
(* it last: that one is about to spawn its expiry task, or the task sleeps *)
(* at least until the deadline, so that the deadline has passed when it    *)
(* looks.  No task of an earlier loss stands in for it.                    *)
Watches(c, s) ==
    /\ c \in Conn /\ handle[c] = s
    /\ pc[c] \in {"clear", "spawn"} \/ (pc[c] = "end" /\ timer[c] >= expires[s])

ExpiryArmed ==
    \A s \in registry : current[s] = None => expires[s] >= 0 /\ Watches(detached[s], s)

(* An expiry task is that of a connection that has ended.                  *)
TimersLate == \A c \in Conn : timer[c] # -1 => pc[c] = "end"

ArmedInv == SessionsInv /\ TimersLate /\ ExpiryArmed

\* A step that changes neither the sessions nor who waits for them.
LEMMA SameWatch ==
    ASSUME ArmedInv, UNCHANGED <<registry, current, detached, expires, timer>>,
           \A c \in Conn : /\ handle[c] # None => handle'[c] = handle[c]
                           /\ pc[c] \in {"clear", "spawn", "end"} => pc'[c] = pc[c]
    PROVE  TimersLate' /\ ExpiryArmed'
<1>1. TimersLate'
  BY DEF ArmedInv, TimersLate
<1>2. ExpiryArmed'
  BY NoneAssumption DEF ArmedInv, SessionsInv, SessionsTypeOK, ExpiryArmed, Watches
<1> QED BY <1>1, <1>2

\* A session gets a connection.
LEMMA AttachArmed ==
    ASSUME ArmedInv, NEW c \in Conn, NEW s \in Session, AttachNew(c, s) \/ AttachResume(c, s)
    PROVE  TimersLate' /\ ExpiryArmed'
<1>1. TimersLate'
  BY DEF ArmedInv, TimersLate, AttachNew, AttachResume
<1>2. current' = [current EXCEPT ![s] = c] /\ handle' = [handle EXCEPT ![c] = s]
  BY DEF AttachNew, AttachResume
<1>3. registry' \subseteq registry \cup {s} /\ pc[c] = "run" /\ UNCHANGED <<pc, timer>>
  BY DEF AttachNew, AttachResume
<1>4. \A q \in Session : q # s => detached'[q] = detached[q] /\ expires'[q] = expires[q]
  BY DEF AttachNew, AttachResume, ArmedInv, SessionsInv, SessionsTypeOK
<1>5. ExpiryArmed'
  <2> SUFFICES ASSUME NEW q \in registry', current'[q] = None
               PROVE  expires'[q] >= 0 /\ Watches(detached[q], q)'
    BY DEF ExpiryArmed
  <2>1. q # s /\ q \in registry /\ q \in Session /\ current[q] = None
    BY <1>2, <1>3, NoneAssumption DEF ArmedInv, SessionsInv, SessionsTypeOK
  <2>2. expires[q] >= 0 /\ Watches(detached[q], q)
    BY <2>1 DEF ArmedInv, ExpiryArmed
  <2> QED BY <1>2, <1>3, <1>4, <2>1, <2>2 DEF Watches
<1> QED BY <1>1, <1>5

\* A session leaves the map.
LEMMA AttachExpiredArmed ==
    ASSUME ArmedInv, NEW c \in Conn, NEW s \in Session, AttachExpired(c, s)
    PROVE  TimersLate' /\ ExpiryArmed'
BY DEF AttachExpired, connVars, ArmedInv, TimersLate, ExpiryArmed, Watches

\* The connection that leaves becomes the one that watches.
LEMMA DetachArmed ==
    ASSUME ArmedInv, NEW c \in Conn, Detach(c)
    PROVE  TimersLate' /\ ExpiryArmed'
<1> DEFINE s == handle[c]
<1>1. TimersLate' /\ pc[c] = "detach" /\ UNCHANGED <<registry, handle, timer>>
  BY DEF Detach, ArmedInv, SessionsInv, SessionsTypeOK, TimersLate
<1>2. s \in Session /\ s \in registry /\ current[s] = c /\ TTL \in Nat
  BY NoneAssumption, TTLAssumption
     DEF Detach, ArmedInv, SessionsInv, SessionsTypeOK, HandlesKnown, SoleOwner
<1>3. /\ current' = [current EXCEPT ![s] = None] /\ detached' = [detached EXCEPT ![s] = c]
      /\ expires' = [expires EXCEPT ![s] = TTL] /\ pc' = [pc EXCEPT ![c] = "clear"]
  BY <1>2 DEF Detach
<1>4. ExpiryArmed'
  <2> SUFFICES ASSUME NEW q \in registry', current'[q] = None
               PROVE  expires'[q] >= 0 /\ Watches(detached[q], q)'
    BY DEF ExpiryArmed
  <2>1. q \in registry /\ q \in Session /\ pc'[c] = "clear"
    BY <1>1, <1>3 DEF ArmedInv, SessionsInv, SessionsTypeOK
  <2>2. CASE q = s
    BY <1>1, <1>2, <1>3, <2>1, <2>2 DEF Watches, ArmedInv, SessionsInv, SessionsTypeOK
  <2>3. CASE q # s
    <3>1. current[q] = None /\ detached'[q] = detached[q] /\ expires'[q] = expires[q]
      BY <1>3, <2>1, <2>3 DEF ArmedInv, SessionsInv, SessionsTypeOK
    <3>2. expires[q] >= 0 /\ Watches(detached[q], q) /\ detached[q] # c
      BY <2>1, <2>3, <3>1 DEF ArmedInv, ExpiryArmed, Watches
    <3> QED BY <1>1, <1>3, <3>1, <3>2 DEF Watches
  <2> QED BY <2>2, <2>3
<1> QED BY <1>1, <1>4

\* The expiry task sleeps for the TTL, and the deadline is no later.
LEMMA LeaveArmed ==
    ASSUME ArmedInv, NEW c \in Conn, ClearSender(c) \/ SpawnExpiry(c)
    PROVE  TimersLate' /\ ExpiryArmed'
<1>1. \A s \in Session : expires[s] \in Int /\ expires[s] <= TTL
  BY TTLAssumption DEF ArmedInv, SessionsInv, SessionsTypeOK
<1>2. CASE ClearSender(c)
  BY <1>2 DEF ClearSender, ArmedInv, SessionsInv, SessionsTypeOK, TimersLate, ExpiryArmed, Watches
<1>3. CASE SpawnExpiry(c)
  <2>1. /\ timer' = [timer EXCEPT ![c] = TTL] /\ pc' = [pc EXCEPT ![c] = "end"]
        /\ UNCHANGED <<registry, current, detached, expires, handle>>
    BY <1>3 DEF SpawnExpiry, sessionVars
  <2>2. TimersLate'
    BY <2>1 DEF ArmedInv, SessionsInv, SessionsTypeOK, TimersLate
  <2>3. ExpiryArmed'
    <3> SUFFICES ASSUME NEW q \in registry, current[q] = None
                 PROVE  expires[q] >= 0 /\ Watches(detached[q], q)'
      BY <2>1 DEF ExpiryArmed, Watches
    <3>1. expires[q] >= 0 /\ Watches(detached[q], q) /\ q \in Session
      BY DEF ArmedInv, ExpiryArmed, SessionsInv, SessionsTypeOK
    <3> QED BY <1>1, <2>1, <3>1 DEF Watches, ArmedInv, SessionsInv, SessionsTypeOK
  <2> QED BY <2>2, <2>3
<1> QED BY <1>2, <1>3

\* A task that wakes up and is the one that watches finds the deadline passed.
LEMMA ExpireArmed ==
    ASSUME ArmedInv, NEW c \in Conn, ExpireIfDetached(c)
    PROVE  TimersLate' /\ ExpiryArmed'
<1> DEFINE s == handle[c]
<1>1. TimersLate' /\ timer[c] = 0 /\ pc[c] = "end" /\ UNCHANGED <<current, detached, expires, pc, handle>>
  BY DEF ExpireIfDetached, ArmedInv, SessionsInv, SessionsTypeOK, TimersLate
<1>2. ExpiryArmed'
  <2> SUFFICES ASSUME NEW q \in registry', current[q] = None
               PROVE  expires[q] >= 0 /\ Watches(detached[q], q)'
    BY <1>1 DEF ExpiryArmed, Watches
  <2>1. q \in registry /\ q \in Session /\ expires[q] \in Int
    BY TTLAssumption DEF ExpireIfDetached, ArmedInv, SessionsInv, SessionsTypeOK
  <2>2. expires[q] >= 0 /\ Watches(detached[q], q)
    BY <2>1 DEF ArmedInv, ExpiryArmed
  <2>3. CASE detached[q] = c
    <3>1. q = s /\ expires[q] = 0
      BY <1>1, <2>1, <2>2, <2>3 DEF Watches
    <3>2. ExpiryDue(c, q)
      BY <2>1, <2>3, <3>1 DEF ExpiryDue
    <3> QED BY <3>1, <3>2 DEF ExpireIfDetached
  <2>4. CASE detached[q] # c
    BY <1>1, <2>2, <2>4 DEF Watches, ExpireIfDetached
  <2> QED BY <2>3, <2>4
<1> QED BY <1>1, <1>2

\* Deadlines and sleeps lose the same tick.
LEMMA TickArmed ==
    ASSUME ArmedInv, Tick
    PROVE  TimersLate' /\ ExpiryArmed'
<1>1. \A s \in Session : expires[s] \in Int /\ expires'[s] = Less(expires[s])
  BY TTLAssumption DEF Tick, ArmedInv, SessionsInv, SessionsTypeOK
<1>2. \A c \in Conn : timer[c] \in Int /\ timer'[c] = Less(timer[c])
  BY TTLAssumption DEF Tick, ArmedInv, SessionsInv, SessionsTypeOK
<1>3. UNCHANGED <<registry, current, detached, pc, handle>>
  BY DEF Tick
<1>4. TimersLate'
  BY <1>2, <1>3 DEF ArmedInv, TimersLate, Less
<1>5. ExpiryArmed'
  <2> SUFFICES ASSUME NEW q \in registry, current[q] = None
               PROVE  expires'[q] >= 0 /\ Watches(detached[q], q)'
    BY <1>3 DEF ExpiryArmed, Watches
  <2>1. expires[q] >= 0 /\ Watches(detached[q], q) /\ q \in Session
    BY DEF ArmedInv, ExpiryArmed, SessionsInv, SessionsTypeOK
  <2> QED BY <1>1, <1>2, <1>3, <2>1 DEF Watches, Less
<1> QED BY <1>4, <1>5

(* However losses, resumptions and late expiry tasks interleave, a session *)
(* that nobody holds has its expiry task, and that task will find it       *)
(* expired: none stays in the map for ever (detach and expire_if_detached, *)
(* session_registry.rs).  EventuallyReaped follows as time passes.         *)
THEOREM LossesAreTimed == Spec => []ExpiryArmed
<1>1. Init => ArmedInv
  BY SessionsInit DEF Init, ArmedInv, TimersLate, ExpiryArmed
<1>2. ArmedInv /\ [Next]_vars => ArmedInv'
  <2> SUFFICES ASSUME ArmedInv, [Next]_vars PROVE TimersLate' /\ ExpiryArmed'
    BY SessionsStep DEF ArmedInv
  <2>1. ASSUME NEW c \in Conn,
               Connect(c) \/ Initialized(c) \/ Exec(c) \/ ExecStarted(c) \/ ExecFailed(c)
                 \/ AttachShutdown(c) \/ Disconnect(c)
        PROVE  TimersLate' /\ ExpiryArmed'
    <3>1. UNCHANGED <<registry, current, detached, expires, timer, handle>>
      BY <2>1 DEF Connect, Initialized, Exec, ExecStarted, ExecFailed, AttachShutdown,
         Disconnect, sessionVars
    <3>2. \A d \in Conn : pc[d] \in {"clear", "spawn", "end"} => pc'[d] = pc[d]
      BY <2>1 DEF Connect, Initialized, Exec, ExecStarted, ExecFailed, AttachShutdown,
         Disconnect, ArmedInv, SessionsInv, SessionsTypeOK
    <3> QED BY <3>1, <3>2, SameWatch
  <2>2. ASSUME NEW s \in Session, ChildEnds(s) \/ RemoveExited(s) \/ Shutdown(s)
        PROVE  TimersLate' /\ ExpiryArmed'
    BY <2>2, SameWatch DEF ChildEnds, RemoveExited, Shutdown, sessionVars, connVars
  <2>3. CASE UNCHANGED vars
    BY <2>3, SameWatch DEF vars, sessionVars, connVars
  <2> QED BY <2>1, <2>2, <2>3, AttachArmed, AttachExpiredArmed, DetachArmed, LeaveArmed,
             ExpireArmed, TickArmed DEF Next, ConnNext
<1>3. ArmedInv => ExpiryArmed
  BY DEF ArmedInv
<1> QED BY <1>1, <1>2, <1>3, PTL DEF Spec
=============================================================================
