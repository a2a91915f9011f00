------------------------------ MODULE ExecStream ------------------------------
(***************************************************************************)
(* One process run by the exec server for one client over one JSON-RPC     *)
(* connection: the server tasks that number the process's events and       *)
(* notify the client, the handler of the requests that start and read it,  *)
(* the connection with its loss and with messages that do not parse, the   *)
(* client's RPC reader and notification reader, the session that publishes *)
(* events in sequence order, and the task that consumes the output.        *)
(*                                                                         *)
(* Source: exec-server/src/{local_process,rpc,connection,client,           *)
(* remote_process}.rs and the output task of core/src/unified_exec/        *)
(* process.rs.                                                             *)
(***************************************************************************)
EXTENDS Integers, Sequences, FiniteSets

CONSTANTS
    Stdout, Stderr,   \* the two stream_output tasks
    Exit,             \* the watch_exit task
    MaxOutput,        \* bound: chunks the child writes in all, fewer than fill
                      \* RETAINED_OUTPUT_BYTES_PER_PROCESS
    Faults            \* what can go wrong with the connection

Stream == {Stdout, Stderr}
Task == Stream \cup {Exit}

ASSUME TaskAssumption == Cardinality(Task) = 3
ASSUME BoundsAssumption == MaxOutput \in Nat
ASSUME FaultsAssumption == Faults \subseteq {"cut", "malformed"}

VARIABLES
    (* Server *)
    entry,        \* the process map's entry: "none", "starting", "running"
    log,          \* kind of every event numbered so far; the index is the seq
    exited,       \* exit_code is set
    openStreams,  \* open_streams
    task,         \* per task: pc and the seq of the notification in hand
    request,      \* the request under way to, or being handled by, the server
    starting,     \* the handler is inside start_process
    (* Connection *)
    link,         \* "up" or "down"
    incoming,     \* messages to the client's RPC reader, in order
    (* Client *)
    watch,        \* disconnected_rx
    rpc,          \* RPC reader: "run", "drain", "closed", "break", "broken"
    pending,      \* the consumer's call is in the pending table
    events,       \* events on their way to the notification reader
    reader,       \* notification reader: "run", "fail", "done"
    latch,        \* Inner.disconnected is set
    route,        \* the session is registered
    lastSeq,      \* last_published_seq
    early,        \* ordered_events.pending: seqs that arrived too early
    published,    \* the session's event log: seqs, and Failed
    failure,      \* the session's failure is set
    woken,        \* wake_tx changed since the consumer last looked
    (* Consumer: the task that starts the process and reads its output *)
    call,         \* where it is in ExecServerClient::call, and the outcome
    consumer,     \* pc of the consumer
    after,        \* the consumer's after_seq
    got           \* seqs of the chunks the consumer has received

serverVars == <<entry, log, exited, openStreams, task>>
handlerVars == <<request, starting>>
linkVars == <<link, incoming>>
rpcVars == <<watch, rpc, pending>>
sessionVars == <<route, lastSeq, early, published, failure, woken>>
clientVars == <<events, reader, latch>>
consumerVars == <<consumer, after, got>>
vars == <<serverVars, handlerVars, linkVars, rpcVars, sessionVars, clientVars,
          call, consumerVars>>

Failed == 0     \* the one event without a seq
NoRequest == [op |-> "none"]
NoReply == [kind |-> "none"]
OkReply == [kind |-> "ok"]
ErrReply == [kind |-> "error"]
ClosedReply == [kind |-> "closed"]

Outputs == {n \in DOMAIN log : log[n] = "output"}
Closed == \E n \in DOMAIN log : log[n] = "closed"

Response(r) == [type |-> "response", reply |-> r]
Notification(n) == [type |-> "notification", seq |-> n]
Malformed == [type |-> "malformed"]
Disconnected == [type |-> "disconnected"]

(* A message the server puts on its outgoing channel.                      *)
Sent(m) == Append(incoming, m)

Init ==
    /\ entry = "none" /\ log = <<>> /\ exited = FALSE
    /\ openStreams = 0
    /\ task = [t \in Task |-> [pc |-> "none", seq |-> 0]]
    /\ request = NoRequest /\ starting = FALSE
    /\ link = "up" /\ incoming = <<>>
    /\ watch = FALSE /\ rpc = "run" /\ pending = FALSE
    /\ events = <<>> /\ reader = "run" /\ latch = FALSE
    /\ route = FALSE /\ lastSeq = 0 /\ early = {} /\ published = <<>>
    /\ failure = FALSE /\ woken = FALSE
    /\ call = [pc |-> "idle", reply |-> NoReply]
    /\ consumer = "register" /\ after = 0 /\ got = {}

-----------------------------------------------------------------------------
(* Server: the tasks of a running process.                                 *)

At(t, pc) == task[t].pc = pc
Goto(t, pc) == task' = [task EXCEPT ![t] = [pc |-> pc, seq |-> 0]]
Notify(t, n) == task' = [task EXCEPT ![t] = [pc |-> "notify", seq |-> n]]
NextSeq == Len(log) + 1

(* stream_output takes the next chunk; under the lock of the process map   *)
(* the chunk gets its number and is retained.                              *)
StreamChunk(s) ==
    /\ At(s, "recv")
    /\ Cardinality(Outputs) < MaxOutput
    /\ log' = Append(log, "output")
    /\ Notify(s, NextSeq)
    /\ UNCHANGED <<entry, exited, openStreams, handlerVars, linkVars, rpcVars,
                   sessionVars, clientVars, call, consumerVars>>

(* The child has closed the stream: finish_output_stream.                  *)
FinishOutputStream(s) ==
    /\ At(s, "recv")
    /\ openStreams' = openStreams - 1
    /\ Goto(s, "emit")
    /\ UNCHANGED <<entry, log, exited, handlerVars, linkVars, rpcVars, sessionVars,
                   clientVars, call, consumerVars>>

(* watch_exit learns the exit code.                                        *)
WatchExit ==
    /\ At(Exit, "recv")
    /\ log' = Append(log, "exited") /\ exited' = TRUE
    /\ Notify(Exit, NextSeq)
    /\ UNCHANGED <<entry, openStreams, handlerVars, linkVars, rpcVars,
                   sessionVars, clientVars, call, consumerVars>>

(* The notification leaves after the lock is released, so the tasks'       *)
(* notifications can overtake each other.                                  *)
AfterNotify(t) ==
    CASE log[task[t].seq] = "closed" -> "end"
      [] log[task[t].seq] = "exited" -> "emit"
      [] OTHER -> "recv"

SendNotification(t) ==
    /\ At(t, "notify")
    /\ incoming' = Sent(Notification(task[t].seq))
    /\ Goto(t, AfterNotify(t))
    /\ UNCHANGED <<entry, log, exited, openStreams, handlerVars, link,
                   rpcVars, sessionVars, clientVars, call, consumerVars>>

(* maybe_emit_closed.                                                      *)
(* Mutant: the exit alone closes.                                          *)
MayCloseOnExit == entry = "running" /\ ~Closed /\ exited
MayClose == entry = "running" /\ ~Closed /\ openStreams = 0 /\ exited

MaybeEmitClosed(t) ==
    /\ At(t, "emit")
    /\ IF MayClose
         THEN log' = Append(log, "closed") /\ Notify(t, NextSeq)
         ELSE Goto(t, "end") /\ UNCHANGED log
    /\ UNCHANGED <<entry, exited, openStreams, handlerVars, linkVars, rpcVars,
                   sessionVars, clientVars, call, consumerVars>>

(* EXITED_PROCESS_RETENTION after Closed the entry is removed.             *)
RemoveExited ==
    /\ entry = "running" /\ Closed
    /\ entry' = "none"
    /\ UNCHANGED <<log, exited, openStreams, task, handlerVars, linkVars,
                   rpcVars, sessionVars, clientVars, call, consumerVars>>

-----------------------------------------------------------------------------
(* Server: requests, handled one at a time.                                *)

Handles(op) == request.op = op /\ ~starting

Reply(r) == incoming' = Sent(Response(r)) /\ request' = NoRequest

(* start_process: the entry is Starting ...                                *)
StartProcess ==
    /\ Handles("exec")
    /\ entry' = "starting" /\ starting' = TRUE
    /\ UNCHANGED <<log, exited, openStreams, task, request, linkVars, rpcVars, sessionVars,
                   clientVars, call, consumerVars>>

(* ... until the child is spawned and its three tasks are started ...      *)
ProcessStarted ==
    /\ starting
    /\ entry' = "running" /\ openStreams' = 2
    /\ task' = [t \in Task |-> [pc |-> "recv", seq |-> 0]]
    /\ starting' = FALSE
    /\ Reply(OkReply)
    /\ UNCHANGED <<log, exited, link, rpcVars, sessionVars, clientVars, call,
                   consumerVars>>

(* ... or the spawn fails.                                                 *)
StartFailed ==
    /\ starting
    /\ entry' = "none" /\ starting' = FALSE
    /\ Reply(ErrReply)
    /\ UNCHANGED <<log, exited, openStreams, task, link, rpcVars, sessionVars,
                   clientVars, call, consumerVars>>

(* exec_read, with no limit on the bytes and no wait as both consumers in  *)
(* the repository ask for it.                                              *)
(* Mutants: next_seq one too far; the chunk after after_seq left out.      *)
ReadReplyPastNext(n) ==
    LET chunks == {k \in Outputs : k > n}
    IN  [kind |-> "read", chunks |-> chunks, nextSeq |-> NextSeq + 1, closed |-> Closed]

ReadReplySkips(n) ==
    [kind |-> "read", chunks |-> {k \in Outputs : k > n + 1}, nextSeq |-> NextSeq,
     closed |-> Closed]

ReadReply(n) ==
    LET chunks == {k \in Outputs : k > n}
    IN  [kind |-> "read", chunks |-> chunks,
         nextSeq |-> IF chunks = {} THEN NextSeq
                     ELSE 1 + (CHOOSE k \in chunks : \A j \in chunks : j <= k),
         closed |-> Closed]

ExecRead ==
    /\ Handles("read")
    /\ Reply(IF entry = "running" THEN ReadReply(request.after) ELSE ErrReply)
    /\ UNCHANGED <<serverVars, starting, link, rpcVars, sessionVars, clientVars, call,
                   consumerVars>>

-----------------------------------------------------------------------------
(* Connection.                                                             *)

(* Bound: at most one fault in a behaviour.                                *)
NoFaultYet ==
    /\ link = "up" /\ rpc = "run"
    /\ \A i \in DOMAIN incoming : incoming[i] # Malformed

(* The transport ends: what is still under way is lost, from some point    *)
(* on, and send_disconnected sets the watch and queues Disconnected.       *)
Cut ==
    /\ "cut" \in Faults /\ NoFaultYet
    /\ link' = "down" /\ watch' = TRUE /\ request' = NoRequest
    /\ \E n \in 0..Len(incoming) :
           incoming' = Append(SubSeq(incoming, 1, n), Disconnected)
    /\ UNCHANGED <<serverVars, starting, rpc, pending, sessionVars, clientVars, call,
                   consumerVars>>

(* A message arrives that does not parse, or that is a request; the watch  *)
(* stays unset.                                                            *)
Garble ==
    /\ "malformed" \in Faults /\ NoFaultYet
    /\ incoming' = Append(incoming, Malformed)
    /\ UNCHANGED <<serverVars, handlerVars, link, rpcVars, sessionVars, clientVars, call,
                   consumerVars>>

-----------------------------------------------------------------------------
(* Client: the RPC reader.                                                 *)

Arrived(type) == rpc = "run" /\ incoming # <<>> /\ Head(incoming).type = type

(* handle_server_message: a response resolves its pending request ...      *)
RpcResponse ==
    /\ Arrived("response")
    /\ pending /\ pending' = FALSE
    /\ call' = [call EXCEPT !.reply = Head(incoming).reply]
    /\ incoming' = Tail(incoming)
    /\ UNCHANGED <<serverVars, handlerVars, link, watch, rpc, sessionVars, clientVars,
                   consumerVars>>

(* ... a notification goes to the notification reader.                     *)
RpcNotification ==
    /\ Arrived("notification")
    /\ events' = Append(events, Head(incoming))
    /\ incoming' = Tail(incoming)
    /\ UNCHANGED <<serverVars, handlerVars, link, rpcVars, sessionVars, reader, latch, call,
                   consumerVars>>

(* The reader passes the loss on, then drains.                             *)
RpcDisconnected ==
    /\ \/ Arrived("disconnected") /\ rpc' = "drain"
       \/ Arrived("malformed") /\ rpc' = "break"
    /\ events' = Append(events, Disconnected)
    /\ incoming' = <<>>
    /\ UNCHANGED <<serverVars, handlerVars, link, watch, pending, sessionVars, reader, latch,
                   call, consumerVars>>

DrainPending ==
    /\ \/ rpc = "drain" /\ rpc' = "closed"
       \/ rpc = "break" /\ rpc' = "broken"
    /\ call' = IF pending THEN [call EXCEPT !.reply = ClosedReply] ELSE call
    /\ pending' = FALSE
    /\ UNCHANGED <<serverVars, handlerVars, linkVars, watch, sessionVars, clientVars,
                   consumerVars>>

-----------------------------------------------------------------------------
(* Client: the session and the notification reader.                        *)

(* publish_ordered_event: seqs up to the first gap are published, the      *)
(* others wait.                                                            *)
Contiguous(S) == {k \in S : \A j \in (lastSeq + 1)..k : j \in S}

(* Mutant: an event is published as it arrives.                            *)
PublishAtOnce(n) ==
    /\ published' = Append(published, n) /\ lastSeq' = n
    /\ route' = (route /\ log[n] # "closed")
    /\ UNCHANGED early

(* Mutant: the route goes when the Closed notification arrives.            *)
PublishUnroute(n) ==
    IF n <= lastSeq
      THEN UNCHANGED <<lastSeq, early, published, route>>
      ELSE LET all == early \cup {n}
               ready == Contiguous(all)
           IN  /\ early' = all \ ready
               /\ lastSeq' = lastSeq + Cardinality(ready)
               /\ published' = published \o [i \in 1..Cardinality(ready) |-> lastSeq + i]
               /\ route' = (route /\ log[n] # "closed")

PublishOrdered(n) ==
    IF n <= lastSeq
      THEN UNCHANGED <<lastSeq, early, published, route>>
      ELSE LET all == early \cup {n}
               ready == Contiguous(all)
           IN  /\ early' = all \ ready
               /\ lastSeq' = lastSeq + Cardinality(ready)
               /\ published' = published \o [i \in 1..Cardinality(ready) |-> lastSeq + i]
               /\ route' = (route /\ ~\E k \in ready : log[k] = "closed")

(* handle_server_notification.                                             *)
HandleNotification ==
    /\ reader = "run" /\ events # <<>> /\ Head(events).type = "notification"
    /\ IF route
         THEN woken' = TRUE /\ PublishOrdered(Head(events).seq)
         ELSE UNCHANGED <<woken, route, lastSeq, early, published>>
    /\ events' = Tail(events)
    /\ UNCHANGED <<serverVars, handlerVars, linkVars, rpcVars, failure, reader, latch, call,
                   consumerVars>>

(* Mutant: the failure is set without a wake-up.                           *)
SetFailureQuietly ==
    /\ failure' = TRUE /\ UNCHANGED woken
    /\ published' = IF failure THEN published ELSE Append(published, Failed)

(* SessionState::set_failure.                                              *)
SetFailure ==
    /\ failure' = TRUE /\ woken' = TRUE
    /\ published' = IF failure THEN published ELSE Append(published, Failed)

(* The reader records the loss ...                                         *)
RecordDisconnected ==
    /\ reader = "run" /\ events # <<>> /\ Head(events).type = "disconnected"
    /\ latch' = TRUE /\ reader' = "fail"
    /\ events' = Tail(events)
    /\ UNCHANGED <<serverVars, handlerVars, linkVars, rpcVars, sessionVars, call,
                   consumerVars>>

(* ... and fail_all_sessions takes the sessions and fails them, here in    *)
(* one step: between the two the reader only waits for the session's own   *)
(* failure lock, and the window, in which a consumer is no longer routed   *)
(* and not told yet, is not seen.                                          *)
FailAllSessions ==
    /\ reader = "fail" /\ reader' = "done"
    /\ IF route THEN SetFailure ELSE UNCHANGED <<failure, woken, published>>
    /\ route' = FALSE
    /\ UNCHANGED <<serverVars, handlerVars, linkVars, rpcVars, lastSeq, early, events, latch,
                   call, consumerVars>>

-----------------------------------------------------------------------------
(* Client: ExecServerClient::call and RpcClient::call.                     *)

(* ExecServerClient::call checks the latch before a request id exists.     *)
Preflight ==
    call' = IF latch THEN [pc |-> "wait", reply |-> ClosedReply]
                     ELSE [pc |-> "issue", reply |-> NoReply]

(* Under the lock of the pending table: a lost connection refuses the      *)
(* call, else it is registered; then the request is sent.  (A send that    *)
(* fails because the writer has ended in between returns Closed, as the    *)
(* drain does.)                                                            *)
CallIssue ==
    /\ call.pc = "issue"
    /\ \/ /\ watch
          /\ call' = [pc |-> "wait", reply |-> ClosedReply]
          /\ UNCHANGED <<pending, request>>
       \/ /\ ~watch
          /\ pending' = TRUE
          /\ request' = IF consumer = "exec" THEN [op |-> "exec"]
                        ELSE [op |-> "read", after |-> after]
          /\ call' = [call EXCEPT !.pc = "wait"]
    /\ UNCHANGED <<serverVars, starting, linkVars, watch, rpc, sessionVars, clientVars,
                   consumerVars>>

Replied == call.pc = "wait" /\ call.reply # NoReply

(* The caller wakes up with its reply; Closed latches the disconnect.      *)
CallReturn ==
    /\ call' = [pc |-> "idle", reply |-> NoReply]
    /\ latch' = (latch \/ call.reply = ClosedReply)

-----------------------------------------------------------------------------
(* The consumer: RemoteProcess::start and the output task.                 *)

(* register_session before the process exists; refused after a disconnect. *)
RegisterSession ==
    /\ consumer = "register"
    /\ IF latch THEN consumer' = "error" /\ UNCHANGED <<route, call>>
                ELSE consumer' = "exec" /\ route' = TRUE /\ Preflight
    /\ UNCHANGED <<serverVars, handlerVars, linkVars, rpcVars, lastSeq, early, published,
                   failure, woken, clientVars, after, got>>

(* exec answered: the output task subscribes to the wake channel and       *)
(* reads, or the session is unregistered.                                  *)
ExecReturned ==
    /\ consumer = "exec" /\ Replied
    /\ IF call.reply = OkReply
         THEN consumer' = "read" /\ woken' = FALSE /\ UNCHANGED route
         ELSE consumer' = "error" /\ route' = FALSE /\ UNCHANGED woken
    /\ CallReturn
    /\ UNCHANGED <<serverVars, handlerVars, linkVars, rpcVars, lastSeq, early, published,
                   failure, events, reader, after, got>>

(* Session::read answers from the failure if there is one.                 *)
ReadBegin ==
    /\ consumer = "read"
    /\ IF failure THEN consumer' = "failed" /\ UNCHANGED call
                  ELSE consumer' = "reading" /\ Preflight
    /\ UNCHANGED <<serverVars, handlerVars, linkVars, rpcVars, sessionVars, clientVars, after,
                   got>>

(* A read that found the connection closed fails the session itself.       *)
ReadClosed ==
    /\ consumer = "reading" /\ Replied
    /\ call.reply = ClosedReply
    /\ SetFailure
    /\ consumer' = "failed" /\ CallReturn
    /\ UNCHANGED <<serverVars, handlerVars, linkVars, rpcVars, route, lastSeq, early, events,
                   reader, after, got>>

(* A response's chunks are taken; Closed ends the task.                    *)
ReadReturned ==
    /\ consumer = "reading" /\ Replied
    /\ call.reply # ClosedReply
    /\ LET r == call.reply
       IN  IF r.kind = "read"
             THEN /\ got' = got \cup r.chunks /\ after' = r.nextSeq - 1
                  /\ consumer' = IF r.closed THEN "closed" ELSE "await"
             ELSE consumer' = "failed" /\ UNCHANGED <<got, after>>
    /\ CallReturn
    /\ UNCHANGED <<serverVars, handlerVars, linkVars, rpcVars, sessionVars, events, reader>>

(* wake_rx.changed().                                                      *)
AwaitWake ==
    /\ consumer = "await" /\ woken
    /\ woken' = FALSE /\ consumer' = "read"
    /\ UNCHANGED <<serverVars, handlerVars, linkVars, rpcVars, route, lastSeq, early,
                   published, failure, clientVars, call, after, got>>

Finished == {"closed", "failed", "error"}

(* The handle dropped with the task unregisters the session.               *)
DropHandle ==
    /\ consumer \in {"closed", "failed"} /\ route
    /\ route' = FALSE
    /\ UNCHANGED <<serverVars, handlerVars, linkVars, rpcVars, lastSeq, early, published,
                   failure, woken, clientVars, call, consumerVars>>

-----------------------------------------------------------------------------
(* Nothing the server does reaches a client whose connection is lost or    *)
(* whose reader has ended, and this module follows it no further.  What    *)
(* becomes of the session and its processes is the subject of ExecSessions.*)
Connected == link = "up" /\ rpc = "run"

ChildNext == (\E s \in Stream : StreamChunk(s) \/ FinishOutputStream(s)) \/ WatchExit
TaskNext == \E t \in Task : SendNotification(t) \/ MaybeEmitClosed(t)
HandlerNext == StartProcess \/ ProcessStarted \/ StartFailed \/ ExecRead

ServerNext == Connected /\ (ChildNext \/ TaskNext \/ HandlerNext \/ RemoveExited)

ConnectionNext == Cut \/ Garble

ClientNext ==
    \/ RpcResponse \/ RpcNotification \/ RpcDisconnected \/ DrainPending
    \/ HandleNotification \/ RecordDisconnected \/ FailAllSessions
    \/ RegisterSession \/ CallIssue \/ ExecReturned \/ ReadBegin \/ ReadClosed \/ ReadReturned
    \/ AwaitWake \/ DropHandle

Next == ServerNext \/ ConnectionNext \/ ClientNext

Spec == Init /\ [][Next]_vars

(* Tasks and readers are scheduled, requests are answered.  Nothing is     *)
(* assumed of the child, of the connection or of the timers.               *)
FairSpec ==
    /\ Spec
    /\ WF_vars(Connected /\ TaskNext)
    /\ WF_vars(Connected /\ HandlerNext)
    /\ WF_vars(RpcResponse \/ RpcNotification \/ RpcDisconnected \/ DrainPending)
    /\ WF_vars(HandleNotification \/ RecordDisconnected \/ FailAllSessions)
    /\ WF_vars(RegisterSession \/ CallIssue \/ ExecReturned \/ ReadBegin \/ ReadClosed \/ ReadReturned
               \/ AwaitWake)

-----------------------------------------------------------------------------
(* Type invariant.                                                         *)
Seqs == 0..(MaxOutput + 2)

ServerTypeOK ==
    /\ entry \in {"none", "starting", "running"} /\ starting \in BOOLEAN
    /\ log \in Seq({"output", "exited", "closed"}) /\ Len(log) \in Seqs
    /\ exited \in BOOLEAN /\ openStreams \in 0..2
    /\ task \in [Task -> [pc : {"none", "recv", "notify", "emit", "end"}, seq : Seqs]]

ClientTypeOK ==
    /\ link \in {"up", "down"} /\ watch \in BOOLEAN /\ pending \in BOOLEAN
    /\ rpc \in {"run", "drain", "closed", "break", "broken"}
    /\ reader \in {"run", "fail", "done"} /\ latch \in BOOLEAN

SessionTypeOK ==
    /\ route \in BOOLEAN /\ failure \in BOOLEAN /\ woken \in BOOLEAN
    /\ lastSeq \in Seqs /\ early \subseteq Seqs /\ published \in Seq(Seqs)

ConsumerTypeOK ==
    /\ consumer \in {"register", "exec", "read", "reading", "await"} \cup Finished
    /\ after \in Seqs /\ got \subseteq Seqs

StreamTypeOK == ServerTypeOK /\ ClientTypeOK /\ SessionTypeOK /\ ConsumerTypeOK

(* What a subscriber sees of the process is a prefix of what happened to   *)
(* it: every event once, in the order the server numbered them, although   *)
(* three server tasks send the notifications after they let go of the lock;*)
(* among them, at most one Failed (publish_ordered_event, client.rs).      *)
FailedAt(f) ==
    \A i \in DOMAIN published :
        published[i] = IF i < f THEN i ELSE IF i = f THEN Failed ELSE i - 1

PublishedInOrder ==
    /\ \E f \in 1..(Len(published) + 1) : FailedAt(f)
    /\ \A i \in DOMAIN published : published[i] <= Len(log)

(* Closed is the last event of a process: no output and no exit is         *)
(* numbered after it, whichever of the three tasks finishes last           *)
(* (maybe_emit_closed, local_process.rs).                                  *)
ClosedIsLast == \A n \in DOMAIN log : log[n] = "closed" =>
    /\ n = Len(log)
    /\ \E k \in DOMAIN log : log[k] = "exited"

(* A live consumer never loses its session silently: when the route is     *)
(* gone, or nobody is left to fail it, its log holds the Closed event or   *)
(* its failure is set: neither a registration racing with a disconnect nor *)
(* an early Closed notification leaves a consumer waiting for output that  *)
(* cannot come (insert_session and handle_server_notification, client.rs). *)
RouteKept ==
    consumer \in {"exec", "read", "reading", "await"} /\ (~route \/ reader = "done") =>
        failure \/ \E i \in DOMAIN published :
                       published[i] # Failed /\ log[published[i]] = "closed"

(* A consumer that ended because the process closed has received every     *)
(* chunk of the process: following next_seq - 1 skips none                 *)
(* (exec_read, local_process.rs; the output task, unified_exec).           *)
ReadsComplete ==
    consumer = "closed" => got = Outputs

(* A read that was registered after the reader, at a message that did not  *)
(* parse, had drained the pending calls: nobody answers it.                *)
Orphaned == rpc = "broken" /\ pending

(* The output task ends once the process has closed or the connection is   *)
(* gone, whatever is lost or late, except for an orphaned read (the output *)
(* task of unified_exec, RpcClient::call).                                 *)
ConsumerEnds ==
    (Closed \/ rpc # "run") /\ consumer \notin Finished
        ~> consumer \in Finished \/ Orphaned
=============================================================================
