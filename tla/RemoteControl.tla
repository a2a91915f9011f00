---------------------------- MODULE RemoteControl ----------------------------
(***************************************************************************)
(* The app server's remote-control transport: one websocket to a backend   *)
(* carries the streams of many remote clients.  A connection of the app    *)
(* server is opened for each stream that initializes; the websocket may be *)
(* lost and made again under all of them.                                  *)
(*                                                                         *)
(* Source: app-server/src/transport/remote_control/{websocket,             *)
(* client_tracker,mod}.rs.                                                 *)
(*                                                                         *)
(* The backend is external.  It keeps every client's envelopes in one log  *)
(* and sends, after a connect, the ones behind the subscribe cursor; it    *)
(* takes the server's envelopes in the order of their seq_id, drops the    *)
(* ones it has seen and acknowledges what it has.                          *)
(***************************************************************************)
EXTENDS Integers, FiniteSets, SequencesExt

CONSTANTS
    Key,        \* streams, each of one client: (client_id, stream_id)
    Capacity,   \* CHANNEL_CAPACITY, of the event queue and the buffer
    OutCapacity,\* CHANNEL_CAPACITY, of a connection's writer_tx
    MaxConn,    \* bound on the connections opened
    MaxSend,    \* bound on the messages of the app server
    MaxLog,     \* bound on the envelopes of the clients
    MaxLoss,    \* bound on the losses of the websocket
    Writes,     \* the kinds of envelope each client writes: <<key, kind>>
    Cursored    \* the kinds of envelope that carry a cursor

ASSUME KeyAssumption == IsFiniteSet(Key) /\ Key # {}
ASSUME CapacityAssumption == Capacity \in Nat \ {0} /\ OutCapacity \in Nat \ {0}
ASSUME BoundsAssumption == MaxConn \in Nat /\ MaxSend \in Nat /\ MaxLog \in Nat /\ MaxLoss \in Nat
ASSUME WritesAssumption == Writes \subseteq Key \X {"init", "msg", "ping", "closed"}

VARIABLES
    enabled,    \* the remote-control setting
    writer,     \* run_server_writer: "off" (no websocket), "start",
                \*   "run", "stopped" (shut down)
    holding,    \* envelopes the writer is about to send
    wire,       \* sent on this websocket, not received
    buffer,     \* outbound_buffer: unacknowledged envelopes of each stream
    used,       \* the buffer's usage counter
    nextSeq,    \* next_seq_id_by_stream
    events,     \* the queue server_event_tx .. server_event_rx
    clients,    \* ClientTracker::clients: connection of each stream; 0: none
    lastIn,     \* last_inbound_seq_id; 0: none
    task,       \* outbound task of each connection: "none", "run", "done",
                \*   "reaped"
    keyOf,      \* the stream each connection was opened for
    cancelled,  \* connections whose disconnect token is cancelled
    outq,       \* writer_tx of each connection
    pong,       \* connections whose status was sent and not yet seen
    stray,      \* per stream, spawned sends of an Unknown pong
    pos,        \* log entries read from this websocket
    cursor,     \* subscribe_cursor, as a position in the log
    closed,     \* connections the app server was told are closed
    inbound,    \* the seq_ids each connection was given
    log,        \* external: what the backend has for this server
    clientSeq,  \* external: the last seq_id each client used
    rseq,       \* external: the last seq_id the backend has, per stream
    got,        \* external: the events the backend has, per stream
    sends,      \* messages the app server sent (bounded by MaxSend)
    losses,     \* websockets lost (bounded by MaxLoss)
    start,      \* history: the log entry that opened each connection
    high        \* history: the last log entry handled

linkVars == <<enabled, writer, holding, wire, losses>>
bufferVars == <<buffer, used, nextSeq>>
trackerVars == <<clients, lastIn, task, keyOf, cancelled, pong, stray, closed, inbound, start>>
appVars == <<outq, sends>>
readVars == <<pos, cursor, high>>
clientVars == <<log, clientSeq>>
backendVars == <<rseq, got>>
vars == <<linkVars, bufferVars, trackerVars, appVars, readVars, clientVars, backendVars, events>>

Conns == 1..MaxConn
Up == writer \notin {"off", "stopped"}

Init ==
    /\ enabled = TRUE /\ writer = "off" /\ holding = <<>> /\ wire = <<>> /\ losses = 0
    /\ buffer = [k \in Key |-> <<>>] /\ used = 0 /\ nextSeq = [k \in Key |-> 1]
    /\ events = <<>>
    /\ clients = [k \in Key |-> 0] /\ lastIn = [k \in Key |-> 0]
    /\ task = [c \in Conns |-> "none"] /\ keyOf = [c \in Conns |-> CHOOSE k \in Key : TRUE]
    /\ cancelled = {} /\ outq = [c \in Conns |-> <<>>] /\ pong = {}
    /\ stray = [k \in Key |-> 0]
    /\ pos = 0 /\ cursor = 0 /\ closed = {} /\ inbound = [c \in Conns |-> <<>>]
    /\ log = <<>> /\ clientSeq = [k \in Key |-> 0]
    /\ rseq = [k \in Key |-> 0] /\ got = [k \in Key |-> <<>>] /\ sends = 0
    /\ start = [c \in Conns |-> 0] /\ high = 0

-----------------------------------------------------------------------------
(* External: a client writes an envelope; a message may repeat the last    *)
(* seq_id.  An envelope is put in the log when the reader has read all the *)
(* others: nothing depends on one that has not been read.                  *)
ClientWrites(k, kind, again) ==
    /\ Up /\ pos = Len(log) /\ Len(log) < MaxLog
    /\ again => kind = "msg" /\ clientSeq[k] > 0
    /\ LET seq == IF again THEN clientSeq[k] ELSE clientSeq[k] + 1
       IN  /\ log' = Append(log, [key |-> k, kind |-> kind, seq |-> seq])
           /\ clientSeq' = [clientSeq EXCEPT ![k] = seq]
    /\ UNCHANGED <<linkVars, bufferVars, trackerVars, appVars, readVars, backendVars, events>>

(* External: the backend receives the next envelope of the websocket.      *)
BackendReceives ==
    /\ wire # <<>>
    /\ LET e == Head(wire)
       IN  IF e.seq > rseq[e.key]
             THEN /\ rseq' = [rseq EXCEPT ![e.key] = e.seq]
                  /\ got' = [got EXCEPT ![e.key] = Append(@, e.body)]
             ELSE UNCHANGED <<rseq, got>>
    /\ wire' = Tail(wire)
    /\ UNCHANGED <<enabled, writer, holding, losses, bufferVars, trackerVars, appVars, readVars,
                   clientVars, events>>

-----------------------------------------------------------------------------
(* connect: a websocket is made, and the backend sends what follows the    *)
(* subscribe cursor.                                                       *)
Connect ==
    /\ writer = "off" /\ enabled
    /\ writer' = "start"
    /\ pos' = cursor
    /\ UNCHANGED <<enabled, holding, wire, losses, bufferVars, trackerVars, appVars, cursor,
                   high, clientVars, backendVars, events>>

(* The streams are copied one after the other, in the order of the map.    *)
(* Mutants: a stream is copied from its newest envelope; nothing is copied.*)
NewestFirst(order) == FlattenSeq([i \in DOMAIN order |-> Reverse(buffer[order[i]])])
NothingAgain(order) == <<>>
ServerEnvelopes(order) == FlattenSeq([i \in DOMAIN order |-> buffer[order[i]]])

Snapshot ==
    /\ writer = "start"
    /\ \E order \in SetToSeqs(Key) : holding' = ServerEnvelopes(order)
    /\ writer' = "run"
    /\ UNCHANGED <<enabled, wire, losses, bufferVars, trackerVars, appVars, readVars, clientVars,
                   backendVars, events>>

(* The writer sends the next envelope it holds: of the copy, or the one it *)
(* took last.                                                              *)
WriterSends ==
    /\ writer = "run" /\ holding # <<>>
    /\ wire' = Append(wire, Head(holding))
    /\ holding' = Tail(holding)
    /\ UNCHANGED <<enabled, writer, losses, bufferVars, trackerVars, appVars, readVars,
                   clientVars, backendVars, events>>

(* The writer takes an event if the buffer has room, numbers it and keeps  *)
(* it in the buffer, all under the state's lock.                           *)
(* (Mutant: room is not asked for.)                                        *)
HasCapacityAlways == TRUE
HasCapacity == used < Capacity

Insert(e) ==
    /\ buffer' = [buffer EXCEPT ![e.key] = Append(@, e)]
    /\ used' = used + 1

WriterTakes ==
    /\ writer = "run" /\ holding = <<>> /\ HasCapacity /\ events # <<>>
    /\ LET q == Head(events)
           e == [key |-> q.key, body |-> q.body, seq |-> nextSeq[q.key]]
       IN  /\ nextSeq' = [nextSeq EXCEPT ![q.key] = @ + 1]
           /\ Insert(e)
           /\ holding' = <<e>>
    /\ events' = Tail(events)
    /\ UNCHANGED <<enabled, writer, wire, losses, trackerVars, appVars, readVars, clientVars, backendVars>>

(* The websocket is lost: an error, a close frame, the pong timeout.  The  *)
(* writer and the reader both end before another one is made.              *)
Lose ==
    /\ Up /\ losses < MaxLoss
    /\ losses' = losses + 1
    /\ writer' = "off" /\ holding' = <<>> /\ wire' = <<>>
    /\ UNCHANGED <<enabled, bufferVars, trackerVars, appVars, readVars, clientVars, backendVars,
                   events>>

(* set_enabled: a disabled transport drops its websocket.                  *)
SetEnabled(on) ==
    /\ writer # "stopped" /\ enabled # on
    /\ ~on => losses < MaxLoss
    /\ enabled' = on
    /\ IF on THEN UNCHANGED <<writer, holding, wire, losses>>
             ELSE /\ writer' = "off" /\ holding' = <<>> /\ wire' = <<>>
                  /\ losses' = losses + 1
    /\ UNCHANGED <<bufferVars, trackerVars, appVars, readVars, clientVars, backendVars, events>>

-----------------------------------------------------------------------------
(* The reader takes a backend-generated ack, of anything the backend has   *)
(* by now: envelopes are taken from the front as long as they are acked.   *)
Acked(e, n) == e.seq <= n

ReadAck(k, n) ==
    /\ Up /\ n \in 1..rseq[k]
    /\ \E d \in 1..Len(buffer[k]) :
           /\ \A i \in 1..d : Acked(buffer[k][i], n)
           /\ d < Len(buffer[k]) => ~Acked(buffer[k][d + 1], n)
           /\ buffer' = [buffer EXCEPT ![k] = SubSeq(@, d + 1, Len(@))]
           /\ used' = used - d
    /\ UNCHANGED <<nextSeq, linkVars, trackerVars, appVars, readVars, clientVars, backendVars,
                   events>>

-----------------------------------------------------------------------------
(* close_client, as an effect on the tracker's maps.  (Mutant: the app     *)
(* server is not told.)                                                    *)
CloseClientSilently(k) ==
    /\ clients' = [clients EXCEPT ![k] = 0]
    /\ cancelled' = IF clients[k] = 0 THEN cancelled ELSE cancelled \cup {clients[k]}
    /\ UNCHANGED closed

CloseClient(k) ==
    /\ clients' = [clients EXCEPT ![k] = 0]
    /\ cancelled' = IF clients[k] = 0 THEN cancelled ELSE cancelled \cup {clients[k]}
    /\ closed' = IF clients[k] = 0 THEN closed ELSE closed \cup {clients[k]}

(* The reader takes the next envelope: the cursor first, then the tracker. *)
(* Mutant: a repeated message is dropped only if a later one was seen.     *)
SeenLater(k, seq) == lastIn[k] > seq
Seen(k, seq) == lastIn[k] >= seq

Entry == log[pos + 1]
MoveOn(kind) ==
    /\ Up /\ pos < Len(log) /\ Entry.kind = kind
    /\ pos' = pos + 1
    /\ cursor' = IF kind \in Cursored THEN pos + 1 ELSE cursor
    /\ high' = IF pos + 1 > high THEN pos + 1 ELSE high
    /\ UNCHANGED <<linkVars, bufferVars, appVars, clientVars, backendVars, events>>

Fresh == {c \in Conns : task[c] = "none"}

(* initialize: an open connection of the stream is closed, a new one is    *)
(* opened, with its outbound task.                                         *)
ReadInitialize ==
    /\ Fresh # {}
    /\ MoveOn("init")
    /\ LET k == Entry.key
           c == CHOOSE d \in Fresh : \A e \in Fresh : d <= e
       IN  /\ cancelled' = IF clients[k] = 0 THEN cancelled ELSE cancelled \cup {clients[k]}
           /\ closed' = IF clients[k] = 0 THEN closed ELSE closed \cup {clients[k]}
           /\ clients' = [clients EXCEPT ![k] = c]
           /\ lastIn' = [lastIn EXCEPT ![k] = Entry.seq]
           /\ task' = [task EXCEPT ![c] = "run"]
           /\ keyOf' = [keyOf EXCEPT ![c] = k]
           /\ inbound' = [inbound EXCEPT ![c] = <<Entry.seq>>]
           /\ start' = [start EXCEPT ![c] = pos + 1]
    /\ UNCHANGED <<pong, stray>>

(* Any other message goes to the stream's connection, once.                *)
ReadMessage ==
    /\ MoveOn("msg")
    /\ LET k == Entry.key
       IN  IF clients[k] # 0 /\ ~Seen(k, Entry.seq)
             THEN /\ lastIn' = [lastIn EXCEPT ![k] = Entry.seq]
                  /\ inbound' = [inbound EXCEPT ![clients[k]] = Append(@, Entry.seq)]
             ELSE UNCHANGED <<lastIn, inbound>>
    /\ UNCHANGED <<clients, task, keyOf, cancelled, pong, stray, closed, start>>

(* A ping of an open stream sets the status the outbound task watches; of  *)
(* any other stream, a task is spawned to answer.                          *)
ReadPing ==
    /\ MoveOn("ping")
    /\ LET k == Entry.key
       IN  IF clients[k] # 0
             THEN pong' = pong \cup {clients[k]} /\ UNCHANGED stray
             ELSE stray' = [stray EXCEPT ![k] = @ + 1] /\ UNCHANGED pong
    /\ UNCHANGED <<clients, lastIn, task, keyOf, cancelled, closed, inbound, start>>

ReadClosed ==
    /\ MoveOn("closed")
    /\ CloseClient(Entry.key)
    /\ UNCHANGED <<lastIn, task, keyOf, pong, stray, inbound, start>>

(* The idle sweep closes a stream that has been silent for long enough.    *)
CloseExpired(k) ==
    /\ Up /\ clients[k] # 0
    /\ CloseClient(k)
    /\ UNCHANGED <<linkVars, bufferVars, lastIn, task, keyOf, pong, stray, inbound, start,
                   appVars, readVars, clientVars, backendVars, events>>

(* bookkeep_join_set: an outbound task has ended, and the client of its    *)
(* stream is closed.  (Mutant: it is not.)                                 *)
ReapTaskOnly(c) ==
    /\ Up /\ task[c] = "done"
    /\ task' = [task EXCEPT ![c] = "reaped"]
    /\ UNCHANGED <<linkVars, bufferVars, clients, cancelled, closed, lastIn, keyOf, pong, stray,
                   inbound, start, appVars, readVars, clientVars, backendVars, events>>

ReapTask(c) ==
    /\ Up /\ task[c] = "done"
    /\ task' = [task EXCEPT ![c] = "reaped"]
    /\ CloseClient(keyOf[c])
    /\ UNCHANGED <<linkVars, bufferVars, lastIn, keyOf, pong, stray, inbound, start,
                   appVars, readVars, clientVars, backendVars, events>>

(* Shutdown: every client is closed, the outbound tasks are waited for and *)
(* the transport ends.                                                     *)
Shutdown ==
    /\ writer # "stopped"
    /\ writer' = "stopped" /\ holding' = <<>> /\ wire' = <<>>
    /\ clients' = [k \in Key |-> 0]
    /\ closed' = closed \cup {clients[k] : k \in {q \in Key : clients[q] # 0}}
    /\ cancelled' = Conns \ Fresh
    /\ task' = [c \in Conns |-> IF c \in Fresh THEN "none" ELSE "reaped"]
    /\ outq' = [c \in Conns |-> <<>>] /\ pong' = {}
    /\ UNCHANGED <<enabled, losses, bufferVars, lastIn, keyOf, stray, inbound, start, sends,
                   readVars, clientVars, backendVars, events>>

-----------------------------------------------------------------------------
(* The app server sends to a connection that it has neither been told is   *)
(* closed nor given up; if the queue is full it gives the connection up.   *)
AppSends(c) ==
    /\ task[c] # "none" /\ c \notin closed \cup cancelled /\ sends < MaxSend
    /\ sends' = sends + 1
    /\ IF Len(outq[c]) < OutCapacity
         THEN /\ outq' = [outq EXCEPT ![c] = Append(@, sends + 1)]
              /\ UNCHANGED cancelled
         ELSE /\ cancelled' = cancelled \cup {c}
              /\ UNCHANGED outq
    /\ UNCHANGED <<linkVars, bufferVars, clients, lastIn, task, keyOf, pong, stray, closed,
                   inbound, start, readVars, clientVars, backendVars, events>>

Room == Len(events) < Capacity
Enqueue(k, body) == events' = Append(events, [key |-> k, body |-> body])

(* run_client_outbound forwards a message or a pong.                       *)
Forward(c) ==
    /\ task[c] = "run" /\ outq[c] # <<>> /\ Room
    /\ Enqueue(keyOf[c], Head(outq[c]))
    /\ outq' = [outq EXCEPT ![c] = Tail(@)]
    /\ UNCHANGED <<linkVars, bufferVars, trackerVars, sends, readVars, clientVars, backendVars>>

ForwardPong(c) ==
    /\ task[c] = "run" /\ c \in pong /\ Room
    /\ Enqueue(keyOf[c], 0)
    /\ pong' = pong \ {c}
    /\ UNCHANGED <<linkVars, bufferVars, clients, lastIn, task, keyOf, cancelled, stray, closed,
                   inbound, start, appVars, readVars, clientVars, backendVars>>

SendUnknown(k) ==
    /\ stray[k] > 0 /\ Room
    /\ Enqueue(k, 0)
    /\ stray' = [stray EXCEPT ![k] = @ - 1]
    /\ UNCHANGED <<linkVars, bufferVars, clients, lastIn, task, keyOf, cancelled, pong, closed,
                   inbound, start, appVars, readVars, clientVars, backendVars>>

(* ... and ends when its token is cancelled; what it held is dropped.      *)
TaskEnds(c) ==
    /\ task[c] = "run" /\ c \in cancelled
    /\ task' = [task EXCEPT ![c] = "done"]
    /\ outq' = [outq EXCEPT ![c] = <<>>]
    /\ pong' = pong \ {c}
    /\ UNCHANGED <<linkVars, bufferVars, clients, lastIn, keyOf, cancelled, stray, closed,
                   inbound, start, sends, readVars, clientVars, backendVars, events>>

-----------------------------------------------------------------------------
Read == ReadInitialize \/ ReadMessage \/ ReadPing \/ ReadClosed
Write == Connect \/ Snapshot \/ WriterTakes \/ WriterSends
TaskNext(c) == Forward(c) \/ ForwardPong(c) \/ TaskEnds(c)
ReadAcks(k) == \E n \in 1..rseq[k] : ReadAck(k, n)

Next ==
    \/ \E w \in Writes, again \in BOOLEAN : ClientWrites(w[1], w[2], again)
    \/ BackendReceives
    \/ Write \/ Read \/ Lose \/ Shutdown
    \/ \E on \in BOOLEAN : SetEnabled(on)
    \/ \E k \in Key : ReadAcks(k) \/ CloseExpired(k) \/ SendUnknown(k)
    \/ \E c \in Conns : AppSends(c) \/ TaskNext(c) \/ ReapTask(c)

Spec == Init /\ [][Next]_vars

(* The writer's, the reader's and the outbound tasks' steps run, and the   *)
(* transport reconnects.  The backend receives and acknowledges.  Clients, *)
(* the app server, losses, the setting and a shutdown do as they like.     *)
FairSpec ==
    /\ Spec
    /\ WF_vars(Write) /\ WF_vars(Read) /\ WF_vars(BackendReceives)
    /\ \A k \in Key : WF_vars(\E n \in {rseq[k]} : ReadAck(k, n)) /\ WF_vars(SendUnknown(k))
    /\ \A c \in Conns : WF_vars(TaskNext(c)) /\ WF_vars(ReapTask(c))

-----------------------------------------------------------------------------
(* Type invariant.                                                         *)
LinkTypeOK ==
    /\ enabled \in BOOLEAN
    /\ writer \in {"off", "start", "run", "stopped"}
    /\ nextSeq \in [Key -> Nat \ {0}] /\ used \in 0..Capacity
    /\ Len(events) <= Capacity /\ rseq \in [Key -> Nat]

TrackerTypeOK ==
    /\ clients \in [Key -> 0..MaxConn] /\ lastIn \in [Key -> Nat]
    /\ task \in [Conns -> {"none", "run", "done", "reaped"}] /\ keyOf \in [Conns -> Key]
    /\ cancelled \subseteq Conns /\ pong \subseteq Conns /\ closed \subseteq Conns
    /\ stray \in [Key -> Nat]

RemoteTypeOK ==
    /\ LinkTypeOK /\ TrackerTypeOK
    /\ cursor \in 0..Len(log) /\ pos \in 0..Len(log)

(* The envelope numbered m, and the bodies of those the backend has not    *)
(* received.                                                               *)
Kept(k, m) == buffer[k][Len(buffer[k]) - (nextSeq[k] - 1 - m)]
Unreceived(k) == [i \in 1..(nextSeq[k] - 1 - rseq[k]) |-> Kept(k, rseq[k] + i).body]

(* The bodies of the stream's events in the queue.                         *)
Queued(k) ==
    LET pick[n \in 0..Len(events)] ==
            IF n = 0 THEN <<>>
            ELSE IF events[n].key = k THEN Append(pick[n - 1], events[n].body)
            ELSE pick[n - 1]
    IN  pick[Len(events)]

(* The promise of the transport: from the moment an event is in the server *)
(* event queue it reaches the backend exactly once and in the order of its *)
(* stream, across every loss of the websocket, every replay, every ack and *)
(* every reopening of the stream (run_server_writer_inner, ack).           *)
Relay == INSTANCE RelayContract WITH
    Event <- 0..MaxSend,
    chan <- [k \in Key |-> Unreceived(k) \o Queued(k)],
    got <- got
ImplementsRelay == Relay!Spec

(* The reader gives a connection every message of its stream since the     *)
(* initialize that opened it, each once and in order, whatever the client  *)
(* repeats and the backend sends again after a reconnect (handle_message). *)
SinceStart(c) ==
    {i \in start[c]..high : log[i].key = keyOf[c] /\ log[i].kind \in {"init", "msg"}}

Rising(s) == \A i, j \in DOMAIN s : i < j => s[i] < s[j]

InboundExact ==
    \A k \in Key : LET c == clients[k] IN c # 0 =>
        /\ Rising(inbound[c])
        /\ {inbound[c][i] : i \in DOMAIN inbound[c]} = {log[i].seq : i \in SinceStart(c)}

(* A connection the app server believes open is the connection of its      *)
(* stream: no close is missed when a stream initializes again, expires, is *)
(* closed twice or is shut down (close_client).                            *)
OpenMatches ==
    \A c \in Conns : task[c] # "none" /\ c \notin closed => clients[keyOf[c]] = c

(* Events are not stuck: the transport does not wait for room that no ack  *)
(* will make, nor for a websocket it will not make (outbound_has_capacity, *)
(* the replay that lets the backend acknowledge again).                    *)
Stopped == writer = "stopped" \/ ~enabled
Delivered ==
    \A k \in Key : Unreceived(k) # <<>> \/ Queued(k) # <<>>
        ~> (Unreceived(k) = <<>> /\ Queued(k) = <<>>) \/ Stopped

(* A connection that the app server cut, or whose task ended, is reported  *)
(* closed (bookkeep_join_set, run_client_outbound).                        *)
CutIsClosed == \A c \in Conns : c \in cancelled /\ task[c] # "none" ~> c \in closed \/ Stopped
=============================================================================
