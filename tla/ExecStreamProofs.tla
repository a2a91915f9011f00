--------------------------- MODULE ExecStreamProofs ---------------------------
(***************************************************************************)
(* Proofs about ExecStream, for any amount of output and any set of        *)
(* faults: the order of the published events, the place of the last one,   *)
(* the route of the session and the output that a consumer reads.          *)
(***************************************************************************)
EXTENDS ExecStream, NumberLemmas, FiniteSetTheorems

(* The variables StreamTypeOK leaves out.                                  *)
Replies == {NoReply, OkReply, ErrReply, ClosedReply}
             \cup [kind : {"read"}, chunks : SUBSET Nat, nextSeq : Nat, closed : BOOLEAN]
Messages == {Malformed, Disconnected}
              \cup [type : {"response"}, reply : Replies] \cup [type : {"notification"}, seq : Nat]
Requests == {NoRequest, [op |-> "exec"]} \cup [op : {"read"}, after : Nat]

MessageType ==
    /\ incoming \in Seq(Messages) /\ events \in Seq(Messages)
    /\ request \in Requests
    /\ call \in [pc : {"idle", "issue", "wait"}, reply : Replies]

(* The process is started once: it has no past when it is asked for.       *)
Fresh ==
    /\ log = <<>> /\ ~exited /\ openStreams = 0
    /\ \A t \in Task : At(t, "none")

Unasked == consumer = "register" \/ (consumer = "exec" /\ call.pc = "issue")

StartedOnce ==
    /\ Unasked => request = NoRequest /\ ~starting
    /\ Connected /\ starting => request.op = "exec"
    /\ Unasked \/ request.op = "exec" \/ starting => Fresh

(* What the three tasks have in hand, and how many streams are open.       *)
One(b) == IF b THEN 1 ELSE 0
Open(s) == At(s, "recv") \/ (At(s, "notify") /\ log[task[s].seq] = "output")

InHand ==
    /\ \A t \in Task : At(t, "notify") =>
          /\ task[t].seq \in DOMAIN log
          /\ log[task[t].seq] # (IF t = Exit THEN "output" ELSE "exited")
    /\ openStreams = One(Open(Stdout)) + One(Open(Stderr))
    /\ exited <=> ~At(Exit, "none") /\ ~At(Exit, "recv")
    /\ Closed => exited /\ openStreams = 0

(* What has been numbered: the output, one exit and one close.             *)
Numbered ==
    /\ exited <=> \E n \in DOMAIN log : log[n] = "exited"
    /\ Cardinality(Outputs) <= MaxOutput
    /\ Len(log) = Cardinality(Outputs) + One(exited) + One(Closed)

(* Every seq the client knows of is the number of an event; those that     *)
(* wait are beyond the first gap.                                          *)
SeqsKnown ==
    /\ \A i \in DOMAIN incoming : incoming[i].type = "notification" => incoming[i].seq \in DOMAIN log
    /\ \A i \in DOMAIN events : events[i].type = "notification" => events[i].seq \in DOMAIN log
    /\ lastSeq <= Len(log) /\ early \subseteq (lastSeq + 2)..Len(log)

(* The published log is as long as lastSeq says.                           *)
PublishedSound ==
    /\ Len(published) = lastSeq + One(failure)
    /\ \E f \in Nat \ {0} : FailedAt(f) /\ (failure <=> f <= Len(published))

(* The route of a live consumer goes only with Closed or with a failure.   *)
Live == consumer \in {"exec", "read", "reading", "await"}
RouteSound ==
    /\ reader # "run" => latch
    /\ reader = "done" => ~route
    /\ Live /\ ~route => failure \/ \E k \in 1..lastSeq : log[k] = "closed"

(* While the RPC reader runs there is one exchange at a time: the call, its*)
(* request or the response to it.                                          *)
Calling ==
    /\ call.pc = "idle" <=> consumer \notin {"exec", "reading"}
    /\ call.pc # "wait" => call.reply = NoReply
    /\ pending => call.pc = "wait" /\ call.reply = NoReply

Exchange ==
    /\ rpc # "run" => incoming = <<>>
    /\ rpc = "run" =>
         /\ request # NoRequest => pending
         /\ request.op = "read" => request.after = after
         /\ \A i \in DOMAIN incoming : incoming[i].type = "response" =>
               /\ pending /\ request = NoRequest
               /\ \A j \in DOMAIN incoming : incoming[j].type = "response" => j = i

(* The consumer has every chunk up to after_seq, and an answer that is     *)
(* under way has those between after_seq and its next_seq.                 *)
Answer(r) ==
    r.kind = "read" =>
        /\ r.nextSeq \in (after + 1)..(Len(log) + 1)
        /\ r.chunks = {k \in Outputs : k > after /\ k < r.nextSeq}
        /\ r.closed => Closed /\ \A k \in Outputs : k < r.nextSeq

Received ==
    /\ after <= Len(log) /\ got = {k \in Outputs : k <= after}
    /\ consumer = "closed" => Closed /\ \A k \in Outputs : k <= after

Answers ==
    /\ Answer(call.reply)
    /\ \A i \in DOMAIN incoming : incoming[i].type = "response" => Answer(incoming[i].reply)

StreamInv ==
    /\ StreamTypeOK /\ MessageType
    /\ StartedOnce /\ InHand /\ Numbered /\ ClosedIsLast
    /\ SeqsKnown /\ PublishedSound /\ RouteSound
    /\ Calling /\ Exchange /\ Received /\ Answers

-----------------------------------------------------------------------------
(* The three tasks are different.                                          *)
LEMMA TasksDiffer == Stdout # Stderr /\ Exit \notin Stream
<1>1. IsFiniteSet({Exit}) /\ Cardinality({Exit}) = 1
  BY FS_Singleton
<1>2. ASSUME NEW a, Task = {Exit} \cup {a} PROVE FALSE
  <2>1. Cardinality({Exit} \cup {a}) \in {1, 2}
    BY <1>1, FS_AddElement
  <2> QED BY <1>2, <2>1, TaskAssumption
<1>3. Stdout # Stderr
  BY <1>2 DEF Task, Stream
<1>4. Exit # Stdout
  BY <1>2 DEF Task, Stream
<1>5. Exit # Stderr
  BY <1>2 DEF Task, Stream
<1> QED BY <1>3, <1>4, <1>5 DEF Stream

(* What a step that leaves some variables alone leaves alone.              *)
LEMMA Frame ==
    ASSUME StreamInv
    PROVE  /\ UNCHANGED <<entry, log, exited, openStreams, task, starting>> => ServerTypeOK'
           /\ UNCHANGED <<link, watch, rpc, pending, reader, latch>> => ClientTypeOK'
           /\ UNCHANGED <<route, lastSeq, early, published, failure, woken>> => SessionTypeOK'
           /\ UNCHANGED <<consumer, after, got>> => ConsumerTypeOK'
           /\ UNCHANGED <<incoming, events, request, call>> => MessageType'
BY DEF StreamInv, StreamTypeOK, ServerTypeOK, ClientTypeOK, SessionTypeOK, ConsumerTypeOK,
   MessageType

LEMMA ServerFrame ==
    ASSUME StreamInv, UNCHANGED <<log, exited, openStreams, task>>
    PROVE  /\ InHand' /\ Numbered' /\ ClosedIsLast'
           /\ Closed' = Closed /\ Outputs' = Outputs
           /\ UNCHANGED <<consumer, call, request, starting, link, rpc>> => StartedOnce'
<1>1. InHand'
  BY DEF StreamInv, InHand, At, Open, Closed
<1>2. Numbered' /\ ClosedIsLast' /\ Closed' = Closed /\ Outputs' = Outputs
  BY DEF StreamInv, Numbered, ClosedIsLast, One, Closed, Outputs
<1>3. UNCHANGED <<consumer, call, request, starting, link, rpc>> => StartedOnce'
  BY DEF StreamInv, StartedOnce, Unasked, Fresh, At, Connected
<1> QED BY <1>1, <1>2, <1>3

LEMMA ClientFrame ==
    ASSUME StreamInv
    PROVE  /\ UNCHANGED <<log, incoming, events, lastSeq, early>> => SeqsKnown'
           /\ UNCHANGED <<lastSeq, published, failure>> => PublishedSound'
           /\ UNCHANGED <<log, reader, latch, route, failure, lastSeq, consumer>> => RouteSound'
           /\ UNCHANGED <<call, consumer, pending>> => Calling'
           /\ UNCHANGED <<rpc, pending, incoming, request, after>> => Exchange'
           /\ UNCHANGED <<log, consumer, after, got>> => Received'
           /\ UNCHANGED <<log, after, call, incoming>> => Answers'
<1>1. UNCHANGED <<log, incoming, events, lastSeq, early>> => SeqsKnown'
  BY DEF StreamInv, SeqsKnown
<1>2. UNCHANGED <<lastSeq, published, failure>> => PublishedSound'
  BY DEF StreamInv, PublishedSound, FailedAt
<1>3. UNCHANGED <<log, reader, latch, route, failure, lastSeq, consumer>> => RouteSound'
  BY DEF StreamInv, RouteSound, Live
<1>4. UNCHANGED <<call, consumer, pending>> => Calling'
  BY DEF StreamInv, Calling
<1>5. UNCHANGED <<rpc, pending, incoming, request, after>> => Exchange'
  BY DEF StreamInv, Exchange
<1>6. UNCHANGED <<log, consumer, after, got>> => Received'
  BY DEF StreamInv, Received, Outputs, Closed
<1>7. UNCHANGED <<log, after, call, incoming>> => Answers'
  BY DEF StreamInv, Answers, Answer, Outputs, Closed
<1> QED BY <1>1, <1>2, <1>3, <1>4, <1>5, <1>6, <1>7

-----------------------------------------------------------------------------
(* What the log holds after one more event.                                *)
Kinds == {"output", "exited", "closed"}

LEMMA LogLemma ==
    ASSUME StreamInv
    PROVE  /\ Len(log) \in Nat /\ DOMAIN log = 1..Len(log) /\ MaxOutput \in Nat
           /\ Outputs \subseteq 1..Len(log) /\ IsFiniteSet(Outputs) /\ Cardinality(Outputs) \in Nat
           /\ log \in Seq(Kinds)
<1>1. log \in Seq(Kinds) /\ MaxOutput \in Nat
  BY BoundsAssumption DEF StreamInv, StreamTypeOK, ServerTypeOK, Kinds
<1>2. Len(log) \in Nat /\ DOMAIN log = 1..Len(log)
  BY <1>1
<1>3. Outputs \subseteq 1..Len(log)
  BY DEF Outputs
<1>4. IsFiniteSet(Outputs) /\ Cardinality(Outputs) \in Nat
  <2>1. IsFiniteSet(1..Len(log))
    BY FS_Interval
  <2>2. IsFiniteSet(Outputs)
    BY <1>3, <2>1, FS_Subset
  <2> QED BY <2>2, FS_CardinalityType
<1> QED BY <1>1, <1>2, <1>3, <1>4

LEMMA AppendLemma ==
    ASSUME StreamInv, NEW k \in Kinds, log' = Append(log, k)
    PROVE  /\ log' \in Seq(Kinds) /\ Len(log') = Len(log) + 1 /\ DOMAIN log' = 1..(Len(log) + 1)
           /\ \A n \in 1..Len(log) : log'[n] = log[n]
           /\ log'[Len(log) + 1] = k
           /\ Outputs' = Outputs \cup (IF k = "output" THEN {Len(log) + 1} ELSE {})
           /\ Closed' <=> Closed \/ k = "closed"
           /\ (\E n \in DOMAIN log' : log'[n] = "exited")
                <=> (\E n \in DOMAIN log : log[n] = "exited") \/ k = "exited"
<1>1. /\ log' \in Seq(Kinds) /\ Len(log') = Len(log) + 1 /\ DOMAIN log' = 1..(Len(log) + 1)
      /\ \A n \in 1..Len(log) : log'[n] = log[n]
      /\ log'[Len(log) + 1] = k
  BY LogLemma
<1>2. Len(log) \in Nat /\ DOMAIN log = 1..Len(log)
  OBVIOUS
<1>3. \A n \in 1..(Len(log) + 1) : n \in 1..Len(log) \/ n = Len(log) + 1
  BY <1>2
<1>4. 1..Len(log) \subseteq 1..(Len(log) + 1) /\ Len(log) + 1 \in 1..(Len(log) + 1)
  BY <1>2
<1>5. Outputs' = Outputs \cup (IF k = "output" THEN {Len(log) + 1} ELSE {})
  BY DEF Outputs
<1>6. Closed' <=> Closed \/ k = "closed"
  BY DEF Closed
<1>7. (\E n \in DOMAIN log' : log'[n] = "exited")
                <=> (\E n \in DOMAIN log : log[n] = "exited") \/ k = "exited"
  BY <1>1, <1>2, <1>3, <1>4
<1> QED BY <1>1, <1>5, <1>6, <1>7

(* An event that is numbered before the close disturbs no other part: its  *)
(* number is beyond whatever the client has or is about to get.            *)
LEMMA AppendStep ==
    ASSUME StreamInv, NEW k \in Kinds, log' = Append(log, k), ~Closed,
           k = "output" => Cardinality(Outputs) < MaxOutput,
           k = "exited" => ~exited, exited' <=> exited \/ k = "exited",
           k = "closed" => exited,
           UNCHANGED <<handlerVars, linkVars, rpcVars, sessionVars, clientVars, call, consumerVars>>
    PROVE  /\ log' \in Seq(Kinds) /\ Len(log') \in Seqs
           /\ Numbered' /\ ClosedIsLast' /\ SeqsKnown' /\ RouteSound' /\ Received' /\ Answers'
<1> DEFINE n == Len(log) + 1
<1>1. /\ log' \in Seq(Kinds) /\ Len(log') = n /\ DOMAIN log' = 1..n
      /\ \A i \in 1..Len(log) : log'[i] = log[i]
      /\ log'[n] = k
      /\ Outputs' = Outputs \cup (IF k = "output" THEN {n} ELSE {})
      /\ Closed' <=> Closed \/ k = "closed"
      /\ (\E i \in DOMAIN log' : log'[i] = "exited")
           <=> (\E i \in DOMAIN log : log[i] = "exited") \/ k = "exited"
  BY AppendLemma
<1>2. /\ Len(log) \in Nat /\ DOMAIN log = 1..Len(log) /\ MaxOutput \in Nat
      /\ Outputs \subseteq 1..Len(log) /\ IsFiniteSet(Outputs) /\ Cardinality(Outputs) \in Nat
  BY LogLemma
<1>3. Cardinality(Outputs') = Cardinality(Outputs) + One(k = "output")
  <2>1. n \notin Outputs
    BY <1>2
  <2>2. Cardinality(Outputs \cup {n}) = Cardinality(Outputs) + 1
    BY <1>2, <2>1, FS_AddElement
  <2>3. CASE k = "output"
    <3>1. Outputs' = Outputs \cup {n}
      BY <1>1, <2>3
    <3> QED BY <2>2, <2>3, <3>1 DEF One
  <2>4. CASE k # "output"
    <3>1. Outputs' = Outputs
      BY <1>1, <2>4
    <3> QED BY <1>2, <2>4, <3>1 DEF One
  <2> QED BY <2>3, <2>4
<1>4. Numbered'
  <2>1. /\ exited <=> \E i \in DOMAIN log : log[i] = "exited"
        /\ Cardinality(Outputs) <= MaxOutput
        /\ Len(log) = Cardinality(Outputs) + One(exited)
    BY <1>2 DEF StreamInv, Numbered, One
  <2>2. exited' <=> \E i \in DOMAIN log' : log'[i] = "exited"
    BY <1>1, <2>1
  <2>3. Cardinality(Outputs') <= MaxOutput
    BY <1>2, <1>3, <2>1 DEF One
  <2>4. n = Cardinality(Outputs') + One(exited') + One(Closed')
    BY <1>1, <1>2, <1>3, <2>1 DEF One, Kinds
  <2> QED BY <2>2, <2>3, <2>4 DEF Numbered
<1>5. Len(log') \in Seqs
  BY <1>1, <1>2, <1>4, <1>3 DEF Numbered, One, Seqs
<1>6. ClosedIsLast'
  <2>1. \A i \in 1..Len(log) : log[i] # "closed"
    BY DEF Closed
  <2>2. k = "closed" => \E i \in DOMAIN log : log[i] = "exited"
    BY DEF StreamInv, Numbered
  <2> QED BY <2>1, <2>2 DEF ClosedIsLast
<1>7. SeqsKnown'
  <2>1. UNCHANGED <<incoming, events, lastSeq, early>>
    BY DEF linkVars, clientVars, sessionVars
  <2>2. DOMAIN log \subseteq DOMAIN log' /\ Len(log) <= Len(log')
    BY <1>1, <1>2
  <2>3. (lastSeq + 2)..Len(log) \subseteq (lastSeq + 2)..Len(log') /\ lastSeq \in Nat
    BY DEF StreamInv, StreamTypeOK, SessionTypeOK, Seqs
  <2> QED BY <2>1, <2>3 DEF StreamInv, SeqsKnown
<1>8. RouteSound'
  <2>1. UNCHANGED <<reader, latch, route, failure, lastSeq, consumer>>
    BY DEF clientVars, sessionVars, consumerVars
  <2>2. lastSeq \in Nat /\ lastSeq <= Len(log)
    BY DEF StreamInv, StreamTypeOK, SessionTypeOK, Seqs, SeqsKnown
  <2>3. \A i \in 1..lastSeq : log'[i] = log[i]
    BY <1>1, <1>2, <2>2
  <2> QED BY <2>1, <2>3 DEF StreamInv, RouteSound, Live
<1>9. Received'
  <2>1. UNCHANGED <<consumer, after, got>> /\ consumer # "closed"
    BY DEF consumerVars, StreamInv, Received
  <2>2. after \in Nat /\ after <= Len(log)
    BY DEF StreamInv, StreamTypeOK, ConsumerTypeOK, Seqs, Received
  <2>3. {i \in Outputs' : i <= after} = {i \in Outputs : i <= after}
    BY <1>1, <1>2, <2>2
  <2> QED BY <2>1, <2>2, <2>3 DEF StreamInv, Received
<1>10. ASSUME NEW r, Answer(r) PROVE Answer(r)'
  <2> SUFFICES ASSUME r.kind = "read" PROVE Answer(r)'
    BY DEF Answer
  <2>1. /\ r.nextSeq \in (after + 1)..n /\ ~r.closed /\ after' = after
        /\ r.chunks = {i \in Outputs : i > after /\ i < r.nextSeq}
    BY <1>10 DEF Answer, consumerVars
  <2>2. after \in Nat
    BY DEF StreamInv, StreamTypeOK, ConsumerTypeOK, Seqs
  <2>3. {i \in Outputs' : i > after /\ i < r.nextSeq} = {i \in Outputs : i > after /\ i < r.nextSeq}
    BY <1>1, <1>2, <2>1, <2>2
  <2>4. r.nextSeq \in (after + 1)..(Len(log') + 1)
    BY <1>1, <1>2, <2>1, <2>2
  <2> QED BY <2>1, <2>3 DEF Answer
<1>11. Answers'
  BY <1>10 DEF StreamInv, Answers, linkVars
<1> QED BY <1>1, <1>4, <1>5, <1>6, <1>7, <1>8, <1>9, <1>11

(* What an event in hand says of its task.                                 *)
LEMMA InHandLemma ==
    ASSUME StreamInv
    PROVE  /\ Stdout \in Stream /\ Stderr \in Stream /\ Exit \in Task /\ Exit \notin Stream
           /\ \A s \in Stream : s \in Task /\ s # Exit /\ (s = Stdout \/ s = Stderr)
           /\ Stdout # Stderr
           /\ \A t \in Task : At(t, "notify") => task[t].seq \in 1..Len(log)
           /\ \A s \in Stream : Open(s) => openStreams > 0 /\ ~Closed
           /\ At(Exit, "recv") => ~exited /\ ~Closed
           /\ openStreams \in 0..2
           /\ task \in [Task -> [pc : {"none", "recv", "notify", "emit", "end"}, seq : Seqs]]
<1>1. /\ Stdout \in Stream /\ Stderr \in Stream /\ Exit \in Task /\ Exit \notin Stream
      /\ \A s \in Stream : s \in Task /\ s # Exit /\ (s = Stdout \/ s = Stderr)
      /\ Stdout # Stderr
  BY TasksDiffer DEF Task, Stream
<1>2. /\ openStreams \in 0..2
      /\ task \in [Task -> [pc : {"none", "recv", "notify", "emit", "end"}, seq : Seqs]]
  BY DEF StreamInv, StreamTypeOK, ServerTypeOK
<1>3. \A t \in Task : At(t, "notify") => task[t].seq \in 1..Len(log)
  BY LogLemma DEF StreamInv, InHand
<1>4. \A s \in Stream : Open(s) => openStreams > 0 /\ ~Closed
  BY <1>1 DEF StreamInv, InHand, One
<1>5. At(Exit, "recv") => ~exited /\ ~Closed
  BY DEF StreamInv, InHand
<1> QED BY <1>1, <1>2, <1>3, <1>4, <1>5

(* A task that ran is not fresh.                                           *)
LEMMA NotFresh ==
    ASSUME StreamInv, NEW t \in Task, ~At(t, "none")
    PROVE  ~Unasked /\ request.op # "exec" /\ ~starting
BY DEF StreamInv, StartedOnce, Fresh

LEMMA RanStep ==
    ASSUME StreamInv, NEW t \in Task, ~At(t, "none"), UNCHANGED <<consumer, call, request, starting>>
    PROVE  StartedOnce'
BY NotFresh DEF StartedOnce, Unasked

(* One task moves on, with or without a new event in hand.                 *)
Places == {"none", "recv", "notify", "emit", "end"}
Moved(t, p, n) == task' = [task EXCEPT ![t] = [pc |-> p, seq |-> n]]

LEMMA MoveStep ==
    ASSUME StreamInv, NEW t \in Task, NEW p \in Places, NEW n \in Seqs,
           Moved(t, p, n),
           log' \in Seq(Kinds), Len(log') >= Len(log),
           \A i \in 1..Len(log) : log'[i] = log[i],
           p = "notify" => n \in 1..Len(log') /\ log'[n] # (IF t = Exit THEN "output" ELSE "exited")
    PROVE  /\ task' \in [Task -> [pc : Places, seq : Seqs]]
           /\ task'[t].pc = p /\ task'[t].seq = n
           /\ \A u \in Task \ {t} : task'[u] = task[u]
           /\ \A u \in Task : At(u, "notify")' =>
                /\ task'[u].seq \in DOMAIN log'
                /\ log'[task'[u].seq] # (IF u = Exit THEN "output" ELSE "exited")
           /\ \A s \in Stream \ {t} : Open(s)' <=> Open(s)
<1>1. /\ task' \in [Task -> [pc : Places, seq : Seqs]]
      /\ task'[t].pc = p /\ task'[t].seq = n
      /\ \A u \in Task \ {t} : task'[u] = task[u]
  BY InHandLemma DEF Moved, Places
<1>2. DOMAIN log' = 1..Len(log') /\ Len(log') \in Nat /\ 1..Len(log) \subseteq 1..Len(log')
  OBVIOUS
<1>3. ASSUME NEW u \in Task \ {t}, At(u, "notify")'
      PROVE  /\ task'[u].seq \in DOMAIN log'
             /\ log'[task'[u].seq] # (IF u = Exit THEN "output" ELSE "exited")
  <2>1. At(u, "notify") /\ task'[u] = task[u]
    BY <1>1, <1>3 DEF At
  <2>2. task[u].seq \in 1..Len(log) /\ log[task[u].seq] # (IF u = Exit THEN "output" ELSE "exited")
    BY <2>1 DEF StreamInv, InHand
  <2> QED BY <1>2, <2>1, <2>2
<1>4. \A u \in Task : At(u, "notify")' =>
        /\ task'[u].seq \in DOMAIN log'
        /\ log'[task'[u].seq] # (IF u = Exit THEN "output" ELSE "exited")
  BY <1>1, <1>3 DEF At
<1>5. \A s \in Stream \ {t} : Open(s)' <=> Open(s)
  BY <1>1, InHandLemma DEF Open, At
<1> QED BY <1>1, <1>4, <1>5

LEMMA ServerStep ==
    ASSUME StreamInv, log' \in Seq(Kinds), Len(log') \in Seqs,
           task' \in [Task -> [pc : Places, seq : Seqs]],
           exited' \in BOOLEAN \/ UNCHANGED exited, openStreams' \in 0..2 \/ UNCHANGED openStreams,
           UNCHANGED <<entry, starting, link, rpcVars, sessionVars, clientVars, consumerVars>>
    PROVE  StreamTypeOK'
<1>1. ServerTypeOK'
  BY DEF StreamInv, StreamTypeOK, ServerTypeOK, Kinds, Places
<1> QED
  BY <1>1, Frame DEF StreamTypeOK, rpcVars, sessionVars, clientVars, consumerVars

LEMMA StreamChunkKeeps ==
    ASSUME StreamInv, NEW s \in Stream, StreamChunk(s)
    PROVE  StreamInv'
<1>1. /\ At(s, "recv") /\ Cardinality(Outputs) < MaxOutput
      /\ log' = Append(log, "output")
      /\ Moved(s, "notify", Len(log) + 1)
      /\ UNCHANGED <<entry, exited, openStreams, handlerVars, linkVars, rpcVars,
                     sessionVars, clientVars, call, consumerVars>>
  BY DEF StreamChunk, Notify, NextSeq, Moved
<1>2. Open(s) /\ ~Closed /\ s \in Task /\ s # Exit
  BY <1>1, InHandLemma DEF Open
<1>3. /\ log' \in Seq(Kinds) /\ Len(log') \in Seqs
      /\ Numbered' /\ ClosedIsLast' /\ SeqsKnown' /\ RouteSound' /\ Received' /\ Answers'
  BY <1>1, <1>2, AppendStep DEF Kinds
<1>4. /\ Len(log) \in Nat /\ Len(log') = Len(log) + 1
      /\ \A n \in 1..Len(log) : log'[n] = log[n]
      /\ log'[Len(log) + 1] = "output" /\ (Closed' <=> Closed)
  BY <1>1, AppendLemma DEF Kinds
<1>5. /\ task' \in [Task -> [pc : Places, seq : Seqs]]
      /\ task'[s].pc = "notify" /\ task'[s].seq = Len(log) + 1
      /\ \A u \in Task \ {s} : task'[u] = task[u]
      /\ \A u \in Task : At(u, "notify")' =>
           /\ task'[u].seq \in DOMAIN log'
           /\ log'[task'[u].seq] # (IF u = Exit THEN "output" ELSE "exited")
      /\ \A q \in Stream \ {s} : Open(q)' <=> Open(q)
  BY <1>1, <1>2, <1>3, MoveStep DEF Places
<1>6. StreamTypeOK'
  BY <1>1, <1>3, <1>5, ServerStep DEF handlerVars, linkVars
<1>7. InHand'
  <2>1. \A q \in Stream : Open(q)' <=> Open(q)
    BY <1>2, <1>4, <1>5 DEF At, Open
  <2>2. openStreams' = One(Open(Stdout)') + One(Open(Stderr)')
    BY <1>1, <2>1, InHandLemma DEF StreamInv, InHand, One
  <2>3. exited' <=> ~At(Exit, "none")' /\ ~At(Exit, "recv")'
    BY <1>1, <1>5, InHandLemma DEF StreamInv, InHand, At
  <2> QED BY <1>2, <1>4, <1>5, <2>2, <2>3 DEF InHand
<1>8. StartedOnce'
  BY <1>1, <1>2, RanStep DEF At, handlerVars, consumerVars
<1>9. MessageType' /\ PublishedSound' /\ Calling' /\ Exchange'
  BY <1>1, Frame, ClientFrame DEF handlerVars, linkVars, rpcVars, sessionVars, clientVars,
     consumerVars
<1> QED BY <1>3, <1>6, <1>7, <1>8, <1>9 DEF StreamInv

\* The stream was open, and is not any more.
LEMMA FinishOutputStreamKeeps ==
    ASSUME StreamInv, NEW s \in Stream, FinishOutputStream(s)
    PROVE  StreamInv'
<1>1. /\ At(s, "recv") /\ openStreams' = openStreams - 1
      /\ Moved(s, "emit", 0)
      /\ UNCHANGED <<entry, log, exited, handlerVars, linkVars, rpcVars,
                     sessionVars, clientVars, call, consumerVars>>
  BY DEF FinishOutputStream, Goto, Moved
<1>2. /\ Open(s) /\ ~Closed /\ openStreams > 0 /\ openStreams \in 0..2
      /\ s \in Task /\ s # Exit /\ 0 \in Seqs
      /\ Len(log) \in Nat /\ log' \in Seq(Kinds) /\ log' = log
  BY <1>1, InHandLemma, LogLemma DEF Open, Seqs
<1>3. /\ task' \in [Task -> [pc : Places, seq : Seqs]]
      /\ task'[s].pc = "emit"
      /\ \A u \in Task \ {s} : task'[u] = task[u]
      /\ \A u \in Task : At(u, "notify")' =>
           /\ task'[u].seq \in DOMAIN log'
           /\ log'[task'[u].seq] # (IF u = Exit THEN "output" ELSE "exited")
      /\ \A q \in Stream \ {s} : Open(q)' <=> Open(q)
  BY <1>1, <1>2, MoveStep DEF Places
<1>4. StreamTypeOK'
  <2>1. Len(log') \in Seqs /\ openStreams' \in 0..2
    BY <1>1, <1>2 DEF StreamInv, StreamTypeOK, ServerTypeOK
  <2> QED BY <1>1, <1>2, <1>3, <2>1, ServerStep DEF handlerVars, linkVars
<1>5. InHand'
  <2>1. ~Open(s)'
    BY <1>3 DEF At, Open
  <2>2. openStreams' = One(Open(Stdout)') + One(Open(Stderr)')
    BY <1>1, <1>2, <1>3, <2>1, InHandLemma DEF StreamInv, InHand, One
  <2>3. exited' <=> ~At(Exit, "none")' /\ ~At(Exit, "recv")'
    BY <1>1, <1>3, InHandLemma DEF StreamInv, InHand, At
  <2>4. ~Closed'
    BY <1>2 DEF Closed
  <2> QED BY <1>3, <2>2, <2>3, <2>4 DEF InHand
<1>6. Numbered' /\ ClosedIsLast'
  BY <1>1 DEF StreamInv, Numbered, ClosedIsLast, Outputs, Closed, One
<1>7. StartedOnce'
  BY <1>1, <1>2, RanStep DEF At, handlerVars, consumerVars
<1>8. /\ MessageType' /\ SeqsKnown' /\ PublishedSound' /\ RouteSound'
      /\ Calling' /\ Exchange' /\ Received' /\ Answers'
  BY <1>1, Frame, ClientFrame DEF handlerVars, linkVars, rpcVars, sessionVars, clientVars,
     consumerVars
<1> QED BY <1>4, <1>5, <1>6, <1>7, <1>8 DEF StreamInv

LEMMA WatchExitKeeps ==
    ASSUME StreamInv, WatchExit
    PROVE  StreamInv'
<1>1. /\ At(Exit, "recv") /\ exited' = TRUE
      /\ log' = Append(log, "exited")
      /\ Moved(Exit, "notify", Len(log) + 1)
      /\ UNCHANGED <<entry, openStreams, handlerVars, linkVars, rpcVars,
                     sessionVars, clientVars, call, consumerVars>>
  BY DEF WatchExit, Notify, NextSeq, Moved
<1>2. ~exited /\ ~Closed /\ Exit \in Task
  BY <1>1, InHandLemma
<1>3. /\ log' \in Seq(Kinds) /\ Len(log') \in Seqs
      /\ Numbered' /\ ClosedIsLast' /\ SeqsKnown' /\ RouteSound' /\ Received' /\ Answers'
  BY <1>1, <1>2, AppendStep DEF Kinds
<1>4. /\ Len(log) \in Nat /\ Len(log') = Len(log) + 1
      /\ \A n \in 1..Len(log) : log'[n] = log[n]
      /\ log'[Len(log) + 1] = "exited" /\ (Closed' <=> Closed)
  BY <1>1, AppendLemma DEF Kinds
<1>5. /\ task' \in [Task -> [pc : Places, seq : Seqs]]
      /\ task'[Exit].pc = "notify"
      /\ \A u \in Task : At(u, "notify")' =>
           /\ task'[u].seq \in DOMAIN log'
           /\ log'[task'[u].seq] # (IF u = Exit THEN "output" ELSE "exited")
      /\ \A q \in Stream \ {Exit} : Open(q)' <=> Open(q)
  BY <1>1, <1>2, <1>3, MoveStep DEF Places
<1>6. StreamTypeOK'
  BY <1>1, <1>3, <1>5, ServerStep DEF handlerVars, linkVars
<1>7. InHand'
  <2>1. openStreams' = One(Open(Stdout)') + One(Open(Stderr)')
    BY <1>1, <1>5, InHandLemma DEF StreamInv, InHand, One
  <2> QED BY <1>1, <1>2, <1>4, <1>5, <2>1 DEF InHand, At
<1>8. StartedOnce'
  BY <1>1, <1>2, RanStep DEF At, handlerVars, consumerVars
<1>9. MessageType' /\ PublishedSound' /\ Calling' /\ Exchange'
  BY <1>1, Frame, ClientFrame DEF handlerVars, linkVars, rpcVars, sessionVars, clientVars,
     consumerVars
<1> QED BY <1>3, <1>6, <1>7, <1>8, <1>9 DEF StreamInv

(* A message is put on the way to the client.                              *)
LEMMA SentLemma ==
    ASSUME StreamInv, NEW m \in Messages, incoming' = Append(incoming, m)
    PROVE  /\ incoming' \in Seq(Messages)
           /\ Len(incoming) \in Nat /\ DOMAIN incoming = 1..Len(incoming)
           /\ DOMAIN incoming' = 1..(Len(incoming) + 1)
           /\ \A i \in DOMAIN incoming : incoming'[i] = incoming[i]
           /\ incoming'[Len(incoming) + 1] = m
BY DEF StreamInv, MessageType

LEMMA NotifiedStep ==
    ASSUME StreamInv, NEW m \in Messages, incoming' = Append(incoming, m), rpc = "run",
           m.type # "response", m.type = "notification" => m.seq \in DOMAIN log,
           UNCHANGED <<log, request, rpc, pending, sessionVars, clientVars, call, consumerVars>>
    PROVE  MessageType' /\ SeqsKnown' /\ Exchange' /\ Answers'
<1>1. /\ incoming' \in Seq(Messages)
      /\ Len(incoming) \in Nat /\ DOMAIN incoming = 1..Len(incoming)
      /\ DOMAIN incoming' = 1..(Len(incoming) + 1)
      /\ \A i \in DOMAIN incoming : incoming'[i] = incoming[i]
      /\ incoming'[Len(incoming) + 1] = m
  BY SentLemma
<1>2. \A i \in DOMAIN incoming' : i \in DOMAIN incoming \/ i = Len(incoming) + 1
  BY <1>1
<1>3. MessageType'
  BY DEF StreamInv, MessageType, clientVars
<1>4. SeqsKnown'
  BY DEF StreamInv, SeqsKnown, sessionVars, clientVars
<1>5. Exchange'
  BY DEF StreamInv, Exchange, consumerVars
<1>6. ASSUME NEW r PROVE Answer(r) = Answer(r)'
  BY DEF Answer, Outputs, Closed, consumerVars
<1>7. Answers'
  BY <1>6 DEF StreamInv, Answers
<1> QED BY <1>3, <1>4, <1>5, <1>7

LEMMA SendNotificationKeeps ==
    ASSUME StreamInv, NEW t \in Task, SendNotification(t), Connected
    PROVE  StreamInv'
<1>1. /\ At(t, "notify") /\ incoming' = Append(incoming, Notification(task[t].seq))
      /\ Moved(t, AfterNotify(t), 0)
      /\ UNCHANGED <<entry, log, exited, openStreams, handlerVars, link, rpcVars,
                     sessionVars, clientVars, call, consumerVars>>
  BY DEF SendNotification, Sent, Goto, Moved
<1> DEFINE m == Notification(task[t].seq)
<1>2. /\ AfterNotify(t) \in Places /\ AfterNotify(t) # "notify" /\ AfterNotify(t) # "none"
      /\ AfterNotify(t) = "recv" <=> log[task[t].seq] = "output"
      /\ 0 \in Seqs /\ log' \in Seq(Kinds) /\ log' = log /\ Len(log) \in Nat
      /\ task[t].seq \in DOMAIN log /\ log[task[t].seq] \in Kinds
      /\ log[task[t].seq] # (IF t = Exit THEN "output" ELSE "exited")
  BY <1>1, LogLemma, BoundsAssumption DEF AfterNotify, Places, Seqs, Kinds, StreamInv, InHand
<1>3. /\ task' \in [Task -> [pc : Places, seq : Seqs]]
      /\ task'[t].pc = AfterNotify(t)
      /\ \A u \in Task \ {t} : task'[u] = task[u]
      /\ \A u \in Task : At(u, "notify")' =>
           /\ task'[u].seq \in DOMAIN log'
           /\ log'[task'[u].seq] # (IF u = Exit THEN "output" ELSE "exited")
      /\ \A q \in Stream \ {t} : Open(q)' <=> Open(q)
  BY <1>1, <1>2, MoveStep
<1>4. StreamTypeOK'
  <2>1. Len(log') \in Seqs
    BY <1>2 DEF StreamInv, StreamTypeOK, ServerTypeOK
  <2> QED BY <1>1, <1>2, <1>3, <2>1, ServerStep DEF handlerVars
<1>5. InHand'
  <2>1. \A q \in Stream : Open(q)' <=> Open(q)
    BY <1>1, <1>2, <1>3 DEF At, Open
  <2>2. openStreams' = One(Open(Stdout)') + One(Open(Stderr)')
    BY <1>1, <2>1, InHandLemma DEF StreamInv, InHand, One
  <2>3. exited' <=> ~At(Exit, "none")' /\ ~At(Exit, "recv")'
    BY <1>1, <1>2, <1>3, InHandLemma DEF StreamInv, InHand, At
  <2>4. Closed' <=> Closed
    BY <1>2 DEF Closed
  <2> QED BY <1>1, <1>3, <2>2, <2>3, <2>4 DEF StreamInv, InHand
<1>6. Numbered' /\ ClosedIsLast'
  BY <1>1 DEF StreamInv, Numbered, ClosedIsLast, Outputs, Closed, One
<1>7. StartedOnce'
  BY <1>1, RanStep DEF At, handlerVars, consumerVars
<1>8. m \in Messages /\ m.type = "notification" /\ m.seq \in DOMAIN log
  BY <1>2 DEF Notification, Messages
<1>9. MessageType' /\ SeqsKnown' /\ Exchange' /\ Answers'
  BY <1>1, <1>8, NotifiedStep DEF Connected, handlerVars, rpcVars
<1>10. PublishedSound' /\ RouteSound' /\ Calling' /\ Received'
  BY <1>1, ClientFrame DEF rpcVars, sessionVars, clientVars, consumerVars
<1> QED BY <1>4, <1>5, <1>6, <1>7, <1>9, <1>10 DEF StreamInv

\* Closed is numbered once, when nothing else is left to number.
LEMMA MaybeEmitClosedKeeps ==
    ASSUME StreamInv, NEW t \in Task, MaybeEmitClosed(t)
    PROVE  StreamInv'
<1>1. /\ At(t, "emit")
      /\ UNCHANGED <<entry, exited, openStreams, handlerVars, linkVars, rpcVars,
                     sessionVars, clientVars, call, consumerVars>>
  BY DEF MaybeEmitClosed
<1>2. StartedOnce' /\ MessageType' /\ PublishedSound' /\ Calling' /\ Exchange'
  BY <1>1, RanStep, Frame, ClientFrame DEF At, handlerVars, linkVars, rpcVars, sessionVars,
     clientVars, consumerVars
<1>3. CASE MayClose
  <2>1. log' = Append(log, "closed") /\ Moved(t, "notify", Len(log) + 1)
    BY <1>3 DEF MaybeEmitClosed, Notify, NextSeq, Moved
  <2>2. ~Closed /\ openStreams = 0 /\ exited
    BY <1>3 DEF MayClose
  <2>3. /\ log' \in Seq(Kinds) /\ Len(log') \in Seqs
        /\ Numbered' /\ ClosedIsLast' /\ SeqsKnown' /\ RouteSound' /\ Received' /\ Answers'
    BY <1>1, <2>1, <2>2, AppendStep DEF Kinds
  <2>4. /\ Len(log) \in Nat /\ Len(log') = Len(log) + 1
        /\ \A n \in 1..Len(log) : log'[n] = log[n]
        /\ log'[Len(log) + 1] = "closed"
    BY <2>1
  <2>5. /\ task' \in [Task -> [pc : Places, seq : Seqs]]
        /\ task'[t].pc = "notify" /\ task'[t].seq = Len(log) + 1
        /\ \A u \in Task \ {t} : task'[u] = task[u]
        /\ \A u \in Task : At(u, "notify")' =>
             /\ task'[u].seq \in DOMAIN log'
             /\ log'[task'[u].seq] # (IF u = Exit THEN "output" ELSE "exited")
        /\ \A q \in Stream \ {t} : Open(q)' <=> Open(q)
    BY <2>1, <2>3, MoveStep DEF Places
  <2>6. StreamTypeOK'
    BY <1>1, <2>3, <2>5, ServerStep DEF handlerVars, linkVars
  <2>7. InHand'
    <3>1. \A q \in Stream : Open(q)' <=> Open(q)
      BY <1>1, <2>4, <2>5 DEF At, Open
    <3>2. openStreams' = One(Open(Stdout)') + One(Open(Stderr)')
      BY <1>1, <3>1, InHandLemma DEF StreamInv, InHand, One
    <3>3. exited' <=> ~At(Exit, "none")' /\ ~At(Exit, "recv")'
      BY <1>1, <2>5, InHandLemma DEF StreamInv, InHand, At
    <3> QED BY <1>1, <2>2, <2>5, <3>2, <3>3 DEF InHand
  <2> QED BY <1>2, <2>3, <2>6, <2>7 DEF StreamInv
<1>4. CASE ~MayClose
  <2>1. log' = log /\ Moved(t, "end", 0)
    BY <1>4 DEF MaybeEmitClosed, Goto, Moved
  <2>2. Len(log) \in Nat /\ log' \in Seq(Kinds) /\ 0 \in Seqs
    BY <2>1, LogLemma DEF Seqs
  <2>3. /\ task' \in [Task -> [pc : Places, seq : Seqs]]
        /\ task'[t].pc = "end"
        /\ \A u \in Task \ {t} : task'[u] = task[u]
        /\ \A u \in Task : At(u, "notify")' =>
             /\ task'[u].seq \in DOMAIN log'
             /\ log'[task'[u].seq] # (IF u = Exit THEN "output" ELSE "exited")
        /\ \A q \in Stream \ {t} : Open(q)' <=> Open(q)
    BY <2>1, <2>2, MoveStep DEF Places
  <2>4. StreamTypeOK'
    <3>1. Len(log') \in Seqs
      BY <2>1 DEF StreamInv, StreamTypeOK, ServerTypeOK
    <3> QED BY <1>1, <2>2, <2>3, <3>1, ServerStep DEF handlerVars, linkVars
  <2>5. InHand'
    <3>1. \A q \in Stream : Open(q)' <=> Open(q)
      BY <1>1, <2>3 DEF At, Open
    <3>2. openStreams' = One(Open(Stdout)') + One(Open(Stderr)')
      BY <1>1, <3>1, InHandLemma DEF StreamInv, InHand, One
    <3>3. exited' <=> ~At(Exit, "none")' /\ ~At(Exit, "recv")'
      BY <1>1, <2>3, InHandLemma DEF StreamInv, InHand, At
    <3>4. Closed' <=> Closed
      BY <2>1 DEF Closed
    <3> QED BY <1>1, <2>3, <3>2, <3>3, <3>4 DEF StreamInv, InHand
  <2>6. Numbered' /\ ClosedIsLast'
    BY <1>1, <2>1 DEF StreamInv, Numbered, ClosedIsLast, Outputs, Closed, One
  <2>7. SeqsKnown' /\ RouteSound' /\ Received' /\ Answers'
    BY <1>1, <2>1, ClientFrame DEF linkVars, sessionVars, clientVars, consumerVars
  <2> QED BY <1>2, <2>4, <2>5, <2>6, <2>7 DEF StreamInv
<1> QED BY <1>3, <1>4

LEMMA RemoveExitedKeeps ==
    ASSUME StreamInv, RemoveExited
    PROVE  StreamInv'
<1>1. /\ entry' = "none"
      /\ UNCHANGED <<log, exited, openStreams, task, handlerVars, linkVars, rpcVars,
                     sessionVars, clientVars, call, consumerVars>>
  BY DEF RemoveExited
<1>2. ServerTypeOK'
  BY <1>1 DEF StreamInv, StreamTypeOK, ServerTypeOK, handlerVars
<1>3. StreamTypeOK' /\ MessageType'
  BY <1>1, <1>2, Frame DEF StreamTypeOK, handlerVars, linkVars, rpcVars, sessionVars,
     clientVars, consumerVars
<1>4. StartedOnce' /\ InHand' /\ Numbered' /\ ClosedIsLast'
  BY <1>1, ServerFrame DEF handlerVars, linkVars, rpcVars, consumerVars
<1>5. /\ SeqsKnown' /\ PublishedSound' /\ RouteSound'
      /\ Calling' /\ Exchange' /\ Received' /\ Answers'
  BY <1>1, ClientFrame DEF handlerVars, linkVars, rpcVars, sessionVars, clientVars,
     consumerVars
<1> QED BY <1>3, <1>4, <1>5 DEF StreamInv

-----------------------------------------------------------------------------
(* A request is answered: the response takes the place of the request.     *)
LEMMA ReplyStep ==
    ASSUME StreamInv, Connected, request.op # "none", NEW r \in Replies, r.kind # "none", Answer(r),
           Reply(r), UNCHANGED <<log, rpc, pending, sessionVars, clientVars, call, consumerVars>>
    PROVE  MessageType' /\ SeqsKnown' /\ Exchange' /\ Answers'
<1> DEFINE m == Response(r)
<1>1. m \in Messages /\ m.type = "response" /\ m.reply = r
  BY DEF Response, Messages
<1>2. incoming' = Append(incoming, m) /\ request' = NoRequest
  BY DEF Reply, Sent
<1> HIDE DEF m
<1>3. /\ incoming' \in Seq(Messages)
      /\ Len(incoming) \in Nat /\ DOMAIN incoming = 1..Len(incoming)
      /\ DOMAIN incoming' = 1..(Len(incoming) + 1)
      /\ \A i \in DOMAIN incoming : incoming'[i] = incoming[i]
      /\ incoming'[Len(incoming) + 1] = m
  BY <1>1, <1>2, SentLemma
<1>4. \A i \in DOMAIN incoming' : i \in DOMAIN incoming \/ i = Len(incoming) + 1
  BY <1>3
<1>5. MessageType'
  BY <1>2, <1>3 DEF StreamInv, MessageType, clientVars, Requests
<1>6. SeqsKnown'
  BY <1>1, <1>3 DEF StreamInv, SeqsKnown, sessionVars, clientVars
<1>7. pending /\ \A i \in DOMAIN incoming : incoming[i].type # "response"
  BY DEF StreamInv, Exchange, Connected, NoRequest
<1>8. Exchange'
  BY <1>2, <1>7 DEF Exchange, Connected, NoRequest
<1>9. ASSUME NEW q PROVE Answer(q) = Answer(q)'
  BY DEF Answer, Outputs, Closed, consumerVars
<1>10. Answers'
  BY <1>1, <1>3, <1>9 DEF StreamInv, Answers
<1> QED BY <1>5, <1>6, <1>8, <1>10

LEMMA StartProcessKeeps ==
    ASSUME StreamInv, StartProcess
    PROVE  StreamInv'
<1>1. /\ request.op = "exec" /\ ~starting /\ entry' = "starting" /\ starting' = TRUE
      /\ UNCHANGED <<log, exited, openStreams, task, request, linkVars, rpcVars,
                     sessionVars, clientVars, call, consumerVars>>
  BY DEF StartProcess, Handles
<1>2. ServerTypeOK'
  BY <1>1 DEF StreamInv, StreamTypeOK, ServerTypeOK
<1>3. StreamTypeOK' /\ MessageType'
  BY <1>1, <1>2, Frame DEF StreamTypeOK, linkVars, rpcVars, sessionVars, clientVars,
     consumerVars
<1>4. InHand' /\ Numbered' /\ ClosedIsLast'
  BY <1>1, ServerFrame
<1>5. StartedOnce'
  <2>1. Fresh /\ ~Unasked
    BY <1>1 DEF StreamInv, StartedOnce, NoRequest
  <2> QED BY <1>1, <2>1 DEF StartedOnce, Fresh, Unasked, At, consumerVars
<1>6. /\ SeqsKnown' /\ PublishedSound' /\ RouteSound'
      /\ Calling' /\ Exchange' /\ Received' /\ Answers'
  BY <1>1, ClientFrame DEF linkVars, rpcVars, sessionVars, clientVars, consumerVars
<1> QED BY <1>3, <1>4, <1>5, <1>6 DEF StreamInv

(* Which replies are no answer to a read.                                  *)
LEMMA PlainReplies ==
    /\ OkReply \in Replies /\ OkReply.kind = "ok" /\ ErrReply \in Replies /\ ErrReply.kind = "error"
    /\ ClosedReply \in Replies /\ ClosedReply.kind = "closed"
    /\ NoReply \in Replies /\ NoReply.kind = "none"
    /\ Answer(OkReply) /\ Answer(ErrReply) /\ Answer(ClosedReply) /\ Answer(NoReply)
BY DEF Replies, OkReply, ErrReply, ClosedReply, NoReply, Answer

\* The tasks of a process that had none.
LEMMA ProcessStartedKeeps ==
    ASSUME StreamInv, ProcessStarted, Connected
    PROVE  StreamInv'
<1>1. /\ starting /\ entry' = "running" /\ openStreams' = 2 /\ starting' = FALSE
      /\ task' = [t \in Task |-> [pc |-> "recv", seq |-> 0]] /\ Reply(OkReply)
      /\ UNCHANGED <<log, exited, link, rpcVars, sessionVars, clientVars, call, consumerVars>>
  BY DEF ProcessStarted
<1>2. Fresh /\ ~Unasked /\ request.op = "exec"
  BY <1>1 DEF StreamInv, StartedOnce
<1>3. StreamTypeOK'
  <2>1. 0 \in Seqs
    BY BoundsAssumption DEF Seqs
  <2>2. task' \in [Task -> [pc : {"none", "recv", "notify", "emit", "end"}, seq : Seqs]]
    BY <1>1, <2>1
  <2>3. entry' \in {"none", "starting", "running"} /\ starting' \in BOOLEAN
    BY <1>1
  <2>4. openStreams' \in 0..2
    BY <1>1
  <2>5. log' \in Seq({"output", "exited", "closed"}) /\ Len(log') \in Seqs /\ exited' \in BOOLEAN
    BY <1>1 DEF StreamInv, StreamTypeOK, ServerTypeOK
  <2>6. ServerTypeOK'
    BY <2>2, <2>3, <2>4, <2>5 DEF ServerTypeOK
  <2> QED BY <1>1, <2>6, Frame DEF StreamTypeOK, rpcVars, sessionVars, clientVars,
     consumerVars
<1>4. StartedOnce'
  BY <1>1, <1>2 DEF StartedOnce, Unasked, Reply, NoRequest, consumerVars
<1>5. InHand'
  <2>1. \A t \in Task : task'[t].pc = "recv"
    BY <1>1
  <2>2. ~Closed' /\ ~exited'
    BY <1>1, <1>2 DEF Closed, Fresh
  <2> QED BY <1>1, <2>2, InHandLemma DEF InHand, At, Open, One
<1>6. Numbered' /\ ClosedIsLast'
  BY <1>1 DEF StreamInv, Numbered, ClosedIsLast, Outputs, Closed, One
<1>7. MessageType' /\ SeqsKnown' /\ Exchange' /\ Answers'
  BY <1>1, <1>2, PlainReplies, ReplyStep DEF rpcVars
<1>8. PublishedSound' /\ RouteSound' /\ Calling' /\ Received'
  BY <1>1, ClientFrame DEF rpcVars, sessionVars, clientVars, consumerVars
<1> QED BY <1>3, <1>4, <1>5, <1>6, <1>7, <1>8 DEF StreamInv

LEMMA StartFailedKeeps ==
    ASSUME StreamInv, StartFailed, Connected
    PROVE  StreamInv'
<1>1. /\ starting /\ entry' = "none" /\ starting' = FALSE /\ Reply(ErrReply)
      /\ UNCHANGED <<log, exited, openStreams, task, link, rpcVars, sessionVars, clientVars, call,
                     consumerVars>>
  BY DEF StartFailed
<1>2. ~Unasked /\ request.op = "exec"
  BY <1>1 DEF StreamInv, StartedOnce
<1>3. ServerTypeOK'
  BY <1>1 DEF StreamInv, StreamTypeOK, ServerTypeOK
<1>4. StreamTypeOK'
  BY <1>1, <1>3, Frame DEF StreamTypeOK, rpcVars, sessionVars, clientVars, consumerVars
<1>5. StartedOnce'
  BY <1>1, <1>2 DEF StartedOnce, Unasked, Reply, NoRequest, consumerVars
<1>6. InHand' /\ Numbered' /\ ClosedIsLast'
  BY <1>1, ServerFrame
<1>7. MessageType' /\ SeqsKnown' /\ Exchange' /\ Answers'
  BY <1>1, <1>2, PlainReplies, ReplyStep DEF rpcVars
<1>8. PublishedSound' /\ RouteSound' /\ Calling' /\ Received'
  BY <1>1, ClientFrame DEF rpcVars, sessionVars, clientVars, consumerVars
<1> QED BY <1>4, <1>5, <1>6, <1>7, <1>8 DEF StreamInv

(* exec_read hands out exactly what lies between after_seq and next_seq.   *)
LEMMA ReadReplyLemma ==
    ASSUME StreamInv
    PROVE  LET r == ReadReply(after) IN r \in Replies /\ r.kind = "read" /\ Answer(r)
<1> DEFINE r == ReadReply(after)
           chunks == {k \in Outputs : k > after}
           last == CHOOSE k \in chunks : \A j \in chunks : j <= k
<1>1. /\ Len(log) \in Nat /\ Outputs \subseteq 1..Len(log)
      /\ after \in Nat /\ after <= Len(log) /\ Closed \in BOOLEAN
  BY LogLemma DEF StreamInv, StreamTypeOK, ConsumerTypeOK, Seqs, Received, Closed
<1>2. r = [kind |-> "read", chunks |-> chunks,
           nextSeq |-> IF chunks = {} THEN Len(log) + 1 ELSE 1 + last, closed |-> Closed]
  BY DEF ReadReply, NextSeq
<1>3. CASE chunks = {}
  <2>1. r.kind = "read" /\ r.chunks = {} /\ r.nextSeq = Len(log) + 1
    BY <1>2, <1>3
  <2>2. r \in Replies
    BY <1>1, <1>2, <1>3 DEF Replies
  <2>3. r.closed = Closed
    BY <1>2
  <2>4. Answer(r)
    BY <1>1, <1>3, <2>1, <2>3 DEF Answer
  <2> QED BY <2>1, <2>2, <2>4
<1>4. CASE chunks # {}
  <2>1. chunks \in SUBSET Nat /\ \A k \in chunks : k <= Len(log)
    <3>1. \A k \in Outputs : k \in Nat /\ k <= Len(log)
      BY <1>1
    <3> QED BY <3>1
  <2>2. \E k \in chunks : \A j \in chunks : k >= j
    BY <1>1, <1>4, <2>1, Greatest
  <2>3. \E k \in chunks : \A j \in chunks : j <= k
    BY <2>1, <2>2
  <2>4. last \in chunks /\ \A j \in chunks : j <= last
    BY <2>3
  <2> HIDE DEF last
  <2>5. r.kind = "read" /\ r.chunks = chunks /\ r.nextSeq = 1 + last /\ r.closed = Closed
    BY <1>2, <1>4
  <2>6. last \in Nat /\ last > after /\ last <= Len(log)
    BY <1>1, <2>1, <2>4
  <2>7. r \in Replies
    <3>1. chunks \in SUBSET Nat /\ 1 + last \in Nat
      BY <2>1, <2>6
    <3>2. r = [kind |-> "read", chunks |-> chunks, nextSeq |-> 1 + last, closed |-> Closed]
      BY <1>2, <1>4
    <3> HIDE DEF chunks
    <3> QED BY <1>1, <3>1, <3>2 DEF Replies
  <2>8. \A k \in Outputs : k <= last
    BY <1>1, <2>4, <2>6
  <2>9. chunks = {k \in Outputs : k > after /\ k < 1 + last}
    <3>1. \A k \in Outputs : k < 1 + last
      BY <1>1, <2>6, <2>8
    <3> QED BY <3>1
  <2>10. Answer(r)
    BY <1>1, <2>5, <2>6, <2>9 DEF Answer
  <2> QED BY <2>5, <2>7, <2>10
<1> QED BY <1>3, <1>4

LEMMA ExecReadKeeps ==
    ASSUME StreamInv, ExecRead, Connected
    PROVE  StreamInv'
<1>1. /\ request.op = "read" /\ ~starting
      /\ Reply(IF entry = "running" THEN ReadReply(request.after) ELSE ErrReply)
      /\ UNCHANGED <<serverVars, starting, link, rpcVars, sessionVars, clientVars, call,
                     consumerVars>>
  BY DEF ExecRead, Handles
<1>2. request.after = after
  BY <1>1 DEF StreamInv, Exchange, Connected
<1>3. PICK r \in Replies : r.kind # "none" /\ Answer(r) /\ Reply(r)
  BY <1>1, <1>2, PlainReplies, ReadReplyLemma
<1>4. MessageType' /\ SeqsKnown' /\ Exchange' /\ Answers'
  BY <1>1, <1>3, ReplyStep DEF serverVars, rpcVars
<1>5. StreamTypeOK'
  BY <1>1, Frame DEF StreamTypeOK, serverVars, rpcVars, sessionVars, clientVars,
     consumerVars
<1>6. InHand' /\ Numbered' /\ ClosedIsLast'
  BY <1>1, ServerFrame DEF serverVars
<1>7. StartedOnce'
  <2>1. ~Unasked
    BY <1>1 DEF StreamInv, StartedOnce, NoRequest
  <2> QED BY <1>1, <2>1 DEF StartedOnce, Unasked, Reply, NoRequest, consumerVars
<1>8. PublishedSound' /\ RouteSound' /\ Calling' /\ Received'
  BY <1>1, ClientFrame DEF serverVars, rpcVars, sessionVars, clientVars, consumerVars
<1> QED BY <1>4, <1>5, <1>6, <1>7, <1>8 DEF StreamInv

-----------------------------------------------------------------------------
(* What is left of the incoming messages after a cut.                      *)
LEMMA CutLemma ==
    ASSUME StreamInv, NEW n \in 0..Len(incoming),
           incoming' = Append(SubSeq(incoming, 1, n), Disconnected)
    PROVE  /\ incoming' \in Seq(Messages) /\ DOMAIN incoming' = 1..(n + 1)
           /\ \A i \in 1..n : i \in DOMAIN incoming /\ incoming'[i] = incoming[i]
           /\ incoming'[n + 1].type = "disconnected"
<1>1. incoming \in Seq(Messages) /\ Len(incoming) \in Nat /\ DOMAIN incoming = 1..Len(incoming)
  BY DEF StreamInv, MessageType
<1> DEFINE p == SubSeq(incoming, 1, n)
<1>2. p \in Seq(Messages) /\ Len(p) = n /\ \A i \in 1..n : p[i] = incoming[i]
  BY <1>1
<1>3. Disconnected \in Messages /\ Disconnected.type = "disconnected"
  BY DEF Disconnected, Messages
<1> HIDE DEF p
<1>4. incoming' = Append(p, Disconnected)
  BY DEF p
<1>5. /\ incoming' \in Seq(Messages) /\ Len(incoming') = n + 1
      /\ \A i \in 1..n : incoming'[i] = p[i]
      /\ incoming'[n + 1] = Disconnected
  BY <1>1, <1>2, <1>3, <1>4
<1>6. DOMAIN incoming' = 1..(n + 1)
  BY <1>5
<1>7. \A i \in 1..n : i \in DOMAIN incoming
  BY <1>1
<1> QED BY <1>2, <1>3, <1>5, <1>6, <1>7

LEMMA CutKeeps ==
    ASSUME StreamInv, Cut
    PROVE  StreamInv'
<1>1. /\ rpc = "run" /\ link' = "down" /\ watch' = TRUE /\ request' = NoRequest
      /\ UNCHANGED <<serverVars, starting, rpc, pending, sessionVars, clientVars, call,
                     consumerVars>>
  BY DEF Cut, NoFaultYet
<1>2. PICK n \in 0..Len(incoming) : incoming' = Append(SubSeq(incoming, 1, n), Disconnected)
  BY DEF Cut
<1>3. /\ incoming' \in Seq(Messages) /\ DOMAIN incoming' = 1..(n + 1)
      /\ \A i \in 1..n : i \in DOMAIN incoming /\ incoming'[i] = incoming[i]
      /\ incoming'[n + 1].type = "disconnected"
  BY <1>2, CutLemma
<1>4. n \in Nat /\ \A i \in 1..(n + 1) : i \in 1..n \/ i = n + 1
  OBVIOUS
<1>5. ClientTypeOK'
  BY <1>1 DEF StreamInv, StreamTypeOK, ClientTypeOK, clientVars
<1>6. StreamTypeOK'
  BY <1>1, <1>5, Frame DEF StreamTypeOK, serverVars, sessionVars, consumerVars
<1>7. MessageType'
  BY <1>1, <1>3 DEF StreamInv, MessageType, Requests, clientVars
<1>8. InHand' /\ Numbered' /\ ClosedIsLast'
  BY <1>1, ServerFrame DEF serverVars
<1>9. StartedOnce'
  BY <1>1 DEF StreamInv, StartedOnce, Unasked, Fresh, At, Connected, NoRequest, serverVars,
     consumerVars
<1>10. SeqsKnown'
  BY <1>1, <1>3 DEF StreamInv, SeqsKnown, serverVars, sessionVars, clientVars
<1>11. Exchange'
  BY <1>1, <1>3 DEF StreamInv, Exchange, NoRequest
<1>12. ASSUME NEW r PROVE Answer(r) = Answer(r)'
  BY <1>1 DEF Answer, Outputs, Closed, consumerVars, serverVars
<1>13. Answers'
  BY <1>1, <1>3, <1>12 DEF StreamInv, Answers
<1>14. PublishedSound' /\ RouteSound' /\ Calling' /\ Received'
  BY <1>1, ClientFrame DEF serverVars, sessionVars, clientVars, consumerVars
<1> QED BY <1>6, <1>7, <1>8, <1>9, <1>10, <1>11, <1>13, <1>14 DEF StreamInv

LEMMA GarbleKeeps ==
    ASSUME StreamInv, Garble
    PROVE  StreamInv'
<1>1. /\ rpc = "run" /\ incoming' = Append(incoming, Malformed)
      /\ UNCHANGED <<serverVars, handlerVars, link, rpcVars, sessionVars, clientVars, call,
                     consumerVars>>
  BY DEF Garble, NoFaultYet
<1>2. Malformed \in Messages /\ Malformed.type = "malformed"
  BY DEF Malformed, Messages
<1>3. MessageType' /\ SeqsKnown' /\ Exchange' /\ Answers'
  BY <1>1, <1>2, NotifiedStep DEF serverVars, handlerVars, rpcVars
<1>4. StreamTypeOK'
  BY <1>1, Frame DEF StreamTypeOK, serverVars, handlerVars, rpcVars, sessionVars,
     clientVars, consumerVars
<1>5. StartedOnce' /\ InHand' /\ Numbered' /\ ClosedIsLast'
  BY <1>1, ServerFrame DEF serverVars, handlerVars, rpcVars, consumerVars
<1>6. PublishedSound' /\ RouteSound' /\ Calling' /\ Received'
  BY <1>1, ClientFrame DEF serverVars, rpcVars, sessionVars, clientVars, consumerVars
<1> QED BY <1>3, <1>4, <1>5, <1>6 DEF StreamInv

-----------------------------------------------------------------------------
(* The first message is taken off.                                         *)
LEMMA ArrivedLemma ==
    ASSUME StreamInv, NEW k, Arrived(k)
    PROVE  /\ rpc = "run" /\ 1 \in DOMAIN incoming /\ Head(incoming) = incoming[1]
           /\ incoming[1] \in Messages /\ incoming[1].type = k
           /\ Tail(incoming) \in Seq(Messages)
           /\ \A i \in DOMAIN Tail(incoming) :
                 i + 1 \in DOMAIN incoming /\ Tail(incoming)[i] = incoming[i + 1] /\ i \in Nat \ {0}
<1>1. incoming \in Seq(Messages) /\ incoming # <<>> /\ rpc = "run" /\ Head(incoming).type = k
  BY DEF Arrived, StreamInv, MessageType
<1>2. Len(incoming) \in Nat \ {0} /\ DOMAIN incoming = 1..Len(incoming)
  BY <1>1
<1>3. /\ Head(incoming) = incoming[1] /\ 1 \in DOMAIN incoming /\ incoming[1] \in Messages
  BY <1>1, <1>2
<1>4. /\ Tail(incoming) \in Seq(Messages) /\ DOMAIN Tail(incoming) = 1..(Len(incoming) - 1)
      /\ \A i \in 1..(Len(incoming) - 1) : Tail(incoming)[i] = incoming[i + 1]
  BY <1>1, <1>2
<1>5. \A i \in 1..(Len(incoming) - 1) : i + 1 \in DOMAIN incoming /\ i \in Nat \ {0}
  BY <1>2
<1> QED BY <1>1, <1>3, <1>4, <1>5

LEMMA RpcResponseKeeps ==
    ASSUME StreamInv, RpcResponse
    PROVE  StreamInv'
<1>1. /\ Arrived("response") /\ pending /\ pending' = FALSE
      /\ call' = [call EXCEPT !.reply = Head(incoming).reply] /\ incoming' = Tail(incoming)
      /\ UNCHANGED <<serverVars, handlerVars, link, watch, rpc, sessionVars, clientVars,
                     consumerVars>>
  BY DEF RpcResponse
<1>2. /\ rpc = "run" /\ 1 \in DOMAIN incoming /\ Head(incoming) = incoming[1]
      /\ incoming[1] \in Messages /\ incoming[1].type = "response"
      /\ incoming' \in Seq(Messages)
      /\ \A i \in DOMAIN incoming' :
            i + 1 \in DOMAIN incoming /\ incoming'[i] = incoming[i + 1] /\ i \in Nat \ {0}
  BY <1>1, ArrivedLemma
<1>3. incoming[1].reply \in Replies /\ Answer(incoming[1].reply)
  BY <1>2 DEF StreamInv, Answers, Messages, Malformed, Disconnected
<1>4. /\ call \in [pc : {"idle", "issue", "wait"}, reply : Replies]
      /\ call.pc = "wait" /\ request = NoRequest
      /\ \A j \in DOMAIN incoming : incoming[j].type = "response" => j = 1
  BY <1>2 DEF StreamInv, MessageType, Calling, Exchange
<1>5. /\ call' \in [pc : {"idle", "issue", "wait"}, reply : Replies]
      /\ call'.pc = "wait" /\ call'.reply = incoming[1].reply
  BY <1>1, <1>2, <1>3, <1>4
<1>6. \A i \in DOMAIN incoming' : incoming'[i].type # "response"
  BY <1>2, <1>4
<1>7. ClientTypeOK'
  BY <1>1 DEF StreamInv, StreamTypeOK, ClientTypeOK, clientVars
<1>8. StreamTypeOK' /\ MessageType'
  BY <1>1, <1>2, <1>5, <1>7, Frame DEF StreamInv, StreamTypeOK, MessageType, serverVars,
     handlerVars, sessionVars, clientVars, consumerVars
<1>9. InHand' /\ Numbered' /\ ClosedIsLast'
  BY <1>1, ServerFrame DEF serverVars
<1>10. StartedOnce'
  BY <1>1 DEF StreamInv, StartedOnce, Unasked, Fresh, At, Connected, serverVars,
     handlerVars, consumerVars
<1>11. SeqsKnown'
  BY <1>1, <1>2 DEF StreamInv, SeqsKnown, serverVars, sessionVars, clientVars
<1>12. Calling' /\ Exchange'
  BY <1>1, <1>4, <1>6 DEF StreamInv, Calling, Exchange, handlerVars, consumerVars
<1>13. ASSUME NEW r PROVE Answer(r) = Answer(r)'
  BY <1>1 DEF Answer, Outputs, Closed, consumerVars, serverVars
<1>14. Answers'
  BY <1>3, <1>5, <1>6, <1>13 DEF Answers
<1>15. PublishedSound' /\ RouteSound' /\ Received'
  BY <1>1, ClientFrame DEF serverVars, sessionVars, clientVars, consumerVars
<1> QED BY <1>8, <1>9, <1>10, <1>11, <1>12, <1>14, <1>15 DEF StreamInv

LEMMA RpcNotificationKeeps ==
    ASSUME StreamInv, RpcNotification
    PROVE  StreamInv'
<1>1. /\ Arrived("notification") /\ events' = Append(events, Head(incoming))
      /\ incoming' = Tail(incoming)
      /\ UNCHANGED <<serverVars, handlerVars, link, rpcVars, sessionVars, reader, latch, call,
                     consumerVars>>
  BY DEF RpcNotification
<1>2. /\ rpc = "run" /\ 1 \in DOMAIN incoming /\ Head(incoming) = incoming[1]
      /\ incoming[1] \in Messages /\ incoming[1].type = "notification"
      /\ incoming' \in Seq(Messages)
      /\ \A i \in DOMAIN incoming' :
            i + 1 \in DOMAIN incoming /\ incoming'[i] = incoming[i + 1] /\ i \in Nat \ {0}
  BY <1>1, ArrivedLemma
<1>3. incoming[1].seq \in DOMAIN log
  BY <1>2 DEF StreamInv, SeqsKnown
<1>4. /\ events' \in Seq(Messages)
      /\ \A i \in DOMAIN events' :
            (i \in DOMAIN events /\ events'[i] = events[i]) \/ events'[i] = incoming[1]
  BY <1>1, <1>2 DEF StreamInv, MessageType
<1>5. StreamTypeOK' /\ MessageType'
  BY <1>1, <1>2, Frame DEF StreamInv, StreamTypeOK, MessageType, serverVars, handlerVars,
     rpcVars, sessionVars, consumerVars
<1>6. StartedOnce' /\ InHand' /\ Numbered' /\ ClosedIsLast'
  BY <1>1, ServerFrame DEF serverVars, handlerVars, rpcVars, consumerVars
<1>7. SeqsKnown'
  BY <1>1, <1>2 DEF StreamInv, SeqsKnown, serverVars, sessionVars
<1>8. Exchange'
  <2>1. ASSUME NEW i \in DOMAIN incoming', incoming'[i].type = "response"
        PROVE  /\ pending /\ request = NoRequest
               /\ \A j \in DOMAIN incoming' : incoming'[j].type = "response" => j = i
    BY <1>2, <2>1 DEF StreamInv, Exchange
  <2> QED BY <1>1, <2>1 DEF StreamInv, Exchange, handlerVars, rpcVars, consumerVars
<1>9. ASSUME NEW r PROVE Answer(r) = Answer(r)'
  BY <1>1 DEF Answer, Outputs, Closed, consumerVars, serverVars
<1>10. Answers'
  BY <1>1, <1>2, <1>9 DEF StreamInv, Answers
<1>11. PublishedSound' /\ RouteSound' /\ Calling' /\ Received'
  BY <1>1, ClientFrame DEF serverVars, rpcVars, sessionVars, consumerVars
<1> QED BY <1>5, <1>6, <1>7, <1>8, <1>10, <1>11 DEF StreamInv

LEMMA RpcDisconnectedKeeps ==
    ASSUME StreamInv, RpcDisconnected
    PROVE  StreamInv'
<1>1. /\ rpc' \in {"drain", "break"} /\ events' = Append(events, Disconnected)
      /\ incoming' = <<>>
      /\ UNCHANGED <<serverVars, handlerVars, link, watch, pending, sessionVars, reader, latch,
                     call, consumerVars>>
  BY DEF RpcDisconnected
<1>2. Disconnected \in Messages /\ Disconnected.type = "disconnected"
  BY DEF Disconnected, Messages
<1>3. /\ events' \in Seq(Messages)
      /\ \A i \in DOMAIN events' :
            (i \in DOMAIN events /\ events'[i] = events[i]) \/ events'[i] = Disconnected
  BY <1>1, <1>2 DEF StreamInv, MessageType
<1>4. incoming' \in Seq(Messages) /\ DOMAIN incoming' = {}
  BY <1>1
<1>5. ClientTypeOK'
  BY <1>1 DEF StreamInv, StreamTypeOK, ClientTypeOK
<1>6. StreamTypeOK' /\ MessageType'
  BY <1>1, <1>3, <1>5, Frame DEF StreamInv, StreamTypeOK, MessageType, serverVars,
     handlerVars, sessionVars, consumerVars
<1>7. InHand' /\ Numbered' /\ ClosedIsLast'
  BY <1>1, ServerFrame DEF serverVars
<1>8. StartedOnce'
  BY <1>1 DEF StreamInv, StartedOnce, Unasked, Fresh, At, Connected, serverVars,
     handlerVars, consumerVars
<1>9. SeqsKnown'
  BY <1>1, <1>2 DEF StreamInv, SeqsKnown, serverVars, sessionVars
<1>10. Exchange'
  BY <1>1 DEF Exchange
<1>11. Answer(call.reply)' = Answer(call.reply)
  BY <1>1 DEF Answer, Outputs, Closed, consumerVars, serverVars
<1>12. Answers'
  BY <1>4, <1>11 DEF StreamInv, Answers
<1>13. PublishedSound' /\ RouteSound' /\ Calling' /\ Received'
  BY <1>1, ClientFrame DEF serverVars, sessionVars, consumerVars
<1> QED BY <1>6, <1>7, <1>8, <1>9, <1>10, <1>12, <1>13 DEF StreamInv

(* The call changes, and the server with what it has sent does not.        *)
LEMMA CallStep ==
    ASSUME StreamInv, UNCHANGED <<serverVars, incoming, events, after>>,
           NEW p \in {"idle", "issue", "wait"}, NEW r \in Replies, r.kind # "read",
           call' = [pc |-> p, reply |-> r], request' \in Requests
    PROVE  /\ MessageType' /\ InHand' /\ Numbered' /\ ClosedIsLast' /\ Answers'
           /\ call'.pc = p /\ call'.reply = r
<1>1. call' \in [pc : {"idle", "issue", "wait"}, reply : Replies] /\ call'.pc = p /\ call'.reply = r
  OBVIOUS
<1>2. MessageType'
  BY DEF StreamInv, MessageType
<1>3. InHand' /\ Numbered' /\ ClosedIsLast'
  BY ServerFrame DEF serverVars
<1>4. ASSUME NEW q PROVE Answer(q) = Answer(q)'
  BY DEF Answer, Outputs, Closed, serverVars
<1>5. Answers'
  BY <1>4 DEF StreamInv, Answers, Answer
<1> QED BY <1>1, <1>2, <1>3, <1>5

(* A call is a record of its two fields.                                   *)
LEMMA CallLemma ==
    ASSUME StreamInv
    PROVE  /\ call = [pc |-> call.pc, reply |-> call.reply]
           /\ call.pc \in {"idle", "issue", "wait"} /\ call.reply \in Replies
           /\ \A r : [call EXCEPT !.reply = r] = [pc |-> call.pc, reply |-> r]
           /\ \A p : [call EXCEPT !.pc = p] = [pc |-> p, reply |-> call.reply]
           /\ request \in Requests
<1>1. call \in [pc : {"idle", "issue", "wait"}, reply : Replies] /\ request \in Requests
  BY DEF StreamInv, MessageType
<1>2. call = [pc |-> call.pc, reply |-> call.reply]
  BY <1>1
<1>3. \A r : [call EXCEPT !.reply = r] = [pc |-> call.pc, reply |-> r]
  BY <1>1
<1>4. \A p : [call EXCEPT !.pc = p] = [pc |-> p, reply |-> call.reply]
  BY <1>1
<1> QED BY <1>1, <1>2, <1>3, <1>4

LEMMA DrainPendingKeeps ==
    ASSUME StreamInv, DrainPending
    PROVE  StreamInv'
<1>1. /\ rpc # "run" /\ rpc' \in {"closed", "broken"} /\ pending' = FALSE
      /\ call' = IF pending THEN [call EXCEPT !.reply = ClosedReply] ELSE call
      /\ UNCHANGED <<serverVars, handlerVars, linkVars, watch, sessionVars, clientVars,
                     consumerVars>>
  BY DEF DrainPending
<1>2. ClientTypeOK'
  BY <1>1 DEF StreamInv, StreamTypeOK, ClientTypeOK, linkVars, clientVars
<1>3. StreamTypeOK'
  BY <1>1, <1>2, Frame DEF StreamTypeOK, serverVars, handlerVars, sessionVars, consumerVars
<1>4. Exchange'
  BY <1>1 DEF StreamInv, Exchange, linkVars
<1>5. SeqsKnown' /\ PublishedSound' /\ RouteSound' /\ Received'
  BY <1>1, ClientFrame DEF serverVars, linkVars, sessionVars, clientVars, consumerVars
<1>6. CASE pending
  <2>1. call' = [pc |-> call.pc, reply |-> ClosedReply] /\ call.pc = "wait"
    BY <1>1, <1>6, CallLemma DEF StreamInv, Calling
  <2>2. /\ MessageType' /\ InHand' /\ Numbered' /\ ClosedIsLast' /\ Answers'
        /\ call'.pc = "wait" /\ call'.reply = ClosedReply
    BY <1>1, <2>1, PlainReplies, CallLemma, CallStep DEF handlerVars, linkVars, clientVars,
       consumerVars
  <2>3. Calling'
    BY <1>1 DEF StreamInv, Calling, consumerVars
  <2>4. StartedOnce'
    BY <1>1 DEF StreamInv, StartedOnce, Unasked, Fresh, At, Connected, serverVars,
       handlerVars, consumerVars
  <2> QED BY <1>3, <1>4, <1>5, <2>2, <2>3, <2>4 DEF StreamInv
<1>7. CASE ~pending
  <2>1. call' = call
    BY <1>1, <1>7
  <2>2. MessageType' /\ InHand' /\ Numbered' /\ ClosedIsLast' /\ Answers'
    BY <1>1, <2>1, Frame, ServerFrame, ClientFrame DEF serverVars, handlerVars, linkVars,
       clientVars, consumerVars
  <2>3. Calling'
    BY <1>1 DEF StreamInv, Calling, consumerVars
  <2>4. StartedOnce'
    BY <1>1 DEF StreamInv, StartedOnce, Unasked, Fresh, At, Connected, serverVars,
       handlerVars, consumerVars
  <2> QED BY <1>3, <1>4, <1>5, <2>2, <2>3, <2>4 DEF StreamInv
<1> QED BY <1>6, <1>7

-----------------------------------------------------------------------------
(* The first event is taken off.                                           *)
LEMMA EventLemma ==
    ASSUME StreamInv, events # <<>>
    PROVE  /\ Head(events).type = "notification" => Head(events).seq \in DOMAIN log
           /\ Tail(events) \in Seq(Messages)
           /\ \A i \in DOMAIN Tail(events) :
                 i + 1 \in DOMAIN events /\ Tail(events)[i] = events[i + 1]
<1>1. events \in Seq(Messages) /\ Len(events) \in Nat \ {0} /\ DOMAIN events = 1..Len(events)
  BY DEF StreamInv, MessageType
<1>2. Head(events) = events[1] /\ 1 \in DOMAIN events
  BY <1>1
<1>3. /\ Tail(events) \in Seq(Messages) /\ DOMAIN Tail(events) = 1..(Len(events) - 1)
      /\ \A i \in 1..(Len(events) - 1) : Tail(events)[i] = events[i + 1]
  BY <1>1
<1>4. \A i \in 1..(Len(events) - 1) : i + 1 \in DOMAIN events
  BY <1>1
<1> QED BY <1>3 DEF StreamInv, SeqsKnown

LEMMA RecordDisconnectedKeeps ==
    ASSUME StreamInv, RecordDisconnected
    PROVE  StreamInv'
<1>1. /\ events # <<>> /\ latch' = TRUE /\ reader = "run" /\ reader' = "fail"
      /\ events' = Tail(events)
      /\ UNCHANGED <<serverVars, handlerVars, linkVars, rpcVars, sessionVars, call, consumerVars>>
  BY DEF RecordDisconnected
<1>2. ClientTypeOK'
  BY <1>1 DEF StreamInv, StreamTypeOK, ClientTypeOK, linkVars, rpcVars
<1>3. StreamTypeOK' /\ MessageType'
  BY <1>1, <1>2, Frame DEF StreamInv, StreamTypeOK, MessageType, serverVars, handlerVars,
     linkVars, sessionVars, consumerVars
<1>4. StartedOnce' /\ InHand' /\ Numbered' /\ ClosedIsLast'
  BY <1>1, ServerFrame DEF serverVars, handlerVars, linkVars, rpcVars, consumerVars
<1>5. SeqsKnown'
  BY <1>1, EventLemma DEF StreamInv, SeqsKnown, serverVars, linkVars, sessionVars
<1>6. RouteSound'
  BY <1>1 DEF StreamInv, RouteSound, Live, serverVars, sessionVars, consumerVars
<1>7. PublishedSound' /\ Calling' /\ Exchange' /\ Received' /\ Answers'
  BY <1>1, ClientFrame DEF serverVars, handlerVars, linkVars, rpcVars, sessionVars,
     consumerVars
<1> QED BY <1>3, <1>4, <1>5, <1>6, <1>7 DEF StreamInv

(* publish_ordered_event publishes the numbers up to the first gap, in     *)
(* order, and keeps those beyond it.                                       *)
LEMMA PublishLemma ==
    ASSUME StreamInv, NEW n \in DOMAIN log, n > lastSeq, PublishOrdered(n)
    PROVE  \E m \in lastSeq..Len(log) :
              /\ lastSeq' = m /\ early' \subseteq (m + 2)..Len(log)
              /\ published' = published \o [i \in 1..(m - lastSeq) |-> lastSeq + i]
              /\ route' = (route /\ ~\E k \in (lastSeq + 1)..m : log[k] = "closed")
<1> DEFINE all == early \cup {n}
           ready == Contiguous(all)
<1>1. /\ Len(log) \in Nat /\ lastSeq \in Nat /\ lastSeq <= Len(log)
      /\ early \subseteq (lastSeq + 2)..Len(log) /\ DOMAIN log = 1..Len(log)
  BY DEF StreamInv, StreamTypeOK, SessionTypeOK, Seqs, SeqsKnown
<1>2. all \subseteq (lastSeq + 1)..Len(log)
  <2>1. n \in (lastSeq + 1)..Len(log)
    BY <1>1
  <2>2. (lastSeq + 2)..Len(log) \subseteq (lastSeq + 1)..Len(log)
    BY <1>1
  <2> QED BY <1>1, <2>1, <2>2
<1>3. ready \subseteq all /\ \A k \in all : k \in ready <=> \A j \in (lastSeq + 1)..k : j \in all
  BY DEF Contiguous
<1>4. /\ early' = all \ ready /\ lastSeq' = lastSeq + Cardinality(ready)
      /\ published' = published \o [i \in 1..Cardinality(ready) |-> lastSeq + i]
      /\ route' = (route /\ ~\E k \in ready : log[k] = "closed")
  <2>1. ~(n <= lastSeq)
    BY <1>1
  <2> QED BY <2>1, Zenon DEF PublishOrdered
<1> HIDE DEF all, ready
<1>5. PICK m \in lastSeq..Len(log) : ready = (lastSeq + 1)..m /\ m + 1 \notin all
  <2>1. CASE ready = {}
    <3>1. lastSeq + 1 \notin all
      <4>1. \A j \in (lastSeq + 1)..(lastSeq + 1) : j = lastSeq + 1
        BY <1>1
      <4> QED BY <1>3, <2>1, <4>1
    <3>2. ready = (lastSeq + 1)..lastSeq /\ lastSeq \in lastSeq..Len(log)
      BY <1>1, <2>1
    <3> QED BY <3>1, <3>2
  <2>2. CASE ready # {}
    <3>1. ready \in SUBSET Nat /\ \A k \in ready : k <= Len(log)
      <4>1. \A k \in (lastSeq + 1)..Len(log) : k \in Nat /\ k <= Len(log)
        BY <1>1
      <4> QED BY <1>2, <1>3, <4>1
    <3>2. PICK m \in ready : \A k \in ready : m >= k
      BY <1>1, <2>2, <3>1, Greatest
    <3>3. m \in (lastSeq + 1)..Len(log)
      BY <1>2, <1>3
    <3>4. \A j \in (lastSeq + 1)..m : j \in all
      BY <1>3, <3>2
    <3>5. (lastSeq + 1)..m \subseteq ready
      <4> SUFFICES ASSUME NEW j \in (lastSeq + 1)..m PROVE j \in ready
        OBVIOUS
      <4>1. \A i \in (lastSeq + 1)..j : i \in (lastSeq + 1)..m
        BY <1>1, <3>3
      <4> QED BY <1>3, <3>4, <4>1
    <3>6. ready \subseteq (lastSeq + 1)..m
      <4> SUFFICES ASSUME NEW j \in ready PROVE j \in (lastSeq + 1)..m
        OBVIOUS
      <4>1. j \in (lastSeq + 1)..Len(log) /\ j <= m
        BY <1>2, <1>3, <3>1, <3>2
      <4> QED BY <1>1, <3>3, <4>1
    <3>7. m + 1 \notin all
      <4> SUFFICES ASSUME m + 1 \in all PROVE FALSE
        OBVIOUS
      <4>1. \A j \in (lastSeq + 1)..(m + 1) : j \in (lastSeq + 1)..m \/ j = m + 1
        BY <1>1, <3>3
      <4>2. m + 1 \in ready
        BY <1>3, <3>4, <4>1
      <4> QED BY <3>1, <3>2, <4>2
    <3>8. m \in lastSeq..Len(log)
      BY <1>1, <3>3
    <3> QED BY <3>5, <3>6, <3>7, <3>8
  <2> QED BY <2>1, <2>2
<1>6. m \in Nat /\ lastSeq <= m /\ m <= Len(log)
  BY <1>1
<1>7. Cardinality(ready) = m - lastSeq
  <2>1. lastSeq + 1 \in Int /\ m \in Int
    BY <1>1, <1>6
  <2>2. Cardinality((lastSeq + 1)..m) = IF lastSeq + 1 > m THEN 0 ELSE m - (lastSeq + 1) + 1
    BY <2>1, FS_Interval
  <2> QED BY <1>1, <1>5, <1>6, <2>2
<1>8. lastSeq' = m
  BY <1>1, <1>4, <1>6, <1>7
<1>9. early' \subseteq (m + 2)..Len(log)
  <2> SUFFICES ASSUME NEW j \in all, j \notin ready PROVE j \in (m + 2)..Len(log)
    BY <1>4
  <2>1. j \in (lastSeq + 1)..Len(log) /\ j # m + 1 /\ j \notin (lastSeq + 1)..m
    BY <1>2, <1>5
  <2> QED BY <1>1, <1>6, <2>1
<1> QED BY <1>4, <1>5, <1>7, <1>8, <1>9

LEMMA ConcatLemma ==
    ASSUME NEW S, NEW a \in Seq(S), NEW b \in Seq(S)
    PROVE  /\ a \o b \in Seq(S) /\ Len(a \o b) = Len(a) + Len(b)
           /\ \A i \in 1..Len(a) : (a \o b)[i] = a[i]
           /\ \A i \in 1..Len(b) : (a \o b)[Len(a) + i] = b[i]
<1>1. a \o b \in Seq(S) /\ Len(a \o b) = Len(a) + Len(b)
  OBVIOUS
<1>2. \A i \in 1..Len(a) : (a \o b)[i] = a[i]
  OBVIOUS
<1>3. ASSUME NEW i \in 1..Len(b) PROVE (a \o b)[Len(a) + i] = b[i]
  OBVIOUS
<1> QED BY <1>1, <1>2, <1>3

(* Where the session stands after its log got longer.                      *)
LEMMA PublishedStep ==
    ASSUME StreamInv, NEW m \in lastSeq..Len(log), lastSeq' = m, UNCHANGED failure,
           published' = published \o [i \in 1..(m - lastSeq) |-> lastSeq + i]
    PROVE  PublishedSound' /\ published' \in Seq(Seqs)
<1> DEFINE c == m - lastSeq
           new == [i \in 1..c |-> lastSeq + i]
<1>1. /\ Len(log) \in Nat /\ Len(log) \in Seqs /\ lastSeq \in Nat /\ m \in Nat /\ c \in Nat
      /\ m = lastSeq + c /\ m <= Len(log) /\ MaxOutput \in Nat
      /\ published \in Seq(Seqs) /\ Len(published) \in Nat
      /\ Len(published) = lastSeq + One(failure) /\ One(failure) \in {0, 1}
  BY BoundsAssumption DEF StreamInv, StreamTypeOK, ServerTypeOK, SessionTypeOK, Seqs,
     PublishedSound, One
<1>2. published' = published \o new /\ \A i \in 1..c : new[i] = lastSeq + i
  OBVIOUS
<1> HIDE DEF c
<1>3. new \in Seq(Seqs) /\ Len(new) = c
  <2>1. \A i \in 1..c : lastSeq + i \in Seqs
    BY <1>1 DEF Seqs
  <2>2. new \in [1..c -> Seqs]
    BY <2>1
  <2> HIDE DEF new
  <2> QED BY <1>1, <2>2
<1> HIDE DEF new
<1>4. /\ published' \in Seq(Seqs) /\ Len(published') = Len(published) + c
      /\ \A i \in 1..Len(published) : published'[i] = published[i]
      /\ \A i \in 1..c : published'[Len(published) + i] = lastSeq + i
  <2>1. PICK s : s = new
    OBVIOUS
  <2>2. s \in Seq(Seqs) /\ Len(s) = c /\ (\A i \in 1..c : s[i] = lastSeq + i)
          /\ published' = published \o s /\ published \in Seq(Seqs)
    BY <1>1, <1>2, <1>3, <2>1
  <2>3. published \o s \in Seq(Seqs) /\ Len(published \o s) = Len(published) + Len(s)
    BY <2>2, ConcatLemma
  <2>4. \A i \in 1..Len(published) : (published \o s)[i] = published[i]
    OBVIOUS
  <2>5. \A i \in 1..Len(s) : (published \o s)[Len(published) + i] = s[i]
    OBVIOUS
  <2> QED BY <2>2, <2>3, <2>4, <2>5
<1>5. Len(published') = lastSeq' + One(failure)'
  <2>1. One(failure)' = One(failure)
    OBVIOUS
  <2> QED BY <1>1, <1>4, <2>1
<1>6. PICK f \in Nat \ {0} : FailedAt(f) /\ (failure <=> f <= Len(published))
  BY DEF StreamInv, PublishedSound
<1>7. \A i \in 1..Len(published) :
        published[i] = IF i < f THEN i ELSE IF i = f THEN Failed ELSE i - 1
  BY <1>6 DEF FailedAt
<1>8. DOMAIN published' = 1..(Len(published) + c)
  BY <1>1, <1>4
<1>9. ASSUME NEW i \in 1..(Len(published) + c), i > Len(published)
      PROVE  published'[i] = lastSeq + i - Len(published)
  <2>1. i - Len(published) \in 1..c /\ Len(published) + (i - Len(published)) = i
    BY <1>1, <1>9
  <2> QED BY <1>1, <1>4, <2>1
<1>10. CASE failure
  <2>1. f <= Len(published) /\ Len(published) = lastSeq + 1
    BY <1>1, <1>6, <1>10 DEF One
  <2>2. ASSUME NEW i \in 1..(Len(published) + c)
        PROVE  published'[i] = IF i < f THEN i ELSE IF i = f THEN Failed ELSE i - 1
    <3>1. CASE i \in 1..Len(published)
      BY <1>4, <1>7, <3>1
    <3>2. CASE i > Len(published)
      <4>1. published'[i] = lastSeq + i - Len(published)
        BY <1>9, <3>2
      <4>2. i > f /\ lastSeq + i - Len(published) = i - 1
        BY <1>1, <2>1, <3>2
      <4> QED BY <1>1, <4>1, <4>2
    <3> QED BY <1>1, <3>1, <3>2
  <2>3. FailedAt(f)'
    BY <1>8, <2>2 DEF FailedAt
  <2>4. f <= Len(published')
    BY <1>1, <1>4, <2>1
  <2>5. failure' <=> f <= Len(published')
    BY <1>10, <2>4
  <2> QED BY <1>4, <1>5, <2>3, <2>5 DEF PublishedSound
<1>11. CASE ~failure
  <2>0. PICK g \in Nat \ {0} : g = Len(published) + c + 1
    BY <1>1
  <2>1. f > Len(published) /\ Len(published) = lastSeq
    BY <1>1, <1>6, <1>11 DEF One
  <2>2. ASSUME NEW i \in 1..(Len(published) + c) PROVE i < g /\ published'[i] = i
    <3>1. CASE i \in 1..Len(published)
      BY <1>1, <1>4, <1>7, <2>0, <2>1, <3>1
    <3>2. CASE i > Len(published)
      <4>1. published'[i] = lastSeq + i - Len(published)
        BY <1>9, <3>2
      <4>2. i < g /\ lastSeq + i - Len(published) = i
        BY <1>1, <2>0, <2>1, <3>2
      <4> QED BY <4>1, <4>2
    <3> QED BY <1>1, <3>1, <3>2
  <2>3. ~(g <= Len(published'))
    BY <1>1, <1>4, <2>0
  <2>4. FailedAt(g)'
    BY <1>8, <2>2 DEF FailedAt
  <2>5. failure' <=> g <= Len(published')
    BY <1>11, <2>3
  <2> QED BY <1>4, <1>5, <2>4, <2>5 DEF PublishedSound
<1> QED BY <1>10, <1>11

LEMMA HandleNotificationKeeps ==
    ASSUME StreamInv, HandleNotification
    PROVE  StreamInv'
<1>1. /\ reader = "run" /\ events # <<>> /\ Head(events).type = "notification"
      /\ events' = Tail(events)
      /\ UNCHANGED <<serverVars, handlerVars, linkVars, rpcVars, failure, reader, latch, call,
                     consumerVars>>
  BY DEF HandleNotification
<1>2. Head(events).seq \in DOMAIN log
  BY <1>1, EventLemma
<1>3. MessageType'
  BY <1>1 DEF StreamInv, MessageType, handlerVars, linkVars
<1>4. ServerTypeOK' /\ ClientTypeOK' /\ ConsumerTypeOK'
  BY <1>1, Frame DEF serverVars, handlerVars, linkVars, rpcVars, consumerVars
<1>5. StartedOnce' /\ InHand' /\ Numbered' /\ ClosedIsLast'
  BY <1>1, ServerFrame DEF serverVars, handlerVars, linkVars, rpcVars, consumerVars
<1>6. Calling' /\ Exchange' /\ Received' /\ Answers'
  BY <1>1, ClientFrame DEF serverVars, handlerVars, linkVars, rpcVars, consumerVars
<1>7. \A i \in DOMAIN events' : events'[i].type = "notification" => events'[i].seq \in DOMAIN log
  BY <1>1 DEF StreamInv, SeqsKnown
<1>8. CASE route /\ Head(events).seq > lastSeq
  <2>1. PublishOrdered(Head(events).seq) /\ woken' = TRUE
    BY <1>8 DEF HandleNotification
  <2>2. PICK m \in lastSeq..Len(log) :
          /\ lastSeq' = m /\ early' \subseteq (m + 2)..Len(log)
          /\ published' = published \o [i \in 1..(m - lastSeq) |-> lastSeq + i]
          /\ route' = (route /\ ~\E k \in (lastSeq + 1)..m : log[k] = "closed")
    BY <1>2, <1>8, <2>1, PublishLemma
  <2>3. PublishedSound' /\ published' \in Seq(Seqs)
    BY <1>1, <2>2, PublishedStep
  <2>4. /\ Len(log) \in Nat /\ Len(log) \in Seqs /\ MaxOutput \in Nat /\ lastSeq \in Nat
        /\ m \in Nat /\ lastSeq <= m /\ m <= Len(log) /\ log' = log
    BY <1>1, BoundsAssumption DEF StreamInv, StreamTypeOK, ServerTypeOK, SessionTypeOK,
       Seqs, serverVars
  <2>5. SessionTypeOK'
    <3>1. m \in Seqs /\ (m + 2)..Len(log) \subseteq Seqs
      BY <2>4 DEF Seqs
    <3>2. failure' \in BOOLEAN /\ woken' \in BOOLEAN /\ route' \in BOOLEAN
      BY <1>1, <2>1, <2>2 DEF StreamInv, StreamTypeOK, SessionTypeOK
    <3> QED BY <2>2, <2>3, <3>1, <3>2 DEF SessionTypeOK
  <2>6. SeqsKnown'
    BY <1>1, <1>7, <2>2, <2>4 DEF StreamInv, SeqsKnown, linkVars
  <2>7. RouteSound'
    <3>1. ~route' => \E k \in 1..m : log[k] = "closed"
      <4>1. (lastSeq + 1)..m \subseteq 1..m
        BY <2>4
      <4> QED BY <1>8, <2>2, <4>1
    <3> QED BY <1>1, <2>2, <2>4, <3>1 DEF RouteSound
  <2> QED BY <1>3, <1>4, <1>5, <1>6, <2>3, <2>5, <2>6, <2>7 DEF StreamInv, StreamTypeOK
<1>9. CASE ~route \/ Head(events).seq <= lastSeq
  <2>1. UNCHANGED <<route, lastSeq, early, published>> /\ (woken' = TRUE \/ woken' = woken)
    BY <1>9 DEF HandleNotification, PublishOrdered
  <2>2. SessionTypeOK'
    BY <1>1, <2>1 DEF StreamInv, StreamTypeOK, SessionTypeOK
  <2>3. SeqsKnown'
    BY <1>1, <1>7, <2>1 DEF StreamInv, SeqsKnown, serverVars, linkVars
  <2>4. PublishedSound' /\ RouteSound'
    BY <1>1, <2>1, ClientFrame DEF serverVars, consumerVars
  <2> QED BY <1>3, <1>4, <1>5, <1>6, <2>2, <2>3, <2>4 DEF StreamInv, StreamTypeOK
<1>10. Head(events).seq > lastSeq \/ Head(events).seq <= lastSeq
  BY <1>2, LogLemma DEF StreamInv, StreamTypeOK, SessionTypeOK, Seqs
<1> QED BY <1>8, <1>9, <1>10

(* set_failure puts Failed at the end of the log, once.                    *)
LEMMA FailureStep ==
    ASSUME StreamInv, SetFailure, UNCHANGED lastSeq
    PROVE  PublishedSound' /\ published' \in Seq(Seqs) /\ failure' = TRUE /\ woken' = TRUE
<1>1. /\ failure' = TRUE /\ woken' = TRUE
      /\ published' = IF failure THEN published ELSE Append(published, Failed)
  BY DEF SetFailure
<1>2. published \in Seq(Seqs) /\ Len(published) \in Nat /\ lastSeq \in Nat /\ Failed \in Seqs
  BY BoundsAssumption DEF StreamInv, StreamTypeOK, SessionTypeOK, Seqs, Failed
<1>3. CASE failure
  <2>1. published' = published /\ failure' = failure
    BY <1>1, <1>3
  <2> QED BY <1>1, <1>2, <2>1, ClientFrame
<1>4. CASE ~failure
  <2>1. Len(published) = lastSeq
    BY <1>2, <1>4 DEF StreamInv, PublishedSound, One
  <2>2. PICK f \in Nat \ {0} : FailedAt(f) /\ (failure <=> f <= Len(published))
    BY DEF StreamInv, PublishedSound
  <2>3. \A i \in 1..Len(published) : published[i] = i
    BY <1>4, <2>2 DEF FailedAt
  <2>4. PICK g \in Nat \ {0} : g = Len(published) + 1
    BY <1>2
  <2>5. /\ published' \in Seq(Seqs) /\ Len(published') = g /\ DOMAIN published' = 1..g
        /\ \A i \in 1..Len(published) : published'[i] = published[i]
        /\ published'[g] = Failed
    BY <1>1, <1>2, <1>4, <2>4
  <2>6. ASSUME NEW i \in 1..g
        PROVE  published'[i] = IF i < g THEN i ELSE IF i = g THEN Failed ELSE i - 1
    <3>1. i = g \/ (i < g /\ i \in 1..Len(published))
      BY <1>2, <2>4
    <3> QED BY <2>3, <2>5, <3>1
  <2>7. FailedAt(g)'
    BY <2>5, <2>6 DEF FailedAt
  <2>8. Len(published') = lastSeq' + One(failure)'
    BY <1>1, <2>1, <2>4, <2>5 DEF One
  <2>9. g <= Len(published')
    BY <2>5
  <2> QED BY <1>1, <2>5, <2>7, <2>8, <2>9 DEF PublishedSound
<1> QED BY <1>3, <1>4

LEMMA FailAllSessionsKeeps ==
    ASSUME StreamInv, FailAllSessions
    PROVE  StreamInv'
<1>1. /\ reader = "fail" /\ reader' = "done" /\ route' = FALSE
      /\ UNCHANGED <<serverVars, handlerVars, linkVars, rpcVars, lastSeq, early, events, latch,
                     call, consumerVars>>
  BY DEF FailAllSessions
<1>2. ASSUME PublishedSound', RouteSound', published' \in Seq(Seqs), failure' \in BOOLEAN,
             woken' \in BOOLEAN
      PROVE  StreamInv'
  <2>1. SessionTypeOK' /\ ClientTypeOK'
    BY <1>1, <1>2 DEF StreamInv, StreamTypeOK, SessionTypeOK, ClientTypeOK, linkVars,
       rpcVars
  <2>2. ServerTypeOK' /\ ConsumerTypeOK' /\ MessageType'
    BY <1>1, Frame DEF serverVars, handlerVars, linkVars, consumerVars
  <2>3. StartedOnce' /\ InHand' /\ Numbered' /\ ClosedIsLast'
    BY <1>1, ServerFrame DEF serverVars, handlerVars, linkVars, rpcVars, consumerVars
  <2>4. SeqsKnown' /\ Calling' /\ Exchange' /\ Received' /\ Answers'
    BY <1>1, ClientFrame DEF serverVars, handlerVars, linkVars, rpcVars, consumerVars
  <2> QED BY <1>2, <2>1, <2>2, <2>3, <2>4 DEF StreamInv, StreamTypeOK
<1>3. CASE route
  <2>1. PublishedSound' /\ published' \in Seq(Seqs) /\ failure' = TRUE /\ woken' = TRUE
    BY <1>3, FailureStep DEF FailAllSessions
  <2>2. RouteSound'
    BY <1>1, <2>1 DEF StreamInv, RouteSound
  <2> QED BY <2>1, <2>2, <1>1, <1>2
<1>4. CASE ~route
  <2>1. UNCHANGED <<failure, woken, published, route>>
    BY <1>4 DEF FailAllSessions, StreamInv, StreamTypeOK, SessionTypeOK
  <2>2. PublishedSound'
    BY <1>1, <2>1, ClientFrame
  <2>3. RouteSound'
    BY <1>1, <2>1 DEF StreamInv, RouteSound, Live, serverVars, consumerVars
  <2> QED BY <1>2, <2>1, <2>2, <2>3 DEF StreamInv, StreamTypeOK, SessionTypeOK
<1> QED BY <1>3, <1>4

-----------------------------------------------------------------------------
(* A call that begins is refused or goes on to be issued.                  *)
LEMMA PreflightLemma ==
    ASSUME Preflight
    PROVE  \E p \in {"issue", "wait"}, r \in Replies :
              /\ call' = [pc |-> p, reply |-> r] /\ r.kind # "read"
              /\ p = "issue" => r = NoReply
BY PlainReplies DEF Preflight

LEMMA RegisterSessionKeeps ==
    ASSUME StreamInv, RegisterSession
    PROVE  StreamInv'
<1>1. /\ consumer = "register"
      /\ UNCHANGED <<serverVars, handlerVars, linkVars, rpcVars, lastSeq, early, published,
                     failure, woken, clientVars, after, got>>
  BY DEF RegisterSession
<1>2. /\ call = [pc |-> "idle", reply |-> NoReply] /\ ~pending
      /\ request = NoRequest /\ ~starting /\ Fresh
  BY <1>1, CallLemma DEF StreamInv, StartedOnce, Unasked, Calling
<1>3. PICK p \in {"idle", "issue", "wait"}, r \in Replies :
        /\ call' = [pc |-> p, reply |-> r] /\ r.kind # "read"
        /\ p # "wait" => r = NoReply
        /\ p = "idle" <=> consumer' = "error"
        /\ \/ consumer' = "error" /\ route' = route
           \/ consumer' = "exec" /\ route' = TRUE /\ ~latch
  <2>1. CASE latch
    <3>1. consumer' = "error" /\ route' = route /\ call' = call
      BY <2>1 DEF RegisterSession
    <3> QED BY <1>2, <3>1, PlainReplies
  <2>2. CASE ~latch
    <3>1. consumer' = "exec" /\ route' = TRUE /\ Preflight
      BY <2>2 DEF RegisterSession
    <3> QED BY <2>2, <3>1, PreflightLemma
  <2> QED BY <2>1, <2>2
<1>4. /\ MessageType' /\ InHand' /\ Numbered' /\ ClosedIsLast' /\ Answers'
      /\ call'.pc = p /\ call'.reply = r
  <2>1. request' \in Requests
    BY <1>1, CallLemma DEF handlerVars
  <2> QED BY <1>1, <1>3, <2>1, CallStep DEF linkVars, clientVars
<1>5. ConsumerTypeOK' /\ SessionTypeOK'
  <2>1. route' \in BOOLEAN
    BY <1>3 DEF StreamInv, StreamTypeOK, SessionTypeOK
  <2> QED BY <1>1, <1>3 DEF StreamInv, StreamTypeOK, ConsumerTypeOK, SessionTypeOK, Finished
<1>6. ServerTypeOK' /\ ClientTypeOK'
  BY <1>1, Frame DEF serverVars, handlerVars, linkVars, rpcVars, clientVars
<1>7. StartedOnce'
  BY <1>1, <1>2 DEF StartedOnce, Fresh, At, serverVars, handlerVars
<1>8. Calling'
  BY <1>1, <1>2, <1>3 DEF Calling, rpcVars
<1>9. RouteSound'
  BY <1>1, <1>3 DEF StreamInv, RouteSound, Live, clientVars
<1>10. Received'
  BY <1>1, <1>3 DEF StreamInv, Received, Outputs, serverVars
<1>11. SeqsKnown' /\ PublishedSound' /\ Exchange'
  BY <1>1, ClientFrame DEF serverVars, handlerVars, linkVars, rpcVars, clientVars
<1> QED BY <1>4, <1>5, <1>6, <1>7, <1>8, <1>9, <1>10, <1>11 DEF StreamInv, StreamTypeOK

LEMMA CallIssueKeeps ==
    ASSUME StreamInv, CallIssue
    PROVE  StreamInv'
<1>1. /\ call.pc = "issue"
      /\ UNCHANGED <<serverVars, starting, linkVars, watch, rpc, sessionVars, clientVars,
                     consumerVars>>
  BY DEF CallIssue
<1>2. ~pending /\ call.reply = NoReply /\ consumer \in {"exec", "reading"}
  BY <1>1 DEF StreamInv, Calling
<1>3. PICK r \in Replies :
        /\ call' = [pc |-> "wait", reply |-> r] /\ r.kind # "read"
        /\ \/ UNCHANGED <<pending, request>>
           \/ /\ pending' = TRUE /\ r = NoReply
              /\ request' = IF consumer = "exec" THEN [op |-> "exec"]
                            ELSE [op |-> "read", after |-> after]
  BY <1>2, CallLemma, PlainReplies DEF CallIssue
<1>4. request' \in Requests
  <2>1. after \in Nat
    BY DEF StreamInv, StreamTypeOK, ConsumerTypeOK, Seqs
  <2> QED BY <1>3, <2>1, CallLemma DEF Requests
<1>5. /\ MessageType' /\ InHand' /\ Numbered' /\ ClosedIsLast' /\ Answers'
      /\ call'.pc = "wait" /\ call'.reply = r
  BY <1>1, <1>3, <1>4, CallStep DEF linkVars, clientVars, consumerVars
<1>6. pending' \in BOOLEAN
  BY <1>3 DEF StreamInv, StreamTypeOK, ClientTypeOK
<1>7. ClientTypeOK'
  BY <1>1, <1>6 DEF StreamInv, StreamTypeOK, ClientTypeOK, linkVars, clientVars
<1>8. StreamTypeOK'
  BY <1>1, <1>7, Frame DEF StreamTypeOK, serverVars, sessionVars, consumerVars
<1>9. StartedOnce'
  <2>1. ~Unasked'
    BY <1>1, <1>2, <1>5 DEF Unasked, consumerVars
  <2>2. CASE UNCHANGED request
    BY <1>1, <2>1, <2>2 DEF StreamInv, StartedOnce, Fresh, At, Connected, serverVars,
       linkVars
  <2>3. CASE request' = [op |-> "exec"] /\ consumer = "exec"
    BY <1>1, <2>1, <2>3 DEF StreamInv, StartedOnce, Unasked, Fresh, At, serverVars
  <2>4. CASE request' = [op |-> "read", after |-> after]
    <3>1. Connected => request = NoRequest
      BY <1>2 DEF StreamInv, Exchange, Connected
    <3>2. Connected => ~starting
      BY <3>1 DEF StreamInv, StartedOnce, NoRequest
    <3>3. request'.op = "read"
      BY <2>4
    <3> QED BY <1>1, <2>1, <3>2, <3>3 DEF StreamInv, StartedOnce, Fresh, At, Connected,
       serverVars, linkVars
  <2> QED BY <1>2, <1>3, <2>2, <2>3, <2>4
<1>10. Calling'
  BY <1>1, <1>2, <1>3 DEF Calling, consumerVars
<1>11. Exchange'
  <2>1. rpc = "run" => request = NoRequest /\ \A i \in DOMAIN incoming : incoming[i].type # "response"
    BY <1>2 DEF StreamInv, Exchange
  <2>2. CASE UNCHANGED <<pending, request>>
    BY <1>1, <2>2, ClientFrame DEF linkVars, consumerVars
  <2>3. CASE pending' = TRUE /\ request' = (IF consumer = "exec" THEN [op |-> "exec"]
                                            ELSE [op |-> "read", after |-> after])
    <3>1. request'.op = "read" => request'.after = after
      BY <2>3
    <3> QED BY <1>1, <2>1, <2>3 DEF StreamInv, Exchange, linkVars, consumerVars
  <2> QED BY <1>3, <2>2, <2>3
<1>12. SeqsKnown' /\ PublishedSound' /\ RouteSound' /\ Received'
  BY <1>1, ClientFrame DEF serverVars, linkVars, sessionVars, clientVars, consumerVars
<1> QED BY <1>5, <1>8, <1>9, <1>10, <1>11, <1>12 DEF StreamInv

-----------------------------------------------------------------------------
(* A caller that wakes up leaves no exchange behind.                       *)
LEMMA ReturnLemma ==
    ASSUME StreamInv, Replied
    PROVE  /\ ~pending /\ (rpc = "run" => request = NoRequest)
           /\ \A i \in DOMAIN incoming : incoming[i].type # "response"
           /\ consumer \in {"exec", "reading"} /\ call.reply \in Replies
<1>1. call.pc = "wait" /\ call.reply # NoReply
  BY DEF Replied
<1>2. ~pending /\ consumer \in {"exec", "reading"} /\ call.reply \in Replies
  BY <1>1, CallLemma DEF StreamInv, Calling
<1> QED BY <1>2 DEF StreamInv, Exchange

(* The caller goes on, and its call is idle.                               *)
LEMMA ReturnStep ==
    ASSUME StreamInv, Replied, CallReturn,
           UNCHANGED <<serverVars, handlerVars, linkVars, rpcVars, events, reader>>,
           consumer' \notin {"register", "exec", "reading"}
    PROVE  /\ ServerTypeOK' /\ ClientTypeOK' /\ MessageType'
           /\ StartedOnce' /\ InHand' /\ Numbered' /\ ClosedIsLast'
           /\ Calling' /\ Exchange' /\ Answers' /\ (latch => latch')
<1>1. call' = [pc |-> "idle", reply |-> NoReply] /\ latch' = (latch \/ call.reply = ClosedReply)
  BY DEF CallReturn
<1>2. call' \in [pc : {"idle", "issue", "wait"}, reply : Replies]
      /\ call'.pc = "idle" /\ call'.reply = NoReply
  BY <1>1, PlainReplies
<1>3. ClientTypeOK'
  <2>1. latch' \in BOOLEAN
    BY <1>1
  <2> QED BY <2>1 DEF StreamInv, StreamTypeOK, ClientTypeOK, linkVars, rpcVars
<1>4. ServerTypeOK' /\ MessageType'
  BY <1>2, Frame DEF StreamInv, MessageType, serverVars, handlerVars, linkVars
<1>5. InHand' /\ Numbered' /\ ClosedIsLast'
  BY ServerFrame DEF serverVars
<1>6. StartedOnce'
  BY DEF StreamInv, StartedOnce, Unasked, Fresh, At, Connected, serverVars, handlerVars,
     linkVars, rpcVars
<1>7. Calling'
  BY <1>2, ReturnLemma DEF Calling, rpcVars
<1>8. Exchange'
  BY ReturnLemma DEF StreamInv, Exchange, NoRequest, linkVars, rpcVars, handlerVars
<1>9. Answers'
  BY <1>2, ReturnLemma, PlainReplies DEF Answers, Answer, linkVars
<1>10. latch => latch'
  BY <1>1
<1> QED BY <1>3, <1>4, <1>5, <1>6, <1>7, <1>8, <1>9, <1>10

LEMMA ExecReturnedKeeps ==
    ASSUME StreamInv, ExecReturned
    PROVE  StreamInv'
<1>1. /\ consumer = "exec" /\ Replied /\ CallReturn
      /\ \/ consumer' = "read" /\ woken' = FALSE /\ route' = route
         \/ consumer' = "error" /\ route' = FALSE /\ woken' = woken
      /\ UNCHANGED <<serverVars, handlerVars, linkVars, rpcVars, lastSeq, early, published,
                     failure, events, reader, after, got>>
  BY DEF ExecReturned
<1>2. /\ ServerTypeOK' /\ ClientTypeOK' /\ MessageType'
      /\ StartedOnce' /\ InHand' /\ Numbered' /\ ClosedIsLast'
      /\ Calling' /\ Exchange' /\ Answers' /\ (latch => latch')
  BY <1>1, ReturnStep
<1>3. ConsumerTypeOK' /\ SessionTypeOK'
  <2>1. route' \in BOOLEAN /\ woken' \in BOOLEAN
    BY <1>1 DEF StreamInv, StreamTypeOK, SessionTypeOK
  <2> QED BY <1>1 DEF StreamInv, StreamTypeOK, ConsumerTypeOK, SessionTypeOK, Finished
<1>4. SeqsKnown' /\ PublishedSound'
  BY <1>1, ClientFrame DEF serverVars, linkVars
<1>5. RouteSound'
  BY <1>1, <1>2 DEF StreamInv, RouteSound, Live, serverVars
<1>6. Received'
  BY <1>1 DEF StreamInv, Received, Outputs, serverVars
<1> QED BY <1>2, <1>3, <1>4, <1>5, <1>6 DEF StreamInv, StreamTypeOK

LEMMA ReadClosedKeeps ==
    ASSUME StreamInv, ReadClosed
    PROVE  StreamInv'
<1>1. /\ Replied /\ CallReturn /\ consumer' = "failed" /\ SetFailure
      /\ UNCHANGED <<serverVars, handlerVars, linkVars, rpcVars, route, lastSeq, early, events,
                     reader, after, got>>
  BY DEF ReadClosed
<1>2. /\ ServerTypeOK' /\ ClientTypeOK' /\ MessageType'
      /\ StartedOnce' /\ InHand' /\ Numbered' /\ ClosedIsLast'
      /\ Calling' /\ Exchange' /\ Answers' /\ (latch => latch')
  BY <1>1, ReturnStep
<1>3. PublishedSound' /\ published' \in Seq(Seqs) /\ failure' = TRUE /\ woken' = TRUE
  BY <1>1, FailureStep
<1>4. ConsumerTypeOK' /\ SessionTypeOK'
  BY <1>1, <1>3 DEF StreamInv, StreamTypeOK, ConsumerTypeOK, SessionTypeOK, Finished
<1>5. SeqsKnown'
  BY <1>1, ClientFrame DEF serverVars, linkVars
<1>6. RouteSound'
  BY <1>1, <1>2 DEF StreamInv, RouteSound, Live
<1>7. Received'
  BY <1>1 DEF StreamInv, Received, Outputs, serverVars
<1> QED BY <1>2, <1>3, <1>4, <1>5, <1>6, <1>7 DEF StreamInv, StreamTypeOK

LEMMA ReadReturnedKeeps ==
    ASSUME StreamInv, ReadReturned
    PROVE  StreamInv'
<1> DEFINE r == call.reply
<1>1. /\ consumer = "reading" /\ Replied /\ CallReturn
      /\ UNCHANGED <<serverVars, handlerVars, linkVars, rpcVars, sessionVars, events, reader>>
  BY DEF ReadReturned
<1>2. consumer' \in {"closed", "await", "failed"}
  BY DEF ReadReturned
<1>3. /\ ServerTypeOK' /\ ClientTypeOK' /\ MessageType'
      /\ StartedOnce' /\ InHand' /\ Numbered' /\ ClosedIsLast'
      /\ Calling' /\ Exchange' /\ Answers' /\ (latch => latch')
  BY <1>1, <1>2, ReturnStep
<1>4. SessionTypeOK' /\ SeqsKnown' /\ PublishedSound'
  BY <1>1, Frame, ClientFrame DEF serverVars, linkVars, sessionVars
<1>5. RouteSound'
  BY <1>1, <1>3 DEF StreamInv, RouteSound, Live, serverVars, sessionVars
<1>6. Len(log) \in Nat /\ Len(log) \in Seqs /\ after \in Nat /\ Outputs \subseteq 1..Len(log)
      /\ MaxOutput \in Nat /\ Outputs' = Outputs /\ Closed' = Closed /\ log' = log
  BY <1>1, LogLemma, ServerFrame DEF StreamInv, StreamTypeOK, ServerTypeOK, ConsumerTypeOK,
     Seqs, serverVars
<1>7. after <= Len(log) /\ got = {k \in Outputs : k <= after}
  BY DEF StreamInv, Received
<1>8. CASE r.kind = "read"
  <2>1. /\ got' = got \cup r.chunks /\ after' = r.nextSeq - 1
        /\ consumer' = IF r.closed THEN "closed" ELSE "await"
    BY <1>8 DEF ReadReturned
  <2>2. /\ r.nextSeq \in (after + 1)..(Len(log) + 1)
        /\ r.chunks = {k \in Outputs : k > after /\ k < r.nextSeq}
        /\ r.closed => Closed /\ \A k \in Outputs : k < r.nextSeq
    BY <1>8 DEF StreamInv, Answers, Answer
  <2> HIDE DEF r
  <2>3. r.nextSeq \in Nat /\ after' \in Nat /\ after' <= Len(log) /\ after' >= after
        /\ after' = r.nextSeq - 1
    BY <1>6, <2>1, <2>2
  <2>4. got' = {k \in Outputs : k <= after'}
    <3>1. \A k \in Outputs : k <= after' <=> k <= after \/ (k > after /\ k < r.nextSeq)
      BY <1>6, <2>3
    <3> QED BY <1>7, <2>1, <2>2, <3>1
  <2>5. consumer' = "closed" => Closed /\ \A k \in Outputs : k <= after'
    <3>1. \A k \in Outputs : k < r.nextSeq => k <= after'
      BY <1>6, <2>3
    <3> QED BY <2>1, <2>2, <3>1
  <2>6. Received'
    BY <1>6, <2>3, <2>4, <2>5 DEF Received
  <2>7. after' \in Seqs /\ got' \subseteq Seqs
    <3>1. 1..Len(log) \subseteq Seqs /\ after' \in Seqs
      BY <1>6, <2>3 DEF Seqs
    <3> QED BY <1>6, <2>4, <3>1
  <2>8. ConsumerTypeOK'
    BY <1>2, <2>7 DEF ConsumerTypeOK, Finished
  <2> QED BY <1>3, <1>4, <1>5, <2>6, <2>8 DEF StreamInv, StreamTypeOK
<1>9. CASE r.kind # "read"
  <2>1. consumer' = "failed" /\ got' = got /\ after' = after
    BY <1>9 DEF ReadReturned
  <2>2. Received'
    BY <1>6, <1>7, <2>1 DEF Received
  <2>3. ConsumerTypeOK'
    BY <2>1 DEF StreamInv, StreamTypeOK, ConsumerTypeOK, Finished
  <2> QED BY <1>3, <1>4, <1>5, <2>2, <2>3 DEF StreamInv, StreamTypeOK
<1> QED BY <1>8, <1>9

LEMMA ReadBeginKeeps ==
    ASSUME StreamInv, ReadBegin
    PROVE  StreamInv'
<1>1. /\ consumer = "read"
      /\ UNCHANGED <<serverVars, handlerVars, linkVars, rpcVars, sessionVars, clientVars, after,
                     got>>
  BY DEF ReadBegin
<1>2. call = [pc |-> "idle", reply |-> NoReply] /\ ~pending
  BY <1>1, CallLemma DEF StreamInv, Calling
<1>3. PICK p \in {"idle", "issue", "wait"}, r \in Replies :
        /\ call' = [pc |-> p, reply |-> r] /\ r.kind # "read"
        /\ p # "wait" => r = NoReply
        /\ p = "idle" <=> consumer' = "failed"
        /\ consumer' \in {"failed", "reading"}
  <2>1. CASE failure
    <3>1. consumer' = "failed" /\ call' = call
      BY <2>1 DEF ReadBegin
    <3> QED BY <1>2, <3>1, PlainReplies
  <2>2. CASE ~failure
    <3>1. consumer' = "reading" /\ Preflight
      BY <2>2 DEF ReadBegin
    <3> QED BY <3>1, PreflightLemma
  <2> QED BY <2>1, <2>2
<1>4. /\ MessageType' /\ InHand' /\ Numbered' /\ ClosedIsLast' /\ Answers'
      /\ call'.pc = p /\ call'.reply = r
  <2>1. request' \in Requests
    BY <1>1, CallLemma DEF handlerVars
  <2> QED BY <1>1, <1>3, <2>1, CallStep DEF linkVars, clientVars
<1>5. ConsumerTypeOK'
  BY <1>1, <1>3 DEF StreamInv, StreamTypeOK, ConsumerTypeOK, Finished
<1>6. ServerTypeOK' /\ ClientTypeOK' /\ SessionTypeOK'
  BY <1>1, Frame DEF serverVars, handlerVars, linkVars, rpcVars, sessionVars, clientVars
<1>7. StartedOnce'
  BY <1>1, <1>3 DEF StreamInv, StartedOnce, Unasked, Fresh, At, Connected, serverVars,
     handlerVars, linkVars, rpcVars
<1>8. Calling'
  BY <1>1, <1>2, <1>3 DEF Calling, rpcVars
<1>9. RouteSound'
  BY <1>1 DEF StreamInv, RouteSound, Live, serverVars, sessionVars, clientVars
<1>10. Received'
  BY <1>1, <1>3 DEF StreamInv, Received, Outputs, serverVars
<1>11. SeqsKnown' /\ PublishedSound' /\ Exchange'
  BY <1>1, ClientFrame DEF serverVars, handlerVars, linkVars, rpcVars, sessionVars,
     clientVars
<1> QED BY <1>4, <1>5, <1>6, <1>7, <1>8, <1>9, <1>10, <1>11 DEF StreamInv, StreamTypeOK

LEMMA AwaitWakeKeeps ==
    ASSUME StreamInv, AwaitWake
    PROVE  StreamInv'
<1>1. /\ consumer = "await" /\ consumer' = "read" /\ woken' = FALSE
      /\ UNCHANGED <<serverVars, handlerVars, linkVars, rpcVars, route, lastSeq, early,
                     published, failure, clientVars, call, after, got>>
  BY DEF AwaitWake
<1>2. ConsumerTypeOK' /\ SessionTypeOK'
  BY <1>1 DEF StreamInv, StreamTypeOK, ConsumerTypeOK, SessionTypeOK
<1>3. ServerTypeOK' /\ ClientTypeOK' /\ MessageType'
  BY <1>1, Frame DEF serverVars, handlerVars, linkVars, rpcVars, clientVars
<1>4. InHand' /\ Numbered' /\ ClosedIsLast'
  BY <1>1, ServerFrame DEF serverVars
<1>5. StartedOnce'
  BY <1>1 DEF StreamInv, StartedOnce, Unasked, Fresh, At, Connected, serverVars,
     handlerVars, linkVars, rpcVars
<1>6. Calling'
  BY <1>1 DEF StreamInv, Calling, rpcVars
<1>7. RouteSound' /\ Received'
  BY <1>1 DEF StreamInv, RouteSound, Live, Received, Outputs, serverVars, clientVars
<1>8. SeqsKnown' /\ PublishedSound' /\ Exchange' /\ Answers'
  BY <1>1, ClientFrame DEF serverVars, handlerVars, linkVars, rpcVars, clientVars
<1> QED BY <1>2, <1>3, <1>4, <1>5, <1>6, <1>7, <1>8 DEF StreamInv, StreamTypeOK

LEMMA DropHandleKeeps ==
    ASSUME StreamInv, DropHandle
    PROVE  StreamInv'
<1>1. /\ consumer \in {"closed", "failed"} /\ route' = FALSE
      /\ UNCHANGED <<serverVars, handlerVars, linkVars, rpcVars, lastSeq, early, published,
                     failure, woken, clientVars, call, consumerVars>>
  BY DEF DropHandle
<1>2. SessionTypeOK'
  BY <1>1 DEF StreamInv, StreamTypeOK, SessionTypeOK
<1>3. StreamTypeOK' /\ MessageType'
  BY <1>1, <1>2, Frame DEF StreamTypeOK, serverVars, handlerVars, linkVars, rpcVars,
     clientVars, consumerVars
<1>4. StartedOnce' /\ InHand' /\ Numbered' /\ ClosedIsLast'
  BY <1>1, ServerFrame DEF serverVars, handlerVars, linkVars, rpcVars, consumerVars
<1>5. RouteSound'
  BY <1>1 DEF StreamInv, RouteSound, Live, clientVars, consumerVars
<1>6. SeqsKnown' /\ PublishedSound' /\ Calling' /\ Exchange' /\ Received' /\ Answers'
  BY <1>1, ClientFrame DEF serverVars, handlerVars, linkVars, rpcVars, clientVars,
     consumerVars
<1> QED BY <1>3, <1>4, <1>5, <1>6 DEF StreamInv

-----------------------------------------------------------------------------
LEMMA StreamStart ==
    ASSUME Init
    PROVE  StreamInv
<1> USE DEF Init
<1>0. 0 \in Seqs
  BY BoundsAssumption DEF Seqs
<1>1. ServerTypeOK
  <2>1. log \in Seq({"output", "exited", "closed"}) /\ Len(log) = 0
    OBVIOUS
  <2>2. task \in [Task -> [pc : {"none", "recv", "notify", "emit", "end"}, seq : Seqs]]
    BY <1>0
  <2>3. entry \in {"none", "starting", "running"} /\ starting \in BOOLEAN /\ exited \in BOOLEAN
    OBVIOUS
  <2>4. openStreams \in 0..2
    OBVIOUS
  <2> QED BY <1>0, <2>3 DEF ServerTypeOK
<1>2. ClientTypeOK /\ SessionTypeOK /\ ConsumerTypeOK
  <2>1. published \in Seq(Seqs) /\ lastSeq \in Seqs /\ after \in Seqs
    BY <1>0
  <2>2. ClientTypeOK
    BY DEF ClientTypeOK
  <2>3. SessionTypeOK
    BY <2>1 DEF SessionTypeOK
  <2>4. ConsumerTypeOK
    BY <2>1 DEF ConsumerTypeOK
  <2> QED BY <2>2, <2>3, <2>4
<1>3. MessageType
  BY PlainReplies DEF MessageType, Requests
<1>4. DOMAIN log = {} /\ Len(log) = 0 /\ Outputs = {} /\ ~Closed
  BY DEF Outputs, Closed
<1>5. \A t \in Task : task[t].pc = "none"
  OBVIOUS
<1>6. StartedOnce
  BY DEF StartedOnce, Fresh, At
<1>7. InHand
  <2>1. Stdout \in Task /\ Stderr \in Task /\ Exit \in Task
    BY DEF Task, Stream
  <2> QED BY <1>4, <2>1 DEF InHand, At, Open, One
<1>8. Numbered /\ ClosedIsLast
  BY <1>4, BoundsAssumption, FS_EmptySet DEF Numbered, ClosedIsLast, One
<1>9. SeqsKnown
  BY DEF SeqsKnown
<1>10. PublishedSound
  <2>1. FailedAt(1)
    BY DEF FailedAt
  <2> QED BY <2>1 DEF PublishedSound, One
<1>11. RouteSound /\ Calling
  BY DEF RouteSound, Live, Calling
<1>12. Exchange
  BY DEF Exchange, NoRequest
<1>13. Received /\ Answers
  BY <1>4 DEF Received, Answers, Answer, NoReply
<1> QED BY <1>1, <1>2, <1>3, <1>6, <1>7, <1>8, <1>9, <1>10, <1>11, <1>12, <1>13 DEF
   StreamInv, StreamTypeOK

LEMMA ServerKeeps ==
    ASSUME StreamInv, ServerNext
    PROVE  StreamInv'
<1>1. Connected
  BY DEF ServerNext
<1>2. CASE ChildNext
  BY <1>2, StreamChunkKeeps, FinishOutputStreamKeeps, WatchExitKeeps DEF ChildNext
<1>3. CASE TaskNext
  BY <1>1, <1>3, SendNotificationKeeps, MaybeEmitClosedKeeps DEF TaskNext
<1>4. CASE HandlerNext
  BY <1>1, <1>4, StartProcessKeeps, ProcessStartedKeeps, StartFailedKeeps, ExecReadKeeps DEF
     HandlerNext
<1>5. CASE RemoveExited
  BY <1>5, RemoveExitedKeeps
<1> QED BY <1>2, <1>3, <1>4, <1>5 DEF ServerNext

LEMMA ClientKeeps ==
    ASSUME StreamInv, ClientNext
    PROVE  StreamInv'
BY RpcResponseKeeps, RpcNotificationKeeps, RpcDisconnectedKeeps, DrainPendingKeeps,
   HandleNotificationKeeps, RecordDisconnectedKeeps, FailAllSessionsKeeps,
   RegisterSessionKeeps, CallIssueKeeps, ExecReturnedKeeps, ReadBeginKeeps, ReadClosedKeeps,
   ReadReturnedKeeps, AwaitWakeKeeps, DropHandleKeeps DEF ClientNext

LEMMA StutterKeeps ==
    ASSUME StreamInv, UNCHANGED vars
    PROVE  StreamInv'
<1>1. UNCHANGED <<serverVars, handlerVars, linkVars, rpcVars, sessionVars, clientVars, call,
                  consumerVars>>
  BY DEF vars
<1>2. StreamTypeOK' /\ MessageType'
  BY <1>1, Frame DEF StreamTypeOK, serverVars, handlerVars, linkVars, rpcVars, sessionVars,
     clientVars, consumerVars
<1>3. StartedOnce' /\ InHand' /\ Numbered' /\ ClosedIsLast'
  BY <1>1, ServerFrame DEF serverVars, handlerVars, linkVars, rpcVars, consumerVars
<1>4. /\ SeqsKnown' /\ PublishedSound' /\ RouteSound' /\ Calling' /\ Exchange' /\ Received'
      /\ Answers'
  BY <1>1, ClientFrame DEF serverVars, handlerVars, linkVars, rpcVars, sessionVars,
     clientVars, consumerVars
<1> QED BY <1>2, <1>3, <1>4 DEF StreamInv

(* Every reachable state of one process and its client, whatever the order *)
(* of the tasks and wherever the connection breaks, satisfies StreamInv.   *)
THEOREM StreamInductive == Spec => []StreamInv
<1>1. Init => StreamInv
  BY StreamStart
<1>2. StreamInv /\ [Next]_vars => StreamInv'
  BY ServerKeeps, CutKeeps, GarbleKeeps, ClientKeeps, StutterKeeps DEF Next, ConnectionNext
<1> QED BY <1>1, <1>2, PTL DEF Spec

(* The state is well-typed: no seq ever exceeds what the child wrote and   *)
(* the two last events (ProcessEvent, local_process.rs and client.rs).     *)
THEOREM StreamTypeCorrect == Spec => []StreamTypeOK
<1>1. StreamInv => StreamTypeOK
  BY DEF StreamInv
<1> QED BY <1>1, StreamInductive, PTL

(* What the published log holds, read off PublishedSound.                  *)
LEMMA PublishedLemma ==
    ASSUME StreamInv
    PROVE  /\ Len(published) \in Nat /\ DOMAIN published = 1..Len(published)
           /\ lastSeq \in Nat /\ lastSeq <= Len(log) /\ Len(log) \in Nat
           /\ \E f \in 1..(Len(published) + 1) : FailedAt(f)
           /\ \A i \in DOMAIN published : published[i] <= lastSeq
           /\ \A k \in 1..lastSeq : \E i \in DOMAIN published : published[i] = k
<1>1. /\ published \in Seq(Seqs) /\ Len(published) \in Nat /\ DOMAIN published = 1..Len(published)
      /\ lastSeq \in Nat /\ lastSeq <= Len(log) /\ Len(log) \in Nat
      /\ Len(published) = lastSeq + One(failure)
  BY DEF StreamInv, StreamTypeOK, SessionTypeOK, Seqs, SeqsKnown, PublishedSound
<1>2. PICK f \in Nat \ {0} : FailedAt(f) /\ (failure <=> f <= Len(published))
  BY DEF StreamInv, PublishedSound
<1>3. \A i \in 1..Len(published) :
        published[i] = IF i < f THEN i ELSE IF i = f THEN 0 ELSE i - 1
  BY <1>2 DEF FailedAt, Failed
<1>4. CASE failure
  <2>1. f \in 1..Len(published) /\ Len(published) = lastSeq + 1
    BY <1>1, <1>2, <1>4 DEF One
  <2>2. \A i \in 1..Len(published) : published[i] <= lastSeq
    BY <1>1, <1>3, <2>1
  <2>3. ASSUME NEW k \in 1..lastSeq PROVE \E i \in 1..Len(published) : published[i] = k
    <3>1. CASE k < f
      <4>1. k \in 1..Len(published)
        BY <1>1, <2>1
      <4> QED BY <1>3, <3>1, <4>1
    <3>2. CASE k >= f
      <4>1. k + 1 \in 1..Len(published) /\ k + 1 > f /\ k + 1 - 1 = k
        BY <1>1, <2>1, <3>2
      <4>2. published[k + 1] = k
        BY <1>3, <4>1
      <4> QED BY <4>1, <4>2
    <3> QED BY <2>1, <3>1, <3>2
  <2>4. f \in 1..(Len(published) + 1)
    BY <1>1, <2>1
  <2> QED BY <1>1, <1>2, <2>2, <2>3, <2>4
<1>5. CASE ~failure
  <2>1. f > Len(published) /\ Len(published) = lastSeq
    BY <1>1, <1>2, <1>5 DEF One
  <2>2. \A i \in 1..Len(published) : published[i] = i /\ i < Len(published) + 1
    BY <1>1, <1>3, <2>1
  <2>3. FailedAt(Len(published) + 1) /\ Len(published) + 1 \in 1..(Len(published) + 1)
    BY <2>2 DEF FailedAt
  <2> QED BY <1>1, <2>1, <2>2, <2>3
<1> QED BY <1>4, <1>5

LEMMA InOrderLemma ==
    ASSUME StreamInv
    PROVE  PublishedInOrder
<1>1. \A i \in DOMAIN published : published[i] \in Nat
  BY BoundsAssumption DEF StreamInv, StreamTypeOK, SessionTypeOK, Seqs
<1>2. \A i \in DOMAIN published : published[i] <= Len(log)
  BY <1>1, PublishedLemma
<1> QED BY <1>2, PublishedLemma DEF PublishedInOrder

LEMMA RouteLemma ==
    ASSUME StreamInv
    PROVE  RouteKept
<1> SUFFICES ASSUME Live, ~route \/ reader = "done", ~failure
             PROVE  \E i \in DOMAIN published :
                       published[i] # Failed /\ log[published[i]] = "closed"
  BY DEF RouteKept, Live
<1>1. PICK k \in 1..lastSeq : log[k] = "closed"
  BY DEF StreamInv, RouteSound
<1>2. PICK i \in DOMAIN published : published[i] = k
  BY PublishedLemma
<1>3. k # Failed
  BY DEF Failed
<1> QED BY <1>1, <1>2, <1>3

(* A subscriber sees the events of the process once each, in the order the *)
(* server numbered them, for any number of events, although the tasks send *)
(* their notifications without the lock and may overtake each other        *)
(* (publish_ordered_event, client.rs).                                     *)
THEOREM EventsInOrder == Spec => []PublishedInOrder
<1>1. StreamInv => PublishedInOrder
  BY InOrderLemma
<1> QED BY <1>1, StreamInductive, PTL

(* Nothing is numbered after Closed, and Closed comes after the exit,      *)
(* whichever of the three tasks finishes last (maybe_emit_closed).         *)
THEOREM CloseIsLast == Spec => []ClosedIsLast
<1>1. StreamInv => ClosedIsLast
  BY DEF StreamInv
<1> QED BY <1>1, StreamInductive, PTL

(* A live consumer whose session is no longer routed, or whose reader has  *)
(* gone, has the Closed event in its log or its failure set: no loss of    *)
(* the connection leaves it waiting without either (insert_session,        *)
(* handle_server_notification and fail_all_sessions, client.rs).           *)
THEOREM RouteIsKept == Spec => []RouteKept
<1>1. StreamInv => RouteKept
  BY RouteLemma
<1> QED BY <1>1, StreamInductive, PTL

(* A consumer that ends because the process has closed holds every chunk   *)
(* the process wrote: following next_seq - 1 from read to read skips none  *)
(* (exec_read, local_process.rs; the output task of unified_exec).         *)
THEOREM ReadsAreComplete == Spec => []ReadsComplete
<1>1. StreamInv => ReadsComplete
  BY DEF StreamInv, Received, ReadsComplete
<1> QED BY <1>1, StreamInductive, PTL
=============================================================================
