-------------------------- MODULE RemoteControlProofs --------------------------
(***************************************************************************)
(* Proofs about RemoteControl, for any finite set of streams, any capacity *)
(* and any number of connections, messages and losses: what a client is    *)
(* given, what the app server believes open, and that the way to the       *)
(* backend is the reliable queue of RelayContract.                         *)
(***************************************************************************)
EXTENDS RemoteControl, NumberLemmas, FiniteSetTheorems

(* The variables RemoteTypeOK leaves out.                                  *)
Body == 0..MaxSend
Envelope == [key : Key, body : Body, seq : Nat]
QueuedEvent == [key : Key, body : Body]
LogEntry == [key : Key, kind : {"init", "msg", "ping", "closed"}, seq : Nat]

OutboundType ==
    /\ holding \in Seq(Envelope) /\ wire \in Seq(Envelope) /\ buffer \in [Key -> Seq(Envelope)]
    /\ events \in Seq(QueuedEvent)
    /\ outq \in [Conns -> Seq(Body)] /\ sends \in Body

InboundType ==
    /\ inbound \in [Conns -> Seq(Nat)] /\ start \in [Conns -> Nat]
    /\ log \in Seq(LogEntry) /\ clientSeq \in [Key -> Nat]

(* The buffer of a stream holds the last envelopes numbered, at least      *)
(* those that the backend does not have.                                   *)
BufferSound ==
    \A k \in Key :
        /\ rseq[k] < nextSeq[k]
        /\ Len(buffer[k]) \in (nextSeq[k] - 1 - rseq[k])..(nextSeq[k] - 1)
        /\ \A i \in 1..Len(buffer[k]) :
              /\ buffer[k][i].key = k
              /\ buffer[k][i].seq = nextSeq[k] - 1 - Len(buffer[k]) + i

(* The usage counter counts them.                                          *)
Retained ==
    {x \in Key \X Nat : x[2] \in (nextSeq[x[1]] - Len(buffer[x[1]]))..(nextSeq[x[1]] - 1)}
UsageExact == IsFiniteSet(Retained) /\ used = Cardinality(Retained)

(* What is under way on this websocket: an envelope that the backend does  *)
(* not have is the one in the buffer, and comes after all those before it; *)
(* once the copy is made every one that it does not have is under way.     *)
Flight == wire \o holding
Occurs(k, m, n) == \E j \in 1..n : Flight[j].key = k /\ Flight[j].seq = m

FlightSound ==
    \A i \in 1..Len(Flight) :
        /\ Flight[i].seq < nextSeq[Flight[i].key]
        /\ Flight[i].seq > rseq[Flight[i].key] => Flight[i] = Kept(Flight[i].key, Flight[i].seq)
        /\ \A m \in (rseq[Flight[i].key] + 1)..(Flight[i].seq - 1) :
              Occurs(Flight[i].key, m, i - 1)

FlightComplete ==
    /\ writer # "run" => wire = <<>> /\ holding = <<>>
    /\ writer = "run" =>
         \A k \in Key : \A m \in (rseq[k] + 1)..(nextSeq[k] - 1) : Occurs(k, m, Len(Flight))

(* The tracker knows an open connection under the stream it was opened for.*)
OpenSound ==
    \A k \in Key : clients[k] # 0 => keyOf[clients[k]] = k /\ task[clients[k]] # "none"

(* The clients' numbers never fall, and the reader goes back at most to    *)
(* the cursor.                                                             *)
LogSound ==
    /\ \A i, j \in 1..Len(log) :
          i < j /\ log[i].key = log[j].key => log[i].seq <= log[j].seq
    /\ \A i \in 1..Len(log) : log[i].seq <= clientSeq[log[i].key]
CursorSound == cursor <= pos /\ pos <= high /\ high \in 0..Len(log)

Outbound == OutboundType /\ BufferSound /\ UsageExact /\ FlightSound /\ FlightComplete
RemoteInv ==
    /\ RemoteTypeOK /\ Outbound
    /\ OpenSound /\ OpenMatches
    /\ InboundType /\ LogSound /\ CursorSound

(* Given that initialize carries a cursor, it is never read again, and an  *)
(* open connection has all that was read since.                            *)
InitsRead == \A i \in 1..high : log[i].kind = "init" => i <= cursor
OpenedAt(k, c) ==
    /\ start[c] \in 1..cursor /\ log[start[c]].key = k
    /\ inbound[c] # <<>> /\ lastIn[k] = inbound[c][Len(inbound[c])]
InboundSound == InitsRead /\ \A k \in Key : clients[k] # 0 => OpenedAt(k, clients[k])
InboundInv == InboundSound /\ InboundExact

-----------------------------------------------------------------------------
(* Sequences.                                                              *)
LEMMA AppendLemma ==
    ASSUME NEW S, NEW s \in Seq(S), NEW e \in S
    PROVE  /\ Append(s, e) \in Seq(S) /\ Len(Append(s, e)) = Len(s) + 1 /\ Len(s) \in Nat
           /\ \A i \in 1..Len(s) : Append(s, e)[i] = s[i]
           /\ Append(s, e)[Len(s) + 1] = e
OBVIOUS

LEMMA TailLemma ==
    ASSUME NEW S, NEW s \in Seq(S), s # <<>>
    PROVE  /\ Tail(s) \in Seq(S) /\ Len(Tail(s)) = Len(s) - 1 /\ Len(s) \in Nat \ {0}
           /\ \A i \in 1..(Len(s) - 1) : Tail(s)[i] = s[i + 1]
           /\ Head(s) = s[1] /\ s[1] \in S
OBVIOUS

LEMMA ConcatLemma ==
    ASSUME NEW S, NEW a \in Seq(S), NEW b \in Seq(S)
    PROVE  /\ a \o b \in Seq(S) /\ Len(a \o b) = Len(a) + Len(b)
           /\ Len(a) \in Nat /\ Len(b) \in Nat
           /\ \A i \in 1..Len(a) : (a \o b)[i] = a[i]
           /\ \A i \in 1..Len(b) : (a \o b)[Len(a) + i] = b[i]
<1>1. a \o b \in Seq(S) /\ Len(a \o b) = Len(a) + Len(b) /\ Len(a) \in Nat /\ Len(b) \in Nat
  OBVIOUS
<1>2. \A i \in 1..Len(a) : (a \o b)[i] = a[i]
  OBVIOUS
<1>3. ASSUME NEW i \in 1..Len(b) PROVE (a \o b)[Len(a) + i] = b[i]
  OBVIOUS
<1> QED BY <1>1, <1>2, <1>3

LEMMA SameSeq ==
    ASSUME NEW S, NEW a \in Seq(S), NEW b \in Seq(S), Len(a) = Len(b),
           \A i \in 1..Len(a) : a[i] = b[i]
    PROVE  a = b
OBVIOUS

(* Taking the first of a and putting it at the end of what comes before.   *)
LEMMA MoveLemma ==
    ASSUME NEW S, NEW a \in Seq(S), NEW b \in Seq(S), b # <<>>
    PROVE  Append(a, Head(b)) \o Tail(b) = a \o b
<1> DEFINE h == Head(b)
           t == Tail(b)
<1>1. /\ t \in Seq(S) /\ Len(t) = Len(b) - 1 /\ Len(b) \in Nat \ {0}
      /\ \A i \in 1..(Len(b) - 1) : t[i] = b[i + 1]
      /\ h = b[1] /\ h \in S
  OBVIOUS
<1> HIDE DEF h, t
<1>2. /\ Append(a, h) \in Seq(S) /\ Len(Append(a, h)) = Len(a) + 1 /\ Len(a) \in Nat
      /\ \A i \in 1..Len(a) : Append(a, h)[i] = a[i]
      /\ Append(a, h)[Len(a) + 1] = h
  BY <1>1
<1>2a. PICK x : x = Append(a, h)
  OBVIOUS
<1> DEFINE l == Append(a, h) \o t
           r == a \o b
<1>3. /\ l \in Seq(S) /\ Len(l) = Len(a) + 1 + Len(t)
      /\ \A i \in 1..(Len(a) + 1) : l[i] = Append(a, h)[i]
      /\ \A i \in 1..Len(t) : l[Len(a) + 1 + i] = t[i]
  <2>1. x \in Seq(S) /\ Len(x) = Len(a) + 1 /\ l = x \o t
    BY <1>2, <1>2a
  <2>2. PICK y \in Seq(S) : y = t
    BY <1>1
  <2>3. x \o y \in Seq(S) /\ Len(x \o y) = Len(x) + Len(y)
    BY <2>1, ConcatLemma
  <2>4. \A i \in 1..Len(x) : (x \o y)[i] = x[i]
    OBVIOUS
  <2>5. \A i \in 1..Len(y) : (x \o y)[Len(x) + i] = y[i]
    OBVIOUS
  <2> HIDE DEF l
  <2> QED BY <1>2a, <2>1, <2>2, <2>3, <2>4, <2>5
<1>4. /\ r \in Seq(S) /\ Len(r) = Len(a) + Len(b)
      /\ \A i \in 1..Len(a) : r[i] = a[i]
      /\ \A i \in 1..Len(b) : r[Len(a) + i] = b[i]
  OBVIOUS
<1> HIDE DEF l, r
<1>5. Len(l) = Len(r)
  BY <1>1, <1>2, <1>3, <1>4
<1>6. ASSUME NEW i \in 1..Len(r) PROVE l[i] = r[i]
  <2>1. CASE i \in 1..Len(a)
    <3>1. i \in 1..(Len(a) + 1)
      BY <1>2, <2>1
    <3> QED BY <1>2, <1>3, <1>4, <2>1, <3>1
  <2>2. CASE i = Len(a) + 1
    <3>1. 1 \in 1..Len(b) /\ i \in 1..(Len(a) + 1)
      BY <1>1, <1>2, <2>2
    <3> QED BY <1>1, <1>2, <1>3, <1>4, <2>2, <3>1
  <2>3. CASE i > Len(a) + 1
    <3>1. PICK j \in 1..Len(t) : i = Len(a) + 1 + j /\ i = Len(a) + (j + 1) /\ j + 1 \in 1..Len(b)
      <4>1. i - Len(a) - 1 \in 1..Len(t) /\ i = Len(a) + 1 + (i - Len(a) - 1)
        BY <1>1, <1>2, <1>4, <2>3
      <4>2. \A j \in 1..Len(t) : Len(a) + 1 + j = Len(a) + (j + 1) /\ j + 1 \in 1..Len(b)
        BY <1>1, <1>2
      <4> QED BY <4>1, <4>2
    <3>2. l[i] = t[j] /\ r[i] = b[j + 1]
      BY <1>3, <1>4, <3>1
    <3> QED BY <1>1, <3>1, <3>2
  <2> QED BY <1>1, <1>2, <1>4, <2>1, <2>2, <2>3
<1>7. l = r
  BY <1>3, <1>4, <1>5, <1>6
<1> QED BY <1>7 DEF l, r, h, t

LEMMA ConcatAppend ==
    ASSUME NEW S, NEW a \in Seq(S), NEW b \in Seq(S), NEW e \in S
    PROVE  a \o Append(b, e) = Append(a \o b, e)
OBVIOUS

LEMMA ConcatFirst ==
    ASSUME NEW S, NEW a \in Seq(S), NEW b \in Seq(S), a # <<>>
    PROVE  /\ a \o b # <<>> /\ Head(a \o b) = Head(a) /\ Tail(a \o b) = Tail(a) \o b
OBVIOUS

-----------------------------------------------------------------------------
(* The events of a stream in the queue.                                    *)
Picks(f, s, k) ==
    /\ f[0] = <<>>
    /\ \A i \in 1..Len(s) :
          f[i] = IF s[i].key = k THEN Append(f[i - 1], s[i].body) ELSE f[i - 1]

Pick(s, k) ==
    LET pick[n \in 0..Len(s)] ==
            IF n = 0 THEN <<>>
            ELSE IF s[n].key = k THEN Append(pick[n - 1], s[n].body)
            ELSE pick[n - 1]
    IN  pick[Len(s)]

LEMMA PickExists ==
    ASSUME NEW s \in Seq(QueuedEvent), NEW k
    PROVE  \E f \in [0..Len(s) -> Seq(Body)] : Picks(f, s, k) /\ Pick(s, k) = f[Len(s)]
<1> DEFINE n == Len(s)
           Equation(g) == g = [i \in 0..n |-> IF i = 0 THEN <<>>
                                ELSE IF s[i].key = k THEN Append(g[i - 1], s[i].body)
                                ELSE g[i - 1]]
           step == [x \in (1..n) \X Seq(Body) |->
                      IF s[x[1]].key = k THEN Append(x[2], s[x[1]].body) ELSE x[2]]
<1>1. n \in Nat /\ \A i \in 1..n : s[i].body \in Body
  <2>1. n \in Nat /\ \A i \in 1..n : s[i] \in QueuedEvent
    OBVIOUS
  <2>2. \A x \in QueuedEvent : x.body \in Body
    BY DEF QueuedEvent
  <2> QED BY <2>1, <2>2
<1>2. step \in [(1..n) \X Seq(Body) -> Seq(Body)]
  <2> SUFFICES ASSUME NEW x \in (1..n) \X Seq(Body)
               PROVE  (IF s[x[1]].key = k THEN Append(x[2], s[x[1]].body) ELSE x[2]) \in Seq(Body)
    OBVIOUS
  <2>1. x[1] \in 1..n /\ x[2] \in Seq(Body)
    OBVIOUS
  <2> QED BY <1>1, <2>1
<1>3. \A i \in 1..n, t \in Seq(Body) :
        step[<<i, t>>] = IF s[i].key = k THEN Append(t, s[i].body) ELSE t
  OBVIOUS
<1>4. <<>> \in Seq(Body)
  OBVIOUS
<1> HIDE DEF step
<1>5. PICK f \in [0..n -> Seq(Body)] :
        f[0] = <<>> /\ \A i \in 1..n : f[i] = step[<<i, f[i - 1]>>]
  <2> HIDE DEF n
  <2>1. \E f : Iterates(f, Seq(Body), <<>>, n, step)
    BY <1>1, <1>2, <1>4, Recursion
  <2> QED BY <2>1 DEF Iterates
<1>6. \A i \in 1..n : i \in 0..n /\ i - 1 \in 0..n /\ i # 0
  BY <1>1
<1>7. \A i \in 1..n : f[i] = IF s[i].key = k THEN Append(f[i - 1], s[i].body) ELSE f[i - 1]
  BY <1>3, <1>5, <1>6
<1>8. Equation(f)
  <2>1. \A i \in 0..n : i = 0 \/ i \in 1..n
    BY <1>1
  <2>2. \A i \in 0..n : f[i] = IF i = 0 THEN <<>>
                               ELSE IF s[i].key = k THEN Append(f[i - 1], s[i].body)
                               ELSE f[i - 1]
    BY <1>5, <1>6, <1>7, <2>1
  <2> QED BY <2>2
<1>9. Pick(s, k) = (CHOOSE g : Equation(g))[n]
  BY DEF Pick
<1>10. PICK g : g = CHOOSE h : Equation(h)
  OBVIOUS
<1>11. Equation(g)
  BY <1>8, <1>10
<1>12. g[0] = <<>> /\ \A i \in 1..n : g[i] = IF s[i].key = k THEN Append(g[i - 1], s[i].body)
                                             ELSE g[i - 1]
  <2>1. DOMAIN g = 0..n
    BY <1>11
  <2>2. 0 \in 0..n
    BY <1>1
  <2> QED BY <1>6, <1>11, <2>1, <2>2
<1>13. \A i \in 0..n : g[i] = f[i]
  <2> DEFINE Bad == {i \in 0..n : g[i] # f[i]}
  <2> SUFFICES ASSUME Bad # {} PROVE FALSE
    OBVIOUS
  <2>1. Bad \in SUBSET Nat
    BY <1>1
  <2>2. PICK i \in Bad : \A j \in Bad : i <= j
    <3> HIDE DEF Bad
    <3> QED OBVIOUS
  <2>3. i \in 0..n /\ g[i] # f[i]
    OBVIOUS
  <2>4. i \in 1..n
    BY <1>1, <1>5, <1>12, <2>3
  <2>5. i - 1 \in 0..n /\ ~(i <= i - 1)
    BY <1>1, <2>4
  <2>6. g[i - 1] = f[i - 1]
    BY <2>2, <2>5
  <2> QED BY <1>7, <1>12, <2>3, <2>4, <2>6
<1>14. n \in 0..n
  BY <1>1
<1>15. Pick(s, k) = f[n]
  BY <1>9, <1>10, <1>13, <1>14
<1> QED BY <1>5, <1>7, <1>15 DEF Picks

(* Of two queues that agree, the one d events later, the same is picked.   *)
Shifted(s, t, d, n) == n <= Len(t) /\ n + d <= Len(s) /\ \A i \in 1..n : s[i + d] = t[i]
Continues(f, g, d, n) == f[n + d] = f[d] \o g[n]

LEMMA PicksShift ==
    ASSUME NEW s \in Seq(QueuedEvent), NEW t \in Seq(QueuedEvent), NEW k,
           NEW f \in [0..Len(s) -> Seq(Body)], Picks(f, s, k),
           NEW g \in [0..Len(t) -> Seq(Body)], Picks(g, t, k),
           NEW d \in Nat, NEW n \in Nat, Shifted(s, t, d, n)
    PROVE  Continues(f, g, d, n)
<1> DEFINE Bad == {i \in 0..n : f[i + d] # f[d] \o g[i]}
<1> SUFFICES ASSUME Bad # {} PROVE FALSE
  <2>1. n \in 0..n
    OBVIOUS
  <2> QED BY <2>1 DEF Continues
<1>1. Len(s) \in Nat /\ Len(t) \in Nat /\ n <= Len(t) /\ n + d <= Len(s)
  BY DEF Shifted
<1>2. PICK i \in Bad : \A j \in Bad : i <= j
  <2>1. Bad \in SUBSET Nat
    <3>1. Bad \subseteq 0..n
      OBVIOUS
    <3> HIDE DEF Bad
    <3> QED BY <3>1
  <2> HIDE DEF Bad
  <2> QED BY <2>1
<1>3. i \in 0..n /\ f[i + d] # f[d] \o g[i]
  OBVIOUS
<1>4. d \in 0..Len(s) /\ f[d] \in Seq(Body)
  BY <1>1
<1>5. i # 0
  <2>1. g[0] = <<>> /\ 0 + d = d
    BY DEF Picks
  <2>2. f[d] \o <<>> = f[d]
    BY <1>4
  <2> QED BY <1>3, <2>1, <2>2
<1>6. /\ i \in 1..n /\ i \in 1..Len(t) /\ i + d \in 1..Len(s) /\ i - 1 \in 0..Len(t)
      /\ i - 1 \in 0..n /\ ~(i <= i - 1) /\ (i + d) - 1 = (i - 1) + d /\ (i + d) - 1 \in 0..Len(s)
  BY <1>1, <1>3, <1>5
<1>7. f[(i + d) - 1] = f[d] \o g[i - 1]
  <2>1. i - 1 \notin Bad
    BY <1>2, <1>6
  <2> QED BY <1>6, <2>1
<1>8. s[i + d] = t[i] /\ t[i] \in QueuedEvent
  BY <1>6 DEF Shifted
<1>9. /\ f[i + d] = IF t[i].key = k THEN Append(f[(i + d) - 1], t[i].body) ELSE f[(i + d) - 1]
      /\ g[i] = IF t[i].key = k THEN Append(g[i - 1], t[i].body) ELSE g[i - 1]
  <2>1. f[i + d] = IF s[i + d].key = k THEN Append(f[(i + d) - 1], s[i + d].body)
                   ELSE f[(i + d) - 1]
    BY <1>6 DEF Picks
  <2>2. g[i] = IF t[i].key = k THEN Append(g[i - 1], t[i].body) ELSE g[i - 1]
    BY <1>6 DEF Picks
  <2> QED BY <1>8, <2>1, <2>2
<1>10. PICK a \in Seq(Body), b \in Seq(Body), e \in Body :
         a = f[d] /\ b = g[i - 1] /\ e = t[i].body
  <2>1. g[i - 1] \in Seq(Body)
    BY <1>6
  <2>2. t[i].body \in Body
    BY <1>8 DEF QueuedEvent
  <2> QED BY <1>4, <2>1, <2>2
<1>11. a \o Append(b, e) = Append(a \o b, e)
  BY ConcatAppend
<1>12. f[i + d] = f[d] \o g[i]
  BY <1>7, <1>9, <1>10, <1>11
<1> QED BY <1>3, <1>12

LEMMA PickAppend ==
    ASSUME NEW s \in Seq(QueuedEvent), NEW e \in QueuedEvent, NEW k
    PROVE  /\ Pick(s, k) \in Seq(Body)
           /\ Pick(Append(s, e), k) = IF e.key = k THEN Append(Pick(s, k), e.body) ELSE Pick(s, k)
<1>1. PICK t \in Seq(QueuedEvent) : t = Append(s, e)
  BY AppendLemma
<1>2. /\ Len(s) \in Nat /\ Len(t) = Len(s) + 1
      /\ \A i \in 1..Len(s) : t[i] = s[i]
      /\ t[Len(s) + 1] = e
  BY <1>1
<1>3. PICK g \in [0..Len(s) -> Seq(Body)] : Picks(g, s, k) /\ Pick(s, k) = g[Len(s)]
  BY PickExists
<1>4. PICK f \in [0..Len(t) -> Seq(Body)] : Picks(f, t, k) /\ Pick(t, k) = f[Len(t)]
  OBVIOUS
<1>5. Pick(s, k) \in Seq(Body)
  BY <1>2, <1>3
<1>6. PICK n \in Nat : n = Len(s)
  BY <1>2
<1>7. Shifted(t, s, 0, n)
  BY <1>2, <1>6 DEF Shifted
<1>8. Continues(f, g, 0, n)
  BY <1>3, <1>4, <1>7, PicksShift
<1>9. f[n] = g[n]
  <2>1. f[n] = f[0] \o g[n]
    <3>1. n + 0 = n
      OBVIOUS
    <3> QED BY <1>8, <3>1, Zenon DEF Continues
  <2>2. f[0] = <<>> /\ g[n] \in Seq(Body)
    BY <1>3, <1>4, <1>6 DEF Picks
  <2>3. <<>> \o g[n] = g[n]
    BY <2>2
  <2> QED BY <2>1, <2>2, <2>3
<1>10. f[n + 1] = IF e.key = k THEN Append(f[n], e.body) ELSE f[n]
  <2>1. n + 1 \in 1..Len(t) /\ (n + 1) - 1 = n /\ t[n + 1] = e
    BY <1>2, <1>6
  <2>2. f[n + 1] = IF t[n + 1].key = k THEN Append(f[(n + 1) - 1], t[n + 1].body)
                   ELSE f[(n + 1) - 1]
    BY <1>4, <2>1 DEF Picks
  <2> QED BY <2>1, <2>2
<1> QED BY <1>1, <1>2, <1>3, <1>4, <1>5, <1>6, <1>9, <1>10

LEMMA PickTail ==
    ASSUME NEW s \in Seq(QueuedEvent), s # <<>>, NEW k
    PROVE  Pick(s, k) = (IF s[1].key = k THEN <<s[1].body>> ELSE <<>>) \o Pick(Tail(s), k)
<1>1. PICK t \in Seq(QueuedEvent) : t = Tail(s)
  BY TailLemma
<1>2. /\ Len(s) \in Nat \ {0} /\ Len(t) = Len(s) - 1
      /\ \A i \in 1..(Len(s) - 1) : t[i] = s[i + 1]
  BY <1>1
<1>3. PICK f \in [0..Len(s) -> Seq(Body)] : Picks(f, s, k) /\ Pick(s, k) = f[Len(s)]
  BY PickExists
<1>4. PICK g \in [0..Len(t) -> Seq(Body)] : Picks(g, t, k) /\ Pick(t, k) = g[Len(t)]
  OBVIOUS
<1>5. PICK n \in Nat : n = Len(t) /\ n + 1 = Len(s)
  BY <1>2
<1>7. Shifted(s, t, 1, n)
  BY <1>2, <1>5 DEF Shifted
<1>8. f[n + 1] = f[1] \o g[n]
  <2>1. Continues(f, g, 1, n)
    BY <1>3, <1>4, <1>7, PicksShift
  <2> QED BY <2>1 DEF Continues
<1>9. f[1] = IF s[1].key = k THEN <<s[1].body>> ELSE <<>>
  <2>1. 1 \in 1..Len(s) /\ 1 - 1 = 0
    BY <1>2
  <2>2. f[1] = IF s[1].key = k THEN Append(f[1 - 1], s[1].body) ELSE f[1 - 1]
    BY <1>3 DEF Picks
  <2>3. f[0] = <<>> /\ Append(<<>>, s[1].body) = <<s[1].body>>
    BY <1>3 DEF Picks
  <2> QED BY <2>1, <2>2, <2>3
<1> QED BY <1>1, <1>3, <1>4, <1>5, <1>8, <1>9

LEMMA QueuedPick == \A k : Queued(k) = Pick(events, k)
BY DEF Queued, Pick

-----------------------------------------------------------------------------
(* What FlattenSeq makes of the first m rows of q: every element comes from*)
(* a row, after those before it in that row, and none is missing.          *)
Comes(t, q, m, i) ==
    \E r \in 1..m : \E j \in 1..Len(q[r]) :
        /\ t[i] = q[r][j]
        /\ \A h \in 1..(j - 1) : \E g \in 1..(i - 1) : t[g] = q[r][h]
Holds(t, q, r, j) == \E i \in 1..Len(t) : t[i] = q[r][j]
Flat(t, q, m) ==
    /\ \A i \in 1..Len(t) : Comes(t, q, m, i)
    /\ \A r \in 1..m : \A j \in 1..Len(q[r]) : Holds(t, q, r, j)

LEMMA FlatOne ==
    ASSUME NEW S, NEW q \in Seq(Seq(S)), Len(q) # 0
    PROVE  q[1] \in Seq(S) /\ Flat(q[1], q, 1)
<1>1. 1 \in 1..Len(q) /\ \A r \in 1..1 : r = 1
  OBVIOUS
<1>2. q[1] \in Seq(S) /\ Len(q[1]) \in Nat
  BY <1>1
<1>3. ASSUME NEW i \in 1..Len(q[1]) PROVE Comes(q[1], q, 1, i)
  <2>1. \A h \in 1..(i - 1) : \E g \in 1..(i - 1) : q[1][g] = q[1][h]
    OBVIOUS
  <2>2. 1 \in 1..1
    OBVIOUS
  <2> QED BY DEF Comes
<1>4. \A j \in 1..Len(q[1]) : Holds(q[1], q, 1, j)
  BY DEF Holds
<1> QED BY <1>3, <1>4 DEF Flat

LEMMA FlatNext ==
    ASSUME NEW S, NEW q \in Seq(Seq(S)), NEW t \in Seq(S), NEW m \in Nat, m + 1 \in 1..Len(q),
           Flat(t, q, m)
    PROVE  t \o q[m + 1] \in Seq(S) /\ Flat(t \o q[m + 1], q, m + 1)
<1>1. PICK a \in Seq(S) : a = q[m + 1]
  OBVIOUS
<1>2. PICK u \in Seq(S) : u = t \o a
  BY ConcatLemma
<1>3. Len(u) = Len(t) + Len(a) /\ Len(t) \in Nat /\ Len(a) \in Nat
  BY <1>2
<1>4. \A i \in 1..Len(t) : u[i] = t[i]
  BY <1>2
<1>5. \A i \in 1..Len(a) : u[Len(t) + i] = a[i]
  BY <1>2
<1>6. \A r \in 1..m : r \in 1..(m + 1)
  OBVIOUS
<1>7. m + 1 \in 1..(m + 1) /\ \A r \in 1..(m + 1) : r \in 1..m \/ r = m + 1
  OBVIOUS
<1>8. ASSUME NEW i \in 1..Len(t) PROVE Comes(u, q, m + 1, i)
  <2>0. PICK r \in 1..m : \E j \in 1..Len(q[r]) :
          /\ t[i] = q[r][j]
          /\ \A h \in 1..(j - 1) : \E g \in 1..(i - 1) : t[g] = q[r][h]
    BY DEF Flat, Comes
  <2>1. PICK j \in 1..Len(q[r]) :
          /\ t[i] = q[r][j]
          /\ \A h \in 1..(j - 1) : \E g \in 1..(i - 1) : t[g] = q[r][h]
    BY <2>0
  <2>2. \A g \in 1..(i - 1) : g \in 1..Len(t)
    BY <1>3
  <2> QED BY <1>4, <2>1, <2>2 DEF Comes
<1>9. ASSUME NEW i \in 1..Len(a) PROVE Comes(u, q, m + 1, Len(t) + i)
  <2>1. u[Len(t) + i] = q[m + 1][i] /\ i \in 1..Len(q[m + 1])
    BY <1>1, <1>5
  <2>2. ASSUME NEW h \in 1..(i - 1) PROVE \E g \in 1..((Len(t) + i) - 1) : u[g] = q[m + 1][h]
    <3>1. Len(t) + h \in 1..((Len(t) + i) - 1) /\ h \in 1..Len(a)
      BY <1>3
    <3> QED BY <1>1, <1>5, <3>1
  <2> QED BY <2>1, <2>2 DEF Comes
<1>10. ASSUME NEW i \in 1..Len(u) PROVE Comes(u, q, m + 1, i)
  <2>1. i \in 1..Len(t) \/ (i - Len(t) \in 1..Len(a) /\ i = Len(t) + (i - Len(t)))
    BY <1>3
  <2> QED BY <1>8, <1>9, <2>1
<1>11. ASSUME NEW r \in 1..(m + 1), NEW j \in 1..Len(q[r]) PROVE Holds(u, q, r, j)
  <2>1. CASE r \in 1..m
    <3>1. PICK i \in 1..Len(t) : t[i] = q[r][j]
      BY <2>1 DEF Flat, Holds
    <3>2. i \in 1..Len(u) /\ u[i] = t[i]
      BY <1>3, <1>4
    <3> QED BY <3>1, <3>2 DEF Holds
  <2>2. CASE r = m + 1
    <3>1. j \in 1..Len(a) /\ Len(t) + j \in 1..Len(u)
      BY <1>1, <1>3, <2>2
    <3>2. u[Len(t) + j] = q[r][j]
      BY <1>1, <1>5, <2>2, <3>1
    <3> QED BY <3>1, <3>2 DEF Holds
  <2> QED BY <1>7, <2>1, <2>2
<1>12. Flat(u, q, m + 1)
  BY <1>10, <1>11 DEF Flat
<1> QED BY <1>1, <1>2, <1>12

LEMMA FlattenLemma ==
    ASSUME NEW S, NEW q \in Seq(Seq(S)), Len(q) # 0
    PROVE  FlattenSeq(q) \in Seq(S) /\ Flat(FlattenSeq(q), q, Len(q))
<1> DEFINE n == Len(q)
           Equation(g) == g = [i \in 1..n |-> IF i = 1 THEN q[i] ELSE g[i - 1] \o q[i]]
           step == [x \in (1..n) \X Seq(S) |-> x[2] \o q[x[1]]]
<1>1. n \in Nat /\ n # 0 /\ \A i \in 1..n : q[i] \in Seq(S)
  OBVIOUS
<1>2. step \in [(1..n) \X Seq(S) -> Seq(S)]
  <2> SUFFICES ASSUME NEW x \in (1..n) \X Seq(S) PROVE x[2] \o q[x[1]] \in Seq(S)
    OBVIOUS
  <2>1. x[1] \in 1..n /\ x[2] \in Seq(S)
    OBVIOUS
  <2>2. q[x[1]] \in Seq(S)
    BY <1>1, <2>1
  <2> QED OBVIOUS
<1>3. \A i \in 1..n, t \in Seq(S) : step[<<i, t>>] = t \o q[i]
  OBVIOUS
<1>4. <<>> \in Seq(S)
  OBVIOUS
<1> HIDE DEF step
<1>5. PICK f \in [0..n -> Seq(S)] :
        f[0] = <<>> /\ \A i \in 1..n : f[i] = step[<<i, f[i - 1]>>]
  <2> HIDE DEF n
  <2>1. \E f : Iterates(f, Seq(S), <<>>, n, step)
    BY <1>1, <1>2, <1>4, Recursion
  <2> QED BY <2>1 DEF Iterates
<1>6. \A i \in 1..n : i - 1 \in 0..n /\ (i # 1 => i - 1 \in 1..n)
  BY <1>1
<1>7. \A i \in 1..n : f[i] = f[i - 1] \o q[i]
  BY <1>3, <1>5, <1>6
<1>8. f[1] = q[1]
  <2>1. 1 \in 1..n /\ 1 - 1 = 0
    BY <1>1
  <2>2. f[1] = f[1 - 1] \o q[1] /\ q[1] \in Seq(S)
    BY <1>1, <1>7, <2>1
  <2>3. <<>> \o q[1] = q[1]
    BY <2>2
  <2> QED BY <1>5, <2>1, <2>2, <2>3
<1>9. PICK h : h = [i \in 1..n |-> f[i]]
  OBVIOUS
<1>10. Equation(h)
  <2>1. \A i \in 1..n : h[i] = f[i]
    BY <1>9
  <2>2. \A i \in 1..n : f[i] = IF i = 1 THEN q[i] ELSE h[i - 1] \o q[i]
    BY <1>6, <1>7, <1>8, <2>1
  <2> QED BY <1>9, <2>2
<1>11. FlattenSeq(q) = (CHOOSE g : Equation(g))[n]
  BY DEF FlattenSeq
<1>12. PICK g : g = CHOOSE x : Equation(x)
  OBVIOUS
<1>13. Equation(g)
  BY <1>10, <1>12
<1>14. \A i \in 1..n : g[i] = IF i = 1 THEN q[i] ELSE g[i - 1] \o q[i]
  BY <1>13
<1> DEFINE Good(i) == g[i] \in Seq(S) /\ Flat(g[i], q, i)
           Bad == {i \in 1..n : ~Good(i)}
<1>15. Bad = {}
  <2> SUFFICES ASSUME Bad # {} PROVE FALSE
    OBVIOUS
  <2>1. PICK i \in Bad : \A j \in Bad : i <= j
    <3>1. Bad \in SUBSET Nat
      OBVIOUS
    <3> HIDE DEF Bad
    <3> QED BY <3>1, Least
  <2>2. i \in 1..n /\ ~Good(i)
    OBVIOUS
  <2>3. i # 1
    <3>1. 1 \in 1..n
      BY <1>1
    <3>2. g[1] = q[1]
      BY <1>14, <3>1
    <3>3. q[1] \in Seq(S) /\ Flat(q[1], q, 1)
      BY FlatOne
    <3> QED BY <2>2, <3>2, <3>3
  <2>4. PICK m \in Nat : m = i - 1 /\ m \in 1..n /\ i = m + 1 /\ ~(i <= m)
    BY <1>1, <2>2, <2>3
  <2>5. Good(m)
    BY <2>1, <2>4
  <2>6. g[m + 1] = g[m] \o q[m + 1]
    BY <1>14, <2>2, <2>3, <2>4
  <2>7. PICK t \in Seq(S) : t = g[m] /\ Flat(t, q, m)
    BY <2>5
  <2>8. t \o q[m + 1] \in Seq(S) /\ Flat(t \o q[m + 1], q, m + 1)
    BY <2>4, <2>7, FlatNext
  <2> QED BY <2>2, <2>4, <2>6, <2>7, <2>8
<1>16. n \in 1..n
  BY <1>1
<1>17. Good(n)
  BY <1>15, <1>16
<1> QED BY <1>11, <1>12, <1>17

-----------------------------------------------------------------------------
(* The numbers of a stream, and its buffer.                                *)
LEMMA Numbers ==
    ASSUME RemoteInv, NEW k \in Key
    PROVE  /\ rseq[k] \in Nat /\ nextSeq[k] \in Nat \ {0} /\ rseq[k] < nextSeq[k]
           /\ buffer[k] \in Seq(Envelope) /\ Len(buffer[k]) \in Nat
           /\ nextSeq[k] - 1 - rseq[k] <= Len(buffer[k]) /\ Len(buffer[k]) <= nextSeq[k] - 1
           /\ \A i \in 1..Len(buffer[k]) :
                 /\ buffer[k][i] \in Envelope /\ buffer[k][i].key = k
                 /\ buffer[k][i].seq = nextSeq[k] - 1 - Len(buffer[k]) + i
<1>1. rseq[k] \in Nat /\ nextSeq[k] \in Nat \ {0} /\ buffer[k] \in Seq(Envelope)
  BY DEF RemoteInv, RemoteTypeOK, LinkTypeOK, Outbound, OutboundType
<1>2. Len(buffer[k]) \in Nat /\ \A i \in 1..Len(buffer[k]) : buffer[k][i] \in Envelope
  BY <1>1
<1>3. /\ rseq[k] < nextSeq[k]
      /\ Len(buffer[k]) \in (nextSeq[k] - 1 - rseq[k])..(nextSeq[k] - 1)
      /\ \A i \in 1..Len(buffer[k]) :
            /\ buffer[k][i].key = k
            /\ buffer[k][i].seq = nextSeq[k] - 1 - Len(buffer[k]) + i
  BY DEF RemoteInv, Outbound, BufferSound
<1>4. nextSeq[k] - 1 - rseq[k] <= Len(buffer[k]) /\ Len(buffer[k]) <= nextSeq[k] - 1
  BY <1>1, <1>2, <1>3
<1> QED BY <1>1, <1>2, <1>3, <1>4

LEMMA FlightType ==
    ASSUME RemoteInv
    PROVE  /\ Flight \in Seq(Envelope) /\ Len(Flight) \in Nat
           /\ \A i \in 1..Len(Flight) :
                 Flight[i] \in Envelope /\ Flight[i].key \in Key /\ Flight[i].seq \in Nat
<1>1. Flight \in Seq(Envelope)
  BY DEF Flight, RemoteInv, Outbound, OutboundType
<1>2. Len(Flight) \in Nat /\ \A i \in 1..Len(Flight) : Flight[i] \in Envelope
  BY <1>1
<1>3. \A e \in Envelope : e.key \in Key /\ e.seq \in Nat
  BY DEF Envelope
<1> QED BY <1>1, <1>2, <1>3

(* Where it is in a buffer of length l, given that a were received of b.   *)
LEMMA Place ==
    ASSUME NEW a \in Nat, NEW b \in Nat \ {0}, NEW l \in Nat, NEW m \in (a + 1)..(b - 1),
           b - 1 - a <= l
    PROVE  m \in Nat /\ l - (b - 1 - m) \in 1..l /\ b - 1 - l + (l - (b - 1 - m)) = m
OBVIOUS

(* The envelope with a number that the backend does not have is kept.      *)
LEMMA KeptLemma ==
    ASSUME RemoteInv, NEW k \in Key, NEW m \in (rseq[k] + 1)..(nextSeq[k] - 1)
    PROVE  /\ Len(buffer[k]) - (nextSeq[k] - 1 - m) \in 1..Len(buffer[k])
           /\ Kept(k, m) \in Envelope /\ Kept(k, m).key = k /\ Kept(k, m).seq = m
<1> DEFINE i == Len(buffer[k]) - (nextSeq[k] - 1 - m)
<1>1. i \in 1..Len(buffer[k]) /\ nextSeq[k] - 1 - Len(buffer[k]) + i = m
  <2>1. PICK a \in Nat, b \in Nat \ {0}, l \in Nat :
          a = rseq[k] /\ b = nextSeq[k] /\ l = Len(buffer[k]) /\ b - 1 - a <= l
    BY Numbers
  <2>2. m \in (a + 1)..(b - 1)
    BY <2>1
  <2>3. l - (b - 1 - m) \in 1..l
    BY <2>1, Place
  <2>4. b - 1 - l + (l - (b - 1 - m)) = m
    OBVIOUS
  <2> QED BY <2>1, <2>3, <2>4
<1> HIDE DEF i
<1>2. Kept(k, m) = buffer[k][i]
  BY DEF Kept, i
<1>3. i \in 1..Len(buffer[k])
  BY <1>1
<1> QED BY <1>1, <1>2, Numbers DEF i

(* What a step that leaves some variables alone leaves alone.              *)
LEMMA OutboundFrame ==
    ASSUME RemoteInv
    PROVE  /\ UNCHANGED <<buffer, nextSeq, rseq>> => BufferSound'
           /\ UNCHANGED <<buffer, nextSeq, used>> => UsageExact'
           /\ UNCHANGED <<buffer, nextSeq, rseq, wire, holding>> => FlightSound'
           /\ UNCHANGED <<writer, nextSeq, rseq, wire, holding>> => FlightComplete'
           /\ UNCHANGED <<holding, wire, buffer, events, outq, sends>> => OutboundType'
<1>1. UNCHANGED <<buffer, nextSeq, rseq>> => BufferSound'
  BY DEF RemoteInv, Outbound, BufferSound
<1>2. UNCHANGED <<buffer, nextSeq, used>> => UsageExact'
  BY DEF RemoteInv, Outbound, UsageExact, Retained
<1>3. UNCHANGED <<buffer, nextSeq, rseq, wire, holding>> => FlightSound'
  <2> SUFFICES ASSUME UNCHANGED <<buffer, nextSeq, rseq, wire, holding>> PROVE FlightSound'
    OBVIOUS
  <2>1. Flight' = Flight
    BY DEF Flight
  <2>2. ASSUME NEW k, NEW m PROVE Kept(k, m)' = Kept(k, m)
    BY DEF Kept
  <2>3. ASSUME NEW k, NEW m, NEW n PROVE Occurs(k, m, n) => Occurs(k, m, n)'
    BY <2>1 DEF Occurs
  <2> QED BY <2>1, <2>2, <2>3 DEF RemoteInv, Outbound, FlightSound
<1>4. UNCHANGED <<writer, nextSeq, rseq, wire, holding>> => FlightComplete'
  BY DEF RemoteInv, Outbound, FlightComplete, Flight, Occurs
<1>5. UNCHANGED <<holding, wire, buffer, events, outq, sends>> => OutboundType'
  BY DEF RemoteInv, Outbound, OutboundType
<1> QED BY <1>1, <1>2, <1>3, <1>4, <1>5

(* A lost websocket has nothing under way.                                 *)
LEMMA LostStep ==
    ASSUME writer' # "run", wire' = <<>>, holding' = <<>>
    PROVE  FlightSound' /\ FlightComplete'
<1>1. Len(Flight') = 0
  BY DEF Flight
<1>2. FlightSound'
  BY <1>1 DEF FlightSound
<1> QED BY <1>2 DEF FlightComplete

(* The backend receives the first envelope under way.                      *)
LEMMA FlightTail ==
    ASSUME RemoteInv, wire # <<>>, wire' = Tail(wire),
           UNCHANGED <<holding, writer, buffer, nextSeq>>,
           NEW r \in [Key -> Nat], rseq' = r,
           \A k \in Key : rseq[k] <= r[k],
           Flight[1].seq <= r[Flight[1].key]
    PROVE  FlightSound' /\ FlightComplete'
<1>1. /\ Flight \in Seq(Envelope) /\ Len(Flight) \in Nat
      /\ \A i \in 1..Len(Flight) :
            Flight[i] \in Envelope /\ Flight[i].key \in Key /\ Flight[i].seq \in Nat
  BY FlightType
<1>2. Flight # <<>> /\ Flight' = Tail(Flight)
  <2>1. wire \in Seq(Envelope) /\ holding \in Seq(Envelope)
    BY DEF RemoteInv, Outbound, OutboundType
  <2> QED BY ConcatFirst DEF Flight
<1>3. PICK s \in Seq(Envelope) : s = Flight
  BY <1>1
<1>4. PICK t \in Seq(Envelope) : t = Flight'
  BY <1>2, <1>3, TailLemma
<1>5. /\ Len(t) = Len(s) - 1 /\ Len(s) \in Nat \ {0}
      /\ \A i \in 1..(Len(s) - 1) : t[i] = s[i + 1]
  BY <1>2, <1>3, <1>4
<1>6. \A k \in Key : rseq[k] \in Nat /\ rseq[k] <= r[k] /\ nextSeq'[k] = nextSeq[k]
  BY DEF RemoteInv, RemoteTypeOK, LinkTypeOK
<1>7. 1 \in 1..Len(s) /\ s[1].key \in Key /\ s[1].seq \in Nat /\ s[1].seq <= r[s[1].key]
  BY <1>1, <1>3, <1>5
<1>8. ASSUME NEW k \in Key, NEW m \in Nat, m > r[k], NEW n \in Nat, n <= Len(t),
             Occurs(k, m, n + 1)
      PROVE  Occurs(k, m, n)'
  <2>1. PICK j \in 1..(n + 1) : s[j].key = k /\ s[j].seq = m
    BY <1>3, <1>8 DEF Occurs
  <2>2. j # 1
    BY <1>7, <1>8, <2>1
  <2>3. j - 1 \in 1..n /\ j - 1 \in 1..(Len(s) - 1) /\ (j - 1) + 1 = j
    BY <1>5, <1>8, <2>2
  <2>4. t[j - 1] = s[j]
    BY <1>5, <2>3
  <2> QED BY <1>4, <2>1, <2>3, <2>4 DEF Occurs
<1>9. ASSUME NEW i \in 1..Len(t)
      PROVE  /\ t[i].seq < nextSeq'[t[i].key]
             /\ t[i].seq > r[t[i].key] => t[i] = Kept(t[i].key, t[i].seq)'
             /\ \A m \in (r[t[i].key] + 1)..(t[i].seq - 1) : Occurs(t[i].key, m, i - 1)'
  <2>1. i + 1 \in 1..Len(s) /\ t[i] = s[i + 1] /\ i - 1 \in Nat /\ i - 1 <= Len(t)
        /\ (i - 1) + 1 = (i + 1) - 1
    BY <1>5
  <2>2. PICK e \in Envelope : e = s[i + 1] /\ e.key \in Key /\ e.seq \in Nat
    BY <1>1, <1>3, <2>1
  <2>3. /\ e.seq < nextSeq[e.key]
        /\ e.seq > rseq[e.key] => e = Kept(e.key, e.seq)
        /\ \A m \in (rseq[e.key] + 1)..(e.seq - 1) : Occurs(e.key, m, (i + 1) - 1)
    BY <1>3, <2>1, <2>2 DEF RemoteInv, Outbound, FlightSound
  <2>4. e.seq < nextSeq'[e.key]
    BY <2>3
  <2>5. e.seq > r[e.key] => e = Kept(e.key, e.seq)'
    <3>1. e.seq > r[e.key] => e.seq > rseq[e.key]
      BY <1>6, <2>2
    <3> QED BY <2>3, <3>1 DEF Kept
  <2>6. ASSUME NEW m \in (r[e.key] + 1)..(e.seq - 1) PROVE Occurs(e.key, m, i - 1)'
    <3>1. m \in Nat /\ m > r[e.key] /\ m \in (rseq[e.key] + 1)..(e.seq - 1)
      BY <1>6, <2>2
    <3>2. Occurs(e.key, m, (i - 1) + 1)
      BY <2>1, <2>3, <3>1
    <3> QED BY <1>8, <2>1, <2>2, <3>1, <3>2
  <2> QED BY <2>1, <2>2, <2>4, <2>5, <2>6
<1>10. FlightSound'
  BY <1>4, <1>9 DEF FlightSound
<1>11. FlightComplete'
  <2>1. writer = "run"
    BY DEF RemoteInv, Outbound, FlightComplete
  <2>2. ASSUME NEW k \in Key, NEW m \in (r[k] + 1)..(nextSeq[k] - 1)
        PROVE  Occurs(k, m, Len(t))'
    <3>1. m \in Nat /\ m > r[k] /\ m \in (rseq[k] + 1)..(nextSeq[k] - 1)
      BY Numbers
    <3>2. Occurs(k, m, Len(s))
      BY <1>3, <3>1 DEF RemoteInv, Outbound, FlightComplete
    <3>3. Len(t) \in Nat /\ Len(t) + 1 = Len(s) /\ Len(t) <= Len(t)
      BY <1>5
    <3> QED BY <1>8, <3>1, <3>2, <3>3
  <2>3. ASSUME NEW k \in Key, NEW m \in (r[k] + 1)..(nextSeq[k] - 1)
        PROVE  Occurs(k, m, Len(Flight))'
    BY <1>4, <2>2
  <2> QED BY <2>1, <2>3 DEF FlightComplete
<1> QED BY <1>10, <1>11

(* The backend takes only the next number of a stream.                     *)
LEMMA ReceiveLemma ==
    ASSUME RemoteInv, BackendReceives
    PROVE  LET e == Flight[1] IN
           /\ wire # <<>> /\ wire' = Tail(wire) /\ e \in Envelope /\ e.key \in Key
           /\ IF e.seq > rseq[e.key]
                THEN /\ e.seq = rseq[e.key] + 1 /\ e.seq < nextSeq[e.key]
                     /\ e = Kept(e.key, e.seq)
                     /\ rseq' = [rseq EXCEPT ![e.key] = e.seq]
                     /\ got' = [got EXCEPT ![e.key] = Append(@, e.body)]
                ELSE rseq' = rseq /\ got' = got
<1>1. wire # <<>> /\ wire' = Tail(wire)
  BY DEF BackendReceives
<1>2. Head(wire) = Flight[1] /\ 1 \in 1..Len(Flight)
  <2>1. wire \in Seq(Envelope) /\ holding \in Seq(Envelope)
    BY DEF RemoteInv, Outbound, OutboundType
  <2>2. /\ Len(Flight) = Len(wire) + Len(holding) /\ Len(wire) \in Nat /\ Len(holding) \in Nat
        /\ \A i \in 1..Len(wire) : Flight[i] = wire[i]
    BY DEF Flight
  <2>3. Head(wire) = wire[1] /\ Len(wire) \in Nat \ {0}
    BY <1>1
  <2> QED BY <2>2, <2>3
<1>3. PICK e \in Envelope : e = Flight[1] /\ e.key \in Key /\ e.seq \in Nat
  BY <1>2, FlightType
<1>4. /\ e.seq < nextSeq[e.key]
      /\ e.seq > rseq[e.key] => e = Kept(e.key, e.seq)
      /\ \A m \in (rseq[e.key] + 1)..(e.seq - 1) : Occurs(e.key, m, 1 - 1)
  BY <1>2, <1>3 DEF RemoteInv, Outbound, FlightSound
<1>5. \A m : ~Occurs(e.key, m, 1 - 1)
  BY DEF Occurs
<1>6. rseq[e.key] \in Nat
  BY <1>3, Numbers
<1>7. e.seq > rseq[e.key] => e.seq = rseq[e.key] + 1
  <2> SUFFICES ASSUME e.seq > rseq[e.key] + 1 PROVE FALSE
    BY <1>3, <1>6
  <2>1. rseq[e.key] + 1 \in (rseq[e.key] + 1)..(e.seq - 1)
    BY <1>3, <1>6
  <2> QED BY <1>4, <1>5, <2>1
<1>8. CASE e.seq > rseq[e.key]
  BY <1>2, <1>3, <1>4, <1>7 DEF BackendReceives
<1>9. CASE ~(e.seq > rseq[e.key])
  BY <1>2, <1>3, <1>9 DEF BackendReceives
<1> QED BY <1>8, <1>9

LEMMA BackendReceivesOutbound ==
    ASSUME RemoteInv, BackendReceives
    PROVE  Outbound' /\ LinkTypeOK'
<1> DEFINE e == Flight[1]
<1>1. UNCHANGED <<enabled, writer, holding, losses, bufferVars, appVars, events>>
  BY DEF BackendReceives
<1>2. /\ wire # <<>> /\ wire' = Tail(wire) /\ e \in Envelope /\ e.key \in Key
      /\ \/ /\ e.seq = rseq[e.key] + 1 /\ e.seq < nextSeq[e.key]
            /\ rseq' = [rseq EXCEPT ![e.key] = e.seq]
         \/ ~(e.seq > rseq[e.key]) /\ rseq' = rseq
  BY ReceiveLemma
<1>3. e.seq \in Nat /\ rseq \in [Key -> Nat] /\ nextSeq \in [Key -> Nat \ {0}]
  BY <1>2 DEF RemoteInv, RemoteTypeOK, LinkTypeOK, Envelope
<1>4. PICK r \in [Key -> Nat] : r = rseq'
  BY <1>2, <1>3
<1> HIDE DEF e
<1>5. /\ \A k \in Key : rseq[k] <= r[k] /\ r[k] < nextSeq[k]
      /\ e.seq <= r[e.key]
  <2>1. \A k \in Key : rseq[k] \in Nat /\ rseq[k] < nextSeq[k]
    BY Numbers
  <2> QED BY <1>2, <1>3, <1>4, <2>1
<1>6. FlightSound' /\ FlightComplete'
  BY <1>1, <1>2, <1>4, <1>5, FlightTail DEF e, bufferVars
<1>7. BufferSound'
  <2>1. ASSUME NEW k \in Key
        PROVE  /\ r[k] < nextSeq[k]
               /\ Len(buffer[k]) \in (nextSeq[k] - 1 - r[k])..(nextSeq[k] - 1)
    <3>1. /\ rseq[k] \in Nat /\ nextSeq[k] \in Nat \ {0} /\ Len(buffer[k]) \in Nat
          /\ nextSeq[k] - 1 - rseq[k] <= Len(buffer[k]) /\ Len(buffer[k]) <= nextSeq[k] - 1
      BY Numbers
    <3>2. r[k] \in Nat /\ rseq[k] <= r[k] /\ r[k] < nextSeq[k]
      BY <1>5
    <3> QED BY <3>1, <3>2
  <2> QED BY <1>1, <1>4, <2>1 DEF RemoteInv, Outbound, BufferSound, bufferVars
<1>8. UsageExact'
  BY <1>1, OutboundFrame DEF bufferVars
<1>9. wire' \in Seq(Envelope)
  <2>1. wire \in Seq(Envelope)
    BY DEF RemoteInv, Outbound, OutboundType
  <2> QED BY <1>2, <2>1
<1>10. OutboundType'
  BY <1>1, <1>9 DEF RemoteInv, Outbound, OutboundType, bufferVars, appVars
<1>11. LinkTypeOK'
  BY <1>1, <1>4 DEF RemoteInv, RemoteTypeOK, LinkTypeOK, bufferVars
<1> QED BY <1>6, <1>7, <1>8, <1>10, <1>11 DEF Outbound

(* The copy made for a new websocket.                                      *)
LEMMA SnapshotFlat ==
    ASSUME RemoteInv, NEW order \in SetToSeqs(Key)
    PROVE  LET t == ServerEnvelopes(order)
               q == [i \in DOMAIN order |-> buffer[order[i]]]
           IN  /\ t \in Seq(Envelope) /\ q \in Seq(Seq(Envelope)) /\ Flat(t, q, Len(q))
               /\ \A r \in 1..Len(q) : order[r] \in Key /\ q[r] = buffer[order[r]]
               /\ \A k \in Key : \E r \in 1..Len(q) : order[r] = k
<1> DEFINE n == Cardinality(Key)
           q == [i \in DOMAIN order |-> buffer[order[i]]]
<1>1. n \in Nat /\ n # 0
  BY KeyAssumption, FS_CardinalityType, FS_EmptySet
<1>2. order \in [1..n -> Key] /\ \A i, j \in 1..n : i # j => order[i] # order[j]
  BY DEF SetToSeqs
<1>3. order \in Injection(1..n, Key)
  BY <1>2 DEF Injection, IsInjective
<1>4. IsFiniteSet(1..n) /\ Cardinality(1..n) = n
  <2>1. Cardinality(1..n) = IF 1 > n THEN 0 ELSE n - 1 + 1
    BY <1>1, FS_Interval
  <2>2. IsFiniteSet(1..n)
    BY <1>1, FS_Interval
  <2> HIDE DEF n
  <2> QED BY <1>1, <2>1, <2>2
<1>5. order \in Surjection(1..n, Key)
  BY <1>3, <1>4, KeyAssumption, FS_Injection
<1>6. \A k \in Key : \E r \in 1..n : order[r] = k
  BY <1>5 DEF Surjection
<1>7. \A k \in Key : buffer[k] \in Seq(Envelope)
  BY Numbers
<1> HIDE DEF n
<1>8. q \in [1..n -> Seq(Envelope)] /\ \A r \in 1..n : q[r] = buffer[order[r]]
  BY <1>2, <1>7
<1> HIDE DEF q
<1>9. q \in Seq(Seq(Envelope)) /\ Len(q) = n
  BY <1>1, <1>8
<1>10. FlattenSeq(q) \in Seq(Envelope) /\ Flat(FlattenSeq(q), q, Len(q))
  BY <1>1, <1>9, FlattenLemma
<1>11. ServerEnvelopes(order) = FlattenSeq(q)
  BY DEF ServerEnvelopes, q
<1> QED BY <1>2, <1>6, <1>9, <1>10, <1>11 DEF q

(* Where the ones before an envelope are.                                  *)
LEMMA PlaceBefore ==
    ASSUME NEW a \in Nat, NEW b \in Nat \ {0}, NEW l \in Nat, NEW j \in 1..l,
           NEW m \in (a + 1)..(b - 1 - l + j - 1), b - 1 - a <= l
    PROVE  m \in (a + 1)..(b - 1) /\ l - (b - 1 - m) \in 1..(j - 1)
OBVIOUS

(* Its envelopes are those of the buffers, each stream's in order.         *)
LEMMA SnapshotSound ==
    ASSUME RemoteInv, NEW order \in SetToSeqs(Key), NEW t \in Seq(Envelope),
           t = ServerEnvelopes(order), Flight' = t,
           UNCHANGED <<buffer, nextSeq, rseq>>
    PROVE  FlightSound'
<1> DEFINE q == [i \in DOMAIN order |-> buffer[order[i]]]
<1>1. /\ Flat(t, q, Len(q))
      /\ \A r \in 1..Len(q) : order[r] \in Key /\ q[r] = buffer[order[r]]
  BY SnapshotFlat
<1> HIDE DEF q
<1>2. ASSUME NEW i \in 1..Len(t)
      PROVE  /\ t[i].seq < nextSeq[t[i].key]
             /\ t[i].seq > rseq[t[i].key] => t[i] = Kept(t[i].key, t[i].seq)
             /\ \A m \in (rseq[t[i].key] + 1)..(t[i].seq - 1) : Occurs(t[i].key, m, i - 1)'
  <2>1. PICK r \in 1..Len(q) : \E j \in 1..Len(q[r]) :
          /\ t[i] = q[r][j]
          /\ \A h \in 1..(j - 1) : \E g \in 1..(i - 1) : t[g] = q[r][h]
    BY <1>1 DEF Flat, Comes
  <2>2. PICK k \in Key : k = order[r] /\ q[r] = buffer[k]
    BY <1>1, <2>1
  <2>3. PICK j \in 1..Len(buffer[k]) :
          /\ t[i] = buffer[k][j]
          /\ \A h \in 1..(j - 1) : \E g \in 1..(i - 1) : t[g] = buffer[k][h]
    BY <2>1, <2>2
  <2>4. PICK a \in Nat, b \in Nat \ {0}, l \in Nat :
          /\ a = rseq[k] /\ b = nextSeq[k] /\ l = Len(buffer[k])
          /\ b - 1 - a <= l /\ l <= b - 1
    BY Numbers
  <2>5. t[i].key = k /\ t[i].seq = b - 1 - l + j
    <3>1. buffer[k][j].key = k /\ buffer[k][j].seq = nextSeq[k] - 1 - Len(buffer[k]) + j
      BY Numbers
    <3> QED BY <2>3, <2>4, <3>1
  <2>6. t[i].seq < b
    BY <2>3, <2>4, <2>5
  <2>7. t[i] = Kept(k, t[i].seq)
    <3>1. l - (b - 1 - t[i].seq) = j
      BY <2>3, <2>4, <2>5
    <3> QED BY <2>3, <2>4, <3>1 DEF Kept
  <2>8. ASSUME NEW m \in (a + 1)..(t[i].seq - 1) PROVE Occurs(k, m, i - 1)'
    <3>1. m \in (rseq[k] + 1)..(nextSeq[k] - 1) /\ l - (b - 1 - m) \in 1..(j - 1)
      <4>1. j \in 1..l /\ m \in (a + 1)..(b - 1 - l + j - 1)
        BY <2>3, <2>4, <2>5
      <4>2. m \in (a + 1)..(b - 1) /\ l - (b - 1 - m) \in 1..(j - 1)
        BY <2>4, <4>1, PlaceBefore
      <4> QED BY <2>4, <4>2
    <3>2. PICK h \in 1..(j - 1) : h = l - (b - 1 - m)
      BY <3>1
    <3>3. buffer[k][h].key = k /\ buffer[k][h].seq = m
      BY <2>4, <3>1, <3>2, KeptLemma DEF Kept
    <3>4. PICK g \in 1..(i - 1) : t[g] = buffer[k][h]
      BY <2>3, <3>2
    <3> QED BY <3>3, <3>4 DEF Occurs
  <2> QED BY <2>4, <2>5, <2>6, <2>7, <2>8
<1>3. ASSUME NEW k, NEW m PROVE Kept(k, m)' = Kept(k, m)
  BY DEF Kept
<1> QED BY <1>2, <1>3 DEF FlightSound

LEMMA SnapshotComplete ==
    ASSUME RemoteInv, NEW order \in SetToSeqs(Key), NEW t \in Seq(Envelope),
           t = ServerEnvelopes(order), Flight' = t, writer' = "run",
           UNCHANGED <<buffer, nextSeq, rseq>>
    PROVE  FlightComplete'
<1> DEFINE q == [i \in DOMAIN order |-> buffer[order[i]]]
<1>1. /\ Flat(t, q, Len(q))
      /\ \A r \in 1..Len(q) : order[r] \in Key /\ q[r] = buffer[order[r]]
      /\ \A k \in Key : \E r \in 1..Len(q) : order[r] = k
  BY SnapshotFlat
<1> HIDE DEF q
<1>2. ASSUME NEW k \in Key, NEW m \in (rseq[k] + 1)..(nextSeq[k] - 1)
      PROVE  Occurs(k, m, Len(Flight))'
  <2>1. PICK r \in 1..Len(q) : order[r] = k /\ q[r] = buffer[k]
    BY <1>1
  <2>2. PICK j \in 1..Len(buffer[k]) : Kept(k, m) = buffer[k][j]
    BY KeptLemma DEF Kept
  <2>3. buffer[k][j].key = k /\ buffer[k][j].seq = m
    BY <2>2, KeptLemma
  <2>4. Holds(t, q, r, j)
    BY <1>1, <2>1 DEF Flat
  <2>5. PICK i \in 1..Len(t) : t[i] = buffer[k][j]
    BY <2>1, <2>4 DEF Holds
  <2> QED BY <2>3, <2>5 DEF Occurs
<1> QED BY <1>2 DEF FlightComplete

LEMMA SnapshotOutbound ==
    ASSUME RemoteInv, Snapshot
    PROVE  Outbound' /\ LinkTypeOK'
<1>1. PICK order \in SetToSeqs(Key) : holding' = ServerEnvelopes(order)
  BY DEF Snapshot
<1>2. /\ writer = "start" /\ writer' = "run"
      /\ UNCHANGED <<enabled, wire, bufferVars, appVars, backendVars, events>>
  BY DEF Snapshot
<1>3. PICK t \in Seq(Envelope) : t = ServerEnvelopes(order)
  BY SnapshotFlat
<1>4. Flight' = t
  <2>1. wire = <<>>
    BY <1>2 DEF RemoteInv, Outbound, FlightComplete
  <2>2. <<>> \o t = t
    BY <1>3
  <2> QED BY <1>1, <1>2, <1>3, <2>1 DEF Flight
<1>5. UNCHANGED <<buffer, nextSeq, rseq, used, wire, events, outq, sends>>
  BY <1>2 DEF bufferVars, backendVars, appVars
<1>6. FlightSound' /\ FlightComplete'
  BY <1>2, <1>3, <1>4, <1>5, SnapshotSound, SnapshotComplete
<1>7. BufferSound' /\ UsageExact'
  BY <1>5, OutboundFrame
<1>8. OutboundType'
  BY <1>1, <1>3, <1>5 DEF RemoteInv, Outbound, OutboundType
<1>9. LinkTypeOK'
  BY <1>2, <1>5 DEF RemoteInv, RemoteTypeOK, LinkTypeOK
<1> QED BY <1>6, <1>7, <1>8, <1>9 DEF Outbound

(* The writer passes on what it holds: what is under way stays the same.   *)
LEMMA WriterSendsOutbound ==
    ASSUME RemoteInv, WriterSends
    PROVE  Outbound' /\ LinkTypeOK'
<1>1. /\ writer = "run" /\ holding # <<>> /\ wire' = Append(wire, Head(holding))
      /\ holding' = Tail(holding)
      /\ UNCHANGED <<enabled, writer, bufferVars, appVars, backendVars, events>>
  BY DEF WriterSends
<1>2. wire \in Seq(Envelope) /\ holding \in Seq(Envelope)
  BY DEF RemoteInv, Outbound, OutboundType
<1>3. Flight' = Flight
  BY <1>1, MoveLemma DEF Flight
<1>4. wire' \in Seq(Envelope) /\ holding' \in Seq(Envelope)
  BY <1>1, <1>2
<1>5. UNCHANGED <<buffer, nextSeq, rseq, used, events, outq, sends>>
  BY <1>1 DEF bufferVars, backendVars, appVars
<1>6. ASSUME NEW k, NEW m PROVE Kept(k, m)' = Kept(k, m)
  BY <1>5 DEF Kept
<1>7. ASSUME NEW k, NEW m, NEW n PROVE Occurs(k, m, n) => Occurs(k, m, n)'
  BY <1>3 DEF Occurs
<1>8. FlightSound'
  BY <1>3, <1>5, <1>6, <1>7 DEF RemoteInv, Outbound, FlightSound
<1>9. FlightComplete'
  <2>1. ASSUME NEW k \in Key, NEW m \in (rseq[k] + 1)..(nextSeq[k] - 1)
        PROVE  Occurs(k, m, Len(Flight))'
    <3>1. Occurs(k, m, Len(Flight))
      BY <1>1 DEF RemoteInv, Outbound, FlightComplete
    <3> QED BY <1>3, <3>1 DEF Occurs
  <2> QED BY <1>1, <1>5, <2>1 DEF FlightComplete
<1>10. BufferSound' /\ UsageExact'
  BY <1>5, OutboundFrame
<1>11. OutboundType'
  BY <1>4, <1>5 DEF RemoteInv, Outbound, OutboundType
<1>12. LinkTypeOK'
  BY <1>1, <1>5 DEF RemoteInv, RemoteTypeOK, LinkTypeOK
<1> QED BY <1>8, <1>9, <1>10, <1>11, <1>12 DEF Outbound

-----------------------------------------------------------------------------
(* The writer takes e from the queue.                                      *)
Takes(e) ==
    /\ e \in Envelope /\ e.key \in Key /\ e.seq = nextSeq[e.key]
    /\ writer = "run" /\ writer' = "run" /\ rseq' = rseq /\ used' = used + 1
    /\ nextSeq' = [nextSeq EXCEPT ![e.key] = @ + 1]
    /\ buffer' = [buffer EXCEPT ![e.key] = Append(@, e)]
    /\ Flight' = Append(Flight, e) /\ holding' = <<e>> /\ wire' = wire

LEMMA TakesLemma ==
    ASSUME RemoteInv, WriterTakes
    PROVE  \E e : /\ Takes(e) /\ events # <<>> /\ e.key = events[1].key /\ e.body = events[1].body
                  /\ events' = Tail(events) /\ used < Capacity
                  /\ UNCHANGED <<enabled, outq, sends, got>>
<1> DEFINE q == Head(events)
           e == [key |-> q.key, body |-> q.body, seq |-> nextSeq[q.key]]
<1>1. /\ writer = "run" /\ holding = <<>> /\ HasCapacity /\ events # <<>>
      /\ nextSeq' = [nextSeq EXCEPT ![q.key] = @ + 1]
      /\ Insert(e) /\ holding' = <<e>> /\ events' = Tail(events)
      /\ UNCHANGED <<enabled, writer, wire, appVars, backendVars>>
  BY DEF WriterTakes
<1>2. events \in Seq(QueuedEvent)
  BY DEF RemoteInv, Outbound, OutboundType
<1>3. q = events[1] /\ q \in QueuedEvent
  BY <1>1, <1>2
<1>4. q.key \in Key /\ q.body \in Body
  BY <1>3 DEF QueuedEvent
<1>5. nextSeq[q.key] \in Nat
  BY <1>4 DEF RemoteInv, RemoteTypeOK, LinkTypeOK
<1>6. e \in Envelope /\ e.key = q.key /\ e.body = q.body /\ e.seq = nextSeq[q.key]
  BY <1>4, <1>5 DEF Envelope
<1> HIDE DEF e, q
<1>7. Flight' = Append(Flight, e)
  <2>1. wire \in Seq(Envelope)
    BY DEF RemoteInv, Outbound, OutboundType
  <2>2. wire \o <<>> = wire /\ wire \o <<e>> = Append(wire, e)
    BY <1>6, <2>1
  <2> QED BY <1>1 DEF Flight
<1>8. Takes(e)
  BY <1>1, <1>4, <1>6, <1>7 DEF Takes, Insert, backendVars
<1>9. /\ e.key = events[1].key /\ e.body = events[1].body /\ used < Capacity
      /\ UNCHANGED <<enabled, outq, sends, got>>
  BY <1>1, <1>3, <1>6 DEF HasCapacity, appVars, backendVars
<1> QED BY <1>1, <1>8, <1>9

(* Numbers and lengths that grow by one.                                   *)
LEMMA Grown ==
    ASSUME NEW a \in Nat, NEW b \in Nat \ {0}, NEW l \in Nat,
           b - 1 - a <= l, l <= b - 1, a < b
    PROVE  /\ l + 1 \in ((b + 1) - 1 - a)..((b + 1) - 1) /\ a < b + 1
           /\ \A m \in Nat :
                 m \in ((b + 1) - (l + 1))..((b + 1) - 1) <=> m \in (b - l)..(b - 1) \/ m = b
OBVIOUS

LEMMA GrownPlace ==
    ASSUME NEW b \in Nat, NEW l \in Nat, NEW m \in Int
    PROVE  /\ (l + 1) - ((b + 1) - 1 - m) = l - (b - 1 - m)
           /\ (b + 1) - 1 - (l + 1) + m = b - 1 - l + m
           /\ m \in 1..(l + 1) => m = l + 1 \/ m \in 1..l
OBVIOUS

(* The numbers and buffers after it.                                       *)
LEMMA TakenNumbers ==
    ASSUME RemoteInv, NEW e, Takes(e), NEW k \in Key
    PROVE  /\ k # e.key => nextSeq'[k] = nextSeq[k] /\ buffer'[k] = buffer[k]
           /\ k = e.key =>
                /\ nextSeq'[k] = nextSeq[k] + 1 /\ Len(buffer'[k]) = Len(buffer[k]) + 1
                /\ \A i \in 1..Len(buffer[k]) : buffer'[k][i] = buffer[k][i]
                /\ buffer'[k][Len(buffer[k]) + 1] = e
           /\ buffer'[k] \in Seq(Envelope)
<1>1. nextSeq \in [Key -> Nat \ {0}] /\ buffer \in [Key -> Seq(Envelope)]
  BY DEF RemoteInv, RemoteTypeOK, LinkTypeOK, Outbound, OutboundType
<1>2. k # e.key => nextSeq'[k] = nextSeq[k] /\ buffer'[k] = buffer[k]
  BY DEF Takes
<1>3. k = e.key => nextSeq'[k] = nextSeq[k] + 1 /\ buffer'[k] = Append(buffer[k], e)
  BY <1>1 DEF Takes
<1>4. e \in Envelope /\ buffer[k] \in Seq(Envelope)
  BY <1>1 DEF Takes
<1>5. /\ Append(buffer[k], e) \in Seq(Envelope)
      /\ Len(Append(buffer[k], e)) = Len(buffer[k]) + 1
      /\ \A i \in 1..Len(buffer[k]) : Append(buffer[k], e)[i] = buffer[k][i]
      /\ Append(buffer[k], e)[Len(buffer[k]) + 1] = e
  BY <1>4
<1> QED BY <1>2, <1>3, <1>4, <1>5

(* What was kept stays, and e is kept under its number.                    *)
LEMMA TakenKept ==
    ASSUME RemoteInv, NEW e, Takes(e), NEW k \in Key
    PROVE  /\ \A m \in (rseq[k] + 1)..(nextSeq[k] - 1) : Kept(k, m)' = Kept(k, m)
           /\ \A m : k = e.key /\ m = nextSeq[k] => Kept(k, m)' = e
<1>1. PICK a \in Nat, b \in Nat \ {0}, l \in Nat :
        /\ a = rseq[k] /\ b = nextSeq[k] /\ l = Len(buffer[k])
        /\ b - 1 - a <= l /\ l <= b - 1 /\ a < b
  BY Numbers
<1>2. CASE k # e.key
  <2>1. nextSeq'[k] = nextSeq[k] /\ buffer'[k] = buffer[k]
    BY <1>2, TakenNumbers
  <2> QED BY <1>2, <2>1 DEF Kept
<1>3. CASE k = e.key
  <2>1. /\ nextSeq'[k] = b + 1 /\ Len(buffer'[k]) = l + 1
        /\ \A i \in 1..l : buffer'[k][i] = buffer[k][i]
        /\ buffer'[k][l + 1] = e
    BY <1>1, <1>3, TakenNumbers
  <2>2. ASSUME NEW m \in (a + 1)..(b - 1) PROVE Kept(k, m)' = Kept(k, m)
    <3>1. l - (b - 1 - m) \in 1..l
      BY <1>1, Place
    <3>2. (l + 1) - ((b + 1) - 1 - m) = l - (b - 1 - m)
      <4>1. m \in Int /\ b \in Nat /\ l \in Nat
        BY <1>1
      <4> QED OBVIOUS
    <3> QED BY <1>1, <2>1, <3>1, <3>2 DEF Kept
  <2>3. Kept(k, b)' = e
    <3>1. (l + 1) - ((b + 1) - 1 - b) = l + 1
      BY <1>1
    <3> QED BY <2>1 DEF Kept
  <2> QED BY <1>1, <2>2, <2>3
<1> QED BY <1>2, <1>3

LEMMA TakenBuffer ==
    ASSUME RemoteInv, NEW e, Takes(e)
    PROVE  BufferSound'
<1>1. ASSUME NEW k \in Key
      PROVE  /\ rseq[k] < nextSeq'[k]
             /\ Len(buffer'[k]) \in (nextSeq'[k] - 1 - rseq[k])..(nextSeq'[k] - 1)
             /\ \A i \in 1..Len(buffer'[k]) :
                   /\ buffer'[k][i].key = k
                   /\ buffer'[k][i].seq = nextSeq'[k] - 1 - Len(buffer'[k]) + i
  <2>1. PICK a \in Nat, b \in Nat \ {0}, l \in Nat :
          /\ a = rseq[k] /\ b = nextSeq[k] /\ l = Len(buffer[k]) /\ b - 1 - a <= l /\ l <= b - 1
          /\ a < b
    BY Numbers
  <2>2. \A i \in 1..l : buffer[k][i].key = k /\ buffer[k][i].seq = b - 1 - l + i
    BY <2>1, Numbers
  <2>3. CASE k # e.key
    <3>1. nextSeq'[k] = b /\ buffer'[k] = buffer[k] /\ l \in (b - 1 - a)..(b - 1)
      BY <2>1, <2>3, TakenNumbers
    <3> QED BY <2>1, <2>2, <3>1
  <2>4. CASE k = e.key
    <3>1. /\ nextSeq'[k] = b + 1 /\ Len(buffer'[k]) = l + 1
          /\ \A i \in 1..l : buffer'[k][i] = buffer[k][i]
          /\ buffer'[k][l + 1] = e
      BY <2>1, <2>4, TakenNumbers
    <3>4. e.key = k /\ e.seq = b
      BY <2>1, <2>4 DEF Takes
    <3>2. l + 1 \in ((b + 1) - 1 - a)..((b + 1) - 1) /\ a < b + 1
      BY <2>1, Grown
    <3>3. ASSUME NEW i \in 1..(l + 1)
          PROVE  buffer'[k][i].key = k /\ buffer'[k][i].seq = (b + 1) - 1 - (l + 1) + i
      <4>1. CASE i = l + 1
        <5>1. (b + 1) - 1 - (l + 1) + i = b
          BY <2>1, <4>1
        <5> QED BY <3>1, <3>4, <4>1, <5>1
      <4>2. CASE i # l + 1
        <5>1. i \in 1..l /\ (b + 1) - 1 - (l + 1) + i = b - 1 - l + i
          <6>1. i \in Int /\ b \in Nat /\ l \in Nat /\ i \in 1..(l + 1) /\ i # l + 1
            BY <2>1, <4>2
          <6> QED BY ONLY <6>1
        <5> QED BY <2>2, <3>1, <5>1
      <4> QED BY <4>1, <4>2
    <3> QED BY <2>1, <3>1, <3>2, <3>3
  <2> QED BY <2>3, <2>4
<1> QED BY <1>1 DEF BufferSound, Takes

LEMMA TakenUsage ==
    ASSUME RemoteInv, NEW e, Takes(e)
    PROVE  UsageExact'
<1> DEFINE x == <<e.key, nextSeq[e.key]>>
<1>1. e.key \in Key /\ nextSeq[e.key] \in Nat /\ Len(buffer[e.key]) \in Nat
  BY Numbers DEF Takes
<1>2. x \notin Retained
  BY DEF Retained
<1>3. ASSUME NEW k \in Key, NEW m \in Nat
      PROVE  m \in (nextSeq'[k] - Len(buffer'[k]))..(nextSeq'[k] - 1)
               <=> \/ m \in (nextSeq[k] - Len(buffer[k]))..(nextSeq[k] - 1)
                   \/ k = e.key /\ m = nextSeq[k]
  <2>1. PICK a \in Nat, b \in Nat \ {0}, l \in Nat :
          /\ a = rseq[k] /\ b = nextSeq[k] /\ l = Len(buffer[k])
          /\ b - 1 - a <= l /\ l <= b - 1 /\ a < b
    BY Numbers
  <2>2. CASE k # e.key
    BY <2>2, TakenNumbers
  <2>3. CASE k = e.key
    <3>1. nextSeq'[k] = b + 1 /\ Len(buffer'[k]) = l + 1
      BY <2>1, <2>3, TakenNumbers
    <3>2. m \in ((b + 1) - (l + 1))..((b + 1) - 1) <=> (m \in (b - l)..(b - 1) \/ m = b)
      OBVIOUS
    <3> QED BY <2>1, <2>3, <3>1, <3>2
  <2> QED BY <2>2, <2>3
<1>4. PICK new : new = Retained'
  OBVIOUS
<1>5. ASSUME NEW k \in Key, NEW m \in Nat
      PROVE  <<k, m>> \in new <=> <<k, m>> \in Retained \/ (k = e.key /\ m = nextSeq[k])
  BY <1>3, <1>4 DEF Retained
<1>6. new \subseteq Key \X Nat /\ Retained \subseteq Key \X Nat
  BY <1>4 DEF Retained
<1>7. new = Retained \cup {x}
  <2>1. ASSUME NEW y \in Key \X Nat PROVE y \in new <=> y \in Retained \/ y = x
    <3>1. PICK k \in Key, m \in Nat : y = <<k, m>>
      OBVIOUS
    <3>2. y = x <=> k = e.key /\ m = nextSeq[k]
      BY <3>1
    <3> QED BY <1>5, <3>1, <3>2
  <2>2. x \in Key \X Nat
    BY <1>1
  <2> QED BY <1>6, <2>1, <2>2
<1> HIDE DEF x
<1>8. IsFiniteSet(Retained) /\ used = Cardinality(Retained)
  BY DEF RemoteInv, Outbound, UsageExact
<1>9. IsFiniteSet(new) /\ Cardinality(new) = Cardinality(Retained) + 1
  BY <1>2, <1>7, <1>8, FS_AddElement
<1> QED BY <1>4, <1>8, <1>9 DEF UsageExact, Takes

LEMMA TakenFlight ==
    ASSUME RemoteInv, NEW e, Takes(e)
    PROVE  FlightSound' /\ FlightComplete'
<1>1. PICK s \in Seq(Envelope) : s = Flight
  BY FlightType
<1>2. \A i \in 1..Len(s) : s[i] \in Envelope /\ s[i].key \in Key /\ s[i].seq \in Nat
  BY <1>1, FlightType
<1>3. PICK t \in Seq(Envelope) : t = Flight'
  BY <1>1, AppendLemma DEF Takes
<1>4. /\ Len(t) = Len(s) + 1 /\ Len(s) \in Nat /\ t[Len(s) + 1] = e
      /\ \A i \in 1..Len(s) : t[i] = s[i]
  BY <1>1, <1>3 DEF Takes
<1>5. ASSUME NEW k, NEW m, NEW n \in Nat, n <= Len(s), Occurs(k, m, n)
      PROVE  Occurs(k, m, n)'
  <2>1. PICK j \in 1..n : s[j].key = k /\ s[j].seq = m
    BY <1>1, <1>5 DEF Occurs
  <2>2. j \in 1..Len(s)
    BY <1>4, <1>5
  <2> QED BY <1>3, <1>4, <2>1, <2>2 DEF Occurs
<1>6. ASSUME NEW k \in Key, NEW m \in (rseq[k] + 1)..(nextSeq[k] - 1)
      PROVE  Occurs(k, m, Len(s))'
  <2>1. Occurs(k, m, Len(s))
    BY <1>1 DEF RemoteInv, Outbound, FlightComplete, Takes
  <2> QED BY <1>4, <1>5, <2>1
<1>7. \A k \in Key : nextSeq[k] \in Nat /\ nextSeq'[k] \in Nat /\ nextSeq'[k] >= nextSeq[k]
  <2> TAKE k \in Key
  <2>1. nextSeq[k] \in Nat
    BY Numbers
  <2>2. nextSeq'[k] = nextSeq[k] \/ nextSeq'[k] = nextSeq[k] + 1
    BY TakenNumbers
  <2> QED BY <2>1, <2>2
<1>8. ASSUME NEW i \in 1..Len(s)
      PROVE  /\ t[i].seq < nextSeq'[t[i].key]
             /\ t[i].seq > rseq[t[i].key] => t[i] = Kept(t[i].key, t[i].seq)'
             /\ \A m \in (rseq[t[i].key] + 1)..(t[i].seq - 1) : Occurs(t[i].key, m, i - 1)'
  <2>1. PICK x \in Envelope : x = s[i] /\ x = t[i] /\ x.key \in Key /\ x.seq \in Nat
    BY <1>2, <1>4
  <2>2. /\ x.seq < nextSeq[x.key]
        /\ x.seq > rseq[x.key] => x = Kept(x.key, x.seq)
        /\ \A m \in (rseq[x.key] + 1)..(x.seq - 1) : Occurs(x.key, m, i - 1)
    BY <1>1, <2>1 DEF RemoteInv, Outbound, FlightSound
  <2>3. x.seq < nextSeq'[x.key]
    BY <1>7, <2>1, <2>2
  <2>4. ASSUME x.seq > rseq[x.key] PROVE x = Kept(x.key, x.seq)'
    <3>1. x.seq \in (rseq[x.key] + 1)..(nextSeq[x.key] - 1)
      BY <2>1, <2>2, <2>4, Numbers
    <3>2. Kept(x.key, x.seq)' = Kept(x.key, x.seq)
      BY <2>1, <3>1, TakenKept
    <3> QED BY <2>2, <2>4, <3>2
  <2>5. \A m \in (rseq[x.key] + 1)..(x.seq - 1) : Occurs(x.key, m, i - 1)'
    <3>1. i - 1 \in Nat /\ i - 1 <= Len(s)
      BY <1>4
    <3> QED BY <1>5, <2>2, <3>1
  <2> QED BY <2>1, <2>3, <2>4, <2>5
<1>9. PICK x \in Envelope : x = e /\ x.key \in Key
  BY DEF Takes
<1>10. x.seq = nextSeq[x.key] /\ x.seq < nextSeq'[x.key]
  <2>1. nextSeq'[x.key] = nextSeq[x.key] + 1 /\ nextSeq[x.key] \in Nat
    BY <1>9, TakenNumbers, Numbers
  <2> QED BY <1>9, <2>1 DEF Takes
<1>11. x = Kept(x.key, x.seq)'
  BY <1>9, <1>10, TakenKept
<1>12. \A m \in (rseq[x.key] + 1)..(x.seq - 1) : Occurs(x.key, m, Len(s))'
  BY <1>6, <1>9, <1>10
<1>13. FlightSound'
  <2>1. ASSUME NEW i \in 1..Len(t)
        PROVE  /\ t[i].seq < nextSeq'[t[i].key]
               /\ t[i].seq > rseq[t[i].key] => t[i] = Kept(t[i].key, t[i].seq)'
               /\ \A m \in (rseq[t[i].key] + 1)..(t[i].seq - 1) : Occurs(t[i].key, m, i - 1)'
    <3>1. CASE i \in 1..Len(s)
      BY <1>8, <3>1
    <3>2. CASE i \notin 1..Len(s)
      <4>1. i = Len(s) + 1 /\ i - 1 = Len(s)
        BY <1>4, <3>2
      <4>2. t[i] = x
        BY <1>4, <1>9, <4>1
      <4> QED BY <1>10, <1>11, <1>12, <4>1, <4>2
    <3> QED BY <3>1, <3>2
  <2> QED BY <1>3, <2>1 DEF FlightSound, Takes
<1>14. FlightComplete'
  <2>1. ASSUME NEW k \in Key, NEW m \in (rseq[k] + 1)..(nextSeq'[k] - 1)
        PROVE  Occurs(k, m, Len(t))'
    <3>1. CASE m \in (rseq[k] + 1)..(nextSeq[k] - 1)
      <4>1. PICK j \in 1..Len(s) : t[j].key = k /\ t[j].seq = m
        BY <1>3, <1>6, <3>1 DEF Occurs
      <4>2. j \in 1..Len(t)
        BY <1>4
      <4> QED BY <1>3, <4>1, <4>2 DEF Occurs
    <3>2. CASE m \notin (rseq[k] + 1)..(nextSeq[k] - 1)
      <4>1. k = e.key /\ m = nextSeq[k]
        <5>1. rseq[k] \in Nat /\ nextSeq[k] \in Nat
          BY Numbers
        <5>2. k # e.key => nextSeq'[k] = nextSeq[k]
          BY TakenNumbers
        <5>3. k = e.key => nextSeq'[k] = nextSeq[k] + 1
          BY TakenNumbers
        <5> QED BY <3>2, <5>1, <5>2, <5>3
      <4>2. Len(s) + 1 \in 1..Len(t)
        BY <1>4
      <4> QED BY <1>3, <1>4, <1>9, <1>10, <4>1 DEF Occurs
    <3> QED BY <3>1, <3>2
  <2>2. ASSUME NEW k \in Key, NEW m \in (rseq[k] + 1)..(nextSeq'[k] - 1)
        PROVE  Occurs(k, m, Len(Flight))'
    BY <1>3, <2>1
  <2> QED BY <2>2 DEF FlightComplete, Takes
<1> QED BY <1>13, <1>14

LEMMA WriterTakesOutbound ==
    ASSUME RemoteInv, WriterTakes
    PROVE  Outbound' /\ LinkTypeOK'
<1>1. PICK e : /\ Takes(e) /\ events # <<>> /\ events' = Tail(events) /\ used < Capacity
               /\ UNCHANGED <<enabled, outq, sends>>
  BY TakesLemma
<1>2. FlightSound' /\ FlightComplete' /\ BufferSound' /\ UsageExact'
  BY <1>1, TakenFlight, TakenBuffer, TakenUsage
<1>3. events \in Seq(QueuedEvent) /\ Len(events) <= Capacity
  BY DEF RemoteInv, RemoteTypeOK, LinkTypeOK, Outbound, OutboundType
<1>4. events' \in Seq(QueuedEvent) /\ Len(events') <= Capacity
  <2>1. Tail(events) \in Seq(QueuedEvent) /\ Len(Tail(events)) = Len(events) - 1
    BY <1>1, <1>3
  <2> QED BY <1>1, <1>3, CapacityAssumption
<1>5. OutboundType'
  <2>1. buffer' \in [Key -> Seq(Envelope)]
    <3>1. \A k \in Key : buffer'[k] \in Seq(Envelope)
      BY <1>1, TakenNumbers
    <3>2. buffer \in [Key -> Seq(Envelope)]
      BY DEF RemoteInv, Outbound, OutboundType
    <3> QED BY <1>1, <3>2 DEF Takes
  <2>2. holding' \in Seq(Envelope) /\ wire' \in Seq(Envelope)
    BY <1>1 DEF Takes, RemoteInv, Outbound, OutboundType
  <2> QED BY <1>1, <2>1, <2>2 DEF RemoteInv, Outbound, OutboundType
<1>6. LinkTypeOK'
  <2>1. nextSeq' \in [Key -> Nat \ {0}]
    <3>1. nextSeq \in [Key -> Nat \ {0}]
      BY DEF RemoteInv, RemoteTypeOK, LinkTypeOK
    <3> QED BY <1>1, <3>1 DEF Takes
  <2>2. used' \in 0..Capacity
    BY <1>1, CapacityAssumption DEF Takes, RemoteInv, RemoteTypeOK, LinkTypeOK
  <2>3. writer' = writer /\ enabled' = enabled /\ rseq' = rseq
    BY <1>1 DEF Takes
  <2> QED BY <1>4, <2>1, <2>2, <2>3 DEF RemoteInv, RemoteTypeOK, LinkTypeOK
<1> QED BY <1>2, <1>5, <1>6 DEF Outbound

-----------------------------------------------------------------------------
(* An ack removes the first d envelopes of a stream.                       *)
Acks(k, d) ==
    /\ d \in 1..Len(buffer[k]) /\ nextSeq[k] - 1 - Len(buffer[k]) + d <= rseq[k]
    /\ buffer' = [buffer EXCEPT ![k] = SubSeq(@, d + 1, Len(@))]
    /\ used' = used - d
    /\ UNCHANGED <<nextSeq, rseq, writer, wire, holding>>

LEMMA SubSeqLemma ==
    ASSUME NEW S, NEW s \in Seq(S), NEW d \in 1..Len(s)
    PROVE  /\ SubSeq(s, d + 1, Len(s)) \in Seq(S) /\ Len(SubSeq(s, d + 1, Len(s))) = Len(s) - d
           /\ \A i \in 1..(Len(s) - d) : SubSeq(s, d + 1, Len(s))[i] = s[d + i]
<1>1. Len(s) \in Nat /\ d \in Nat /\ d <= Len(s)
  OBVIOUS
<1>2. \A i \in (d + 1)..Len(s) : s[i] \in S
  BY <1>1
<1>3. SubSeq(s, d + 1, Len(s)) \in Seq(S)
  BY <1>1, <1>2
<1>4. Len(SubSeq(s, d + 1, Len(s))) = Len(s) - d
  BY <1>1
<1>5. ASSUME NEW i \in 1..(Len(s) - d) PROVE SubSeq(s, d + 1, Len(s))[i] = s[d + i]
  BY <1>1
<1> QED BY <1>3, <1>4, <1>5

LEMMA AcksLemma ==
    ASSUME RemoteInv, NEW k \in Key, NEW n, ReadAck(k, n)
    PROVE  \E d : Acks(k, d) /\ UNCHANGED <<enabled, events, outq, sends, got>>
<1>1. /\ n \in 1..rseq[k]
      /\ UNCHANGED <<nextSeq, linkVars, appVars, backendVars, events>>
  BY DEF ReadAck
<1>2. PICK d \in 1..Len(buffer[k]) :
        /\ \A i \in 1..d : Acked(buffer[k][i], n)
        /\ buffer' = [buffer EXCEPT ![k] = SubSeq(@, d + 1, Len(@))]
        /\ used' = used - d
  BY DEF ReadAck
<1>3. buffer[k][d].seq <= n /\ buffer[k][d].seq = nextSeq[k] - 1 - Len(buffer[k]) + d
  <2>1. d \in 1..d
    BY <1>2
  <2> QED BY <1>2, Numbers DEF Acked
<1>4. nextSeq[k] - 1 - Len(buffer[k]) + d <= rseq[k]
  <2>1. rseq[k] \in Nat /\ nextSeq[k] \in Nat /\ Len(buffer[k]) \in Nat /\ d \in Nat
    BY Numbers
  <2> QED BY <1>1, <1>3, <2>1
<1> QED BY <1>1, <1>2, <1>4 DEF Acks, linkVars, appVars, backendVars

LEMMA AckedNumbers ==
    ASSUME RemoteInv, NEW k \in Key, NEW d, Acks(k, d), NEW j \in Key
    PROVE  /\ j # k => buffer'[j] = buffer[j]
           /\ j = k => /\ Len(buffer'[j]) = Len(buffer[j]) - d
                       /\ \A i \in 1..(Len(buffer[j]) - d) : buffer'[j][i] = buffer[j][d + i]
           /\ buffer'[j] \in Seq(Envelope)
<1>1. buffer \in [Key -> Seq(Envelope)]
  BY DEF RemoteInv, Outbound, OutboundType
<1>2. j # k => buffer'[j] = buffer[j]
  BY DEF Acks
<1>3. buffer'[k] = SubSeq(buffer[k], d + 1, Len(buffer[k]))
  BY <1>1 DEF Acks
<1>4. d \in 1..Len(buffer[k]) /\ buffer[k] \in Seq(Envelope) /\ buffer[j] \in Seq(Envelope)
  BY <1>1 DEF Acks
<1>5. /\ buffer'[k] \in Seq(Envelope) /\ Len(buffer'[k]) = Len(buffer[k]) - d
      /\ \A i \in 1..(Len(buffer[k]) - d) : buffer'[k][i] = buffer[k][d + i]
  BY <1>3, <1>4
<1> QED BY <1>2, <1>4, <1>5

(* The place of a number in what is left.                                  *)
LEMMA PlaceAfter ==
    ASSUME NEW a \in Nat, NEW b \in Nat \ {0}, NEW l \in Nat, NEW d \in 1..l,
           a < b, b - 1 - a <= l, l <= b - 1, b - 1 - l + d <= a
    PROVE  /\ l - d \in Nat /\ l - d \in (b - 1 - a)..(b - 1)
           /\ \A m \in (a + 1)..(b - 1) : (l - d) - (b - 1 - m) \in 1..(l - d)
OBVIOUS

LEMMA PlaceMoved ==
    ASSUME NEW b \in Int, NEW l \in Int, NEW d \in Int, NEW m \in Int
    PROVE  /\ d + ((l - d) - (b - 1 - m)) = l - (b - 1 - m)
           /\ b - 1 - l + (d + m) = b - 1 - (l - d) + m
           /\ d \in 1..l /\ m \in 1..(l - d) => d + m \in 1..l
OBVIOUS

LEMMA AckedKept ==
    ASSUME RemoteInv, NEW k \in Key, NEW d, Acks(k, d), NEW j \in Key,
           NEW m \in (rseq[j] + 1)..(nextSeq[j] - 1)
    PROVE  Kept(j, m)' = Kept(j, m)
<1>1. PICK a \in Nat, b \in Nat \ {0}, l \in Nat :
        /\ a = rseq[j] /\ b = nextSeq[j] /\ l = Len(buffer[j])
        /\ b - 1 - a <= l /\ l <= b - 1 /\ a < b
  BY Numbers
<1>2. nextSeq'[j] = b
  BY <1>1 DEF Acks
<1>3. CASE j # k
  <2>1. buffer'[j] = buffer[j]
    BY <1>3, AckedNumbers
  <2> QED BY <1>1, <1>2, <2>1 DEF Kept
<1>4. CASE j = k
  <2>1. d \in 1..l /\ b - 1 - l + d <= a
    BY <1>1, <1>4 DEF Acks
  <2>2. Len(buffer'[j]) = l - d /\ \A i \in 1..(l - d) : buffer'[j][i] = buffer[j][d + i]
    BY <1>1, <1>4, AckedNumbers
  <2>3. m \in (a + 1)..(b - 1)
    BY <1>1
  <2>4. (l - d) - (b - 1 - m) \in 1..(l - d)
    BY <2>1, <2>3
  <2>5. d + ((l - d) - (b - 1 - m)) = l - (b - 1 - m)
    <3>1. b \in Int /\ l \in Int /\ d \in Int /\ m \in Int
      BY <1>1, <2>1, <2>3
    <3> QED BY ONLY <3>1
  <2>6. Kept(j, m)' = buffer'[j][(l - d) - (b - 1 - m)]
    BY <1>2, <2>2 DEF Kept
  <2>7. Kept(j, m) = buffer[j][l - (b - 1 - m)]
    BY <1>1 DEF Kept
  <2> QED BY <2>2, <2>4, <2>5, <2>6, <2>7
<1> QED BY <1>3, <1>4

LEMMA AckedBuffer ==
    ASSUME RemoteInv, NEW k \in Key, NEW d, Acks(k, d)
    PROVE  BufferSound'
<1>1. ASSUME NEW j \in Key
      PROVE  /\ rseq[j] < nextSeq[j]
             /\ Len(buffer'[j]) \in (nextSeq[j] - 1 - rseq[j])..(nextSeq[j] - 1)
             /\ \A i \in 1..Len(buffer'[j]) :
                   /\ buffer'[j][i].key = j
                   /\ buffer'[j][i].seq = nextSeq[j] - 1 - Len(buffer'[j]) + i
  <2>1. PICK a \in Nat, b \in Nat \ {0}, l \in Nat :
          /\ a = rseq[j] /\ b = nextSeq[j] /\ l = Len(buffer[j])
          /\ b - 1 - a <= l /\ l <= b - 1 /\ a < b
    BY Numbers
  <2>2. \A i \in 1..l : buffer[j][i].key = j /\ buffer[j][i].seq = b - 1 - l + i
    BY <2>1, Numbers
  <2>3. CASE j # k
    <3>1. buffer'[j] = buffer[j] /\ l \in (b - 1 - a)..(b - 1)
      BY <2>1, <2>3, AckedNumbers
    <3> QED BY <2>1, <2>2, <3>1
  <2>4. CASE j = k
    <3>1. d \in 1..l /\ b - 1 - l + d <= a
      BY <2>1, <2>4 DEF Acks
    <3>2. Len(buffer'[j]) = l - d /\ \A i \in 1..(l - d) : buffer'[j][i] = buffer[j][d + i]
      BY <2>1, <2>4, AckedNumbers
    <3>3. l - d \in (b - 1 - a)..(b - 1)
      BY <2>1, <3>1, PlaceAfter
    <3>4. ASSUME NEW i \in 1..(l - d)
          PROVE  buffer'[j][i].key = j /\ buffer'[j][i].seq = b - 1 - (l - d) + i
      <4>1. b \in Int /\ l \in Int /\ d \in Int /\ i \in Int /\ d \in 1..l /\ i \in 1..(l - d)
        BY <2>1, <3>1
      <4>2. d + i \in 1..l /\ b - 1 - l + (d + i) = b - 1 - (l - d) + i
        BY ONLY <4>1
      <4>3. buffer[j][d + i].key = j /\ buffer[j][d + i].seq = b - 1 - l + (d + i)
        BY <2>2, <4>2
      <4> QED BY <3>2, <4>2, <4>3
    <3> QED BY <2>1, <3>2, <3>3, <3>4
  <2> QED BY <2>3, <2>4
<1> QED BY <1>1 DEF BufferSound, Acks

LEMMA AckedFlight ==
    ASSUME RemoteInv, NEW k \in Key, NEW d, Acks(k, d)
    PROVE  FlightSound' /\ FlightComplete'
<1>1. PICK s \in Seq(Envelope) : s = Flight
  BY FlightType
<1>2. \A i \in 1..Len(s) : s[i] \in Envelope /\ s[i].key \in Key /\ s[i].seq \in Nat
  BY <1>1, FlightType
<1>3. s = Flight' /\ UNCHANGED <<nextSeq, rseq, writer, wire, holding>>
  BY <1>1 DEF Acks, Flight
<1>4. ASSUME NEW j, NEW m, NEW n, Occurs(j, m, n) PROVE Occurs(j, m, n)'
  BY <1>1, <1>3, <1>4 DEF Occurs
<1>5. ASSUME NEW i \in 1..Len(s)
      PROVE  /\ s[i].seq < nextSeq[s[i].key]
             /\ s[i].seq > rseq[s[i].key] => s[i] = Kept(s[i].key, s[i].seq)'
             /\ \A m \in (rseq[s[i].key] + 1)..(s[i].seq - 1) : Occurs(s[i].key, m, i - 1)'
  <2>1. PICK x \in Envelope : x = s[i] /\ x.key \in Key /\ x.seq \in Nat
    BY <1>2
  <2>2. /\ x.seq < nextSeq[x.key]
        /\ x.seq > rseq[x.key] => x = Kept(x.key, x.seq)
        /\ \A m \in (rseq[x.key] + 1)..(x.seq - 1) : Occurs(x.key, m, i - 1)
    BY <1>1, <2>1 DEF RemoteInv, Outbound, FlightSound
  <2>3. ASSUME x.seq > rseq[x.key] PROVE x = Kept(x.key, x.seq)'
    <3>1. x.seq \in (rseq[x.key] + 1)..(nextSeq[x.key] - 1)
      BY <2>1, <2>2, <2>3, Numbers
    <3>2. Kept(x.key, x.seq)' = Kept(x.key, x.seq)
      BY <2>1, <3>1, AckedKept
    <3> QED BY <2>2, <2>3, <3>2
  <2> QED BY <1>4, <2>1, <2>2, <2>3
<1>6. FlightSound'
  BY <1>3, <1>5 DEF FlightSound
<1>7. FlightComplete'
  BY <1>3, OutboundFrame
<1> QED BY <1>6, <1>7

LEMMA AckedUsage ==
    ASSUME RemoteInv, NEW k \in Key, NEW d, Acks(k, d)
    PROVE  UsageExact' /\ used' \in Nat
<1> DEFINE lo == nextSeq[k] - Len(buffer[k])
           gone == {x \in Key \X Nat : x[1] = k /\ x[2] \in lo..(lo + d - 1)}
           f == [m \in lo..(lo + d - 1) |-> <<k, m>>]
<1>1. /\ nextSeq[k] \in Nat \ {0} /\ Len(buffer[k]) \in Nat /\ Len(buffer[k]) <= nextSeq[k] - 1
      /\ d \in 1..Len(buffer[k])
  BY Numbers DEF Acks
<1>2. lo \in Nat /\ d \in Nat \ {0} /\ lo + d - 1 \in Nat
  BY <1>1
<1>3. ASSUME NEW j \in Key, NEW m \in Nat
      PROVE  m \in (nextSeq[j] - Len(buffer'[j]))..(nextSeq[j] - 1)
               <=> /\ m \in (nextSeq[j] - Len(buffer[j]))..(nextSeq[j] - 1)
                   /\ ~(j = k /\ m \in lo..(lo + d - 1))
  <2>1. CASE j # k
    BY <2>1, AckedNumbers
  <2>2. CASE j = k
    <3>1. PICK b \in Nat \ {0}, l \in Nat : b = nextSeq[k] /\ l = Len(buffer[k]) /\ d \in 1..l
      BY <1>1
    <3>2. Len(buffer'[k]) = l - d
      BY <3>1, AckedNumbers
    <3>3. m \in (b - (l - d))..(b - 1) <=> m \in (b - l)..(b - 1) /\ ~(m \in (b - l)..(b - l + d - 1))
      BY <3>1
    <3> QED BY <2>2, <3>1, <3>2, <3>3
  <2> QED BY <2>1, <2>2
<1>4. PICK new : new = Retained'
  OBVIOUS
<1>5. new = Retained \ gone
  <2>1. new = {x \in Key \X Nat : x[2] \in (nextSeq[x[1]] - Len(buffer'[x[1]]))..(nextSeq[x[1]] - 1)}
    BY <1>4 DEF Retained, Acks
  <2>2. ASSUME NEW x \in Key \X Nat PROVE x \in new <=> x \in Retained /\ x \notin gone
    <3>1. x[1] \in Key /\ x[2] \in Nat
      OBVIOUS
    <3>2. x \in new <=> x[2] \in (nextSeq[x[1]] - Len(buffer'[x[1]]))..(nextSeq[x[1]] - 1)
      BY <2>1
    <3>3. x \in Retained <=> x[2] \in (nextSeq[x[1]] - Len(buffer[x[1]]))..(nextSeq[x[1]] - 1)
      BY DEF Retained
    <3> HIDE DEF lo
    <3>4. x \in gone <=> x[1] = k /\ x[2] \in lo..(lo + d - 1)
      OBVIOUS
    <3> QED BY <1>3, <3>1, <3>2, <3>3, <3>4
  <2> HIDE DEF gone
  <2>3. new \subseteq Key \X Nat /\ Retained \subseteq Key \X Nat
    BY <2>1 DEF Retained
  <2> QED BY <2>2, <2>3
<1>6. Retained \cap gone = gone
  <2>1. ASSUME NEW m \in lo..(lo + d - 1) PROVE m \in lo..(nextSeq[k] - 1)
    BY <1>1, <1>2
  <2> QED BY <2>1 DEF Retained
<1>7. IsFiniteSet(lo..(lo + d - 1)) /\ Cardinality(lo..(lo + d - 1)) = d
  <2> HIDE DEF lo
  <2>1. PICK b \in Int : b = lo + d - 1
    BY <1>2
  <2>2. IsFiniteSet(lo..b) /\ Cardinality(lo..b) = IF lo > b THEN 0 ELSE b - lo + 1
    BY <1>2, FS_Interval
  <2>3. ~(lo > b) /\ b - lo + 1 = d
    BY <1>2, <2>1
  <2> QED BY <2>1, <2>2, <2>3
<1>8. f \in Bijection(lo..(lo + d - 1), gone)
  <2> HIDE DEF lo
  <2>1. f \in [lo..(lo + d - 1) -> gone]
    <3>1. \A m \in lo..(lo + d - 1) : m \in Nat /\ <<k, m>> \in gone
      BY <1>2
    <3> QED BY <3>1
  <2>2. \A x \in gone : x[2] \in lo..(lo + d - 1) /\ x = <<k, x[2]>>
    OBVIOUS
  <2>3. \A x \in gone : \E m \in lo..(lo + d - 1) : f[m] = x
    BY <2>2
  <2>4. \A m, n \in lo..(lo + d - 1) : f[m] = f[n] => m = n
    OBVIOUS
  <2> HIDE DEF f, gone
  <2> QED BY <2>1, <2>3, <2>4 DEF Bijection, Injection, Surjection, IsInjective
<1>9. IsFiniteSet(gone) /\ Cardinality(gone) = d
  <2> HIDE DEF f, gone, lo
  <2>1. ExistsBijection(lo..(lo + d - 1), gone)
    BY <1>8 DEF ExistsBijection
  <2> QED BY <1>7, <2>1, FS_Bijection
<1> HIDE DEF gone
<1>10. IsFiniteSet(Retained) /\ used = Cardinality(Retained)
  BY DEF RemoteInv, Outbound, UsageExact
<1>11. IsFiniteSet(new) /\ Cardinality(new) = Cardinality(Retained) - d
  BY <1>5, <1>6, <1>9, <1>10, FS_Difference
<1>12. Cardinality(new) \in Nat
  BY <1>11, FS_CardinalityType
<1>13. used' = Cardinality(new)
  BY <1>10, <1>11 DEF Acks
<1> QED BY <1>4, <1>11, <1>12, <1>13 DEF UsageExact

LEMMA ReadAckOutbound ==
    ASSUME RemoteInv, NEW k \in Key, NEW n, ReadAck(k, n)
    PROVE  Outbound' /\ LinkTypeOK'
<1>1. PICK d : Acks(k, d) /\ UNCHANGED <<enabled, events, outq, sends>>
  BY AcksLemma
<1>2. FlightSound' /\ FlightComplete' /\ BufferSound' /\ UsageExact' /\ used' \in Nat
  BY <1>1, AckedFlight, AckedBuffer, AckedUsage
<1>3. OutboundType'
  <2>1. buffer' \in [Key -> Seq(Envelope)]
    <3>1. \A j \in Key : buffer'[j] \in Seq(Envelope)
      BY <1>1, AckedNumbers
    <3>2. buffer \in [Key -> Seq(Envelope)]
      BY DEF RemoteInv, Outbound, OutboundType
    <3> QED BY <1>1, <3>2 DEF Acks
  <2> QED BY <1>1 DEF Acks, RemoteInv, Outbound, OutboundType
<1>4. LinkTypeOK'
  <2>1. used \in 0..Capacity /\ d \in Nat /\ used' = used - d
    BY <1>1 DEF Acks, RemoteInv, RemoteTypeOK, LinkTypeOK
  <2>2. used' \in 0..Capacity
    BY <1>2, <2>1, CapacityAssumption
  <2> QED BY <1>1, <2>2 DEF Acks, RemoteInv, RemoteTypeOK, LinkTypeOK
<1> QED BY <1>2, <1>3, <1>4 DEF Outbound

-----------------------------------------------------------------------------
(* The steps that send nothing on the websocket, and those that end it.    *)
LEMMA CarriedOutbound ==
    ASSUME RemoteInv, UNCHANGED <<linkVars, bufferVars, rseq>>,
           events' \in Seq(QueuedEvent), Len(events') <= Capacity,
           outq' \in [Conns -> Seq(Body)], sends' \in Body
    PROVE  Outbound' /\ LinkTypeOK'
<1>1. UNCHANGED <<enabled, writer, holding, wire, buffer, used, nextSeq, rseq>>
  BY DEF linkVars, bufferVars
<1>2. BufferSound' /\ UsageExact' /\ FlightSound' /\ FlightComplete'
  BY <1>1, OutboundFrame
<1>3. OutboundType'
  BY <1>1 DEF RemoteInv, Outbound, OutboundType
<1>4. LinkTypeOK'
  BY <1>1 DEF RemoteInv, RemoteTypeOK, LinkTypeOK
<1> QED BY <1>2, <1>3, <1>4 DEF Outbound

LEMMA QuietOutbound ==
    ASSUME RemoteInv, UNCHANGED <<linkVars, bufferVars, appVars, backendVars, events>>
    PROVE  Outbound' /\ LinkTypeOK'
<1>1. UNCHANGED <<linkVars, bufferVars, rseq, outq, sends, events>>
  BY DEF appVars, backendVars
<1>2. /\ events' \in Seq(QueuedEvent) /\ Len(events') <= Capacity
      /\ outq' \in [Conns -> Seq(Body)] /\ sends' \in Body
  BY <1>1 DEF RemoteInv, RemoteTypeOK, LinkTypeOK, Outbound, OutboundType
<1> QED BY <1>1, <1>2, CarriedOutbound

LEMMA CutOutbound ==
    ASSUME RemoteInv, UNCHANGED <<bufferVars, rseq, events, sends>>, enabled' \in BOOLEAN,
           writer' \in {"off", "start", "stopped"}, wire' = <<>>, holding' = <<>>,
           outq' \in [Conns -> Seq(Body)]
    PROVE  Outbound' /\ LinkTypeOK'
<1>1. UNCHANGED <<buffer, used, nextSeq, rseq, events, sends>>
  BY DEF bufferVars
<1>2. BufferSound' /\ UsageExact'
  BY <1>1, OutboundFrame
<1>3. FlightSound' /\ FlightComplete'
  BY LostStep
<1>4. OutboundType'
  BY <1>1 DEF RemoteInv, Outbound, OutboundType
<1>5. LinkTypeOK'
  BY <1>1 DEF RemoteInv, RemoteTypeOK, LinkTypeOK
<1> QED BY <1>2, <1>3, <1>4, <1>5 DEF Outbound

(* An event is put in the queue.                                           *)
LEMMA EnqueueLemma ==
    ASSUME RemoteInv, NEW k \in Key, NEW b \in Body, Room, Enqueue(k, b)
    PROVE  /\ events' \in Seq(QueuedEvent) /\ Len(events') <= Capacity
           /\ events' = Append(events, [key |-> k, body |-> b])
           /\ [key |-> k, body |-> b] \in QueuedEvent
<1>1. events \in Seq(QueuedEvent)
  BY DEF RemoteInv, Outbound, OutboundType
<1>2. PICK e \in QueuedEvent : e = [key |-> k, body |-> b]
  BY DEF QueuedEvent
<1>3. events' = Append(events, e)
  BY <1>2 DEF Enqueue
<1>4. Append(events, e) \in Seq(QueuedEvent) /\ Len(Append(events, e)) = Len(events) + 1 /\ Len(events) \in Nat
  BY <1>1
<1>5. Len(events) + 1 <= Capacity
  BY CapacityAssumption DEF Room
<1> QED BY <1>2, <1>3, <1>4, <1>5

LEMMA LinkOutbound ==
    ASSUME RemoteInv, Connect \/ Lose \/ Shutdown \/ \E on \in BOOLEAN : SetEnabled(on)
    PROVE  Outbound' /\ LinkTypeOK'
<1>1. /\ outq \in [Conns -> Seq(Body)] /\ enabled \in BOOLEAN
      /\ writer # "run" => wire = <<>> /\ holding = <<>>
  BY DEF RemoteInv, RemoteTypeOK, LinkTypeOK, Outbound, OutboundType, FlightComplete
<1>2. CASE Connect
  BY <1>1, <1>2, CutOutbound DEF Connect, appVars, backendVars
<1>3. CASE Lose
  BY <1>1, <1>3, CutOutbound DEF Lose, appVars, backendVars
<1>4. CASE Shutdown
  <2>1. outq' \in [Conns -> Seq(Body)]
    BY <1>4 DEF Shutdown
  <2> QED BY <1>1, <1>4, CutOutbound DEF Shutdown, backendVars
<1>5. ASSUME NEW on \in BOOLEAN, SetEnabled(on) PROVE Outbound' /\ LinkTypeOK'
  <2>1. CASE on
    <3>1. /\ UNCHANGED <<writer, holding, wire, buffer, used, nextSeq, rseq, events, outq, sends>>
          /\ enabled' \in BOOLEAN
      BY <1>5, <2>1 DEF SetEnabled, bufferVars, appVars, backendVars
    <3>2. Outbound'
      BY <3>1, OutboundFrame DEF Outbound
    <3>3. LinkTypeOK'
      BY <3>1 DEF RemoteInv, RemoteTypeOK, LinkTypeOK
    <3> QED BY <3>2, <3>3
  <2>2. CASE ~on
    BY <1>1, <1>5, <2>2, CutOutbound DEF SetEnabled, appVars, backendVars
  <2> QED BY <2>1, <2>2
<1> QED BY <1>2, <1>3, <1>4, <1>5

LEMMA TaskOutbound ==
    ASSUME RemoteInv, NEW c \in Conns, AppSends(c) \/ TaskNext(c)
    PROVE  Outbound' /\ LinkTypeOK'
<1>1. /\ outq \in [Conns -> Seq(Body)] /\ sends \in Body /\ events \in Seq(QueuedEvent)
      /\ Len(events) <= Capacity /\ keyOf[c] \in Key
  BY DEF RemoteInv, RemoteTypeOK, LinkTypeOK, TrackerTypeOK, Outbound, OutboundType
<1>2. outq[c] \in Seq(Body)
  BY <1>1
<1>3. CASE AppSends(c)
  <2>1. sends + 1 \in Body /\ sends' = sends + 1
    BY <1>1, <1>3, BoundsAssumption DEF AppSends, Body
  <2>2. outq' \in [Conns -> Seq(Body)]
    <3>1. Append(outq[c], sends + 1) \in Seq(Body)
      BY <1>2, <2>1
    <3> QED BY <1>1, <1>3, <3>1 DEF AppSends
  <2> QED BY <1>1, <1>3, <2>1, <2>2, CarriedOutbound DEF AppSends, backendVars
<1>4. CASE Forward(c)
  <2>1. outq[c] # <<>>
    BY <1>4 DEF Forward
  <2>2. Head(outq[c]) \in Body /\ Tail(outq[c]) \in Seq(Body)
    BY <1>2, <2>1
  <2>3. outq' \in [Conns -> Seq(Body)] /\ sends' \in Body
    BY <1>1, <1>4 DEF Forward
  <2>4. events' \in Seq(QueuedEvent) /\ Len(events') <= Capacity
    BY <1>1, <1>4, <2>2, EnqueueLemma DEF Forward
  <2> QED BY <1>4, <2>3, <2>4, CarriedOutbound DEF Forward, backendVars
<1>5. CASE ForwardPong(c)
  <2>1. 0 \in Body
    BY BoundsAssumption DEF Body
  <2>2. events' \in Seq(QueuedEvent) /\ Len(events') <= Capacity
    BY <1>1, <1>5, <2>1, EnqueueLemma DEF ForwardPong
  <2> QED BY <1>1, <1>5, <2>2, CarriedOutbound DEF ForwardPong, backendVars, appVars
<1>6. CASE TaskEnds(c)
  <2>1. outq' \in [Conns -> Seq(Body)]
    BY <1>1, <1>6 DEF TaskEnds
  <2> QED BY <1>1, <1>6, CarriedOutbound DEF TaskEnds, backendVars
<1> QED BY <1>3, <1>4, <1>5, <1>6 DEF TaskNext

(* Every step keeps the outbound part.                                     *)
LEMMA OutboundStep ==
    ASSUME RemoteInv, Next
    PROVE  Outbound' /\ LinkTypeOK'
<1>1. ASSUME NEW w \in Writes, NEW again \in BOOLEAN, ClientWrites(w[1], w[2], again)
      PROVE  Outbound' /\ LinkTypeOK'
  BY <1>1, QuietOutbound DEF ClientWrites
<1>2. CASE BackendReceives
  BY <1>2, BackendReceivesOutbound
<1>3. CASE Write
  BY <1>3, LinkOutbound, SnapshotOutbound, WriterTakesOutbound, WriterSendsOutbound DEF
     Write
<1>4. CASE Read
  BY <1>4, QuietOutbound DEF Read, ReadInitialize, ReadMessage, ReadPing, ReadClosed, MoveOn
<1>5. CASE Lose \/ Shutdown \/ \E on \in BOOLEAN : SetEnabled(on)
  BY <1>5, LinkOutbound
<1>6. ASSUME NEW k \in Key, ReadAcks(k) \/ CloseExpired(k) \/ SendUnknown(k)
      PROVE  Outbound' /\ LinkTypeOK'
  <2>1. CASE ReadAcks(k)
    BY <2>1, ReadAckOutbound DEF ReadAcks
  <2>2. CASE CloseExpired(k)
    BY <2>2, QuietOutbound DEF CloseExpired
  <2>3. CASE SendUnknown(k)
    <3>1. 0 \in Body
      BY BoundsAssumption DEF Body
    <3>2. events' \in Seq(QueuedEvent) /\ Len(events') <= Capacity
      BY <2>3, <3>1, EnqueueLemma DEF SendUnknown
    <3>3. outq \in [Conns -> Seq(Body)] /\ sends \in Body
      BY DEF RemoteInv, Outbound, OutboundType
    <3> QED BY <2>3, <3>2, <3>3, CarriedOutbound DEF SendUnknown, backendVars, appVars
  <2> QED BY <1>6, <2>1, <2>2, <2>3
<1>7. ASSUME NEW c \in Conns, AppSends(c) \/ TaskNext(c) \/ ReapTask(c)
      PROVE  Outbound' /\ LinkTypeOK'
  <2>1. CASE ReapTask(c)
    BY <2>1, QuietOutbound DEF ReapTask
  <2> QED BY <1>7, <2>1, TaskOutbound
<1> QED BY <1>1, <1>2, <1>3, <1>4, <1>5, <1>6, <1>7 DEF Next

-----------------------------------------------------------------------------
(* The tracker.                                                            *)
Tracked == TrackerTypeOK /\ OpenSound /\ OpenMatches

LEMMA EntryLemma ==
    ASSUME RemoteInv, NEW kind, MoveOn(kind)
    PROVE  /\ Entry \in LogEntry /\ Entry.key \in Key /\ Entry.seq \in Nat /\ Entry.kind = kind
           /\ pos \in Nat /\ pos + 1 \in 1..Len(log)
<1>1. log \in Seq(LogEntry) /\ pos \in 0..Len(log) /\ pos < Len(log) /\ Entry.kind = kind
  BY DEF RemoteInv, RemoteTypeOK, InboundType, MoveOn
<1>2. pos \in Nat /\ pos + 1 \in 1..Len(log)
  BY <1>1
<1>3. Entry \in LogEntry
  BY <1>1 DEF Entry
<1> QED BY <1>1, <1>3 DEF LogEntry

LEMMA ConnsLemma == \A c \in Conns : c \in Nat /\ c # 0 /\ c \in 0..MaxConn
BY DEF Conns

(* The steps that open and close nothing.                                  *)
LEMMA TrackerFrame ==
    ASSUME RemoteInv, UNCHANGED <<clients, keyOf, closed>>,
           task' \in [Conns -> {"none", "run", "done", "reaped"}],
           \A c \in Conns : task'[c] = "none" <=> task[c] = "none",
           lastIn' \in [Key -> Nat], cancelled' \subseteq Conns, pong' \subseteq Conns,
           stray' \in [Key -> Nat]
    PROVE  Tracked'
<1>1. /\ clients \in [Key -> 0..MaxConn] /\ keyOf \in [Conns -> Key] /\ closed \subseteq Conns
      /\ OpenSound /\ OpenMatches
  BY DEF RemoteInv, RemoteTypeOK, TrackerTypeOK
<1>2. TrackerTypeOK'
  BY <1>1 DEF TrackerTypeOK
<1>3. \A k \in Key : clients[k] # 0 => clients[k] \in Conns
  BY <1>1 DEF Conns
<1>4. OpenSound'
  BY <1>1, <1>3 DEF OpenSound
<1>5. OpenMatches'
  BY <1>1 DEF OpenMatches
<1> QED BY <1>2, <1>4, <1>5 DEF Tracked

LEMMA TrackerQuiet ==
    ASSUME RemoteInv, UNCHANGED trackerVars
    PROVE  Tracked'
BY DEF RemoteInv, RemoteTypeOK, TrackerTypeOK, OpenSound, OpenMatches, Tracked, trackerVars

(* A stream is closed: the app server is told of its connection.           *)
LEMMA CloseTracked ==
    ASSUME RemoteInv, NEW k \in Key, CloseClient(k),
           task' \in [Conns -> {"none", "run", "done", "reaped"}],
           \A c \in Conns : task'[c] = "none" <=> task[c] = "none",
           UNCHANGED <<lastIn, keyOf, pong, stray>>
    PROVE  Tracked'
<1>1. /\ clients \in [Key -> 0..MaxConn] /\ keyOf \in [Conns -> Key] /\ closed \subseteq Conns
      /\ lastIn \in [Key -> Nat] /\ cancelled \subseteq Conns /\ pong \subseteq Conns
      /\ stray \in [Key -> Nat] /\ OpenSound /\ OpenMatches
  BY DEF RemoteInv, RemoteTypeOK, TrackerTypeOK
<1>2. \A j \in Key : clients[j] # 0 => clients[j] \in Conns
  BY <1>1 DEF Conns
<1>3. /\ clients' = [clients EXCEPT ![k] = 0]
      /\ cancelled' = IF clients[k] = 0 THEN cancelled ELSE cancelled \cup {clients[k]}
      /\ closed' = IF clients[k] = 0 THEN closed ELSE closed \cup {clients[k]}
  BY DEF CloseClient
<1>4. clients' \in [Key -> 0..MaxConn]
  <2>1. 0 \in 0..MaxConn
    BY BoundsAssumption
  <2> QED BY <1>1, <1>3, <2>1
<1>5. cancelled' \subseteq Conns /\ closed' \subseteq Conns
  BY <1>1, <1>2, <1>3
<1>6. TrackerTypeOK'
  BY <1>1, <1>4, <1>5 DEF TrackerTypeOK
<1>7. OpenSound'
  BY <1>1, <1>2, <1>3 DEF OpenSound
<1>8. OpenMatches'
  <2> SUFFICES ASSUME NEW c \in Conns, task'[c] # "none", c \notin closed'
               PROVE  clients'[keyOf[c]] = c
    BY DEF OpenMatches
  <2>1. c \notin closed /\ task[c] # "none" /\ c # 0 /\ keyOf[c] \in Key
    BY <1>1, <1>3, ConnsLemma
  <2>2. clients[keyOf[c]] = c
    BY <1>1, <2>1 DEF OpenMatches
  <2>3. keyOf[c] # k
    BY <1>3, <2>1, <2>2
  <2> QED BY <1>1, <1>3, <2>1, <2>2, <2>3
<1> QED BY <1>6, <1>7, <1>8 DEF Tracked

(* The connection an initialize opens is one that was never used.          *)
LEMMA FreshLemma ==
    ASSUME Fresh # {}
    PROVE  (CHOOSE d \in Fresh : \A e \in Fresh : d <= e) \in Fresh
<1>1. Fresh \in SUBSET Nat
  BY ConnsLemma DEF Fresh
<1>2. \E d \in Fresh : \A e \in Fresh : d <= e
  BY <1>1, Least
<1> QED BY <1>2

LEMMA InitializeTracked ==
    ASSUME RemoteInv, ReadInitialize
    PROVE  Tracked'
<1>1. PICK k \in Key : k = Entry.key /\ Entry.seq \in Nat
  BY EntryLemma DEF ReadInitialize
<1>2. PICK c \in Fresh : c = CHOOSE d \in Fresh : \A e \in Fresh : d <= e
  BY DEF ReadInitialize
<1>3. /\ cancelled' = IF clients[k] = 0 THEN cancelled ELSE cancelled \cup {clients[k]}
      /\ closed' = IF clients[k] = 0 THEN closed ELSE closed \cup {clients[k]}
      /\ clients' = [clients EXCEPT ![k] = c]
      /\ lastIn' = [lastIn EXCEPT ![k] = Entry.seq]
      /\ task' = [task EXCEPT ![c] = "run"]
      /\ keyOf' = [keyOf EXCEPT ![c] = k]
      /\ UNCHANGED <<pong, stray>>
  BY <1>1, <1>2 DEF ReadInitialize
<1>4. c \in Conns /\ task[c] = "none" /\ c \in 0..MaxConn /\ c # 0
  BY ConnsLemma DEF Fresh
<1>5. /\ clients \in [Key -> 0..MaxConn] /\ keyOf \in [Conns -> Key] /\ closed \subseteq Conns
      /\ lastIn \in [Key -> Nat] /\ cancelled \subseteq Conns /\ pong \subseteq Conns
      /\ task \in [Conns -> {"none", "run", "done", "reaped"}]
      /\ stray \in [Key -> Nat] /\ OpenSound /\ OpenMatches
  BY DEF RemoteInv, RemoteTypeOK, TrackerTypeOK
<1>6. \A j \in Key : clients[j] # 0 => clients[j] \in Conns
  BY <1>5 DEF Conns
<1>7. TrackerTypeOK'
  <2>1. clients' \in [Key -> 0..MaxConn] /\ lastIn' \in [Key -> Nat] /\ keyOf' \in [Conns -> Key]
    BY <1>1, <1>3, <1>4, <1>5
  <2>2. task' \in [Conns -> {"none", "run", "done", "reaped"}]
    BY <1>3, <1>4, <1>5
  <2>3. cancelled' \subseteq Conns /\ closed' \subseteq Conns
    BY <1>3, <1>5, <1>6
  <2> QED BY <1>3, <1>5, <2>1, <2>3 DEF TrackerTypeOK
<1>8. OpenSound'
  <2> SUFFICES ASSUME NEW j \in Key, clients'[j] # 0
               PROVE  keyOf'[clients'[j]] = j /\ task'[clients'[j]] # "none"
    BY DEF OpenSound
  <2>1. CASE j = k
    BY <1>3, <1>4, <1>5, <2>1
  <2>2. CASE j # k
    <3>1. clients'[j] = clients[j] /\ clients[j] \in Conns
      BY <1>3, <1>5, <1>6, <2>2
    <3>2. keyOf[clients[j]] = j /\ task[clients[j]] # "none"
      BY <1>5, <3>1 DEF OpenSound
    <3>3. clients[j] # c
      BY <1>4, <3>2
    <3> QED BY <1>3, <1>5, <3>1, <3>2, <3>3
  <2> QED BY <2>1, <2>2
<1>9. OpenMatches'
  <2> SUFFICES ASSUME NEW d \in Conns, task'[d] # "none", d \notin closed'
               PROVE  clients'[keyOf'[d]] = d
    BY DEF OpenMatches
  <2>1. CASE d = c
    BY <1>3, <1>4, <1>5, <2>1
  <2>2. CASE d # c
    <3>1. d \notin closed /\ task[d] # "none" /\ d # 0 /\ keyOf'[d] = keyOf[d] /\ keyOf[d] \in Key
      BY <1>3, <1>5, <2>2, ConnsLemma
    <3>2. clients[keyOf[d]] = d
      BY <1>5, <3>1 DEF OpenMatches
    <3>3. keyOf[d] # k
      BY <1>3, <3>1, <3>2
    <3> QED BY <1>3, <1>5, <3>1, <3>2, <3>3
  <2> QED BY <2>1, <2>2
<1> QED BY <1>7, <1>8, <1>9 DEF Tracked

LEMMA ShutdownTracked ==
    ASSUME RemoteInv, Shutdown
    PROVE  Tracked'
<1>1. /\ clients \in [Key -> 0..MaxConn] /\ keyOf \in [Conns -> Key] /\ closed \subseteq Conns
      /\ lastIn \in [Key -> Nat] /\ stray \in [Key -> Nat] /\ OpenMatches
  BY DEF RemoteInv, RemoteTypeOK, TrackerTypeOK
<1>2. /\ clients' = [k \in Key |-> 0]
      /\ closed' = closed \cup {clients[k] : k \in {q \in Key : clients[q] # 0}}
      /\ cancelled' = Conns \ Fresh
      /\ task' = [c \in Conns |-> IF c \in Fresh THEN "none" ELSE "reaped"]
      /\ pong' = {} /\ UNCHANGED <<lastIn, keyOf, stray>>
  BY DEF Shutdown
<1>3. \A j \in Key : clients[j] # 0 => clients[j] \in Conns
  BY <1>1 DEF Conns
<1>4. TrackerTypeOK'
  <2>1. clients' \in [Key -> 0..MaxConn]
    BY <1>2, BoundsAssumption
  <2>2. task' \in [Conns -> {"none", "run", "done", "reaped"}]
    BY <1>2
  <2>3. closed' \subseteq Conns /\ cancelled' \subseteq Conns /\ pong' \subseteq Conns
    BY <1>1, <1>2, <1>3
  <2> QED BY <1>1, <1>2, <2>1, <2>3 DEF TrackerTypeOK
<1>5. OpenSound'
  BY <1>2 DEF OpenSound
<1>6. OpenMatches'
  <2> SUFFICES ASSUME NEW c \in Conns, task'[c] # "none", c \notin closed' PROVE FALSE
    BY DEF OpenMatches
  <2>1. c \notin closed /\ task[c] # "none" /\ c # 0 /\ keyOf[c] \in Key
    BY <1>1, <1>2, ConnsLemma DEF Fresh
  <2>2. clients[keyOf[c]] = c
    BY <1>1, <2>1 DEF OpenMatches
  <2> QED BY <1>2, <2>1, <2>2
<1> QED BY <1>4, <1>5, <1>6 DEF Tracked

(* Every step keeps the tracker sound.                                     *)
LEMMA TrackerStep ==
    ASSUME RemoteInv, Next
    PROVE  Tracked'
<1>1. /\ task \in [Conns -> {"none", "run", "done", "reaped"}] /\ lastIn \in [Key -> Nat]
      /\ cancelled \subseteq Conns /\ pong \subseteq Conns /\ stray \in [Key -> Nat]
      /\ clients \in [Key -> 0..MaxConn] /\ keyOf \in [Conns -> Key]
  BY DEF RemoteInv, RemoteTypeOK, TrackerTypeOK
<1>2. ASSUME NEW w \in Writes, NEW again \in BOOLEAN, ClientWrites(w[1], w[2], again)
      PROVE  Tracked'
  BY <1>2, TrackerQuiet DEF ClientWrites
<1>3. CASE BackendReceives \/ Write \/ Lose \/ \E on \in BOOLEAN : SetEnabled(on)
  BY <1>3, TrackerQuiet DEF BackendReceives, Write, Connect, Snapshot, WriterTakes,
     WriterSends, Lose, SetEnabled
<1>4. CASE Read
  <2>1. CASE ReadInitialize
    BY <2>1, InitializeTracked
  <2>2. CASE ReadMessage
    <3>1. Entry.key \in Key /\ Entry.seq \in Nat
      BY <2>2, EntryLemma DEF ReadMessage
    <3>2. lastIn' \in [Key -> Nat]
      BY <1>1, <2>2, <3>1 DEF ReadMessage
    <3> QED BY <1>1, <2>2, <3>2, TrackerFrame DEF ReadMessage
  <2>3. CASE ReadPing
    <3>1. Entry.key \in Key
      BY <2>3, EntryLemma DEF ReadPing
    <3>2. clients[Entry.key] # 0 => clients[Entry.key] \in Conns
      BY <1>1, <3>1 DEF Conns
    <3>3. pong' \subseteq Conns
      BY <1>1, <2>3, <3>2 DEF ReadPing
    <3>4. stray' \in [Key -> Nat]
      BY <1>1, <2>3 DEF ReadPing
    <3> QED BY <1>1, <2>3, <3>3, TrackerFrame DEF ReadPing
  <2>4. CASE ReadClosed
    <3>1. Entry.key \in Key
      BY <2>4, EntryLemma DEF ReadClosed
    <3> QED BY <1>1, <2>4, <3>1, CloseTracked DEF ReadClosed
  <2> QED BY <1>4, <2>1, <2>2, <2>3, <2>4 DEF Read
<1>5. CASE Shutdown
  BY <1>5, ShutdownTracked
<1>6. ASSUME NEW k \in Key, ReadAcks(k) \/ CloseExpired(k) \/ SendUnknown(k)
      PROVE  Tracked'
  <2>1. CASE ReadAcks(k)
    BY <2>1, TrackerQuiet DEF ReadAcks, ReadAck
  <2>2. CASE CloseExpired(k)
    BY <1>1, <2>2, CloseTracked DEF CloseExpired
  <2>3. CASE SendUnknown(k)
    <3>1. stray' \in [Key -> Nat]
      <4>1. stray[k] - 1 \in Nat /\ stray' = [stray EXCEPT ![k] = @ - 1]
        BY <1>1, <2>3 DEF SendUnknown
      <4> QED BY <1>1, <4>1
    <3> QED BY <1>1, <2>3, TrackerFrame DEF SendUnknown
  <2> QED BY <1>6, <2>1, <2>2, <2>3
<1>7. ASSUME NEW c \in Conns, AppSends(c) \/ TaskNext(c) \/ ReapTask(c)
      PROVE  Tracked'
  <2>1. CASE AppSends(c)
    <3>1. cancelled' \subseteq Conns
      BY <1>1, <2>1 DEF AppSends
    <3> QED BY <1>1, <2>1, TrackerFrame DEF AppSends
  <2>2. CASE Forward(c)
    BY <2>2, TrackerQuiet DEF Forward
  <2>3. CASE ForwardPong(c)
    BY <1>1, <2>3, TrackerFrame DEF ForwardPong
  <2>4. CASE TaskEnds(c)
    <3>1. /\ task' \in [Conns -> {"none", "run", "done", "reaped"}]
          /\ \A d \in Conns : task'[d] = "none" <=> task[d] = "none"
      BY <1>1, <2>4 DEF TaskEnds
    <3> QED BY <1>1, <2>4, TrackerFrame DEF TaskEnds
  <2>5. CASE ReapTask(c)
    <3>1. /\ task' \in [Conns -> {"none", "run", "done", "reaped"}]
          /\ \A d \in Conns : task'[d] = "none" <=> task[d] = "none"
      BY <1>1, <2>5 DEF ReapTask
    <3>2. keyOf[c] \in Key
      BY <1>1
    <3> QED BY <2>5, <3>1, <3>2, CloseTracked DEF ReapTask
  <2> QED BY <1>7, <2>1, <2>2, <2>3, <2>4, <2>5 DEF TaskNext
<1> QED BY <1>2, <1>3, <1>4, <1>5, <1>6, <1>7 DEF Next

-----------------------------------------------------------------------------
(* The log and the reader's place in it.                                   *)
Inbound ==
    /\ InboundType /\ LogSound /\ CursorSound
    /\ cursor \in 0..Len(log) /\ pos \in 0..Len(log)

LEMMA InboundFacts ==
    ASSUME RemoteInv
    PROVE  /\ Inbound /\ Len(log) \in Nat /\ cursor \in Nat /\ pos \in Nat /\ high \in Nat
           /\ cursor <= pos /\ pos <= high /\ high <= Len(log)
<1>1. Inbound
  BY DEF RemoteInv, RemoteTypeOK, Inbound
<1>2. Len(log) \in Nat
  OBVIOUS
<1> QED BY <1>1 DEF Inbound, CursorSound

LEMMA InboundQuiet ==
    ASSUME RemoteInv, UNCHANGED <<inbound, start, log, clientSeq, cursor, high>>,
           pos' = pos \/ pos' = cursor
    PROVE  Inbound'
<1>1. /\ Inbound /\ Len(log) \in Nat /\ cursor \in Nat /\ pos \in Nat /\ high \in Nat
      /\ cursor <= pos /\ pos <= high /\ high <= Len(log)
  BY InboundFacts
<1>2. InboundType' /\ LogSound'
  BY <1>1 DEF Inbound, InboundType, LogSound
<1>3. CursorSound' /\ cursor' \in 0..Len(log') /\ pos' \in 0..Len(log')
  BY <1>1 DEF CursorSound
<1> QED BY <1>2, <1>3 DEF Inbound

LEMMA MoveInbound ==
    ASSUME RemoteInv, NEW kind, MoveOn(kind),
           inbound' \in [Conns -> Seq(Nat)], start' \in [Conns -> Nat]
    PROVE  Inbound'
<1>1. /\ Inbound /\ Len(log) \in Nat /\ cursor \in Nat /\ pos \in Nat /\ high \in Nat
      /\ cursor <= pos /\ pos <= high /\ high <= Len(log)
  BY InboundFacts
<1>2. /\ pos' = pos + 1 /\ pos < Len(log) /\ log' = log /\ clientSeq' = clientSeq
      /\ cursor' = pos + 1 \/ cursor' = cursor
      /\ high' = IF pos + 1 > high THEN pos + 1 ELSE high
  BY DEF MoveOn, clientVars
<1>3. InboundType' /\ LogSound'
  BY <1>1, <1>2 DEF Inbound, InboundType, LogSound
<1>4. CursorSound' /\ cursor' \in 0..Len(log') /\ pos' \in 0..Len(log')
  BY <1>1, <1>2 DEF CursorSound
<1> QED BY <1>3, <1>4 DEF Inbound

LEMMA WritesInbound ==
    ASSUME RemoteInv, NEW w \in Writes, NEW again \in BOOLEAN, ClientWrites(w[1], w[2], again)
    PROVE  /\ Inbound' /\ \A i \in 1..high : log'[i] = log[i]
<1> DEFINE k == w[1]
           q == IF again THEN clientSeq[k] ELSE clientSeq[k] + 1
           x == [key |-> k, kind |-> w[2], seq |-> q]
<1>1. k \in Key /\ w[2] \in {"init", "msg", "ping", "closed"}
  BY WritesAssumption
<1>2. /\ Inbound /\ Len(log) \in Nat /\ cursor \in Nat /\ pos \in Nat /\ high \in Nat
      /\ cursor <= pos /\ pos <= high /\ high <= Len(log)
  BY InboundFacts
<1>3. clientSeq \in [Key -> Nat] /\ log \in Seq(LogEntry)
  BY <1>2 DEF Inbound, InboundType
<1>4. q \in Nat /\ clientSeq[k] <= q
  BY <1>1, <1>3
<1>5. x \in LogEntry /\ x.key = k /\ x.seq = q
  <2> HIDE DEF q
  <2> QED BY <1>1, <1>4 DEF LogEntry
<1>6. /\ log' = Append(log, x) /\ clientSeq' = [clientSeq EXCEPT ![k] = q]
      /\ UNCHANGED <<trackerVars, readVars>>
  BY DEF ClientWrites
<1> HIDE DEF x, q, k
<1>7. PICK t \in Seq(LogEntry) : t = log'
  BY <1>3, <1>5, <1>6, AppendLemma
<1>8. /\ Len(t) = Len(log) + 1 /\ t[Len(log) + 1] = x
      /\ \A i \in 1..Len(log) : t[i] = log[i]
  BY <1>6, <1>7
<1>9. InboundType'
  <2>1. clientSeq' \in [Key -> Nat]
    BY <1>1, <1>3, <1>4, <1>6
  <2> QED BY <1>2, <1>6, <1>7, <2>1 DEF Inbound, InboundType, trackerVars
<1>10. \A j \in Key : clientSeq[j] \in Nat /\ clientSeq'[j] \in Nat /\ clientSeq[j] <= clientSeq'[j]
  BY <1>1, <1>3, <1>4, <1>6
<1>11. \A i \in 1..Len(log) : /\ log[i].key \in Key /\ log[i].seq \in Nat
                              /\ log[i].seq <= clientSeq[log[i].key]
  <2>1. \A e \in LogEntry : e.key \in Key /\ e.seq \in Nat
    BY DEF LogEntry
  <2>2. \A i \in 1..Len(log) : log[i] \in LogEntry
    BY <1>3
  <2> QED BY <1>2, <2>1, <2>2 DEF Inbound, LogSound
<1>12. ASSUME NEW i \in 1..Len(t) PROVE t[i].seq <= clientSeq'[t[i].key]
  <2>1. CASE i \in 1..Len(log)
    BY <1>8, <1>10, <1>11, <2>1
  <2>2. CASE i \notin 1..Len(log)
    <3>1. i = Len(log) + 1
      BY <1>2, <1>8, <2>2
    <3>2. t[i].seq = q /\ clientSeq'[t[i].key] = q
      BY <1>1, <1>3, <1>5, <1>6, <1>8, <3>1
    <3> QED BY <1>4, <3>2
  <2> QED BY <2>1, <2>2
<1>13. ASSUME NEW i \in 1..Len(t), NEW j \in 1..Len(t), i < j, t[i].key = t[j].key
       PROVE  t[i].seq <= t[j].seq
  <2>1. i \in 1..Len(log) /\ t[i] = log[i]
    BY <1>2, <1>8, <1>13
  <2>2. CASE j \in 1..Len(log)
    <3>1. t[j] = log[j]
      BY <1>8, <2>2
    <3> QED BY <1>2, <1>13, <2>1, <2>2, <3>1 DEF Inbound, LogSound
  <2>3. CASE j \notin 1..Len(log)
    <3>1. j = Len(log) + 1
      BY <1>2, <1>8, <2>3
    <3>2. t[j] = x
      BY <1>8, <3>1
    <3>3. t[i].key = k /\ t[i].seq <= clientSeq[k] /\ t[i].seq \in Nat /\ clientSeq[k] \in Nat
      BY <1>1, <1>5, <1>10, <1>11, <1>13, <2>1, <3>2
    <3>4. t[j].seq = q
      BY <1>5, <3>2
    <3> QED BY <1>4, <3>3, <3>4
  <2> QED BY <2>2, <2>3
<1>14. LogSound'
  BY <1>7, <1>12, <1>13 DEF LogSound
<1>15. CursorSound' /\ cursor' \in 0..Len(log') /\ pos' \in 0..Len(log')
  BY <1>2, <1>6 DEF CursorSound, readVars
<1>16. \A i \in 1..high : log'[i] = log[i]
  BY <1>2, <1>7, <1>8
<1> QED BY <1>9, <1>14, <1>15, <1>16 DEF Inbound

LEMMA InitializeInbound ==
    ASSUME RemoteInv, ReadInitialize
    PROVE  Inbound'
<1>1. MoveOn("init") /\ Entry.seq \in Nat /\ pos + 1 \in Nat
  BY EntryLemma DEF ReadInitialize
<1>2. inbound \in [Conns -> Seq(Nat)] /\ start \in [Conns -> Nat]
  BY DEF RemoteInv, InboundType
<1>3. PICK c : inbound' = [inbound EXCEPT ![c] = <<Entry.seq>>] /\ start' = [start EXCEPT ![c] = pos + 1]
  BY DEF ReadInitialize
<1>4. <<Entry.seq>> \in Seq(Nat)
  BY <1>1
<1>5. inbound' \in [Conns -> Seq(Nat)]
  BY <1>2, <1>3, <1>4
<1>6. start' \in [Conns -> Nat]
  BY <1>1, <1>2, <1>3
<1> QED BY <1>1, <1>5, <1>6, MoveInbound

LEMMA MessageInbound ==
    ASSUME RemoteInv, ReadMessage
    PROVE  Inbound'
<1>1. MoveOn("msg") /\ Entry.seq \in Nat /\ Entry.key \in Key
  BY EntryLemma DEF ReadMessage
<1>2. inbound \in [Conns -> Seq(Nat)] /\ start \in [Conns -> Nat]
  BY DEF RemoteInv, InboundType
<1>3. start' = start
  BY DEF ReadMessage
<1>4. inbound' \in [Conns -> Seq(Nat)]
  <2>1. CASE inbound' = inbound
    BY <1>2, <2>1
  <2>2. CASE inbound' # inbound
    <3>1. PICK c : clients[Entry.key] = c /\ c # 0 /\ inbound' = [inbound EXCEPT ![c] = Append(@, Entry.seq)]
      BY <2>2 DEF ReadMessage
    <3>2. c \in Conns
      BY <1>1, <3>1 DEF RemoteInv, RemoteTypeOK, TrackerTypeOK, Conns
    <3>3. Append(inbound[c], Entry.seq) \in Seq(Nat)
      BY <1>1, <1>2, <3>2
    <3> QED BY <1>2, <3>1, <3>3
  <2> QED BY <2>1, <2>2
<1> QED BY <1>1, <1>2, <1>3, <1>4, MoveInbound

(* Every step keeps it.                                                    *)
LEMMA InboundStep ==
    ASSUME RemoteInv, Next
    PROVE  Inbound'
<1>1. ASSUME NEW w \in Writes, NEW again \in BOOLEAN, ClientWrites(w[1], w[2], again)
      PROVE  Inbound'
  BY <1>1, WritesInbound
<1>2. CASE BackendReceives \/ Write \/ Lose \/ Shutdown \/ \E on \in BOOLEAN : SetEnabled(on)
  BY <1>2, InboundQuiet DEF BackendReceives, Write, Connect, Snapshot, WriterTakes,
     WriterSends, Lose, SetEnabled, Shutdown, trackerVars, clientVars, readVars
<1>3. inbound \in [Conns -> Seq(Nat)] /\ start \in [Conns -> Nat]
  BY DEF RemoteInv, InboundType
<1>4. CASE Read
  <2>1. CASE ReadPing \/ ReadClosed
    BY <1>3, <2>1, MoveInbound DEF ReadPing, ReadClosed
  <2> QED BY <1>4, <2>1, InitializeInbound, MessageInbound DEF Read
<1>5. ASSUME NEW k \in Key, ReadAcks(k) \/ CloseExpired(k) \/ SendUnknown(k)
      PROVE  Inbound'
  BY <1>5, InboundQuiet DEF ReadAcks, ReadAck, CloseExpired, SendUnknown, trackerVars,
     clientVars, readVars
<1>6. ASSUME NEW c \in Conns, AppSends(c) \/ TaskNext(c) \/ ReapTask(c)
      PROVE  Inbound'
  BY <1>6, InboundQuiet DEF AppSends, TaskNext, Forward, ForwardPong, TaskEnds, ReapTask,
     trackerVars, clientVars, readVars
<1> QED BY <1>1, <1>2, <1>4, <1>5, <1>6 DEF Next

LEMMA RemoteStep ==
    ASSUME RemoteInv, [Next]_vars
    PROVE  RemoteInv'
<1>1. CASE Next
  <2>1. Outbound' /\ LinkTypeOK' /\ Tracked' /\ Inbound'
    BY <1>1, OutboundStep, TrackerStep, InboundStep
  <2> QED BY <2>1 DEF RemoteInv, RemoteTypeOK, Tracked, Inbound
<1>2. CASE UNCHANGED vars
  <2>1. UNCHANGED <<linkVars, bufferVars, trackerVars, appVars, readVars, clientVars, backendVars, events>>
    BY <1>2 DEF vars
  <2>2. Outbound' /\ LinkTypeOK'
    BY <2>1, QuietOutbound
  <2>3. Tracked'
    BY <2>1, TrackerQuiet
  <2>4. Inbound'
    BY <2>1, InboundQuiet DEF trackerVars, clientVars, readVars
  <2> QED BY <2>2, <2>3, <2>4 DEF RemoteInv, RemoteTypeOK, Tracked, Inbound
<1> QED BY <1>1, <1>2

-----------------------------------------------------------------------------
(* What a connection was given, given that initialize carries a cursor.    *)
Values(s) == {s[i] : i \in DOMAIN s}
SeqsOf(s, T) == {s[i].seq : i \in T}
Exact(c) == Rising(inbound[c]) /\ Values(inbound[c]) = SeqsOf(log, SinceStart(c))

LEMMA ExactLemma ==
    /\ InboundExact <=> \A k \in Key : \A c \in {clients[k]} : c # 0 => Exact(c)
    /\ InboundExact' <=> \A k \in Key : \A c \in {clients'[k]} : c # 0 => Exact(c)'
<1>1. ASSUME NEW c
      PROVE  /\ Exact(c) <=> /\ Rising(inbound[c])
                             /\ {inbound[c][i] : i \in DOMAIN inbound[c]}
                                  = {log[i].seq : i \in SinceStart(c)}
             /\ Exact(c)' <=> /\ Rising(inbound'[c])
                              /\ {inbound'[c][i] : i \in DOMAIN inbound'[c]}
                                   = {log'[i].seq : i \in SinceStart(c)'}
  BY DEF Exact, Values, SeqsOf
<1>2. InboundExact <=> \A k \in Key : \A c \in {clients[k]} : c # 0 => Exact(c)
  BY <1>1 DEF InboundExact
<1>3. InboundExact' <=> \A k \in Key : \A c \in {clients'[k]} : c # 0 => Exact(c)'
  <2>1. \A c : SinceStart(c)' = {i \in start'[c]..high' : log'[i].key = keyOf'[c] /\ log'[i].kind \in {"init", "msg"}}
    BY DEF SinceStart
  <2> QED BY <1>1 DEF InboundExact
<1> QED BY <1>2, <1>3

(* The connection of a stream.                                             *)
LEMMA Opened ==
    ASSUME RemoteInv, InboundInv, NEW k \in Key, NEW c, c = clients[k], c # 0
    PROVE  /\ c \in Conns /\ keyOf[c] = k /\ task[c] # "none" /\ lastIn[k] \in Nat
           /\ start[c] \in Nat \ {0} /\ start[c] <= cursor /\ log[start[c]].key = k
           /\ inbound[c] \in Seq(Nat) /\ Len(inbound[c]) \in Nat \ {0}
           /\ lastIn[k] = inbound[c][Len(inbound[c])]
           /\ Exact(c)
<1>1. c \in Conns
  BY DEF RemoteInv, RemoteTypeOK, TrackerTypeOK, Conns
<1>2. lastIn[k] \in Nat /\ start[c] \in Nat /\ inbound[c] \in Seq(Nat)
  BY <1>1 DEF RemoteInv, RemoteTypeOK, TrackerTypeOK, InboundType
<1>3. keyOf[c] = k /\ task[c] # "none"
  BY DEF RemoteInv, OpenSound
<1>4. OpenedAt(k, c)
  BY DEF InboundInv, InboundSound
<1>5. cursor \in Nat
  BY InboundFacts
<1>6. start[c] \in Nat \ {0} /\ start[c] <= cursor /\ log[start[c]].key = k
  BY <1>4 DEF OpenedAt
<1>7. Len(inbound[c]) \in Nat \ {0}
  <2>1. inbound[c] # <<>>
    BY <1>4 DEF OpenedAt
  <2> QED BY <1>2, <2>1
<1>8. Exact(c)
  BY ExactLemma DEF InboundInv
<1> QED BY <1>1, <1>2, <1>3, <1>4, <1>8 DEF OpenedAt

(* The last number it was given is the largest, and is in the log.         *)
LEMMA LastGiven ==
    ASSUME RemoteInv, InboundInv, NEW k \in Key, NEW c, c = clients[k], c # 0
    PROVE  /\ \A x \in 1..Len(inbound[c]) : inbound[c][x] <= lastIn[k]
           /\ \A i \in SinceStart(c) : log[i].seq <= lastIn[k]
           /\ \E i \in SinceStart(c) : log[i].seq = lastIn[k]
<1>1. PICK s \in Seq(Nat) : s = inbound[c] /\ Len(s) \in Nat \ {0} /\ lastIn[k] = s[Len(s)]
  BY Opened
<1>2. Rising(s) /\ Values(s) = SeqsOf(log, SinceStart(c))
  BY <1>1, Opened DEF Exact
<1>3. DOMAIN s = 1..Len(s) /\ Len(s) \in 1..Len(s) /\ \A x \in 1..Len(s) : s[x] \in Nat
  BY <1>1
<1>4. ASSUME NEW x \in 1..Len(s) PROVE s[x] <= s[Len(s)]
  <2>1. CASE x = Len(s)
    BY <1>3, <2>1
  <2>2. CASE x # Len(s)
    <3>1. x < Len(s)
      BY <1>1, <2>2
    <3>2. s[x] < s[Len(s)]
      BY <1>2, <3>1 DEF Rising
    <3> QED BY <1>3, <3>2
  <2> QED BY <2>1, <2>2
<1>5. ASSUME NEW i \in SinceStart(c) PROVE log[i].seq <= s[Len(s)]
  <2>1. log[i].seq \in {s[x] : x \in DOMAIN s}
    BY <1>2 DEF Values, SeqsOf
  <2>2. PICK x \in DOMAIN s : log[i].seq = s[x]
    BY <2>1
  <2> QED BY <1>3, <1>4, <2>2
<1>6. \E i \in SinceStart(c) : log[i].seq = s[Len(s)]
  <2>1. s[Len(s)] \in {s[x] : x \in DOMAIN s}
    BY <1>3
  <2>2. s[Len(s)] \in {log[i].seq : i \in SinceStart(c)}
    BY <1>2, <2>1 DEF Values, SeqsOf
  <2> QED BY <2>2
<1> QED BY <1>1, <1>4, <1>5, <1>6

(* Steps that give a connection nothing, and read no init or message of it.*)
LEMMA SameGiven ==
    ASSUME RemoteInv, InboundInv, NEW k \in Key, NEW c, c = clients[k], c # 0,
           inbound'[c] = inbound[c], start'[c] = start[c], keyOf'[c] = keyOf[c],
           \A i \in 1..high : log'[i] = log[i],
           NEW h \in Nat, high' = h, high <= h,
           \A i \in (high + 1)..h : log'[i].kind \notin {"init", "msg"} \/ log'[i].key # k
    PROVE  Exact(c)'
<1>1. /\ keyOf[c] = k /\ start[c] \in Nat \ {0} /\ Exact(c)
  BY Opened
<1>2. high \in Nat
  BY InboundFacts
<1>3. PICK S : S = SinceStart(c)'
  OBVIOUS
<1>4. S = {i \in start[c]..h : log'[i].key = k /\ log'[i].kind \in {"init", "msg"}}
  BY <1>1, <1>3 DEF SinceStart
<1>5. SinceStart(c) = {i \in start[c]..high : log[i].key = k /\ log[i].kind \in {"init", "msg"}}
  BY <1>1 DEF SinceStart
<1>6. ASSUME NEW i PROVE i \in S <=> i \in SinceStart(c)
  <2>1. PICK a \in Nat \ {0}, g \in Nat : a = start[c] /\ g = high /\ g <= h
    BY <1>1, <1>2
  <2>2. i \in a..h => i \in a..g \/ i \in (g + 1)..h
    BY <2>1
  <2>3. i \in a..g => i \in a..h /\ i \in 1..g
    BY <2>1
  <2>4. i \in a..g => log'[i] = log[i]
    BY <2>1, <2>3
  <2>5. i \in S => i \in SinceStart(c)
    BY <1>4, <1>5, <2>1, <2>2, <2>4
  <2>6. i \in SinceStart(c) => i \in S
    BY <1>4, <1>5, <2>1, <2>3, <2>4
  <2> QED BY <2>5, <2>6
<1>7. S = SinceStart(c)
  BY <1>6
<1>8. \A i \in S : log'[i] = log[i]
  <2>1. \A i \in start[c]..high : i \in 1..high
    BY <1>1, <1>2
  <2> QED BY <1>5, <1>7, <2>1
<1>9. SeqsOf(log', S) = SeqsOf(log, SinceStart(c))
  BY <1>7, <1>8 DEF SeqsOf
<1>10. Exact(c)' <=> Rising(inbound'[c]) /\ Values(inbound'[c]) = SeqsOf(log', S)
  BY <1>3 DEF Exact
<1> QED BY <1>1, <1>9, <1>10 DEF Exact

LEMMA QuietInbound ==
    ASSUME RemoteInv, InboundInv, UNCHANGED <<lastIn, keyOf, inbound, start>>,
           \A k \in Key : clients'[k] # 0 => clients'[k] = clients[k],
           \A i \in 1..high : log'[i] = log[i],
           NEW v \in Nat, cursor' = v, cursor <= v,
           NEW h \in Nat, high' = h, high <= h,
           \A i \in (high + 1)..h : log'[i].kind \notin {"init", "msg"}
    PROVE  InboundInv'
<1>1. cursor \in Nat /\ high \in Nat /\ cursor <= high
  BY InboundFacts
<1>2. InitsRead'
  <2>1. ASSUME NEW i \in 1..h, log'[i].kind = "init" PROVE i <= v
    <3>1. i \in 1..high
      BY <1>1, <2>1
    <3>2. i <= cursor
      BY <2>1, <3>1 DEF InboundInv, InboundSound, InitsRead
    <3> QED BY <1>1, <3>2
  <2> QED BY <2>1 DEF InitsRead
<1>3. ASSUME NEW k \in Key, NEW c \in {clients'[k]}, c # 0 PROVE OpenedAt(k, c)' /\ Exact(c)'
  <2>1. c = clients[k]
    BY <1>3
  <2>2. Exact(c)'
    BY <1>3, SameGiven
  <2>3. OpenedAt(k, c)
    BY <1>3 DEF InboundInv, InboundSound
  <2>4. start[c] \in 1..high /\ start[c] \in 1..v
    BY <1>1, <2>3 DEF OpenedAt
  <2>5. OpenedAt(k, c)'
    BY <2>3, <2>4 DEF OpenedAt
  <2> QED BY <2>2, <2>5
<1>4. InboundExact'
  BY <1>3, ExactLemma
<1> QED BY <1>2, <1>3, <1>4 DEF InboundInv, InboundSound

(* The steps of the reader: how far it has come.                           *)
LEMMA MoveFacts ==
    ASSUME RemoteInv, NEW kind, MoveOn(kind)
    PROVE  /\ pos \in Nat /\ cursor \in Nat /\ high \in Nat /\ cursor <= pos /\ pos <= high
           /\ log' = log /\ log[pos + 1] = Entry /\ Entry.kind = kind
           /\ cursor' \in Nat /\ cursor <= cursor' /\ (kind \in Cursored => cursor' = pos + 1)
           /\ high' \in Nat /\ high <= high'
           /\ pos + 1 <= high => high' = high
           /\ ~(pos + 1 <= high) => high = pos /\ high' = pos + 1
<1>1. /\ cursor \in Nat /\ pos \in Nat /\ high \in Nat /\ cursor <= pos /\ pos <= high
  BY InboundFacts
<1>2. /\ log' = log /\ Entry.kind = kind
      /\ cursor' = IF kind \in Cursored THEN pos + 1 ELSE cursor
      /\ high' = IF pos + 1 > high THEN pos + 1 ELSE high
  BY DEF MoveOn, clientVars
<1>3. cursor' \in Nat /\ cursor <= cursor' /\ (kind \in Cursored => cursor' = pos + 1)
  BY <1>1, <1>2
<1>4. /\ high' \in Nat /\ high <= high'
      /\ pos + 1 <= high => high' = high
      /\ ~(pos + 1 <= high) => high = pos /\ high' = pos + 1
  BY <1>1, <1>2
<1> QED BY <1>1, <1>2 DEF Entry

(* A ping or a close is read: it is no init and no message.                *)
LEMMA OtherRead ==
    ASSUME RemoteInv, InboundInv, NEW kind \in {"ping", "closed"}, MoveOn(kind),
           UNCHANGED <<lastIn, keyOf, inbound, start>>,
           \A k \in Key : clients'[k] # 0 => clients'[k] = clients[k]
    PROVE  InboundInv'
<1>1. PICK v \in Nat, h \in Nat : v = cursor' /\ h = high' /\ cursor <= v /\ high <= h
  BY MoveFacts
<1>2. \A i \in 1..high : log'[i] = log[i]
  BY MoveFacts
<1>3. ASSUME NEW i \in (high + 1)..h PROVE log'[i].kind \notin {"init", "msg"}
  <2>1. pos \in Nat /\ high \in Nat /\ h \in Nat
    BY MoveFacts
  <2>2. pos + 1 <= high => h = high
    BY <1>1, MoveFacts
  <2>3. ~(pos + 1 <= high) => high = pos /\ h = pos + 1
    BY <1>1, MoveFacts
  <2>4. i = pos + 1
    BY <2>1, <2>2, <2>3
  <2> QED BY <2>4, MoveFacts
<1> QED BY <1>1, <1>2, <1>3, QuietInbound

(* An initialize is read once, and opens a connection with it.             *)
LEMMA InitializeExact ==
    ASSUME RemoteInv, InboundInv, "init" \in Cursored, ReadInitialize
    PROVE  InboundInv'
<1>1. MoveOn("init")
  BY DEF ReadInitialize
<1>2. PICK p \in Nat : p = pos
  BY <1>1, MoveFacts
<1>3. PICK k \in Key, q \in Nat : k = Entry.key /\ q = Entry.seq
  BY <1>1, EntryLemma
<1>4. PICK c \in Fresh : c = CHOOSE d \in Fresh : \A e \in Fresh : d <= e
  BY DEF ReadInitialize
<1>5. c \in Conns /\ task[c] = "none" /\ c # 0
  BY ConnsLemma DEF Fresh
<1>6. /\ clients' = [clients EXCEPT ![k] = c]
      /\ lastIn' = [lastIn EXCEPT ![k] = q]
      /\ keyOf' = [keyOf EXCEPT ![c] = k]
      /\ inbound' = [inbound EXCEPT ![c] = <<q>>]
      /\ start' = [start EXCEPT ![c] = p + 1]
  BY <1>2, <1>3, <1>4 DEF ReadInitialize
<1>7. /\ clients \in [Key -> 0..MaxConn] /\ lastIn \in [Key -> Nat] /\ keyOf \in [Conns -> Key]
      /\ inbound \in [Conns -> Seq(Nat)] /\ start \in [Conns -> Nat]
  BY DEF RemoteInv, RemoteTypeOK, TrackerTypeOK, InboundType
<1>8. /\ log' = log /\ log[p + 1] = Entry /\ log[p + 1].kind = "init" /\ log[p + 1].key = k
      /\ log[p + 1].seq = q
  BY <1>1, <1>2, <1>3, MoveFacts
<1>9. ~(p + 1 <= high)
  <2> SUFFICES ASSUME p + 1 <= high PROVE FALSE
    OBVIOUS
  <2>1. cursor \in Nat /\ cursor <= p /\ high \in Nat
    BY <1>1, <1>2, MoveFacts
  <2>2. p + 1 \in 1..high
    BY <2>1
  <2>3. p + 1 <= cursor
    BY <1>8 DEF InboundInv, InboundSound, InitsRead
  <2> QED BY <2>1, <2>3
<1>10. high = p /\ high' = p + 1 /\ cursor' = p + 1 /\ cursor \in Nat /\ cursor <= p
  BY <1>1, <1>2, <1>9, MoveFacts
<1>11. InitsRead'
  BY <1>10 DEF InitsRead
<1>12. inbound'[c] = <<q>> /\ start'[c] = p + 1 /\ keyOf'[c] = k /\ clients'[k] = c /\ lastIn'[k] = q
  BY <1>5, <1>6, <1>7
<1>13. OpenedAt(k, c)'
  <2>1. <<q>> # <<>> /\ Len(<<q>>) = 1 /\ <<q>>[1] = q
    OBVIOUS
  <2>2. p + 1 \in 1..(p + 1)
    BY <1>2
  <2> QED BY <1>8, <1>10, <1>12 DEF OpenedAt
<1>14. Exact(c)'
  <2>1. SinceStart(c)' = {p + 1}
    <3>1. (p + 1)..(p + 1) = {p + 1}
      BY <1>2
    <3> QED BY <1>8, <1>10, <1>12 DEF SinceStart
  <2>2. Values(<<q>>) = {q}
    <3>1. DOMAIN <<q>> = {1} /\ <<q>>[1] = q
      OBVIOUS
    <3> QED BY DEF Values
  <2>3. SeqsOf(log', {p + 1}) = {q}
    BY <1>8 DEF SeqsOf
  <2>4. Rising(<<q>>)
    <3>1. \A i, j \in DOMAIN <<q>> : ~(i < j)
      OBVIOUS
    <3> QED BY DEF Rising
  <2> QED BY <1>12, <2>1, <2>2, <2>3, <2>4 DEF Exact
<1>15. ASSUME NEW j \in Key, j # k, NEW d, d = clients[j], d # 0
       PROVE  clients'[j] = d /\ OpenedAt(j, d)' /\ Exact(d)'
  <2>1. /\ d \in Conns /\ keyOf[d] = j /\ task[d] # "none"
        /\ start[d] \in Nat \ {0} /\ start[d] <= cursor
    BY <1>15, Opened
  <2>2. d # c
    BY <1>5, <2>1
  <2>3. /\ clients'[j] = d /\ lastIn'[j] = lastIn[j] /\ keyOf'[d] = keyOf[d]
        /\ inbound'[d] = inbound[d] /\ start'[d] = start[d]
    BY <1>6, <1>7, <1>15, <2>1, <2>2
  <2>4. Exact(d)'
    <3>1. p + 1 \in Nat /\ high' = p + 1 /\ high <= p + 1
      BY <1>2, <1>10
    <3>2. \A i \in 1..high : log'[i] = log[i]
      BY <1>8
    <3>3. ASSUME NEW i \in (high + 1)..(p + 1) PROVE log'[i].key # j
      <4>1. i = p + 1
        BY <1>10, <1>2
      <4> QED BY <1>8, <1>15, <4>1
    <3> QED BY <1>15, <2>3, <3>1, <3>2, <3>3, SameGiven
  <2>5. OpenedAt(j, d)
    BY <1>15 DEF InboundInv, InboundSound
  <2>6. start[d] \in 1..(p + 1)
    BY <1>2, <1>10, <2>1
  <2>7. OpenedAt(j, d)'
    BY <1>8, <1>10, <2>3, <2>5 DEF OpenedAt
  <2> QED BY <2>3, <2>4, <2>7
<1>16. ASSUME NEW j \in Key, NEW d \in {clients'[j]}, d # 0 PROVE OpenedAt(j, d)' /\ Exact(d)'
  <2>1. CASE j = k
    BY <1>12, <1>13, <1>14, <1>16, <2>1
  <2>2. CASE j # k
    <3>1. d = clients[j]
      BY <1>6, <1>7, <1>16, <2>2
    <3> QED BY <1>15, <1>16, <2>2, <3>1
  <2> QED BY <2>1, <2>2
<1>17. InboundExact'
  BY <1>16, ExactLemma
<1> QED BY <1>11, <1>16, <1>17 DEF InboundInv, InboundSound

(* A message that was read before, or repeats the last number, was given.  *)
LEMMA SeenWasGiven ==
    ASSUME RemoteInv, InboundInv, MoveOn("msg"), NEW k \in Key, k = Entry.key,
           NEW c, c = clients[k], c # 0,
           pos + 1 <= high \/ Seen(k, Entry.seq)
    PROVE  Seen(k, Entry.seq) /\ Entry.seq \in Values(inbound[c])
<1>1. PICK p \in Nat : p = pos
  BY MoveFacts
<1>2. PICK q \in Nat : q = Entry.seq
  BY EntryLemma
<1>3. /\ cursor \in Nat /\ high \in Nat /\ cursor <= p /\ p <= high /\ p + 1 \in 1..Len(log)
      /\ log[p + 1].key = k /\ log[p + 1].kind = "msg" /\ log[p + 1].seq = q
  BY <1>1, <1>2, MoveFacts, EntryLemma
<1>4. /\ keyOf[c] = k /\ start[c] \in Nat \ {0} /\ start[c] <= cursor /\ lastIn[k] \in Nat
      /\ Values(inbound[c]) = SeqsOf(log, SinceStart(c))
  BY Opened DEF Exact
<1>5. CASE p + 1 <= high
  <2>1. p + 1 \in start[c]..high
    BY <1>3, <1>4, <1>5
  <2>2. p + 1 \in SinceStart(c)
    BY <1>3, <1>4, <2>1 DEF SinceStart
  <2>3. q <= lastIn[k]
    BY <1>3, <2>2, LastGiven
  <2>4. q \in SeqsOf(log, SinceStart(c))
    BY <1>3, <2>2 DEF SeqsOf
  <2> QED BY <1>2, <1>4, <2>3, <2>4 DEF Seen
<1>6. CASE ~(p + 1 <= high)
  <2>1. q <= lastIn[k] /\ Seen(k, Entry.seq)
    BY <1>1, <1>2, <1>6 DEF Seen
  <2>2. PICK i \in SinceStart(c) : log[i].seq = lastIn[k]
    BY LastGiven
  <2>3. i \in start[c]..high /\ log[i].key = k
    BY <1>4 DEF SinceStart
  <2>4. i \in 1..Len(log) /\ i < p + 1
    <3>1. Len(log) \in Nat /\ high <= Len(log)
      BY InboundFacts
    <3> QED BY <1>3, <1>4, <1>6, <2>3, <3>1
  <2>5. log[i].seq <= log[p + 1].seq
    <3>1. LogSound
      BY DEF RemoteInv
    <3> QED BY <1>3, <2>3, <2>4, <3>1 DEF LogSound
  <2>6. lastIn[k] = q
    BY <1>2, <1>3, <1>4, <2>1, <2>2, <2>5
  <2>7. q \in SeqsOf(log, SinceStart(c))
    BY <2>2, <2>6 DEF SeqsOf
  <2> QED BY <1>2, <1>4, <2>1, <2>7
<1> QED BY <1>5, <1>6

(* One that is read for the first time is added to what it should have.    *)
LEMMA SinceGrows ==
    ASSUME RemoteInv, InboundInv, NEW c \in Conns, NEW p \in Nat, NEW a \in Nat \ {0},
           start[c] = a, a <= p, high = p, high' = p + 1, log' = log,
           UNCHANGED <<start, keyOf>>,
           log[p + 1].key = keyOf[c], log[p + 1].kind = "msg"
    PROVE  SeqsOf(log, SinceStart(c)') = SeqsOf(log, SinceStart(c)) \cup {log[p + 1].seq}
<1>1. PICK S : S = SinceStart(c)'
  OBVIOUS
<1>2. S = {i \in a..(p + 1) : log[i].key = keyOf[c] /\ log[i].kind \in {"init", "msg"}}
  BY <1>1 DEF SinceStart
<1>3. SinceStart(c) = {i \in a..p : log[i].key = keyOf[c] /\ log[i].kind \in {"init", "msg"}}
  BY DEF SinceStart
<1>4. a..(p + 1) = (a..p) \cup {p + 1}
  OBVIOUS
<1>5. S = SinceStart(c) \cup {p + 1}
  BY <1>2, <1>3, <1>4
<1> QED BY <1>1, <1>5 DEF SeqsOf

LEMMA RisingAppend ==
    ASSUME NEW s \in Seq(Nat), Rising(s), NEW q \in Nat, \A x \in 1..Len(s) : s[x] < q
    PROVE  Rising(Append(s, q)) /\ Values(Append(s, q)) = Values(s) \cup {q}
<1>1. PICK t \in Seq(Nat) : t = Append(s, q)
  BY AppendLemma
<1>2. /\ Len(t) = Len(s) + 1 /\ Len(s) \in Nat /\ t[Len(s) + 1] = q
      /\ \A i \in 1..Len(s) : t[i] = s[i]
  BY <1>1
<1>3. DOMAIN t = 1..Len(t) /\ DOMAIN s = 1..Len(s)
  OBVIOUS
<1>4. DOMAIN t = DOMAIN s \cup {Len(s) + 1}
  BY <1>2, <1>3
<1>5. Values(t) = Values(s) \cup {q}
  BY <1>2, <1>3, <1>4 DEF Values
<1>6. ASSUME NEW i \in 1..Len(t), NEW j \in 1..Len(t), i < j PROVE t[i] < t[j]
  <2>1. i \in 1..Len(s) /\ t[i] = s[i]
    BY <1>2, <1>6
  <2>2. CASE j \in 1..Len(s)
    <3>1. t[j] = s[j] /\ s[i] < s[j]
      BY <1>2, <1>3, <1>6, <2>1, <2>2 DEF Rising
    <3> QED BY <2>1, <3>1
  <2>3. CASE j \notin 1..Len(s)
    <3>1. j = Len(s) + 1
      BY <1>2, <2>3
    <3> QED BY <1>2, <2>1, <3>1
  <2> QED BY <2>2, <2>3
<1>7. Rising(t)
  BY <1>3, <1>6 DEF Rising
<1> QED BY <1>1, <1>5, <1>7

(* The connection of the message's stream.                                 *)
LEMMA MessageGiven ==
    ASSUME RemoteInv, InboundInv, ReadMessage, NEW k \in Key, k = Entry.key,
           NEW c, c = clients[k], c # 0
    PROVE  Exact(c)' /\ OpenedAt(k, c)'
<1>1. MoveOn("msg") /\ UNCHANGED <<clients, keyOf, start>>
  BY DEF ReadMessage
<1>2. PICK p \in Nat, q \in Nat : p = pos /\ q = Entry.seq
  BY <1>1, EntryLemma
<1>3. /\ cursor \in Nat /\ high \in Nat /\ cursor <= p /\ p <= high
      /\ log' = log /\ log[p + 1].kind = "msg" /\ log[p + 1].key = k /\ log[p + 1].seq = q
  BY <1>1, <1>2, MoveFacts
<1>4. /\ c \in Conns /\ keyOf[c] = k /\ lastIn[k] \in Nat
      /\ start[c] \in Nat \ {0} /\ start[c] <= cursor /\ log[start[c]].key = k
      /\ inbound[c] \in Seq(Nat) /\ Len(inbound[c]) \in Nat \ {0}
      /\ lastIn[k] = inbound[c][Len(inbound[c])]
      /\ Exact(c)
  BY Opened
<1>5. lastIn \in [Key -> Nat] /\ inbound \in [Conns -> Seq(Nat)]
  BY DEF RemoteInv, RemoteTypeOK, TrackerTypeOK, InboundType
<1>6. PICK v \in Nat : v = cursor' /\ cursor <= v
  BY <1>1, MoveFacts
<1>7. start[c] \in 1..v
  BY <1>3, <1>4, <1>6
<1>8. PICK S : S = SinceStart(c)'
  OBVIOUS
<1>9. Exact(c)' <=> Rising(inbound'[c]) /\ Values(inbound'[c]) = SeqsOf(log, S)
  BY <1>3, <1>8 DEF Exact
<1>10. ~(p + 1 <= high) => SeqsOf(log, S) = SeqsOf(log, SinceStart(c)) \cup {q}
  <2> SUFFICES ASSUME ~(p + 1 <= high) PROVE SeqsOf(log, S) = SeqsOf(log, SinceStart(c)) \cup {q}
    OBVIOUS
  <2>1. high = p /\ high' = p + 1
    BY <1>1, <1>2, MoveFacts
  <2>2. PICK a \in Nat \ {0} : a = start[c] /\ a <= p
    BY <1>3, <1>4
  <2> QED BY <1>1, <1>3, <1>4, <1>8, <2>1, SinceGrows
<1>11. p + 1 <= high => S = SinceStart(c)
  <2> SUFFICES ASSUME p + 1 <= high PROVE S = SinceStart(c)
    OBVIOUS
  <2>1. high' = high
    BY <1>1, <1>2, MoveFacts
  <2> QED BY <1>1, <1>3, <1>8, <2>1 DEF SinceStart
<1>12. CASE Seen(k, q)
  <2>1. inbound' = inbound /\ lastIn' = lastIn
    BY <1>2, <1>12 DEF ReadMessage
  <2>2. q \in Values(inbound[c])
    BY <1>1, <1>2, <1>12, SeenWasGiven
  <2>3. Values(inbound[c]) = SeqsOf(log, S)
    BY <1>4, <1>10, <1>11, <2>2 DEF Exact
  <2>4. Exact(c)'
    BY <1>4, <1>9, <2>1, <2>3 DEF Exact
  <2>5. inbound[c] # <<>>
    BY <1>4
  <2>6. OpenedAt(k, c)'
    BY <1>1, <1>3, <1>4, <1>6, <1>7, <2>1 DEF OpenedAt
  <2> QED BY <2>4, <2>6
<1>13. CASE ~Seen(k, q)
  <2>1. ~(p + 1 <= high)
    BY <1>1, <1>2, <1>13, SeenWasGiven
  <2>2. lastIn' = [lastIn EXCEPT ![k] = q] /\ inbound' = [inbound EXCEPT ![c] = Append(@, q)]
    BY <1>2, <1>13 DEF ReadMessage
  <2>3. inbound'[c] = Append(inbound[c], q) /\ lastIn'[k] = q
    BY <1>4, <1>5, <2>2
  <2>4. \A x \in 1..Len(inbound[c]) : inbound[c][x] < q
    <3>1. lastIn[k] < q
      BY <1>2, <1>4, <1>13 DEF Seen
    <3>2. \A x \in 1..Len(inbound[c]) : inbound[c][x] \in Nat /\ inbound[c][x] <= lastIn[k]
      BY <1>4, LastGiven
    <3> QED BY <1>2, <1>4, <3>1, <3>2
  <2>5. Rising(inbound'[c]) /\ Values(inbound'[c]) = Values(inbound[c]) \cup {q}
    BY <1>4, <2>3, <2>4, RisingAppend DEF Exact
  <2>6. Exact(c)'
    BY <1>4, <1>9, <1>10, <2>1, <2>5 DEF Exact
  <2>7. inbound'[c] # <<>> /\ inbound'[c][Len(inbound'[c])] = q
    BY <1>4, <2>3, AppendLemma
  <2>8. OpenedAt(k, c)'
    BY <1>1, <1>3, <1>4, <1>6, <1>7, <2>3, <2>7 DEF OpenedAt
  <2> QED BY <2>6, <2>8
<1> QED BY <1>12, <1>13

LEMMA MessageExact ==
    ASSUME RemoteInv, InboundInv, ReadMessage
    PROVE  InboundInv'
<1>1. MoveOn("msg") /\ UNCHANGED <<clients, keyOf, start>>
  BY DEF ReadMessage
<1>2. PICK k \in Key : k = Entry.key
  BY <1>1, EntryLemma
<1>3. PICK p \in Nat, h \in Nat, v \in Nat : p = pos /\ h = high' /\ v = cursor'
  BY <1>1, MoveFacts
<1>4. /\ cursor \in Nat /\ high \in Nat /\ cursor <= p /\ p <= high /\ cursor <= v /\ high <= h
      /\ log' = log /\ log[p + 1].kind = "msg" /\ log[p + 1].key = k
  BY <1>1, <1>2, <1>3, MoveFacts
<1>5. \A i \in (high + 1)..h : i = p + 1
  <2>1. p + 1 <= high => h = high
    BY <1>1, <1>3, MoveFacts
  <2>2. ~(p + 1 <= high) => high = p /\ h = p + 1
    BY <1>1, <1>3, MoveFacts
  <2> QED BY <1>3, <1>4, <2>1, <2>2
<1>6. InitsRead'
  <2>1. ASSUME NEW i \in 1..h, log[i].kind = "init" PROVE i <= v
    <3>1. i # p + 1
      BY <1>4, <2>1
    <3>2. i \in 1..high
      BY <1>3, <1>4, <1>5, <3>1
    <3>3. i <= cursor
      BY <2>1, <3>2 DEF InboundInv, InboundSound, InitsRead
    <3> QED BY <1>3, <1>4, <3>3
  <2> QED BY <1>3, <1>4, <2>1 DEF InitsRead
<1>7. ASSUME NEW j \in Key, j # k, NEW d, d = clients[j], d # 0
      PROVE  OpenedAt(j, d)' /\ Exact(d)'
  <2>1. d \in Conns /\ keyOf[d] = j /\ start[d] \in Nat \ {0} /\ start[d] <= cursor
    BY <1>7, Opened
  <2>2. clients[k] # 0 => keyOf[clients[k]] = k
    BY DEF RemoteInv, OpenSound
  <2>3. inbound \in [Conns -> Seq(Nat)] /\ lastIn \in [Key -> Nat]
    BY DEF RemoteInv, RemoteTypeOK, TrackerTypeOK, InboundType
  <2>4. inbound'[d] = inbound[d] /\ lastIn'[j] = lastIn[j]
    BY <1>2, <1>7, <2>1, <2>2, <2>3 DEF ReadMessage
  <2>5. \A i \in (high + 1)..h : log'[i].key # j
    BY <1>4, <1>5, <1>7
  <2>6. Exact(d)'
    BY <1>1, <1>3, <1>4, <1>7, <2>4, <2>5, SameGiven
  <2>7. OpenedAt(j, d)
    BY <1>7 DEF InboundInv, InboundSound
  <2>8. start[d] \in 1..v
    BY <1>3, <1>4, <2>1
  <2>9. OpenedAt(j, d)'
    BY <1>1, <1>3, <1>4, <2>4, <2>7 DEF OpenedAt
  <2> QED BY <2>6, <2>9
<1>8. ASSUME NEW j \in Key, NEW d \in {clients'[j]}, d # 0 PROVE OpenedAt(j, d)' /\ Exact(d)'
  BY <1>1, <1>2, <1>7, <1>8, MessageGiven
<1>9. InboundExact'
  BY <1>8, ExactLemma
<1> QED BY <1>6, <1>8, <1>9 DEF InboundInv, InboundSound

(* Every step keeps what the connections were given.                       *)
LEMMA InboundInvStep ==
    ASSUME RemoteInv, InboundInv, "init" \in Cursored, [Next]_vars
    PROVE  InboundInv'
<1>1. cursor \in Nat /\ high \in Nat /\ cursor <= cursor /\ high <= high
  BY InboundFacts
<1>2. \A i \in (high + 1)..high : FALSE
  BY <1>1
<1>3. ASSUME UNCHANGED <<lastIn, keyOf, inbound, start, log, cursor, high>>,
             \A k \in Key : clients'[k] # 0 => clients'[k] = clients[k]
      PROVE  InboundInv'
  BY <1>1, <1>3, QuietInbound
<1>4. clients \in [Key -> 0..MaxConn] /\ keyOf \in [Conns -> Key]
  BY DEF RemoteInv, RemoteTypeOK, TrackerTypeOK
<1>5. ASSUME NEW k \in Key, CloseClient(k)
      PROVE  \A j \in Key : clients'[j] # 0 => clients'[j] = clients[j]
  BY <1>5 DEF CloseClient
<1>6. ASSUME NEW w \in Writes, NEW again \in BOOLEAN, ClientWrites(w[1], w[2], again)
      PROVE  InboundInv'
  <2>1. UNCHANGED <<lastIn, keyOf, inbound, start, cursor, high, clients>>
    BY <1>6 DEF ClientWrites, trackerVars, readVars
  <2>2. \A i \in 1..high : log'[i] = log[i]
    BY <1>6, WritesInbound
  <2> QED BY <1>1, <2>1, <2>2, QuietInbound
<1>7. CASE BackendReceives \/ Write \/ Lose \/ \E on \in BOOLEAN : SetEnabled(on)
  BY <1>3, <1>7 DEF BackendReceives, Write, Connect, Snapshot, WriterTakes, WriterSends,
     Lose, SetEnabled, trackerVars, clientVars, readVars
<1>8. CASE Shutdown
  BY <1>3, <1>8 DEF Shutdown, clientVars, readVars
<1>9. CASE Read
  <2>1. CASE ReadPing
    BY <2>1, OtherRead DEF ReadPing
  <2>2. CASE ReadClosed
    <3>1. Entry.key \in Key
      BY <2>2, EntryLemma DEF ReadClosed
    <3> QED BY <1>5, <2>2, <3>1, OtherRead DEF ReadClosed
  <2> QED BY <1>9, <2>1, <2>2, InitializeExact, MessageExact DEF Read
<1>10. ASSUME NEW k \in Key, ReadAcks(k) \/ CloseExpired(k) \/ SendUnknown(k)
       PROVE  InboundInv'
  <2>1. CASE CloseExpired(k)
    BY <1>3, <1>5, <2>1 DEF CloseExpired, clientVars, readVars
  <2>2. CASE ReadAcks(k) \/ SendUnknown(k)
    BY <1>3, <2>2 DEF ReadAcks, ReadAck, SendUnknown, trackerVars, clientVars, readVars
  <2> QED BY <1>10, <2>1, <2>2
<1>11. ASSUME NEW c \in Conns, AppSends(c) \/ TaskNext(c) \/ ReapTask(c)
       PROVE  InboundInv'
  <2>1. CASE ReapTask(c)
    <3>1. keyOf[c] \in Key
      BY <1>4
    <3> QED BY <1>3, <1>5, <2>1, <3>1 DEF ReapTask, clientVars, readVars
  <2>2. CASE AppSends(c) \/ TaskNext(c)
    BY <1>3, <2>2 DEF AppSends, TaskNext, Forward, ForwardPong, TaskEnds, trackerVars,
       clientVars, readVars
  <2> QED BY <1>11, <2>1, <2>2
<1>12. CASE UNCHANGED vars
  BY <1>3, <1>12 DEF vars, trackerVars, clientVars, readVars
<1> QED BY <1>6, <1>7, <1>8, <1>9, <1>10, <1>11, <1>12 DEF Next

-----------------------------------------------------------------------------
LEMMA RemoteInit ==
    ASSUME Init
    PROVE  RemoteInv /\ InboundInv
<1>1. (CHOOSE k \in Key : TRUE) \in Key
  BY KeyAssumption
<1>2. LinkTypeOK
  BY CapacityAssumption DEF Init, LinkTypeOK
<1>3. TrackerTypeOK
  BY <1>1, BoundsAssumption DEF Init, TrackerTypeOK
<1>4. log = <<>> /\ Len(log) = 0
  BY DEF Init
<1>5. cursor \in 0..Len(log) /\ pos \in 0..Len(log) /\ CursorSound /\ LogSound
  BY DEF Init, CursorSound, LogSound
<1>6. OutboundType
  BY BoundsAssumption DEF Init, OutboundType, Body
<1>7. InboundType
  BY DEF Init, InboundType
<1>8. BufferSound
  BY DEF Init, BufferSound
<1>9. UsageExact
  <2>1. Retained = {}
    <3>1. ASSUME NEW x \in Key \X Nat
          PROVE  x[2] \notin (nextSeq[x[1]] - Len(buffer[x[1]]))..(nextSeq[x[1]] - 1)
      <4>1. nextSeq[x[1]] = 1 /\ Len(buffer[x[1]]) = 0
        BY DEF Init
      <4> QED BY <4>1
    <3> QED BY <3>1 DEF Retained
  <2> QED BY <2>1, FS_EmptySet DEF Init, UsageExact
<1>10. FlightSound /\ FlightComplete
  <2>1. wire = <<>> /\ holding = <<>> /\ writer # "run"
    BY DEF Init
  <2>2. Len(Flight) = 0
    BY <2>1 DEF Flight
  <2> QED BY <2>1, <2>2 DEF FlightSound, FlightComplete
<1>11. OpenSound /\ OpenMatches
  BY DEF Init, OpenSound, OpenMatches
<1>12. InboundInv
  BY DEF Init, InboundInv, InboundSound, InboundExact, InitsRead
<1> QED BY <1>2, <1>3, <1>5, <1>6, <1>7, <1>8, <1>9, <1>10, <1>11, <1>12 DEF RemoteInv,
   RemoteTypeOK, Outbound

(* The inductive invariant holds of every execution of the transport.      *)
THEOREM RemoteInductive == Spec => []RemoteInv
<1>1. Init => RemoteInv
  BY RemoteInit
<1>2. RemoteInv /\ [Next]_vars => RemoteInv'
  BY RemoteStep
<1> QED BY <1>1, <1>2, PTL DEF Spec

(* Type correctness: the usage counter never goes below zero or above the  *)
(* capacity, whatever acks arrive (outbound_buffer), and the queue of      *)
(* server events is bounded.                                               *)
THEOREM RemoteTypeCorrect == Spec => []RemoteTypeOK
<1>1. RemoteInv => RemoteTypeOK
  BY DEF RemoteInv
<1> QED BY <1>1, RemoteInductive, PTL

(* A connection the app server believes open is the one of its stream, for *)
(* any number of streams, connections and losses (close_client).           *)
THEOREM OpenIsKnown == Spec => []OpenMatches
<1>1. RemoteInv => OpenMatches
  BY DEF RemoteInv
<1> QED BY <1>1, RemoteInductive, PTL

LEMMA InboundInduction ==
    ASSUME "init" \in Cursored
    PROVE  Spec => []InboundInv
<1>1. Init => InboundInv
  BY RemoteInit
<1>2. RemoteInv /\ InboundInv /\ [Next]_vars => InboundInv'
  BY InboundInvStep
<1> QED BY <1>1, <1>2, RemoteInductive, PTL DEF Spec

(* When the initialize envelopes carry a cursor, an open connection has    *)
(* been given each message of its stream since then once and in order,     *)
(* whatever was repeated by the client or replayed after a reconnect       *)
(* (handle_message).                                                       *)
THEOREM InboundOnce == "init" \in Cursored => (Spec => []InboundExact)
<1> SUFFICES ASSUME "init" \in Cursored PROVE Spec => []InboundExact
  OBVIOUS
<1>1. InboundInv => InboundExact
  BY DEF InboundInv
<1> QED BY <1>1, InboundInduction, PTL

-----------------------------------------------------------------------------
(* The refinement: what the channel of a stream is.                        *)
Channel(k) == Unreceived(k) \o Queued(k)

LEMMA UnreceivedLemma ==
    ASSUME RemoteInv, NEW k \in Key
    PROVE  /\ Unreceived(k) \in Seq(Body) /\ Len(Unreceived(k)) = nextSeq[k] - 1 - rseq[k]
           /\ \A i \in 1..(nextSeq[k] - 1 - rseq[k]) :
                 Unreceived(k)[i] = Kept(k, rseq[k] + i).body
<1>1. PICK n \in Nat : n = nextSeq[k] - 1 - rseq[k]
  BY Numbers
<1>2. Unreceived(k) = [i \in 1..n |-> Kept(k, rseq[k] + i).body]
  BY <1>1 DEF Unreceived
<1>3. ASSUME NEW i \in 1..n PROVE Kept(k, rseq[k] + i).body \in Body
  <2>1. rseq[k] + i \in (rseq[k] + 1)..(nextSeq[k] - 1)
    BY <1>1, Numbers
  <2>2. Kept(k, rseq[k] + i) \in Envelope
    BY <2>1, KeptLemma
  <2> QED BY <2>2 DEF Envelope
<1> QED BY <1>1, <1>2, <1>3

LEMMA QueuedLemma ==
    ASSUME RemoteInv, NEW k
    PROVE  Queued(k) = Pick(events, k) /\ Queued(k) \in Seq(Body)
<1>1. events \in Seq(QueuedEvent)
  BY DEF RemoteInv, Outbound, OutboundType
<1>2. Pick(events, k) \in Seq(Body)
  BY <1>1, PickExists
<1> QED BY <1>2, QueuedPick

LEMMA SeqAsFunction ==
    ASSUME NEW S, NEW t \in Seq(S)
    PROVE  t = [i \in 1..Len(t) |-> t[i]]
<1>1. DOMAIN t = 1..Len(t) /\ t = [i \in DOMAIN t |-> t[i]]
  OBVIOUS
<1> QED BY <1>1

LEMMA UnreceivedNext ==
    ASSUME NEW k, NEW a, NEW n, a = rseq'[k], n = nextSeq'[k] - 1 - a
    PROVE  Unreceived(k)' = [i \in 1..n |-> (Kept(k, a + i).body)']
BY DEF Unreceived

LEMMA UnreceivedNow ==
    ASSUME NEW k, NEW a, NEW n, a = rseq[k], n = nextSeq[k] - 1 - a
    PROVE  Unreceived(k) = [i \in 1..n |-> Kept(k, a + i).body]
BY DEF Unreceived

(* It stays when what is kept stays.                                       *)
LEMMA UnreceivedSame ==
    ASSUME RemoteInv, NEW k \in Key, rseq'[k] = rseq[k], nextSeq'[k] = nextSeq[k],
           \A m \in (rseq[k] + 1)..(nextSeq[k] - 1) : Kept(k, m)' = Kept(k, m)
    PROVE  Unreceived(k)' = Unreceived(k)
<1>1. PICK a \in Nat, b \in Nat, n \in Nat : a = rseq[k] /\ b = nextSeq[k] /\ n = b - 1 - a
  BY Numbers
<1>2. \A i \in 1..n : a + i \in (a + 1)..(b - 1)
  BY <1>1
<1>3. \A i \in 1..n : (Kept(k, a + i).body)' = Kept(k, a + i).body
  BY <1>1, <1>2
<1>4. Unreceived(k)' = [i \in 1..n |-> (Kept(k, a + i).body)']
  BY <1>1, UnreceivedNext
<1>5. Unreceived(k) = [i \in 1..n |-> Kept(k, a + i).body]
  BY <1>1, UnreceivedNow
<1> QED BY <1>3, <1>4, <1>5

(* The writer's taking e adds its body.                                    *)
LEMMA UnreceivedTaken ==
    ASSUME RemoteInv, NEW e, Takes(e), NEW k \in Key, k = e.key
    PROVE  Unreceived(k)' = Append(Unreceived(k), e.body)
<1>0. PICK a \in Nat, b \in Nat : a = rseq[k] /\ b = nextSeq[k] /\ a < b
  BY Numbers
<1>1. PICK n \in Nat : a = rseq[k] /\ b = nextSeq[k] /\ n = b - 1 - a
  BY <1>0
<1>2. rseq'[k] = a /\ nextSeq'[k] = b + 1 /\ n + 1 = (b + 1) - 1 - a
  <2>1. rseq' = rseq /\ nextSeq'[k] = nextSeq[k] + 1
    BY TakenNumbers DEF Takes
  <2> QED BY <1>1, <2>1
<1>3. Unreceived(k)' = [i \in 1..(n + 1) |-> (Kept(k, a + i).body)']
  <2>1. PICK x : x = n + 1
    OBVIOUS
  <2>2. a = rseq'[k] /\ x = nextSeq'[k] - 1 - a
    BY <1>2, <2>1
  <2>3. Unreceived(k)' = [i \in 1..x |-> (Kept(k, a + i).body)']
    BY ONLY <2>2, UnreceivedNext
  <2> QED BY <2>1, <2>3
<1>4. /\ Unreceived(k) \in Seq(Body) /\ Len(Unreceived(k)) = n
      /\ \A i \in 1..n : Unreceived(k)[i] = Kept(k, a + i).body
  BY <1>1, UnreceivedLemma
<1>5. \A i \in 1..n : (Kept(k, a + i).body)' = Kept(k, a + i).body
  <2>1. \A i \in 1..n : a + i \in (a + 1)..(b - 1)
    BY <1>1
  <2>2. \A m \in (a + 1)..(b - 1) : Kept(k, m)' = Kept(k, m)
    BY <1>1, TakenKept
  <2> QED BY <2>1, <2>2
<1>6. (Kept(k, a + (n + 1)).body)' = e.body
  <2>1. a + (n + 1) = b
    BY <1>1
  <2>2. Kept(k, b)' = e
    BY <1>1, TakenKept
  <2> QED BY <2>1, <2>2
<1>7. e.body \in Body
  BY DEF Takes, Envelope
<1>8. PICK t \in Seq(Body) : t = Append(Unreceived(k), e.body)
  BY <1>4, <1>7, AppendLemma
<1>9. /\ Len(t) = n + 1 /\ t[n + 1] = e.body
      /\ \A i \in 1..n : t[i] = Unreceived(k)[i]
  BY <1>4, <1>8
<1>10. ASSUME NEW i \in 1..(n + 1) PROVE t[i] = (Kept(k, a + i).body)'
  <2>1. CASE i = n + 1
    BY <1>6, <1>9, <2>1
  <2>2. CASE i # n + 1
    <3>1. i \in 1..n
      BY <1>1, <2>2
    <3> QED BY <1>4, <1>5, <1>9, <3>1
  <2> QED BY <2>1, <2>2
<1>11. t = [i \in 1..(n + 1) |-> t[i]]
  BY <1>8, <1>9
<1> QED BY <1>3, <1>8, <1>10, <1>11

(* The backend's receiving the next one removes the first.                 *)
LEMMA UnreceivedReceived ==
    ASSUME RemoteInv, NEW k \in Key, UNCHANGED <<buffer, nextSeq>>,
           rseq'[k] = rseq[k] + 1, rseq[k] + 1 < nextSeq[k]
    PROVE  /\ Unreceived(k) # <<>> /\ Unreceived(k)' = Tail(Unreceived(k))
           /\ Head(Unreceived(k)) = Kept(k, rseq[k] + 1).body
<1>1. PICK a \in Nat, b \in Nat, n \in Nat \ {0} :
        a = rseq[k] /\ b = nextSeq[k] /\ n = b - 1 - a
  BY Numbers
<1>2. rseq'[k] = a + 1 /\ nextSeq'[k] = b /\ n - 1 = b - 1 - (a + 1)
  BY <1>1
<1>3. Unreceived(k)' = [i \in 1..(n - 1) |-> (Kept(k, (a + 1) + i).body)']
  <2>1. PICK x, y : x = n - 1 /\ y = a + 1
    OBVIOUS
  <2>2. y = rseq'[k] /\ x = nextSeq'[k] - 1 - y
    BY <1>2, <2>1
  <2>3. Unreceived(k)' = [i \in 1..x |-> (Kept(k, y + i).body)']
    BY ONLY <2>2, UnreceivedNext
  <2> QED BY <2>1, <2>3
<1>4. PICK s \in Seq(Body) : s = Unreceived(k) /\ Len(s) = n
  BY <1>1, UnreceivedLemma
<1>5. \A i \in 1..n : s[i] = Kept(k, a + i).body
  BY <1>1, <1>4, UnreceivedLemma
<1>6. s # <<>>
  BY <1>1, <1>4
<1>7. PICK t \in Seq(Body) : t = Tail(s)
  BY <1>6, TailLemma
<1>8. Len(t) = n - 1 /\ \A i \in 1..(n - 1) : t[i] = s[i + 1]
  BY <1>4, <1>7
<1>9. Head(s) = s[1] /\ s[1] = Kept(k, a + 1).body
  <2>1. 1 \in 1..n
    BY <1>1
  <2> QED BY <1>5
<1>10. ASSUME NEW i \in 1..(n - 1) PROVE t[i] = (Kept(k, (a + 1) + i).body)'
  <2>0. a \in Int /\ n \in Int /\ i \in Int /\ i \in 1..(n - 1)
    BY <1>1
  <2>1. i + 1 \in 1..n /\ a + (i + 1) = (a + 1) + i
    OBVIOUS
  <2>2. t[i] = Kept(k, (a + 1) + i).body
    BY <1>5, <1>8, <2>1
  <2>3. Kept(k, (a + 1) + i)' = Kept(k, (a + 1) + i)
    BY DEF Kept
  <2> QED BY <2>2, <2>3
<1>11. t = [i \in 1..(n - 1) |-> t[i]]
  <2>1. t = [i \in 1..Len(t) |-> t[i]]
    OBVIOUS
  <2> QED BY <1>8, <2>1
<1>12. Unreceived(k)' = t
  BY <1>3, <1>10, <1>11
<1> QED BY <1>1, <1>4, <1>6, <1>7, <1>9, <1>12

-----------------------------------------------------------------------------
(* Each step, seen in the channels.                                        *)
Chan == [k \in Key |-> Unreceived(k) \o Queued(k)]

LEMMA PickType ==
    ASSUME NEW s \in Seq(QueuedEvent), NEW k
    PROVE  Pick(s, k) \in Seq(Body)
<1>1. PICK f \in [0..Len(s) -> Seq(Body)] : Picks(f, s, k) /\ Pick(s, k) = f[Len(s)]
  BY PickExists
<1>2. Len(s) \in 0..Len(s)
  OBVIOUS
<1> QED BY <1>1, <1>2

LEMMA PickEmpty ==
    ASSUME NEW k
    PROVE  Pick(<<>>, k) = <<>>
<1>1. <<>> \in Seq(QueuedEvent)
  OBVIOUS
<1>2. PICK f \in [0..Len(<<>>) -> Seq(Body)] : Picks(f, <<>>, k) /\ Pick(<<>>, k) = f[Len(<<>>)]
  BY <1>1, PickExists
<1>3. Len(<<>>) = 0
  OBVIOUS
<1> QED BY <1>2 DEF Picks

LEMMA ChanType ==
    ASSUME RemoteInv, NEW k \in Key
    PROVE  Unreceived(k) \in Seq(Body) /\ Queued(k) \in Seq(Body)
BY UnreceivedLemma, QueuedLemma

LEMMA QueuedSame ==
    ASSUME NEW k, events' = events
    PROVE  Queued(k)' = Queued(k)
<1>1. Queued(k)' = Pick(events', k)
  BY DEF Queued, Pick
<1>2. Queued(k) = Pick(events, k)
  BY QueuedPick
<1> QED BY <1>1, <1>2

LEMMA QueuedNext == \A k : Queued(k)' = Pick(events', k)
BY DEF Queued, Pick

LEMMA ChanSame ==
    ASSUME \A k \in Key : Unreceived(k)' = Unreceived(k) /\ Queued(k)' = Queued(k)
    PROVE  Chan' = Chan
BY DEF Chan

LEMMA ChanQuiet ==
    ASSUME UNCHANGED <<buffer, nextSeq, rseq, events>>
    PROVE  Chan' = Chan
<1>1. ASSUME NEW k \in Key PROVE Unreceived(k)' = Unreceived(k) /\ Queued(k)' = Queued(k)
  <2>1. Unreceived(k)' = Unreceived(k)
    BY DEF Unreceived, Kept
  <2> QED BY <2>1, QueuedSame
<1> QED BY <1>1, ChanSame

(* Put.                                                                    *)
LEMMA ChanEnqueue ==
    ASSUME RemoteInv, UNCHANGED <<bufferVars, rseq, got>>, NEW k \in Key, NEW b \in Body,
           Room, Enqueue(k, b)
    PROVE  Relay!Put(k, b)
<1>1. PICK e \in QueuedEvent : e = [key |-> k, body |-> b] /\ events' = Append(events, e)
  BY EnqueueLemma
<1>2. events \in Seq(QueuedEvent)
  BY DEF RemoteInv, Outbound, OutboundType
<1>3. ASSUME NEW j \in Key
      PROVE  Queued(j)' = IF j = k THEN Append(Queued(j), b) ELSE Queued(j)
  <2>1. Pick(Append(events, e), j) = IF e.key = j THEN Append(Pick(events, j), e.body) ELSE Pick(events, j)
    BY <1>2, PickAppend
  <2>2. e.key = k /\ e.body = b
    BY <1>1
  <2> QED BY <1>1, <2>1, QueuedNext, QueuedPick
<1>4. ASSUME NEW j \in Key PROVE Unreceived(j)' = Unreceived(j)
  BY DEF Unreceived, Kept, bufferVars
<1>5. ASSUME NEW j \in Key
      PROVE  (Unreceived(j) \o Queued(j))' =
               IF j = k THEN Append(Unreceived(j) \o Queued(j), b) ELSE Unreceived(j) \o Queued(j)
  <2>1. Unreceived(j) \o Append(Queued(j), b) = Append(Unreceived(j) \o Queued(j), b)
    OBVIOUS
  <2> QED BY <1>3, <1>4, <2>1
<1>6. Chan' = [Chan EXCEPT ![k] = Append(@, b)]
  BY <1>5 DEF Chan
<1> QED BY <1>6 DEF Relay!Put, Chan

(* The writer's taking an event moves it within the channel.               *)
LEMMA ChanTakes ==
    ASSUME RemoteInv, WriterTakes
    PROVE  Chan' = Chan
<1>1. PICK e : /\ Takes(e) /\ events # <<>> /\ e.key = events[1].key /\ e.body = events[1].body
               /\ events' = Tail(events)
  BY TakesLemma
<1>2. events \in Seq(QueuedEvent) /\ Tail(events) \in Seq(QueuedEvent)
  <2>1. events \in Seq(QueuedEvent)
    BY DEF RemoteInv, Outbound, OutboundType
  <2> QED BY <1>1, <2>1
<1>3. e.key \in Key /\ e.body \in Body
  BY <1>1 DEF Takes, Envelope
<1>4. ASSUME NEW k \in Key PROVE (Unreceived(k) \o Queued(k))' = Unreceived(k) \o Queued(k)
  <2>1. PICK q \in Seq(Body) : q = Pick(Tail(events), k)
    BY <1>2, PickType
  <2>2. Queued(k)' = q
    BY <1>1, <2>1, QueuedNext
  <2>3. Queued(k) = (IF e.key = k THEN <<e.body>> ELSE <<>>) \o q
    BY <1>1, <1>2, <2>1, PickTail, QueuedPick
  <2>4. CASE k = e.key
    <3>1. PICK x \in Body : x = e.body
      BY <1>3
    <3>2. Queued(k) = <<x>> \o q
      BY <2>3, <2>4, <3>1
    <3>3. <<x>> \o q # <<>> /\ Head(<<x>> \o q) = x /\ Tail(<<x>> \o q) = q
      <4>1. <<x>> \in Seq(Body) /\ <<x>> # <<>> /\ Head(<<x>>) = x /\ Tail(<<x>>) = <<>>
        BY <3>1
      <4>2. /\ <<x>> \o q # <<>> /\ Head(<<x>> \o q) = Head(<<x>>)
            /\ Tail(<<x>> \o q) = Tail(<<x>>) \o q
        OBVIOUS
      <4>3. <<>> \o q = q
        BY <2>1
      <4> QED BY <4>1, <4>2, <4>3
    <3>4. Unreceived(k)' = Append(Unreceived(k), x)
      BY <1>1, <2>4, <3>1, UnreceivedTaken
    <3>5. Append(Unreceived(k), Head(Queued(k))) \o Tail(Queued(k)) = Unreceived(k) \o Queued(k)
      BY <3>2, MoveLemma
    <3> QED BY <2>2, <3>2, <3>3, <3>4, <3>5
  <2>5. CASE k # e.key
    <3>1. rseq'[k] = rseq[k] /\ nextSeq'[k] = nextSeq[k]
      BY <1>1, <2>5 DEF Takes
    <3>2. Unreceived(k)' = Unreceived(k)
      BY <1>1, <3>1, TakenKept, UnreceivedSame
    <3>3. <<>> \o q = q
      BY <2>1
    <3> QED BY <2>2, <2>3, <2>5, <3>2, <3>3
  <2> QED BY <2>4, <2>5
<1> QED BY <1>4 DEF Chan

LEMMA ChanAck ==
    ASSUME RemoteInv, NEW k \in Key, NEW n, ReadAck(k, n)
    PROVE  Chan' = Chan /\ got' = got
<1>1. PICK d : Acks(k, d) /\ events' = events /\ got' = got
  BY AcksLemma
<1>2. ASSUME NEW j \in Key PROVE Unreceived(j)' = Unreceived(j) /\ Queued(j)' = Queued(j)
  <2>1. rseq'[j] = rseq[j] /\ nextSeq'[j] = nextSeq[j]
    BY <1>1 DEF Acks
  <2>2. \A m \in (rseq[j] + 1)..(nextSeq[j] - 1) : Kept(j, m)' = Kept(j, m)
    BY <1>1, AckedKept
  <2>3. Unreceived(j)' = Unreceived(j)
    BY <2>1, <2>2, UnreceivedSame
  <2> QED BY <1>1, <2>3, QueuedSame
<1> QED BY <1>1, <1>2, ChanSame

(* Get.                                                                    *)
LEMMA ChanReceives ==
    ASSUME RemoteInv, BackendReceives
    PROVE  (\E k \in Key : Relay!Get(k)) \/ (Chan' = Chan /\ got' = got)
<1> DEFINE e == Flight[1]
<1>1. /\ e \in Envelope /\ e.key \in Key
      /\ IF e.seq > rseq[e.key]
           THEN /\ e.seq = rseq[e.key] + 1 /\ e.seq < nextSeq[e.key]
                /\ e = Kept(e.key, e.seq)
                /\ rseq' = [rseq EXCEPT ![e.key] = e.seq]
                /\ got' = [got EXCEPT ![e.key] = Append(@, e.body)]
           ELSE rseq' = rseq /\ got' = got
  BY ReceiveLemma
<1>2. UNCHANGED <<buffer, nextSeq, events>>
  BY DEF BackendReceives, bufferVars
<1> HIDE DEF e
<1>3. CASE ~(e.seq > rseq[e.key])
  BY <1>1, <1>2, <1>3, ChanQuiet
<1>4. CASE e.seq > rseq[e.key]
  <2>1. PICK k \in Key, b \in Body : k = e.key /\ b = e.body
    BY <1>1 DEF Envelope
  <2>2. /\ rseq[k] + 1 < nextSeq[k] /\ e = Kept(k, rseq[k] + 1)
        /\ rseq' = [rseq EXCEPT ![k] = rseq[k] + 1]
        /\ got' = [got EXCEPT ![k] = Append(@, b)]
    BY <1>1, <1>4, <2>1
  <2>3. rseq \in [Key -> Nat]
    BY DEF RemoteInv, RemoteTypeOK, LinkTypeOK
  <2>4. rseq'[k] = rseq[k] + 1 /\ \A j \in Key : j # k => rseq'[j] = rseq[j]
    BY <2>2, <2>3
  <2>5. /\ Unreceived(k) # <<>> /\ Unreceived(k)' = Tail(Unreceived(k))
        /\ Head(Unreceived(k)) = b
    BY <1>2, <2>1, <2>2, <2>4, UnreceivedReceived
  <2>6. ASSUME NEW j \in Key, j # k PROVE Unreceived(j)' = Unreceived(j)
    <3>1. rseq'[j] = rseq[j] /\ nextSeq'[j] = nextSeq[j]
      BY <1>2, <2>4, <2>6
    <3>2. ASSUME NEW m PROVE Kept(j, m)' = Kept(j, m)
      BY <1>2 DEF Kept
    <3> QED BY <3>1, <3>2, UnreceivedSame
  <2>7. \A j \in Key : Queued(j)' = Queued(j)
    BY <1>2, QueuedSame
  <2>8. /\ Unreceived(k) \o Queued(k) # <<>> /\ Head(Unreceived(k) \o Queued(k)) = b
        /\ Tail(Unreceived(k) \o Queued(k)) = (Unreceived(k) \o Queued(k))'
    <3>1. /\ Unreceived(k) \o Queued(k) # <<>>
          /\ Head(Unreceived(k) \o Queued(k)) = Head(Unreceived(k))
          /\ Tail(Unreceived(k) \o Queued(k)) = Tail(Unreceived(k)) \o Queued(k)
      BY <2>5
    <3> QED BY <2>5, <2>7, <3>1
  <2>9. Chan[k] # <<>> /\ Head(Chan[k]) = b
    BY <2>8 DEF Chan
  <2>10. Chan' = [Chan EXCEPT ![k] = Tail(@)]
    <3>1. ASSUME NEW j \in Key
          PROVE  (Unreceived(j) \o Queued(j))' =
                   IF j = k THEN Tail(Unreceived(j) \o Queued(j)) ELSE Unreceived(j) \o Queued(j)
      BY <2>6, <2>7, <2>8
    <3> QED BY <3>1 DEF Chan
  <2>11. Relay!Get(k)
    BY <2>2, <2>9, <2>10 DEF Relay!Get, Chan
  <2> QED BY <2>11
<1> QED BY <1>3, <1>4

LEMMA RelayStep ==
    ASSUME RemoteInv, [Next]_vars
    PROVE  Relay!Next \/ (Chan' = Chan /\ got' = got)
<1> USE DEF Relay!Next
<1>1. ASSUME UNCHANGED <<bufferVars, backendVars, events>> PROVE Chan' = Chan /\ got' = got
  BY <1>1, ChanQuiet DEF bufferVars, backendVars
<1>2. ASSUME NEW w \in Writes, NEW again \in BOOLEAN, ClientWrites(w[1], w[2], again)
      PROVE  Chan' = Chan /\ got' = got
  BY <1>1, <1>2 DEF ClientWrites
<1>3. CASE BackendReceives
  BY <1>3, ChanReceives
<1>4. CASE WriterTakes
  BY <1>4, ChanTakes DEF WriterTakes, backendVars
<1>5. CASE Connect \/ Snapshot \/ WriterSends \/ Lose \/ Shutdown \/ \E on \in BOOLEAN : SetEnabled(on)
  BY <1>1, <1>5 DEF Connect, Snapshot, WriterSends, Lose, Shutdown, SetEnabled
<1>6. CASE Read
  BY <1>1, <1>6 DEF Read, ReadInitialize, ReadMessage, ReadPing, ReadClosed, MoveOn
<1>7. 0 \in Body
  BY BoundsAssumption DEF Body
<1>8. ASSUME NEW k \in Key, NEW b \in Body, Relay!Put(k, b) PROVE Relay!Next
  BY <1>8 DEF Body
<1>9. ASSUME NEW k \in Key, ReadAcks(k) \/ CloseExpired(k) \/ SendUnknown(k)
      PROVE  Relay!Next \/ (Chan' = Chan /\ got' = got)
  <2>1. CASE ReadAcks(k)
    BY <2>1, ChanAck DEF ReadAcks
  <2>2. CASE CloseExpired(k)
    BY <1>1, <2>2 DEF CloseExpired
  <2>3. CASE SendUnknown(k)
    BY <1>7, <1>8, <2>3, ChanEnqueue DEF SendUnknown, backendVars
  <2> QED BY <1>9, <2>1, <2>2, <2>3
<1>10. ASSUME NEW c \in Conns, AppSends(c) \/ TaskNext(c) \/ ReapTask(c)
       PROVE  Relay!Next \/ (Chan' = Chan /\ got' = got)
  <2>1. keyOf[c] \in Key /\ outq[c] \in Seq(Body)
    BY DEF RemoteInv, RemoteTypeOK, TrackerTypeOK, Outbound, OutboundType
  <2>2. CASE AppSends(c) \/ TaskEnds(c) \/ ReapTask(c)
    BY <1>1, <2>2 DEF AppSends, TaskEnds, ReapTask
  <2>3. CASE Forward(c)
    <3>1. Head(outq[c]) \in Body
      BY <2>1, <2>3 DEF Forward
    <3> QED BY <1>8, <2>1, <2>3, ChanEnqueue DEF Forward, backendVars
  <2>4. CASE ForwardPong(c)
    BY <1>7, <1>8, <2>1, <2>4, ChanEnqueue DEF ForwardPong, backendVars
  <2> QED BY <1>10, <2>2, <2>3, <2>4 DEF TaskNext
<1>11. CASE UNCHANGED vars
  BY <1>1, <1>11 DEF vars
<1> USE DEF Relay!Next
<1> QED BY <1>2, <1>3, <1>4, <1>5, <1>6, <1>9, <1>10, <1>11 DEF Next, Write

LEMMA RelayInit ==
    ASSUME Init
    PROVE  Relay!Init
<1>1. ASSUME NEW k \in Key PROVE Unreceived(k) \o Queued(k) = <<>>
  <2>1. nextSeq[k] = 1 /\ rseq[k] = 0 /\ events = <<>>
    BY DEF Init
  <2>2. Unreceived(k) = <<>>
    <3>1. 1..(1 - 1 - 0) = {}
      OBVIOUS
    <3> QED BY <2>1 DEF Unreceived
  <2>3. Queued(k) = <<>>
    BY <2>1, PickEmpty, QueuedPick
  <2> QED BY <2>2, <2>3
<1> QED BY <1>1 DEF Init, Relay!Init

(* The way from the queue of server events to the backend is a reliable    *)
(* queue for every stream: whatever is lost, replayed and acknowledged     *)
(* again, an event arrives once and in order.                              *)
THEOREM RelayImplemented == Spec => ImplementsRelay
<1>1. Init => Relay!Init
  BY RelayInit
<1>2. RemoteInv /\ [Next]_vars => [Relay!Next]_<<Chan, got>>
  BY RelayStep
<1>3. RemoteInv /\ [Next]_vars => [Relay!Next]_<<[k \in Key |-> Unreceived(k) \o Queued(k)], got>>
  BY <1>2 DEF Chan
<1> QED BY <1>1, <1>3, RemoteInductive, PTL DEF Spec, ImplementsRelay, Relay!Spec
=============================================================================
