---------------------------- MODULE RelayContract ----------------------------
(***************************************************************************)
(* What the remote-control transport promises for each stream, whatever    *)
(* happens to its websocket: a queue that loses, repeats and reorders      *)
(* nothing.                                                                *)
(***************************************************************************)
EXTENDS Sequences

CONSTANTS Key, Event

VARIABLES
    chan,   \* per stream, the events accepted and not yet delivered
    got     \* per stream, the events delivered

Init ==
    /\ chan = [k \in Key |-> <<>>]
    /\ got = [k \in Key |-> <<>>]

Put(k, e) ==
    /\ chan' = [chan EXCEPT ![k] = Append(@, e)]
    /\ UNCHANGED got

Get(k) ==
    /\ chan[k] # <<>>
    /\ got' = [got EXCEPT ![k] = Append(@, Head(chan[k]))]
    /\ chan' = [chan EXCEPT ![k] = Tail(@)]

Next == \E k \in Key : Get(k) \/ \E e \in Event : Put(k, e)

Spec == Init /\ [][Next]_<<chan, got>>
=============================================================================
