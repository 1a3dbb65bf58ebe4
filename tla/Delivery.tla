------------------------------ MODULE Delivery ------------------------------
(***************************************************************************)
(* What the TCP server promises its application about received data: once  *)
(* a client is registered, each chunk its peer sends is handed over for    *)
(* it, and for the first time in the order of sending.  It does not promise*)
(* more: a client may be handed zeros or a chunk the application was given *)
(* before, its own or another client's.  Nothing here mentions threads,    *)
(* descriptor sets or cancellation; module ClientService implements it.    *)
(***************************************************************************)
EXTENDS Naturals, Sequences, Functions

CONSTANTS Clients, MaxChunks, NoClient

VARIABLES
  registered,  \* clients the server knows
  sent,        \* chunks sent by each client's peer
  handed       \* all the application was handed for each client, in order

vars == <<registered, sent, handed>>

Zeros == [from |-> NoClient, n |-> 0]

\* The n-th chunk of c was handed over for c.
Given(c, n) == [from |-> c, n |-> n] \in Range(handed[c])

Init ==
  /\ registered = {}
  /\ sent = [c \in Clients |-> 0]
  /\ handed = [c \in Clients |-> <<>>]

Send(c) ==
  /\ sent[c] < MaxChunks
  /\ sent' = [sent EXCEPT ![c] = @ + 1]
  /\ UNCHANGED <<registered, handed>>

\* Clients are never dropped, not even when their peer is gone.
Register(c) ==
  /\ c \notin registered
  /\ registered' = registered \cup {c}
  /\ UNCHANGED <<sent, handed>>

\* The next chunk of c.
Deliver(c) ==
  /\ c \in registered
  /\ \E n \in 1..sent[c] :
       /\ ~Given(c, n)
       /\ \A m \in 1..(n-1) : Given(c, m)
       /\ handed' = [handed EXCEPT ![c] = Append(@, [from |-> c, n |-> n])]
  /\ UNCHANGED <<registered, sent>>

\* Nothing new: zeros, or what was handed over before for its own client.
Stray(c) ==
  /\ c \in registered
  /\ \/ handed' = [handed EXCEPT ![c] = Append(@, Zeros)]
     \/ \E d \in Clients : \E n \in 1..sent[d] :
          /\ Given(d, n)
          /\ handed' = [handed EXCEPT ![c] = Append(@, [from |-> d, n |-> n])]
  /\ UNCHANGED <<registered, sent>>

Next == \E c \in Clients : Send(c) \/ Register(c) \/ Deliver(c) \/ Stray(c)

Spec == Init /\ [][Next]_vars

\* What a registered client sent reaches the application.
Served ==
  \A c \in Clients : \A n \in 1..MaxChunks :
    (c \in registered /\ sent[c] >= n) ~> Given(c, n)
=============================================================================
