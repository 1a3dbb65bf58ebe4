----------------------------- MODULE ControlPlane -----------------------------
(***************************************************************************)
(* What the TCP server promises the application that stops and starts its  *)
(* services, told without threads, handles or lists: a connection is known *)
(* from the moment it was accepted until the server is stopped, and while  *)
(* the client service is on, whatever interrupts it, it comes back serving *)
(* all that is known.                                                      *)
(***************************************************************************)
CONSTANT Clients

VARIABLES
  known,      \* connections the server has accepted
  serving,    \* those whose bytes a thread is waiting for
  listening,  \* whether the client service is on
  stopped

vars == <<known, serving, listening, stopped>>

TypeOK ==
  /\ known \subseteq Clients
  /\ serving \subseteq known
  /\ {listening, stopped} \subseteq BOOLEAN

Init ==
  /\ known = {}
  /\ serving = {}
  /\ listening = TRUE
  /\ stopped = FALSE

Meet(c) ==
  /\ listening
  /\ c \notin known
  /\ known' = known \cup {c}
  /\ UNCHANGED <<serving, listening, stopped>>

\* To serve one client more, or to stop, is to serve none for a while.
Interrupt ==
  /\ serving # {}
  /\ serving' = {}
  /\ UNCHANGED <<known, listening, stopped>>

Resume ==
  /\ listening
  /\ serving = {}
  /\ serving' = known
  /\ UNCHANGED <<known, listening, stopped>>

StopListening ==
  /\ listening
  /\ serving = {}
  /\ listening' = FALSE
  /\ UNCHANGED <<known, serving, stopped>>

StartListening ==
  /\ ~listening
  /\ ~stopped
  /\ listening' = TRUE
  /\ UNCHANGED <<known, serving, stopped>>

\* Nobody is served, and nobody will be met again.
Stop ==
  /\ ~listening
  /\ ~stopped
  /\ stopped' = TRUE
  /\ known' = {}
  /\ UNCHANGED <<serving, listening>>

Next ==
  \/ \E c \in Clients : Meet(c)
  \/ Interrupt \/ Resume \/ StopListening \/ StartListening \/ Stop

Spec == Init /\ [][Next]_vars

\* A client that was met does not wait for ever.
FairSpec ==
  /\ Spec
  /\ WF_vars(Resume)
  /\ WF_vars(serving # known /\ Interrupt)
=============================================================================
