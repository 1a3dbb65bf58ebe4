--------------------------- MODULE TcpServerProofs ---------------------------
(***************************************************************************)
(* Theorems about module TcpServer, for any numbers of clients, managers,  *)
(* services and threads.  The first hold however calls, connections and    *)
(* threads overlap; those after `Calm' where they do not, as run `server'  *)
(* assumes, and end in the refinement of ControlPlane.                     *)
(***************************************************************************)
EXTENDS TcpServer, SequenceTheorems, TLAPS

USE ActorsAssumption, SwitchesAssumption, GarbageAssumption
USE DEF Actors, server, services, threads, actors

LEMMA NextCases ==
  ASSUME Next
  PROVE  \/ Start \/ StartService \/ Started
         \/ StopConnectionAcceptance \/ StartConnectionAcceptance
         \/ StopClientService \/ Clean \/ Delete \/ Forget
         \/ StartClientService \/ ServiceStarted
         \/ Stop \/ StopService \/ Purge \/ Destroy
         \/ \E p \in Actors : Cancel(p) \/ Join(p) \/ Joined(p) \/ Create(p)
         \/ \E m \in Managers :
              Open(m) \/ Update(m) \/ Listen(m) \/ Add(m) \/ Added(m)
         \/ \E m \in Managers, c \in Clients : Accept(m, c)
         \/ \E t \in Threads : Begin(t) \/ End(t)
         \/ Crash
BY Zenon DEF Next, AppStep, Call, ActorStep, ManagerStep, ThreadStep

Labels == {"none", "open", "accept", "update", "listen", "add",
           "new", "start_service", "started", "idle", "clean", "delete",
           "forget", "stop_service", "purge", "destroy", "gone",
           "cancel", "join", "wait", "create", "created"}

LEMMA GotoEffect ==
  ASSUME pc \in [Actors -> Labels], NEW p \in Actors, NEW label \in Labels, Goto(p, label)
  PROVE  /\ pc' \in [Actors -> Labels]
         /\ pc'[p] = label
         /\ \A q \in Actors : q # p => pc'[q] = pc[q]
BY DEF Goto

\* The server has its first service while it starts.
HasService == pc[App] \in {"new", "start_service", "started"} => client_service_ # NULL

\* Where a manager is adding a client.
AddingAt == {"update", "listen", "cancel", "join", "wait", "add"}

AddsClient == \A m \in Managers : pc[m] \in AddingAt => adding[m] \in Clients

TypeInv == TypeOK /\ HasService /\ AddsClient

\* The constructor makes a manager and a service.
LEMMA TypeInit == Init => TypeInv
<1> SUFFICES ASSUME Init PROVE TypeInv
  OBVIOUS
<1>1. /\ db = <<>> /\ <<>> \in Seq(Clients)
      /\ list = [s \in Services |-> <<>>] /\ list \in [Services -> Seq(Clients)]
  BY EmptySeq DEF Init
<1>2. state \subseteq Flags
  BY DEF Init
<1> QED BY <1>1, <1>2 DEF Init, TypeInv, TypeOK, HasService, AddsClient, AddingAt

\* Both cases of CloseAcceptor.
LEMMA Closing ==
  ASSUME CloseAcceptor
  PROVE  \/ /\ "NOT_ACCEPTING" \in state
            /\ state' = state /\ connection_manager_' = connection_manager_
         \/ /\ "NOT_ACCEPTING" \notin state
            /\ state' = state \cup {"NOT_ACCEPTING"} /\ connection_manager_' = NULL
BY Zenon DEF CloseAcceptor

LEMMA CleanedType ==
  ASSUME NEW clients_ \in Seq(Clients) PROVE Cleaned(clients_) \in Seq(Clients)
<1>1. CASE Len(clients_) <= 1
  BY <1>1, EmptySeq DEF Cleaned
<1>2. CASE ~(Len(clients_) <= 1)
  <2>1. Last(clients_) \in Clients
    BY <1>2, LenProperties, ElementOfSeq DEF Last
  <2> QED BY <1>2, <2>1 DEF Cleaned
<1> QED BY <1>1, <1>2

\* Every step keeps the types.
LEMMA TypeStep == TypeInv /\ [Next]_vars => TypeInv'
<1> SUFFICES ASSUME TypeInv, [Next]_vars PROVE TypeInv'
  OBVIOUS
<1> USE DEF TypeInv, TypeOK, HasService, AddsClient, AddingAt
<1>1. CASE Start
  BY <1>1 DEF Start
<1>2. CASE StartService
  BY <1>2 DEF StartService, NewThread, Goto
<1>3. CASE Started
  BY <1>3 DEF Started, Goto, Flags
<1>4. CASE StopConnectionAcceptance
  BY <1>4, Closing DEF StopConnectionAcceptance, Flags
<1>5. CASE StartConnectionAcceptance
  BY <1>5 DEF StartConnectionAcceptance, Calls, Goto
<1>6. CASE StopClientService
  BY <1>6 DEF StopClientService, Calls, Goto
<1>7. CASE Clean
  BY <1>7, CleanedType DEF Clean, Goto
<1>8. CASE Delete
  BY <1>8 DEF Delete, Goto
<1>9. CASE Forget
  BY <1>9 DEF Forget, Goto, Flags
<1>10. CASE StartClientService
  BY <1>10 DEF StartClientService, Calls, Goto
<1>11. CASE ServiceStarted
  BY <1>11 DEF ServiceStarted, Goto
<1>12. CASE Stop
  <2>1. state' \subseteq Flags /\ connection_manager_' \in Managers \cup {NULL}
    BY <1>12, Closing DEF Stop, Flags
  <2> QED BY <1>12, <2>1 DEF Stop, Calls, Goto
<1>13. CASE StopService
  BY <1>13 DEF StopService, Goto
<1>14. CASE Purge
  BY <1>14, EmptySeq DEF Purge, Goto
<1>15. CASE Destroy
  BY <1>15 DEF Destroy, Goto
<1>16. ASSUME NEW p \in Actors, Cancel(p) PROVE TypeInv'
  BY <1>16 DEF Cancel, Goto
<1>17. ASSUME NEW p \in Actors, Join(p) PROVE TypeInv'
  BY <1>17 DEF Join, Goto
<1>18. ASSUME NEW p \in Actors, Joined(p) PROVE TypeInv'
  BY <1>18 DEF Joined, Goto
<1>19. ASSUME NEW p \in Actors, Create(p) PROVE TypeInv'
  BY <1>19 DEF Create, NewThread, Goto
<1>20. ASSUME NEW m \in Managers, Open(m) PROVE TypeInv'
  BY <1>20 DEF Open, Goto
<1>21. ASSUME NEW m \in Managers, Update(m) PROVE TypeInv'
  BY <1>21 DEF Update, Goto
<1>22. ASSUME NEW m \in Managers, Listen(m) PROVE TypeInv'
  BY <1>22 DEF Listen, Goto
<1>23. ASSUME NEW m \in Managers, Add(m) PROVE TypeInv'
  BY <1>23 DEF Add, Goto
<1>24. ASSUME NEW m \in Managers, Added(m) PROVE TypeInv'
  BY <1>24 DEF Added, Goto
<1>25. ASSUME NEW m \in Managers, NEW c \in Clients, Accept(m, c) PROVE TypeInv'
  BY <1>25 DEF Accept, Goto
<1>26. ASSUME NEW t \in Threads, Begin(t) PROVE TypeInv'
  BY <1>26 DEF Begin
<1>27. ASSUME NEW t \in Threads, End(t) PROVE TypeInv'
  BY <1>27 DEF End
<1>28. CASE Crash
  BY <1>28 DEF Crash
<1>29. CASE UNCHANGED vars
  BY <1>29 DEF vars
<1> HIDE DEF TypeInv
<1> QED BY <1>1, <1>2, <1>3, <1>4, <1>5, <1>6, <1>7, <1>8, <1>9, <1>10, <1>11, <1>12,
           <1>13, <1>14, <1>15, <1>16, <1>17, <1>18, <1>19, <1>20, <1>21, <1>22, <1>23,
           <1>24, <1>25, <1>26, <1>27, <1>28, <1>29, NextCases, Zenon

\* Every variable keeps its type, and a pointer that is followed without a test
\* for null is not null: Start() has its service, AddClient() its client.
THEOREM TypeCorrect == Spec => []TypeOK
<1>1. TypeInv => TypeOK
  BY DEF TypeInv
<1> QED BY <1>1, TypeInit, TypeStep, PTL DEF Spec

-----------------------------------------------------------------------------
(* What the services list, the database knows. *)

\* The elements of the sequences the code builds.
LEMMA ToSetAppend ==
  ASSUME NEW s \in Seq(Clients), NEW c \in Clients
  PROVE  ToSet(Append(s, c)) = ToSet(s) \cup {c}
<1>1. Append(s, c) \in Seq(Clients) /\ Len(Append(s, c)) = Len(s) + 1
      /\ \A i \in 1..Len(s) : Append(s, c)[i] = s[i]
      /\ Append(s, c)[Len(s) + 1] = c
  BY AppendProperties
<1>2. DOMAIN s = 1..Len(s) /\ DOMAIN Append(s, c) = 1..(Len(s) + 1) /\ Len(s) \in Nat
  BY <1>1, LenProperties
<1> QED BY <1>1, <1>2 DEF ToSet

LEMMA ToSetConcat ==
  ASSUME NEW s \in Seq(Clients), NEW t \in Seq(Clients)
  PROVE  ToSet(s \o t) = ToSet(s) \cup ToSet(t)
<1>1. s \o t \in Seq(Clients) /\ Len(s \o t) = Len(s) + Len(t)
  BY ConcatProperties
<1>2. \A i \in 1..(Len(s) + Len(t)) :
        (s \o t)[i] = IF i <= Len(s) THEN s[i] ELSE t[i - Len(s)]
  BY ConcatProperties
<1>3. /\ DOMAIN s = 1..Len(s) /\ DOMAIN t = 1..Len(t) /\ DOMAIN (s \o t) = 1..(Len(s) + Len(t))
      /\ Len(s) \in Nat /\ Len(t) \in Nat
  BY <1>1, LenProperties
<1>4. ToSet(s \o t) \subseteq ToSet(s) \cup ToSet(t)
  BY <1>2, <1>3 DEF ToSet
<1>5. ToSet(s) \subseteq ToSet(s \o t)
  BY <1>2, <1>3 DEF ToSet
<1>6. ASSUME NEW i \in 1..Len(t) PROVE t[i] \in ToSet(s \o t)
  <2>1. Len(s) + i \in 1..(Len(s) + Len(t)) /\ (s \o t)[Len(s) + i] = t[i]
    BY <1>2, <1>3, <1>6
  <2> QED BY <1>3, <2>1 DEF ToSet
<1>7. ToSet(t) \subseteq ToSet(s \o t)
  BY <1>3, <1>6 DEF ToSet
<1> QED BY <1>4, <1>5, <1>7

LEMMA ToSetCleaned ==
  ASSUME NEW s \in Seq(Clients) PROVE ToSet(Cleaned(s)) \subseteq ToSet(s)
<1>1. CASE Len(s) <= 1
  BY <1>1 DEF Cleaned, ToSet
<1>2. CASE ~(Len(s) <= 1)
  <2>1. Last(s) \in ToSet(s)
    BY <1>2, LenProperties DEF Last, ToSet
  <2> QED BY <1>2, <2>1 DEF Cleaned, ToSet
<1> QED BY <1>1, <1>2

\* Where a manager has put its client into the database, and not yet on a list.
ListsNext == {"listen", "cancel", "join", "wait", "add"}

ListsOnlyKnown ==
  DatabaseAlive =>
    /\ \A s \in Services : ToSet(list[s]) \subseteq ToSet(db)
    /\ \A m \in Managers : pc[m] \in ListsNext => adding[m] \in ToSet(db)

\* Every step lists only what the database knows.
LEMMA KnownStep == TypeInv /\ ListsOnlyKnown /\ [Next]_vars => ListsOnlyKnown'
<1> SUFFICES ASSUME TypeInv, ListsOnlyKnown, [Next]_vars PROVE ListsOnlyKnown'
  OBVIOUS
<1> USE DEF TypeInv, TypeOK, AddsClient, AddingAt, ListsOnlyKnown, ListsNext, DatabaseAlive
<1>1. CASE Start
  BY <1>1 DEF Start
<1>2. CASE StartService
  BY <1>2 DEF StartService, Goto
<1>3. CASE Started
  BY <1>3 DEF Started, Goto
<1>4. CASE StopConnectionAcceptance
  BY <1>4 DEF StopConnectionAcceptance
<1>5. CASE StartConnectionAcceptance
  BY <1>5 DEF StartConnectionAcceptance, Calls, Goto
<1>6. CASE StopClientService
  BY <1>6 DEF StopClientService, Calls, Goto
<1>7. CASE Clean
  BY <1>7, ToSetCleaned DEF Clean, Goto
<1>8. CASE Delete
  BY <1>8 DEF Delete, Goto
<1>9. CASE Forget
  BY <1>9 DEF Forget, Goto
<1>10. CASE StartClientService
  BY <1>10 DEF StartClientService, Calls, Goto
<1>11. CASE ServiceStarted
  BY <1>11 DEF ServiceStarted, Goto
<1>12. CASE Stop
  BY <1>12 DEF Stop, Calls, Goto
<1>13. CASE StopService
  BY <1>13 DEF StopService, Goto
<1>14. CASE Purge
  BY <1>14 DEF Purge, Goto
<1>15. CASE Destroy
  BY <1>15 DEF Destroy, Goto
<1>16. ASSUME NEW p \in Actors, Cancel(p) PROVE ListsOnlyKnown'
  BY <1>16 DEF Cancel, Goto
<1>17. ASSUME NEW p \in Actors, Join(p) PROVE ListsOnlyKnown'
  BY <1>17 DEF Join, Goto
<1>18. ASSUME NEW p \in Actors, Joined(p) PROVE ListsOnlyKnown'
  BY <1>18 DEF Joined, Goto
<1>19. ASSUME NEW p \in Actors, Create(p) PROVE ListsOnlyKnown'
  BY <1>19 DEF Create, Goto
<1>20. ASSUME NEW m \in Managers, Open(m) PROVE ListsOnlyKnown'
  BY <1>20 DEF Open, Goto
<1>21. ASSUME NEW m \in Managers, Update(m) PROVE ListsOnlyKnown'
  BY <1>21, ToSetAppend DEF Update, Goto
<1>22. ASSUME NEW m \in Managers, Listen(m) PROVE ListsOnlyKnown'
  BY <1>22 DEF Listen, Goto
<1>23. ASSUME NEW m \in Managers, Add(m) PROVE ListsOnlyKnown'
  BY <1>23, ToSetAppend DEF Add, Goto
<1>24. ASSUME NEW m \in Managers, Added(m) PROVE ListsOnlyKnown'
  BY <1>24 DEF Added, Goto
<1>25. ASSUME NEW m \in Managers, NEW c \in Clients, Accept(m, c) PROVE ListsOnlyKnown'
  BY <1>25 DEF Accept, Goto
<1>26. ASSUME NEW t \in Threads, Begin(t) PROVE ListsOnlyKnown'
  BY <1>26, ToSetConcat DEF Begin
<1>27. ASSUME NEW t \in Threads, End(t) PROVE ListsOnlyKnown'
  BY <1>27 DEF End
<1>28. CASE Crash
  BY <1>28 DEF Crash
<1>29. CASE UNCHANGED vars
  BY <1>29 DEF vars
<1> HIDE DEF ListsOnlyKnown
<1> QED BY <1>1, <1>2, <1>3, <1>4, <1>5, <1>6, <1>7, <1>8, <1>9, <1>10, <1>11, <1>12,
           <1>13, <1>14, <1>15, <1>16, <1>17, <1>18, <1>19, <1>20, <1>21, <1>22, <1>23,
           <1>24, <1>25, <1>26, <1>27, <1>28, <1>29, NextCases, Zenon

\* However the managers' threads, the services and the application's calls
\* interleave, a service lists no client the database does not know, so Purge()
\* closes every connection: AddClient() updates before it listens.
THEOREM OnlyKnownServed == Spec => []ServesOnlyKnown
<1>1. Init => ListsOnlyKnown
  BY DEF Init, ListsOnlyKnown, ToSet, ListsNext
<1>2. TypeInv /\ ListsOnlyKnown => ServesOnlyKnown
  BY DEF TypeInv, TypeOK, ListsOnlyKnown, ServesOnlyKnown
<1>3. TypeInv /\ ListsOnlyKnown /\ [Next]_vars => TypeInv' /\ ListsOnlyKnown'
  BY TypeStep, KnownStep
<1> QED BY <1>1, <1>2, <1>3, TypeInit, PTL DEF Spec

-----------------------------------------------------------------------------
(* Flags and pointers agree, whatever overlaps: only the application's     *)
(* thread changes them.                                                    *)

\* The state word the constructor finds has neither flag set.
Clear == \A flags \in Garbage : flags \cap {"NOT_ACCEPTING", "NOT_LISTENING"} = {}

\* Where the application has a service half stopped or half started.
Halfway == {"cancel", "join", "wait", "clean", "delete", "forget", "create", "created"}

FlagsAgree ==
  /\ "NOT_ACCEPTING" \in state <=> connection_manager_ = NULL
  /\ pc[App] \notin Halfway => ("NOT_LISTENING" \in state <=> client_service_ = NULL)
  /\ pc[App] \in {"create", "created"} => client_service_ # NULL /\ "NOT_LISTENING" \in state

\* No step changes a flag or a pointer without the other.
LEMMA FlagsStep == TypeInv /\ FlagsAgree /\ [Next]_vars => FlagsAgree'
<1> SUFFICES ASSUME TypeInv, FlagsAgree, [Next]_vars PROVE FlagsAgree'
  OBVIOUS
<1> USE DEF TypeInv, TypeOK, FlagsAgree, Halfway
<1>1. CASE Start
  BY <1>1 DEF Start
<1>2. CASE StartService
  BY <1>2 DEF StartService, NewThread, Goto
<1>3. CASE Started
  BY <1>3 DEF Started, Goto
<1>4. CASE StopConnectionAcceptance
  BY <1>4, Closing DEF StopConnectionAcceptance, Calls
<1>5. CASE StartConnectionAcceptance
  BY <1>5 DEF StartConnectionAcceptance, Calls, Goto
<1>6. CASE StopClientService
  BY <1>6 DEF StopClientService, Calls, Goto
<1>7. CASE Clean
  BY <1>7 DEF Clean, Goto
<1>8. CASE Delete
  BY <1>8 DEF Delete, Goto
<1>9. CASE Forget
  BY <1>9 DEF Forget, Goto
<1>10. CASE StartClientService
  BY <1>10 DEF StartClientService, Calls, Goto
<1>11. CASE ServiceStarted
  BY <1>11 DEF ServiceStarted, Goto
<1>12. CASE Stop
  BY <1>12, Closing DEF Stop, Calls, Goto
<1>13. CASE StopService
  BY <1>13 DEF StopService, Goto
<1>14. CASE Purge
  BY <1>14 DEF Purge, Goto
<1>15. CASE Destroy
  BY <1>15 DEF Destroy, Goto
<1>16. ASSUME NEW p \in Actors, Cancel(p) PROVE FlagsAgree'
  BY <1>16 DEF Cancel, Goto
<1>17. ASSUME NEW p \in Actors, Join(p) PROVE FlagsAgree'
  BY <1>17 DEF Join, Goto
<1>18. ASSUME NEW p \in Actors, Joined(p) PROVE FlagsAgree'
  BY <1>18 DEF Joined, Goto
<1>19. ASSUME NEW p \in Actors, Create(p) PROVE FlagsAgree'
  BY <1>19 DEF Create, NewThread, Goto
<1>20. ASSUME NEW m \in Managers, Open(m) PROVE FlagsAgree'
  BY <1>20 DEF Open, Goto
<1>21. ASSUME NEW m \in Managers, Update(m) PROVE FlagsAgree'
  BY <1>21 DEF Update, Goto
<1>22. ASSUME NEW m \in Managers, Listen(m) PROVE FlagsAgree'
  BY <1>22 DEF Listen, Goto
<1>23. ASSUME NEW m \in Managers, Add(m) PROVE FlagsAgree'
  BY <1>23 DEF Add, Goto
<1>24. ASSUME NEW m \in Managers, Added(m) PROVE FlagsAgree'
  BY <1>24 DEF Added, Goto
<1>25. ASSUME NEW m \in Managers, NEW c \in Clients, Accept(m, c) PROVE FlagsAgree'
  BY <1>25 DEF Accept, Goto
<1>26. ASSUME NEW t \in Threads, Begin(t) PROVE FlagsAgree'
  BY <1>26 DEF Begin
<1>27. ASSUME NEW t \in Threads, End(t) PROVE FlagsAgree'
  BY <1>27 DEF End
<1>28. CASE Crash
  BY <1>28 DEF Crash
<1>29. CASE UNCHANGED vars
  BY <1>29 DEF vars
<1> HIDE DEF FlagsAgree
<1> QED BY <1>1, <1>2, <1>3, <1>4, <1>5, <1>6, <1>7, <1>8, <1>9, <1>10, <1>11, <1>12, <1>13,
           <1>14, <1>15, <1>16, <1>17, <1>18, <1>19, <1>20, <1>21, <1>22, <1>23, <1>24,
           <1>25, <1>26, <1>27, <1>28, <1>29, NextCases, Zenon

\* Between calls the flags tell whether there is a manager and a service, even
\* while connections arrive and threads are late, if the state word was clear.
THEOREM FlagsTellPointers == ASSUME Clear PROVE Spec => []FlagsTell
<1>1. Init => FlagsAgree
  BY DEF Init, Clear, FlagsAgree, Halfway
<1>2. FlagsAgree => FlagsTell
  BY DEF FlagsAgree, Halfway, FlagsTell, Idle
<1>3. TypeInv /\ FlagsAgree /\ [Next]_vars => TypeInv' /\ FlagsAgree'
  BY TypeStep, FlagsStep
<1> QED BY <1>1, <1>2, <1>3, TypeInit, PTL DEF Spec

\* Where the application is inside Stop().
InStop == {"stop_service", "cancel", "join", "wait", "clean", "delete", "forget",
           "purge", "destroy", "gone"}

StopClears ==
  /\ stopping => connection_manager_ = NULL /\ pc[App] \in InStop
  /\ pc[App] \in {"stop_service", "purge", "destroy", "gone"} => stopping
  /\ pc[App] \in {"purge", "destroy", "gone"} =>
       connection_manager_ = NULL /\ client_service_ = NULL
  /\ fault # "assert_destructor"

\* No step after Stop() brings back what it stopped.
LEMMA StopClearsStep == TypeInv /\ FlagsAgree /\ StopClears /\ [Next]_vars => StopClears'
<1> SUFFICES ASSUME TypeInv, FlagsAgree, StopClears, [Next]_vars PROVE StopClears'
  OBVIOUS
<1> USE DEF TypeInv, TypeOK, FlagsAgree, StopClears, InStop, Halfway
<1>1. CASE Start
  BY <1>1 DEF Start
<1>2. CASE StartService
  BY <1>2 DEF StartService, NewThread, Goto
<1>3. CASE Started
  BY <1>3 DEF Started, Goto
<1>4. CASE StopConnectionAcceptance
  BY <1>4, Closing DEF StopConnectionAcceptance, Calls
<1>5. CASE StartConnectionAcceptance
  BY <1>5 DEF StartConnectionAcceptance, Calls, Goto
<1>6. CASE StopClientService
  BY <1>6 DEF StopClientService, Calls, Goto
<1>7. CASE Clean
  BY <1>7 DEF Clean, Goto
<1>8. CASE Delete
  BY <1>8 DEF Delete, Goto
<1>9. CASE Forget
  BY <1>9 DEF Forget, Goto
<1>10. CASE StartClientService
  BY <1>10 DEF StartClientService, Calls, Goto
<1>11. CASE ServiceStarted
  BY <1>11 DEF ServiceStarted, Goto
<1>12. CASE Stop
  BY <1>12, Closing DEF Stop, Calls, Goto
<1>13. CASE StopService
  BY <1>13 DEF StopService, Goto
<1>14. CASE Purge
  BY <1>14 DEF Purge, Goto
<1>15. CASE Destroy
  BY <1>15 DEF Destroy, Goto
<1>16. ASSUME NEW p \in Actors, Cancel(p) PROVE StopClears'
  BY <1>16 DEF Cancel, Goto
<1>17. ASSUME NEW p \in Actors, Join(p) PROVE StopClears'
  BY <1>17 DEF Join, Goto
<1>18. ASSUME NEW p \in Actors, Joined(p) PROVE StopClears'
  BY <1>18 DEF Joined, Goto
<1>19. ASSUME NEW p \in Actors, Create(p) PROVE StopClears'
  BY <1>19 DEF Create, NewThread, Goto
<1>20. ASSUME NEW m \in Managers, Open(m) PROVE StopClears'
  BY <1>20 DEF Open, Goto
<1>21. ASSUME NEW m \in Managers, Update(m) PROVE StopClears'
  BY <1>21 DEF Update, Goto
<1>22. ASSUME NEW m \in Managers, Listen(m) PROVE StopClears'
  BY <1>22 DEF Listen, Goto
<1>23. ASSUME NEW m \in Managers, Add(m) PROVE StopClears'
  BY <1>23 DEF Add, Goto
<1>24. ASSUME NEW m \in Managers, Added(m) PROVE StopClears'
  BY <1>24 DEF Added, Goto
<1>25. ASSUME NEW m \in Managers, NEW c \in Clients, Accept(m, c) PROVE StopClears'
  BY <1>25 DEF Accept, Goto
<1>26. ASSUME NEW t \in Threads, Begin(t) PROVE StopClears'
  BY <1>26 DEF Begin
<1>27. ASSUME NEW t \in Threads, End(t) PROVE StopClears'
  BY <1>27 DEF End
<1>28. CASE Crash
  BY <1>28 DEF Crash
<1>29. CASE UNCHANGED vars
  BY <1>29 DEF vars
<1> HIDE DEF StopClears
<1> QED BY <1>1, <1>2, <1>3, <1>4, <1>5, <1>6, <1>7, <1>8, <1>9, <1>10, <1>11, <1>12, <1>13,
           <1>14, <1>15, <1>16, <1>17, <1>18, <1>19, <1>20, <1>21, <1>22, <1>23, <1>24,
           <1>25, <1>26, <1>27, <1>28, <1>29, NextCases, Zenon

\* The assertions of ~TcpServer() hold whatever overlaps, if the state word was
\* clear: a manager or a service that is made must be unmade by Stop().
THEOREM DestructorAssertions == ASSUME Clear PROVE Spec => [](fault # "assert_destructor")
<1>1. Init => FlagsAgree /\ StopClears
  BY DEF Init, Clear, FlagsAgree, Halfway, StopClears, InStop
<1>2. StopClears => fault # "assert_destructor"
  BY DEF StopClears
<1>3. TypeInv /\ FlagsAgree /\ StopClears /\ [Next]_vars => TypeInv' /\ FlagsAgree' /\ StopClears'
  BY TypeStep, FlagsStep, StopClearsStep
<1> QED BY <1>1, <1>2, <1>3, TypeInit, PTL DEF Spec

-----------------------------------------------------------------------------
(* Where calls and connections do not overlap: one actor at a time works   *)
(* on one service, which has one thread and lists what the database knows. *)

\* What run `server' assumes, see README.
Calm == ~Overlap /\ SleepSuffices /\ ~ListenFails /\ PurgeLimit <= 1 /\ Clear

\* Without overlap a call finds all managers in accept(), and so does a connection.
LEMMA CallsFind == ASSUME ~Overlap, Calls PROVE pc[App] = "idle" /\ Quiet
BY Zenon DEF Calls

LEMMA AcceptFinds ==
  ASSUME ~Overlap, NEW m, NEW c, Accept(m, c)
  PROVE  Quiet /\ pc[App] = "idle" /\ client_service_ # NULL
BY Zenon DEF Accept

LEMMA StopFinds == ASSUME ~Overlap, Stop PROVE Len(db) <= PurgeLimit
BY Zenon DEF Stop

LEMMA SleptLongEnough ==
  ASSUME SleepSuffices, NEW s, Slept(s)
  PROVE  \A t \in Threads : owner[t] = s => tpc[t] # "start"
BY Zenon DEF Slept

\* Where a manager's thread is adding a client.
Busy == {"update", "listen", "cancel", "join", "wait", "add", "create", "created"}

\* One actor works at a time.
OneActs ==
  /\ pc[App] \in {"new", "start_service", "started", "idle"} \cup InStop \cup {"create", "created"}
  /\ pc[App] \notin {"new", "start_service", "started", "idle"} => Quiet
  /\ \A m \in Managers : pc[m] \in Busy =>
       pc[App] = "idle" /\ \A n \in Managers \ {m} : pc[n] \notin Busy
  /\ \A m \in Managers : pc[m] \in Busy \cup {"none", "open", "accept"}

\* It works on the server's service, the only one there is.
OneService ==
  /\ \A m \in Managers : pc[m] \in Busy => client_service_ # NULL
  /\ \A p \in Actors : pc[p] \in Busy \cup {"clean", "delete", "forget"} =>
       \/ pc[p] \in {"update", "listen"}
       \/ client_service_ # NULL /\ target[p] = client_service_
  /\ client_service_ # NULL => client_service_ \in used
  /\ alive = IF client_service_ = NULL \/ pc[App] = "forget" THEN {} ELSE {client_service_}

\* No thread is there before pthread_create() and after pthread_join().
Threadless ==
  \/ client_service_ = NULL
  \/ pc[App] \in {"new", "start_service", "clean", "delete", "forget", "create"}
  \/ \E m \in Managers : pc[m] \in {"add", "create"}

Waits == \E p \in Actors : pc[p] \in {"join", "wait"}

\* Otherwise there is one, which the handle names.
OneThread ==
  /\ \A t \in Threads : tpc[t] # "free" =>
       ~Threadless /\ t = handle[client_service_] /\ owner[t] = client_service_
  /\ ~Threadless =>
       handle[client_service_] \in Threads /\ tpc[handle[client_service_]] # "free"
  /\ \A t \in Threads : tpc[t] = "start" => \E p \in Actors : pc[p] \in {"started", "created"}
  /\ \A t \in Threads : tpc[t] = "done" \/ t \in cancelled => Waits
  /\ \A t \in cancelled : tpc[t] = "run"
  /\ \A p \in Actors : joining[p] # NULL => pc[p] = "wait"
  /\ \A p \in Actors : pc[p] = "wait" => joining[p] = handle[client_service_]
  /\ pc[App] = "clean" => handle[client_service_] = NULL

\* The service the application makes has not fetched its clients yet.
Uncopied ==
  \/ pc[App] = "create"
  \/ pc[App] = "created" /\ tpc[handle[client_service_]] = "start"

ListsAll ==
  /\ \A s \in Services \ used : list[s] = <<>>
  /\ IsInjective(db)
  /\ stopping => Len(db) <= 1
  /\ pc[App] \in {"new", "start_service", "started"} => db = <<>>
  /\ client_service_ # NULL /\ Uncopied => list[client_service_] = <<>>
  /\ client_service_ # NULL /\ ~Uncopied /\ pc[App] \notin {"delete", "forget"} =>
       /\ IsInjective(list[client_service_])
       /\ (\A m \in Managers : pc[m] \notin ListsNext) => ToSet(list[client_service_]) = ToSet(db)
  /\ \A m \in Managers : pc[m] \in ListsNext =>
       /\ ToSet(db) = ToSet(list[client_service_]) \cup {adding[m]}
       /\ adding[m] \notin ToSet(list[client_service_])
  /\ \A m \in Managers : pc[m] = "update" => adding[m] \notin ToSet(db)

\* Where the calls of AddClient() and of the application leave the labels.
LEMMA StartEffect ==
  ASSUME TypeInv, Start
  PROVE  /\ pc[App] = "new" /\ pc'[App] = "start_service"
         /\ \A m \in Managers : pc'[m] = pc[m] \/ pc'[m] = "open"
         /\ UNCHANGED <<server, services, threads, actors, fault>>
BY DEF Start, TypeInv, TypeOK

LEMMA StopServiceEffect ==
  ASSUME TypeInv, StopService
  PROVE  /\ pc[App] = "stop_service"
         /\ \A m \in Managers : pc'[m] = pc[m]
         /\ UNCHANGED <<server, services, threads, joining, adding, stopping, fault>>
         /\ \/ /\ client_service_ # NULL /\ "NOT_LISTENING" \notin state
               /\ target' = [target EXCEPT ![App] = client_service_]
               /\ pc'[App] = "cancel"
            \/ /\ ~(client_service_ # NULL /\ "NOT_LISTENING" \notin state)
               /\ pc'[App] = "purge" /\ target' = target
BY DEF StopService, Goto, TypeInv, TypeOK

\* No client twice: what appending a new one keeps.
LEMMA InjectiveAppend ==
  ASSUME NEW s \in Seq(Clients), NEW c \in Clients, IsInjective(s), c \notin ToSet(s)
  PROVE  IsInjective(Append(s, c))
<1>1. /\ Len(Append(s, c)) = Len(s) + 1
      /\ \A i \in 1..Len(s) : Append(s, c)[i] = s[i]
      /\ Append(s, c)[Len(s) + 1] = c /\ Append(s, c) \in Seq(Clients)
  BY AppendProperties
<1>2. DOMAIN s = 1..Len(s) /\ DOMAIN Append(s, c) = 1..(Len(s) + 1) /\ Len(s) \in Nat
  BY <1>1, LenProperties
<1>3. \A i \in 1..Len(s) : s[i] \in ToSet(s)
  BY <1>2 DEF ToSet
<1> QED BY <1>1, <1>2, <1>3 DEF IsInjective

\* No step lets a second actor begin before the first is done.
LEMMA ActsStep == Calm /\ TypeInv /\ OneActs /\ [Next]_vars => OneActs'
<1> SUFFICES ASSUME Calm, TypeInv, OneActs, [Next]_vars PROVE OneActs'
  OBVIOUS
<1> USE DEF TypeInv, TypeOK, OneActs, Busy, InStop, Quiet, Calm
<1>1. CASE Start
  BY <1>1, StartEffect
<1>2. CASE StartService
  BY <1>2 DEF StartService, NewThread, Goto
<1>3. CASE Started
  BY <1>3 DEF Started, Goto
<1>4. CASE StopConnectionAcceptance
  BY <1>4 DEF StopConnectionAcceptance
<1>5. CASE StartConnectionAcceptance
  BY <1>5, CallsFind DEF StartConnectionAcceptance, Goto
<1>6. CASE StopClientService
  BY <1>6, CallsFind DEF StopClientService, Goto
<1>7. CASE Clean
  BY <1>7 DEF Clean, Goto
<1>8. CASE Delete
  BY <1>8 DEF Delete, Goto
<1>9. CASE Forget
  BY <1>9 DEF Forget, Goto
<1>10. CASE StartClientService
  BY <1>10, CallsFind DEF StartClientService, Goto
<1>11. CASE ServiceStarted
  BY <1>11 DEF ServiceStarted, Goto
<1>12. CASE Stop
  BY <1>12, CallsFind DEF Stop, Goto
<1>13. CASE StopService
  BY <1>13, StopServiceEffect
<1>14. CASE Purge
  BY <1>14 DEF Purge, Goto
<1>15. CASE Destroy
  BY <1>15 DEF Destroy, Goto
<1>16. ASSUME NEW p \in Actors, Cancel(p) PROVE OneActs'
  BY <1>16 DEF Cancel, Goto
<1>17. ASSUME NEW p \in Actors, Join(p) PROVE OneActs'
  BY <1>17 DEF Join, Goto
<1>18. ASSUME NEW p \in Actors, Joined(p) PROVE OneActs'
  BY <1>18 DEF Joined, Goto
<1>19. ASSUME NEW p \in Actors, Create(p) PROVE OneActs'
  BY <1>19 DEF Create, NewThread, Goto
<1>20. ASSUME NEW m \in Managers, Open(m) PROVE OneActs'
  BY <1>20 DEF Open, Goto
<1>21. ASSUME NEW m \in Managers, Update(m) PROVE OneActs'
  BY <1>21 DEF Update, Goto
<1>22. ASSUME NEW m \in Managers, Listen(m) PROVE OneActs'
  BY <1>22 DEF Listen, Goto
<1>23. ASSUME NEW m \in Managers, Add(m) PROVE OneActs'
  BY <1>23 DEF Add, Goto
<1>24. ASSUME NEW m \in Managers, Added(m) PROVE OneActs'
  BY <1>24 DEF Added, Goto
<1>25. ASSUME NEW m \in Managers, NEW c \in Clients, Accept(m, c) PROVE OneActs'
  BY <1>25, AcceptFinds DEF Accept, Goto
<1>26. ASSUME NEW t \in Threads, Begin(t) PROVE OneActs'
  BY <1>26 DEF Begin
<1>27. ASSUME NEW t \in Threads, End(t) PROVE OneActs'
  BY <1>27 DEF End
<1>28. CASE Crash
  BY <1>28 DEF Crash
<1>29. CASE UNCHANGED vars
  BY <1>29 DEF vars
<1> HIDE DEF OneActs
<1> QED BY <1>1, <1>2, <1>3, <1>4, <1>5, <1>6, <1>7, <1>8, <1>9, <1>10, <1>11, <1>12, <1>13,
           <1>14, <1>15, <1>16, <1>17, <1>18, <1>19, <1>20, <1>21, <1>22, <1>23, <1>24,
           <1>25, <1>26, <1>27, <1>28, <1>29, NextCases, Zenon

\* No step lets an actor reach another service.
LEMMA ServiceStep ==
  Calm /\ TypeInv /\ FlagsAgree /\ StopClears /\ OneActs /\ OneService /\ [Next]_vars
    => OneService'
<1> SUFFICES ASSUME Calm, TypeInv, FlagsAgree, StopClears, OneActs, OneService, [Next]_vars
             PROVE  OneService'
  OBVIOUS
<1> USE DEF TypeInv, TypeOK, FlagsAgree, StopClears, OneActs, OneService, Busy, InStop, Halfway, Calm
<1>1. CASE Start
  BY <1>1, StartEffect
<1>2. CASE StartService
  BY <1>2 DEF StartService, NewThread, Goto
<1>3. CASE Started
  BY <1>3 DEF Started, Goto
<1>4. CASE StopConnectionAcceptance
  BY <1>4 DEF StopConnectionAcceptance
<1>5. CASE StartConnectionAcceptance
  BY <1>5, CallsFind DEF StartConnectionAcceptance, Goto, Quiet
<1>6. CASE StopClientService
  BY <1>6, CallsFind DEF StopClientService, Goto, Quiet
<1>7. CASE Clean
  BY <1>7 DEF Clean, Goto
<1>8. CASE Delete
  BY <1>8 DEF Delete, Goto
<1>9. CASE Forget
  BY <1>9 DEF Forget, Goto
<1>10. CASE StartClientService
  BY <1>10, CallsFind DEF StartClientService, Goto, Quiet
<1>11. CASE ServiceStarted
  BY <1>11 DEF ServiceStarted, Goto
<1>12. CASE Stop
  BY <1>12, CallsFind, Closing DEF Stop, Goto, Quiet
<1>13. CASE StopService
  BY <1>13, StopServiceEffect
<1>14. CASE Purge
  BY <1>14 DEF Purge, Goto
<1>15. CASE Destroy
  BY <1>15 DEF Destroy, Goto
<1>16. ASSUME NEW p \in Actors, Cancel(p) PROVE OneService'
  BY <1>16 DEF Cancel, Goto
<1>17. ASSUME NEW p \in Actors, Join(p) PROVE OneService'
  BY <1>17 DEF Join, Goto
<1>18. ASSUME NEW p \in Actors, Joined(p) PROVE OneService'
  BY <1>18 DEF Joined, Goto
<1>19. ASSUME NEW p \in Actors, Create(p) PROVE OneService'
  BY <1>19 DEF Create, NewThread, Goto
<1>20. ASSUME NEW m \in Managers, Open(m) PROVE OneService'
  BY <1>20 DEF Open, Goto
<1>21. ASSUME NEW m \in Managers, Update(m) PROVE OneService'
  BY <1>21 DEF Update, Goto
<1>22. ASSUME NEW m \in Managers, Listen(m) PROVE OneService'
  BY <1>22 DEF Listen, Goto
<1>23. ASSUME NEW m \in Managers, Add(m) PROVE OneService'
  BY <1>23 DEF Add, Goto
<1>24. ASSUME NEW m \in Managers, Added(m) PROVE OneService'
  BY <1>24 DEF Added, Goto
<1>25. ASSUME NEW m \in Managers, NEW c \in Clients, Accept(m, c) PROVE OneService'
  BY <1>25, AcceptFinds DEF Accept, Goto, Quiet
<1>26. ASSUME NEW t \in Threads, Begin(t) PROVE OneService'
  BY <1>26 DEF Begin
<1>27. ASSUME NEW t \in Threads, End(t) PROVE OneService'
  BY <1>27 DEF End
<1>28. CASE Crash
  BY <1>28 DEF Crash
<1>29. CASE UNCHANGED vars
  BY <1>29 DEF vars
<1> HIDE DEF OneService
<1> QED BY <1>1, <1>2, <1>3, <1>4, <1>5, <1>6, <1>7, <1>8, <1>9, <1>10, <1>11, <1>12, <1>13,
           <1>14, <1>15, <1>16, <1>17, <1>18, <1>19, <1>20, <1>21, <1>22, <1>23, <1>24,
           <1>25, <1>26, <1>27, <1>28, <1>29, NextCases, Zenon

\* What an actor does while another works.
Resting == {"none", "open", "accept", "idle"}

\* While an actor works, the others do not.
LEMMA OthersRest ==
  ASSUME TypeInv, OneActs, NEW p \in Actors, pc[p] \notin Resting
  PROVE  \A q \in Actors \ {p} : pc[q] \in Resting
BY DEF TypeInv, TypeOK, OneActs, Busy, InStop, Quiet, Resting

\* The labels before or after which the thread is not the one the handle names,
\* running and left alone.
Delicate == {"new", "start_service", "started", "join", "wait", "clean", "delete",
             "forget", "add", "create", "created"}

\* A step that disturbs neither the thread nor its handle.
LEMMA PlainMove ==
  ASSUME OneThread, NEW p \in Actors, pc[p] \notin Delicate, pc'[p] \notin Delicate,
         \A q \in Actors \ {p} : pc'[q] = pc[q],
         UNCHANGED <<client_service_, handle, tpc, owner, cancelled, joining>>
  PROVE  OneThread'
<1>1. Threadless' <=> Threadless
  BY DEF Threadless, Delicate
<1>2. Waits' <=> Waits
  BY DEF Waits, Delicate
<1>3. (\E q \in Actors : pc[q] \in {"started", "created"})
        => \E q \in Actors : pc'[q] \in {"started", "created"}
  BY DEF Delicate
<1>4. \A q \in Actors : pc'[q] = "wait" <=> pc[q] = "wait"
  BY DEF Delicate
<1>5. pc'[App] = "clean" => pc[App] = "clean"
  BY DEF Delicate
<1> QED BY <1>1, <1>2, <1>3, <1>4, <1>5 DEF OneThread

\* pthread_create() by an actor that works on the server's service.
LEMMA CreateThread ==
  ASSUME TypeInv, OneActs, OneThread, NEW p \in Actors, NewThread(client_service_),
         pc[p] \in {"start_service", "create"}, client_service_ \in Services,
         pc'[p] \in {"started", "created"}, \A q \in Actors \ {p} : pc'[q] = pc[q],
         UNCHANGED <<client_service_, joining>>
  PROVE  OneThread'
<1>1. PICK t \in Threads :
        /\ tpc[t] = "free"
        /\ tpc' = [tpc EXCEPT ![t] = "start"]
        /\ owner' = [owner EXCEPT ![t] = client_service_]
        /\ cancelled' = cancelled \ {t}
        /\ handle' = [handle EXCEPT ![client_service_] = t]
  BY DEF NewThread
<1>2. \A q \in Actors \ {p} : pc[q] \in Resting
  BY OthersRest DEF Resting
<1>3. Threadless /\ ~(Threadless')
  <2>1. pc[p] = "start_service" => p = App
    BY DEF OneActs, Busy
  <2>2. pc'[p] \in {"started", "created"} /\ client_service_' # NULL
    BY DEF TypeInv, TypeOK
  <2> QED BY <1>2, <2>1, <2>2 DEF Threadless, Resting
<1>4. \A u \in Threads : tpc[u] = "free"
  BY <1>3 DEF OneThread
<1>5. cancelled' = {}
  BY <1>1, <1>4 DEF OneThread, TypeInv, TypeOK
<1>6. \A u \in Threads : tpc'[u] # "free" => u = t
  BY <1>1, <1>4 DEF TypeInv, TypeOK
<1>7. handle'[client_service_] = t /\ tpc'[t] = "start" /\ owner'[t] = client_service_
  BY <1>1 DEF TypeInv, TypeOK
<1>8. \A q \in Actors : pc'[q] # "wait" /\ joining'[q] = NULL
  BY <1>2 DEF OneThread, Resting
<1>9. pc'[App] # "clean"
  BY <1>2 DEF Resting
<1> QED BY <1>3, <1>5, <1>6, <1>7, <1>8, <1>9 DEF OneThread

\* sleep(1) is over, and the thread is under way.
LEMMA ThreadStarted ==
  ASSUME SleepSuffices, TypeInv, OneActs, OneThread, NEW p \in Actors, Slept(client_service_),
         pc[p] \in {"started", "created"}, pc'[p] \in {"idle", "accept"},
         \A q \in Actors \ {p} : pc'[q] = pc[q],
         UNCHANGED <<client_service_, handle, tpc, owner, cancelled, joining>>
  PROVE  OneThread'
<1>1. \A t \in Threads : tpc[t] # "start"
  BY SleptLongEnough DEF OneThread
<1>2. \A q \in Actors \ {p} : pc[q] \in Resting
  BY OthersRest DEF Resting
<1>3. Threadless' <=> Threadless
  BY <1>2 DEF Threadless, Resting
<1>4. ~Waits
  BY <1>2 DEF Waits, Resting
<1>5. \A q \in Actors : pc[q] # "wait" /\ pc'[q] # "wait"
  BY <1>2 DEF Resting
<1>6. pc'[App] # "clean"
  BY <1>2 DEF Resting
<1> QED BY <1>1, <1>3, <1>4, <1>5, <1>6 DEF OneThread

\* The thread that is cancelled runs.
LEMMA CancelRuns ==
  ASSUME TypeInv, OneActs, OneService, OneThread, NEW p \in Actors, Cancel(p)
  PROVE  OneThread'
<1>1. /\ pc[p] = "cancel" /\ pc'[p] = "join" /\ \A q \in Actors \ {p} : pc'[q] = pc[q]
      /\ UNCHANGED <<client_service_, handle, tpc, owner, joining>>
      /\ cancelled' = cancelled \cup {handle[target[p]]}
  BY DEF Cancel, Goto, TypeInv, TypeOK
<1>2. \A q \in Actors \ {p} : pc[q] \in Resting
  BY <1>1, OthersRest DEF Resting
<1>3. client_service_ # NULL /\ target[p] = client_service_
  BY <1>1 DEF OneService, Busy
<1>4. ~Threadless /\ ~(Threadless')
  BY <1>1, <1>2, <1>3 DEF Threadless, Resting
<1>5. Waits' /\ ~Waits
  BY <1>1, <1>2 DEF Waits, Resting
<1>6. ~\E q \in Actors : pc[q] \in {"started", "created"}
  BY <1>1, <1>2 DEF Resting
<1>7. tpc[handle[client_service_]] = "run"
  BY <1>4, <1>5, <1>6 DEF OneThread, TypeInv, TypeOK
<1>8. \A q \in Actors : pc[q] # "wait" /\ pc'[q] # "wait"
  BY <1>1, <1>2 DEF Resting
<1>9. pc'[App] # "clean"
  BY <1>1, <1>2 DEF Resting
<1>10. \A t \in Threads : tpc'[t] # "start"
  BY <1>1, <1>6 DEF OneThread
<1>11. \A t \in cancelled' : tpc'[t] = "run"
  BY <1>1, <1>3, <1>7 DEF OneThread
<1> QED BY <1>1, <1>4, <1>5, <1>8, <1>9, <1>10, <1>11 DEF OneThread

\* Start() finds no thread.
LEMMA ServerStarts ==
  ASSUME TypeInv, OneActs, OneThread, Start PROVE OneThread'
<1>1. /\ pc[App] = "new" /\ pc'[App] = "start_service"
      /\ \A m \in Managers : pc'[m] = pc[m] \/ pc'[m] = "open"
      /\ UNCHANGED <<server, services, threads, actors, fault>>
  BY StartEffect
<1>2. \A q \in Actors \ {App} : pc[q] \in Resting
  BY <1>1, OthersRest DEF Resting
<1>3. Threadless /\ Threadless' /\ ~Waits
  BY <1>1, <1>2 DEF Threadless, Waits, Resting
<1>4. \A t \in Threads : tpc[t] = "free"
  BY <1>3 DEF OneThread
<1>5. \A q \in Actors : joining[q] = NULL /\ pc'[q] # "wait" /\ pc'[q] # "clean"
  BY <1>1, <1>2 DEF OneThread, Resting
<1> QED BY <1>1, <1>3, <1>4, <1>5 DEF OneThread, TypeInv, TypeOK

\* StartClientService() finds no service and no thread.
LEMMA ServiceMade ==
  ASSUME Calm, TypeInv, FlagsAgree, OneThread, StartClientService PROVE OneThread'
<1>1. pc[App] = "idle" /\ Quiet
  BY CallsFind DEF StartClientService, Calm
<1>2. /\ "NOT_LISTENING" \in state /\ pc'[App] = "create"
      /\ \A m \in Managers : pc'[m] = pc[m]
      /\ UNCHANGED <<handle, threads, joining>>
  BY DEF StartClientService, Goto, TypeInv, TypeOK
<1>3. client_service_ = NULL
  BY <1>1, <1>2 DEF FlagsAgree, Halfway
<1>4. Threadless /\ Threadless' /\ ~Waits
  BY <1>1, <1>2, <1>3 DEF Threadless, Waits, Quiet
<1>5. \A t \in Threads : tpc[t] = "free"
  BY <1>4 DEF OneThread
<1>6. \A q \in Actors : joining[q] = NULL /\ pc'[q] # "wait" /\ pc'[q] # "clean"
  BY <1>1, <1>2 DEF OneThread, Quiet
<1> QED BY <1>2, <1>4, <1>5, <1>6 DEF OneThread, TypeInv, TypeOK

\* pthread_join() is called for the thread of the service.
LEMMA JoinWaits ==
  ASSUME TypeInv, OneActs, OneService, OneThread, NEW p \in Actors, Join(p)
  PROVE  OneThread'
<1>1. /\ pc[p] = "join" /\ pc'[p] = "wait" /\ \A q \in Actors \ {p} : pc'[q] = pc[q]
      /\ UNCHANGED <<client_service_, handle, tpc, owner, cancelled>>
      /\ joining' = [joining EXCEPT ![p] = handle[target[p]]]
  BY DEF Join, Goto, TypeInv, TypeOK
<1>2. \A q \in Actors \ {p} : pc[q] \in Resting
  BY <1>1, OthersRest DEF Resting
<1>3. client_service_ # NULL /\ target[p] = client_service_
  BY <1>1 DEF OneService, Busy
<1>4. (Threadless' <=> Threadless) /\ Waits' /\ Waits
  BY <1>1, <1>2 DEF Threadless, Waits, Resting
<1>5. \A t \in Threads : tpc[t] # "start"
  BY <1>1, <1>2 DEF OneThread, Resting
<1>6. \A q \in Actors \ {p} : joining'[q] = NULL /\ pc'[q] # "wait"
  BY <1>1, <1>2 DEF OneThread, Resting, TypeInv, TypeOK
<1>7. joining'[p] = handle[client_service_] /\ pc'[App] # "clean"
  BY <1>1, <1>2, <1>3 DEF Resting, TypeInv, TypeOK
<1> QED BY <1>1, <1>4, <1>5, <1>6, <1>7 DEF OneThread

\* It returns when that thread has ended.
LEMMA JoinedEnds ==
  ASSUME TypeInv, OneActs, OneService, OneThread, NEW p \in Actors, Joined(p)
  PROVE  OneThread'
<1>1. /\ pc[p] = "wait" /\ pc'[p] = (IF p = App THEN "clean" ELSE "add")
      /\ \A q \in Actors \ {p} : pc'[q] = pc[q]
      /\ UNCHANGED <<client_service_, owner, cancelled>>
      /\ handle' = [handle EXCEPT ![target[p]] = NULL]
      /\ joining' = [joining EXCEPT ![p] = NULL]
  BY DEF Joined, Goto, TypeInv, TypeOK
<1>2. \A q \in Actors \ {p} : pc[q] \in Resting
  BY <1>1, OthersRest DEF Resting
<1>3. client_service_ # NULL /\ target[p] = client_service_ /\ client_service_ \in Services
  BY <1>1 DEF OneService, Busy, TypeInv, TypeOK
<1>4. joining[p] = handle[client_service_] /\ \A q \in Actors \ {p} : joining[q] = NULL
  BY <1>1, <1>2 DEF OneThread, Resting
<1>5. ~Threadless /\ Threadless'
  BY <1>1, <1>2, <1>3 DEF Threadless, Resting
<1>6. handle[client_service_] \in Threads /\ tpc[handle[client_service_]] # "free"
  BY <1>5 DEF OneThread
<1>7. /\ tpc[handle[client_service_]] = "done"
      /\ tpc' = [tpc EXCEPT ![handle[client_service_]] = "free"]
  BY <1>4, <1>6 DEF Joined
<1>8. \A t \in Threads : tpc'[t] = "free"
  BY <1>6, <1>7 DEF OneThread, TypeInv, TypeOK
<1>9. cancelled' = {}
  BY <1>1, <1>7, <1>6 DEF OneThread, TypeInv, TypeOK
<1>10. \A q \in Actors : pc'[q] # "wait" /\ joining'[q] = NULL
  BY <1>1, <1>2, <1>4 DEF Resting, TypeInv, TypeOK
<1>11. handle'[client_service_] = NULL
  BY <1>1, <1>3 DEF TypeInv, TypeOK
<1> QED BY <1>1, <1>5, <1>8, <1>9, <1>10, <1>11 DEF OneThread

\* No step leaves a thread that the handle does not name.
LEMMA ThreadsStep ==
  Calm /\ TypeInv /\ FlagsAgree /\ OneActs /\ OneService /\ OneThread /\ [Next]_vars
    => OneThread'
<1> SUFFICES ASSUME Calm, TypeInv, FlagsAgree, OneActs, OneService, OneThread, [Next]_vars
             PROVE  OneThread'
  OBVIOUS
<1> USE DEF TypeInv, TypeOK
<1>1. CASE Start
  BY <1>1, ServerStarts
<1>2. CASE StartService
  BY <1>2, CreateThread DEF StartService, Goto, HasService
<1>3. CASE Started
  BY <1>3, ThreadStarted DEF Started, Goto, Calm
<1>4. CASE StopConnectionAcceptance
  BY <1>4 DEF StopConnectionAcceptance, OneThread, Threadless, Waits
<1>5. CASE StartConnectionAcceptance
  <2>1. PICK m \in Managers : Goto(m, "open")
    BY <1>5 DEF StartConnectionAcceptance
  <2>2. pc[m] \notin Delicate
    BY <1>5, CallsFind DEF StartConnectionAcceptance, Quiet, Calm, Delicate
  <2> QED BY <1>5, <2>1, <2>2, PlainMove DEF StartConnectionAcceptance, Goto, Delicate
<1>6. CASE StopClientService
  BY <1>6, PlainMove DEF StopClientService, Calls, Goto, Delicate
<1>7. CASE Clean
  BY <1>7 DEF Clean, Goto, OneThread, Threadless, Waits, OneActs, OneService, Busy, InStop
<1>8. CASE Delete
  BY <1>8 DEF Delete, Goto, OneThread, Threadless, Waits, OneActs, OneService, Busy, InStop
<1>9. CASE Forget
  BY <1>9 DEF Forget, Goto, OneThread, Threadless, Waits, OneActs, OneService, Busy, InStop
<1>10. CASE StartClientService
  BY <1>10, ServiceMade
<1>11. CASE ServiceStarted
  BY <1>11, ThreadStarted DEF ServiceStarted, Goto, Calm
<1>12. CASE Stop
  BY <1>12, PlainMove DEF Stop, Calls, Goto, Delicate
<1>13. CASE StopService
  BY <1>13, PlainMove, StopServiceEffect DEF StopService, Goto, Delicate
<1>14. CASE Purge
  BY <1>14, PlainMove DEF Purge, Goto, Delicate
<1>15. CASE Destroy
  BY <1>15, PlainMove DEF Destroy, Goto, Delicate
<1>16. ASSUME NEW p \in Actors, Cancel(p) PROVE OneThread'
  BY <1>16, CancelRuns
<1>17. ASSUME NEW p \in Actors, Join(p) PROVE OneThread'
  BY <1>17, JoinWaits
<1>18. ASSUME NEW p \in Actors, Joined(p) PROVE OneThread'
  BY <1>18, JoinedEnds
<1>19. ASSUME NEW p \in Actors, Create(p) PROVE OneThread'
  BY <1>19, CreateThread DEF Create, Goto, OneService, Busy
<1>20. ASSUME NEW m \in Managers, Open(m) PROVE OneThread'
  BY <1>20, PlainMove DEF Open, Goto, Delicate
<1>21. ASSUME NEW m \in Managers, Update(m) PROVE OneThread'
  BY <1>21, PlainMove DEF Update, Goto, Delicate
<1>22. ASSUME NEW m \in Managers, Listen(m) PROVE OneThread'
  BY <1>22, PlainMove DEF Listen, Goto, Delicate
<1>23. ASSUME NEW m \in Managers, Add(m) PROVE OneThread'
  BY <1>23 DEF Add, Goto, OneThread, Threadless, Waits, OneActs, OneService, Busy, InStop
<1>24. ASSUME NEW m \in Managers, Added(m) PROVE OneThread'
  BY <1>24, ThreadStarted DEF Added, Goto, Calm, OneService, Busy
<1>25. ASSUME NEW m \in Managers, NEW c \in Clients, Accept(m, c) PROVE OneThread'
  BY <1>25, PlainMove DEF Accept, Goto, Delicate
<1>26. ASSUME NEW t \in Threads, Begin(t) PROVE OneThread'
  BY <1>26 DEF Begin, OneThread, Threadless, Waits
<1>27. ASSUME NEW t \in Threads, End(t) PROVE OneThread'
  BY <1>27 DEF End, OneThread, Threadless, Waits
<1>28. CASE Crash
  BY <1>28 DEF Crash, OneThread, Threadless, Waits
<1>29. CASE UNCHANGED vars
  BY <1>29 DEF vars, OneThread, Threadless, Waits
<1> HIDE DEF OneThread
<1> QED BY <1>1, <1>2, <1>3, <1>4, <1>5, <1>6, <1>7, <1>8, <1>9, <1>10, <1>11, <1>12, <1>13,
           <1>14, <1>15, <1>16, <1>17, <1>18, <1>19, <1>20, <1>21, <1>22, <1>23, <1>24,
           <1>25, <1>26, <1>27, <1>28, <1>29, NextCases, Zenon

LEMMA InjectiveEmpty == IsInjective(<<>>) /\ ToSet(<<>>) = {}
BY DEF IsInjective, ToSet

\* ClientService::Stop() is at its loop: no manager is at work, and every
\* service but the one it empties is as it was.
LEMMA CleanLists ==
  ASSUME TypeInv, OneActs, OneService, ListsAll, Clean PROVE ListsAll'
<1>1. /\ pc[App] = "clean" /\ pc'[App] = "delete" /\ \A m \in Managers : pc'[m] = pc[m]
      /\ \A s \in Services : s # target[App] => list'[s] = list[s]
      /\ UNCHANGED <<server, used, stopping, adding>>
  BY DEF Clean, Goto, TypeInv, TypeOK
<1>2. target[App] = client_service_ /\ client_service_ \in used
  BY <1>1 DEF OneService, Busy
<1>3. Quiet
  BY <1>1 DEF OneActs
<1> QED BY <1>1, <1>2, <1>3 DEF ListsAll, Uncopied, ListsNext, Quiet

\* StartClientService() returns: the thread has fetched the clients by now.
LEMMA StartedLists ==
  ASSUME SleepSuffices, TypeInv, OneActs, OneThread, FlagsAgree, ListsAll, ServiceStarted
  PROVE  ListsAll'
<1>1. /\ pc[App] = "created" /\ pc'[App] = "idle" /\ \A m \in Managers : pc'[m] = pc[m]
      /\ UNCHANGED <<client_service_, db, services, threads, stopping, adding>>
      /\ Slept(client_service_)
  BY DEF ServiceStarted, Goto, TypeInv, TypeOK
<1>2. client_service_ # NULL /\ Quiet
  BY <1>1 DEF OneActs, FlagsAgree
<1>3. ~Threadless
  BY <1>1, <1>2 DEF Threadless, Quiet
<1>4. tpc[handle[client_service_]] # "start"
  BY <1>1, <1>3, SleptLongEnough DEF OneThread
<1>5. ~Uncopied /\ ~(Uncopied')
  BY <1>1, <1>4 DEF Uncopied
<1> QED BY <1>1, <1>2, <1>5 DEF ListsAll, ListsNext, Quiet

\* No service is left when the database is emptied.
LEMMA PurgeLists ==
  ASSUME StopClears, OneActs, ListsAll, TypeInv, Purge PROVE ListsAll'
<1>1. /\ pc[App] = "purge" /\ pc'[App] = "destroy" /\ \A m \in Managers : pc'[m] = pc[m]
      /\ db' = <<>> /\ UNCHANGED <<client_service_, services, threads, stopping, adding>>
  BY DEF Purge, Goto, TypeInv, TypeOK
<1>2. client_service_ = NULL /\ Quiet
  BY <1>1 DEF StopClears, OneActs
<1>3. IsInjective(db') /\ Len(db') = 0
  BY <1>1, InjectiveEmpty, EmptySeq
<1> QED BY <1>1, <1>2, <1>3 DEF ListsAll, ListsNext, Quiet

\* AddClient() has put the client into the database, and nowhere else yet.
LEMMA UpdateLists ==
  ASSUME TypeInv, StopClears, OneActs, OneService, ListsAll, NEW m \in Managers, Update(m)
  PROVE  ListsAll'
<1>1. /\ pc[m] = "update" /\ pc'[m] = "listen" /\ \A q \in Actors \ {m} : pc'[q] = pc[q]
      /\ db' = Append(db, adding[m])
      /\ UNCHANGED <<client_service_, services, threads, stopping, adding>>
  BY DEF Update, Goto, TypeInv, TypeOK
<1>2. pc[App] = "idle" /\ client_service_ # NULL /\ \A q \in Actors \ {m} : pc[q] \in Resting
  BY <1>1, OthersRest DEF OneActs, OneService, Busy, Resting
<1>3. adding[m] \in Clients /\ adding[m] \notin ToSet(db) /\ db \in Seq(Clients)
  BY <1>1 DEF TypeInv, TypeOK, AddsClient, AddingAt, ListsAll
<1>4. IsInjective(db') /\ ToSet(db') = ToSet(db) \cup {adding[m]}
  BY <1>1, <1>3, InjectiveAppend, ToSetAppend DEF ListsAll
<1>5. ~Uncopied /\ ~(Uncopied')
  BY <1>1, <1>2 DEF Uncopied
<1>6. ToSet(list[client_service_]) = ToSet(db) /\ IsInjective(list[client_service_])
  BY <1>1, <1>2, <1>5 DEF ListsAll, ListsNext, Resting
<1>7. ~stopping
  BY <1>2 DEF StopClears, InStop
<1> QED BY <1>1, <1>2, <1>3, <1>4, <1>5, <1>6, <1>7 DEF ListsAll, ListsNext, Resting

\* Listen() has put it on the service's list.
LEMMA AddLists ==
  ASSUME TypeInv, OneActs, OneService, ListsAll, NEW m \in Managers, Add(m)
  PROVE  ListsAll'
<1>1. /\ pc[m] = "add" /\ pc'[m] = "create" /\ \A q \in Actors \ {m} : pc'[q] = pc[q]
      /\ list' = [list EXCEPT ![target[m]] = Append(@, adding[m])]
      /\ UNCHANGED <<server, used, stopping, adding>>
  BY DEF Add, Goto, TypeInv, TypeOK
<1>2. pc[App] = "idle" /\ \A q \in Actors \ {m} : pc[q] \in Resting
  BY <1>1, OthersRest DEF OneActs, Busy, Resting
<1>3. /\ target[m] = client_service_ /\ client_service_ \in Services
      /\ client_service_ \in used /\ client_service_ # NULL
  BY <1>1 DEF OneService, Busy, TypeInv, TypeOK
<1>4. adding[m] \in Clients /\ list[client_service_] \in Seq(Clients)
  BY <1>1, <1>3 DEF TypeInv, TypeOK, AddsClient, AddingAt
<1>5. /\ ToSet(db) = ToSet(list[client_service_]) \cup {adding[m]}
      /\ adding[m] \notin ToSet(list[client_service_])
  BY <1>1 DEF ListsAll, ListsNext
<1>6. ~Uncopied /\ ~(Uncopied')
  BY <1>1, <1>2 DEF Uncopied
<1>7. IsInjective(list[client_service_])
  BY <1>2, <1>3, <1>6 DEF ListsAll
<1>8. /\ list'[client_service_] = Append(list[client_service_], adding[m])
      /\ \A s \in Services \ {client_service_} : list'[s] = list[s]
  BY <1>1, <1>3 DEF TypeInv, TypeOK
<1>9. IsInjective(list'[client_service_]) /\ ToSet(list'[client_service_]) = ToSet(db)
  BY <1>4, <1>5, <1>7, <1>8, InjectiveAppend, ToSetAppend
<1> QED BY <1>1, <1>2, <1>3, <1>6, <1>8, <1>9 DEF ListsAll, ListsNext, Resting

\* A thread that starts fetches the clients for the service the application
\* makes, and for no other.
LEMMA BeginLists ==
  ASSUME TypeInv, FlagsAgree, OneActs, OneService, OneThread, ListsAll, NEW t \in Threads, Begin(t)
  PROVE  ListsAll'
<1>1. /\ tpc[t] = "start" /\ tpc' = [tpc EXCEPT ![t] = "run"]
      /\ list' = IF "NOT_LISTENING" \in state THEN [list EXCEPT ![owner[t]] = @ \o db] ELSE list
      /\ UNCHANGED <<server, used, handle, pc, stopping, adding>>
  BY DEF Begin
<1>2. t = handle[client_service_] /\ owner[t] = client_service_ /\ client_service_ # NULL
  BY <1>1 DEF OneThread, Threadless
<1>3. client_service_ \in Services /\ pc[App] # "create"
  BY <1>1, <1>2 DEF TypeInv, TypeOK, OneThread, Threadless
<1>4. ~(Uncopied')
  BY <1>1, <1>2, <1>3 DEF Uncopied, TypeInv, TypeOK
<1>5. PICK p \in Actors : pc[p] \in {"started", "created"}
  BY <1>1 DEF OneThread
<1>6. \A q \in Actors \ {p} : pc[q] \in Resting
  BY <1>5, OthersRest DEF Resting
<1>7. CASE pc[App] = "created"
  <2>1. "NOT_LISTENING" \in state /\ Uncopied
    BY <1>1, <1>2, <1>7 DEF FlagsAgree, Uncopied
  <2>2. list[client_service_] = <<>> /\ client_service_ \in used
    BY <1>2, <2>1 DEF ListsAll, OneService
  <2>3. list'[client_service_] = db /\ \A s \in Services \ {client_service_} : list'[s] = list[s]
    BY <1>1, <1>2, <1>3, <2>1, <2>2 DEF TypeInv, TypeOK
  <2>4. \A m \in Managers : pc[m] \notin ListsNext
    BY <1>7 DEF OneActs, Busy, ListsNext
  <2> QED BY <1>1, <1>2, <1>4, <1>7, <2>2, <2>3, <2>4 DEF ListsAll
<1>8. CASE pc[App] # "created"
  <2>1. ~Uncopied /\ pc[App] \in {"started", "idle"}
    BY <1>3, <1>5, <1>6, <1>8 DEF Uncopied, Resting, OneActs
  <2>2. list' = list
    BY <1>1, <1>2, <2>1 DEF FlagsAgree, Halfway
  <2> QED BY <1>1, <1>4, <2>1, <2>2 DEF ListsAll
<1> QED BY <1>7, <1>8


\* No step loses a client, or lists it twice.
LEMMA ListsStep ==
  Calm /\ TypeInv /\ FlagsAgree /\ StopClears /\ OneActs /\ OneService /\ OneThread
  /\ ListsAll /\ [Next]_vars
    => ListsAll'
<1> SUFFICES ASSUME Calm, TypeInv, FlagsAgree, StopClears, OneActs, OneService, OneThread,
                    ListsAll, [Next]_vars
             PROVE  ListsAll'
  OBVIOUS
<1> USE DEF TypeInv, TypeOK
<1>1. CASE Start
  BY <1>1, StartEffect DEF Goto, ListsAll, Uncopied, ListsNext, OneActs, Busy
<1>2. CASE StartService
  BY <1>2 DEF StartService, Goto, ListsAll, Uncopied, ListsNext, HasService
<1>3. CASE Started
  BY <1>3, SleptLongEnough DEF Started, Goto, ListsAll, Uncopied, ListsNext, OneThread, Calm
<1>4. CASE StopConnectionAcceptance
  BY <1>4 DEF StopConnectionAcceptance, Goto, ListsAll, Uncopied, ListsNext
<1>5. CASE StartConnectionAcceptance
  BY <1>5, CallsFind DEF StartConnectionAcceptance, Goto, ListsAll, Uncopied, ListsNext,
     Quiet, Calm
<1>6. CASE StopClientService
  BY <1>6, CallsFind DEF StopClientService, Goto, ListsAll, Uncopied, ListsNext, Quiet, Calm
<1>7. CASE Clean
  BY <1>7, CleanLists
<1>8. CASE Delete
  BY <1>8 DEF Delete, Goto, ListsAll, Uncopied, ListsNext
<1>9. CASE Forget
  BY <1>9 DEF Forget, Goto, ListsAll, Uncopied, ListsNext, OneActs, Quiet
<1>10. CASE StartClientService
  BY <1>10, CallsFind DEF StartClientService, Goto, ListsAll, Uncopied, ListsNext, Quiet,
     Calm, FlagsAgree, Halfway
<1>11. CASE ServiceStarted
  BY <1>11, StartedLists DEF Calm
<1>12. CASE Stop
  BY <1>12, CallsFind, StopFinds DEF Stop, Goto, ListsAll, Uncopied, ListsNext, Quiet, Calm
<1>13. CASE StopService
  BY <1>13, StopServiceEffect DEF StopService, Goto, ListsAll, Uncopied, ListsNext
<1>14. CASE Purge
  BY <1>14, PurgeLists
<1>15. CASE Destroy
  BY <1>15 DEF Destroy, Goto, ListsAll, Uncopied, ListsNext
<1>16. ASSUME NEW p \in Actors, Cancel(p) PROVE ListsAll'
  BY <1>16 DEF Cancel, Goto, ListsAll, Uncopied, ListsNext
<1>17. ASSUME NEW p \in Actors, Join(p) PROVE ListsAll'
  BY <1>17 DEF Join, Goto, ListsAll, Uncopied, ListsNext
<1>18. ASSUME NEW p \in Actors, Joined(p) PROVE ListsAll'
  BY <1>18 DEF Joined, Goto, ListsAll, Uncopied, ListsNext, OneActs, Busy
<1>19. ASSUME NEW p \in Actors, Create(p) PROVE ListsAll'
  BY <1>19 DEF Create, Goto, ListsAll, Uncopied, ListsNext, NewThread, OneService, OneActs,
     Busy
<1>20. ASSUME NEW m \in Managers, Open(m) PROVE ListsAll'
  BY <1>20 DEF Open, Goto, ListsAll, Uncopied, ListsNext
<1>21. ASSUME NEW m \in Managers, Update(m) PROVE ListsAll'
  BY <1>21, UpdateLists
<1>22. ASSUME NEW m \in Managers, Listen(m) PROVE ListsAll'
  BY <1>22 DEF Listen, Goto, ListsAll, Uncopied, ListsNext
<1>23. ASSUME NEW m \in Managers, Add(m) PROVE ListsAll'
  BY <1>23, AddLists
<1>24. ASSUME NEW m \in Managers, Added(m) PROVE ListsAll'
  BY <1>24 DEF Added, Goto, ListsAll, Uncopied, ListsNext, OneActs, Busy
<1>25. ASSUME NEW m \in Managers, NEW c \in Clients, Accept(m, c) PROVE ListsAll'
  BY <1>25, AcceptFinds DEF Accept, Goto, ListsAll, Uncopied, ListsNext, Calm, Known, Quiet
<1>26. ASSUME NEW t \in Threads, Begin(t) PROVE ListsAll'
  BY <1>26, BeginLists
<1>27. ASSUME NEW t \in Threads, End(t) PROVE ListsAll'
  BY <1>27 DEF End, Goto, ListsAll, Uncopied, ListsNext, OneThread
<1>28. CASE Crash
  BY <1>28 DEF Crash, Goto, ListsAll, Uncopied, ListsNext
<1>29. CASE UNCHANGED vars
  BY <1>29 DEF vars, Goto, ListsAll, Uncopied, ListsNext
<1> HIDE DEF ListsAll
<1> QED BY <1>1, <1>2, <1>3, <1>4, <1>5, <1>6, <1>7, <1>8, <1>9, <1>10, <1>11, <1>12, <1>13,
           <1>14, <1>15, <1>16, <1>17, <1>18, <1>19, <1>20, <1>21, <1>22, <1>23, <1>24,
           <1>25, <1>26, <1>27, <1>28, <1>29, NextCases, Zenon

\* A thread is created where there is memory for its handle.
HasHandle ==
  /\ \A s \in Services \ used : handle[s] # NULL
  /\ \A p \in Actors : pc[p] = "create" => handle[target[p]] # NULL

\* Who clears a handle is the only one at work, and is not about to create a thread.
LEMMA HandleStep ==
  TypeInv /\ OneActs /\ OneService /\ HasHandle /\ [Next]_vars => HasHandle'
<1> SUFFICES ASSUME TypeInv, OneActs, OneService, HasHandle, [Next]_vars PROVE HasHandle'
  OBVIOUS
<1> USE DEF TypeInv, TypeOK, HasHandle
<1>1. CASE Start
  BY <1>1 DEF Start, Goto
<1>2. CASE StartService
  BY <1>2 DEF StartService, NewThread, Goto
<1>3. CASE Started
  BY <1>3 DEF Started, Goto
<1>4. CASE StopConnectionAcceptance
  BY <1>4 DEF StopConnectionAcceptance
<1>5. CASE StartConnectionAcceptance
  BY <1>5 DEF StartConnectionAcceptance, Goto
<1>6. CASE StopClientService
  BY <1>6 DEF StopClientService, Goto
<1>7. CASE Clean
  BY <1>7 DEF Clean, Goto
<1>8. CASE Delete
  BY <1>8 DEF Delete, Goto
<1>9. CASE Forget
  BY <1>9 DEF Forget, Goto
<1>10. CASE StartClientService
  BY <1>10 DEF StartClientService, Goto
<1>11. CASE ServiceStarted
  BY <1>11 DEF ServiceStarted, Goto
<1>12. CASE Stop
  BY <1>12 DEF Stop, Goto
<1>13. CASE StopService
  BY <1>13 DEF StopService, Goto
<1>14. CASE Purge
  BY <1>14 DEF Purge, Goto
<1>15. CASE Destroy
  BY <1>15 DEF Destroy, Goto
<1>16. ASSUME NEW p \in Actors, Cancel(p) PROVE HasHandle'
  BY <1>16 DEF Cancel, Goto
<1>17. ASSUME NEW p \in Actors, Join(p) PROVE HasHandle'
  BY <1>17 DEF Join, Goto
<1>18. ASSUME NEW p \in Actors, Joined(p) PROVE HasHandle'
  <2>1. pc[p] = "wait" /\ target[p] \in used
    BY <1>18 DEF Joined, OneService, Busy
  <2>2. \A q \in Actors \ {p} : pc[q] \in Resting
    BY <2>1, OthersRest DEF Resting
  <2>3. \A q \in Actors : pc'[q] # "create"
    BY <1>18, <2>2 DEF Joined, Goto, Resting
  <2> QED BY <1>18, <2>1, <2>3 DEF Joined
<1>19. ASSUME NEW p \in Actors, Create(p) PROVE HasHandle'
  BY <1>19 DEF Create, NewThread, Goto
<1>20. ASSUME NEW m \in Managers, Open(m) PROVE HasHandle'
  BY <1>20 DEF Open, Goto
<1>21. ASSUME NEW m \in Managers, Update(m) PROVE HasHandle'
  BY <1>21 DEF Update, Goto
<1>22. ASSUME NEW m \in Managers, Listen(m) PROVE HasHandle'
  BY <1>22 DEF Listen, Goto
<1>23. ASSUME NEW m \in Managers, Add(m) PROVE HasHandle'
  BY <1>23 DEF Add, Goto
<1>24. ASSUME NEW m \in Managers, Added(m) PROVE HasHandle'
  BY <1>24 DEF Added, Goto
<1>25. ASSUME NEW m \in Managers, NEW c \in Clients, Accept(m, c) PROVE HasHandle'
  BY <1>25 DEF Accept, Goto
<1>26. ASSUME NEW t \in Threads, Begin(t) PROVE HasHandle'
  BY <1>26 DEF Begin
<1>27. ASSUME NEW t \in Threads, End(t) PROVE HasHandle'
  BY <1>27 DEF End
<1>28. CASE Crash
  BY <1>28 DEF Crash
<1>29. CASE UNCHANGED vars
  BY <1>29 DEF vars
<1> HIDE DEF HasHandle
<1> QED BY <1>1, <1>2, <1>3, <1>4, <1>5, <1>6, <1>7, <1>8, <1>9, <1>10, <1>11, <1>12, <1>13,
           <1>14, <1>15, <1>16, <1>17, <1>18, <1>19, <1>20, <1>21, <1>22, <1>23, <1>24,
           <1>25, <1>26, <1>27, <1>28, <1>29, NextCases, Zenon

\* Nothing Crash() stands for is the case.
LEMMA NoCrash ==
  ASSUME Calm, TypeInv, FlagsAgree, StopClears, OneActs, OneService, OneThread, HasHandle,
         ListsAll
  PROVE  ~Crash
<1> USE DEF TypeInv, TypeOK
<1>1. ASSUME NEW p \in Actors PROVE ~BadAccess(p)
  <2>1. CASE pc[p] \in {"cancel", "join", "wait", "add", "create"}
    <3>1. \A q \in Actors \ {p} : pc[q] \in Resting
      BY <2>1, OthersRest DEF Resting
    <3>2. client_service_ # NULL /\ target[p] = client_service_
      BY <2>1 DEF OneService, Busy
    <3>3. target[p] \in alive
      BY <2>1, <3>1, <3>2 DEF OneService, Resting
    <3>4. pc[p] \in {"cancel", "join"} => handle[target[p]] \in Threads
      BY <3>1, <3>2 DEF OneThread, Threadless, Resting
    <3>5. pc[p] = "create" => handle[target[p]] # NULL
      BY Zenon DEF HasHandle
    <3> QED BY <2>1, <3>3, <3>4, <3>5 DEF BadAccess
  <2>2. CASE pc[p] \in {"update", "listen"}
    <3>1. p \in Managers /\ pc[App] = "idle" /\ client_service_ # NULL
      BY <2>2 DEF OneActs, OneService, Busy, InStop
    <3> QED BY <2>2, <3>1 DEF BadAccess, DatabaseAlive, ServerAlive
  <2>3. CASE pc[p] = "open"
    <3>1. p \in Managers /\ pc[App] # "gone"
      BY <2>3 DEF OneActs, InStop, Quiet
    <3> QED BY <2>3, <3>1 DEF BadAccess, ServerAlive
  <2>4. ~(pc[p] = "accept" /\ ~ServerAlive /\ Overlap)
    BY Zenon DEF Calm
  <2> QED BY <2>1, <2>2, <2>3, <2>4 DEF BadAccess
<1>2. \A t \in Threads : tpc[t] \in {"start", "run"} => owner[t] \in alive
  BY DEF OneThread, Threadless, OneService
<1>3. pc[App] = "purge" => Len(db) <= 1
  BY DEF ListsAll, StopClears
<1>4. pc[App] = "clean" => IsInjective(list[target[App]]) /\ handle[target[App]] = NULL
  BY DEF ListsAll, OneService, OneThread, Uncopied
<1>5. pc[App] = "destroy" => connection_manager_ = NULL /\ client_service_ = NULL
  BY DEF StopClears
<1>6. ~ListenFails
  BY Zenon DEF Calm
<1>7. ASSUME Crash PROVE FALSE
  <2>1. \A p \in Actors : ~BadAccess(p)
    BY <1>1
  <2> QED BY <1>2, <1>3, <1>4, <1>5, <1>6, <1>7, <2>1 DEF Crash
<1> QED BY <1>7

CalmInv ==
  /\ TypeInv /\ FlagsAgree /\ StopClears
  /\ OneActs /\ OneService /\ OneThread /\ HasHandle /\ ListsAll
  /\ NoFault

LEMMA CalmInit == Init /\ Clear => CalmInv
<1> SUFFICES ASSUME Init, Clear PROVE CalmInv
  OBVIOUS
<1>1. TypeInv
  BY TypeInit
<1>2. FlagsAgree
  BY DEF Init, Clear, FlagsAgree, Halfway
<1>3. StopClears
  BY DEF Init, StopClears, InStop
<1>4. OneActs
  BY DEF Init, OneActs, Busy, Quiet
<1>5. OneService
  BY DEF Init, OneService, Busy
<1>6. OneThread
  BY DEF Init, OneThread, Threadless
<1>7. ListsAll
  BY InjectiveEmpty DEF Init, ListsAll, Uncopied, ListsNext
<1>8. HasHandle
  BY DEF Init, HasHandle
<1> QED BY <1>1, <1>2, <1>3, <1>4, <1>5, <1>6, <1>7, <1>8 DEF CalmInv, NoFault, Init

\* The invariant of the calm server is inductive.
LEMMA CalmStep == Calm /\ CalmInv /\ [Next]_vars => CalmInv'
<1> SUFFICES ASSUME Calm, CalmInv, [Next]_vars PROVE CalmInv'
  OBVIOUS
<1>1. /\ TypeInv' /\ FlagsAgree' /\ StopClears'
      /\ OneActs' /\ OneService' /\ OneThread' /\ HasHandle' /\ ListsAll'
  BY TypeStep, FlagsStep, StopClearsStep, ActsStep, ServiceStep, ThreadsStep, HandleStep,
     ListsStep, Zenon
     DEF CalmInv
<1>2. ~Crash
  BY NoCrash, Zenon DEF CalmInv
<1>3. NoFault'
  <2>1. fault' = fault
    BY <1>2, NextCases DEF Start, StartService, Started, StopConnectionAcceptance,
       StartConnectionAcceptance, StopClientService, Clean, Delete, Forget, StartClientService,
       ServiceStarted, Stop, StopService, Purge, Destroy, Cancel, Join, Joined, Create, Open,
       Update, Listen, Add, Added, Accept, Begin, End, vars
  <2> QED BY <2>1 DEF CalmInv, NoFault
<1> QED BY <1>1, <1>3, Zenon DEF CalmInv

LEMMA CalmAlways == ASSUME Calm PROVE Spec => []CalmInv
<1>1. Clear
  BY Zenon DEF Calm
<1>2. Init => CalmInv
  BY <1>1, CalmInit
<1>3. CalmInv /\ [Next]_vars => CalmInv'
  BY CalmStep
<1> QED BY <1>2, <1>3, PTL DEF Spec

\* Where calls and connections do not overlap, and sleep(1) suffices, no
\* thread uses what was freed, no handle names nothing, no assertion fails,
\* whatever the application calls in whatever order.
THEOREM FaultFree == ASSUME Calm PROVE Spec => []NoFault
<1>1. CalmInv => NoFault
  BY DEF CalmInv
<1> QED BY <1>1, CalmAlways, PTL

\* And between calls the server serves every client it knows, once: neither
\* AddClient() nor StopClientService() and StartClientService() lose one.
THEOREM EveryClientServed == ASSUME Calm PROVE Spec => []ServesEveryClient
<1>1. CalmInv => ServesEveryClient
  <2> SUFFICES ASSUME CalmInv, Idle, Quiet, NEW t \in Threads, Serves(t, client_service_)
               PROVE  /\ ToSet(list[client_service_]) = ToSet(db)
                      /\ IsInjective(list[client_service_])
    BY DEF ServesEveryClient
  <2>1. client_service_ # NULL
    BY DEF CalmInv, OneThread, Threadless, Serves
  <2>2. ~Uncopied
    BY DEF Idle, Uncopied
  <2>3. \A m \in Managers : pc[m] \notin ListsNext
    BY DEF Quiet, ListsNext
  <2> QED BY <2>1, <2>2, <2>3 DEF CalmInv, ListsAll, Idle
<1> QED BY <1>1, CalmAlways, PTL

\* And the one thread there is, if a service is on, is the one its handle names:
\* StopThread() cancels the thread that runs.
THEOREM HandleNamesThread == ASSUME Calm PROVE Spec => []ServiceHasItsThread
<1>1. CalmInv => ServiceHasItsThread
  <2> SUFFICES ASSUME CalmInv, Idle, Quiet, NEW t \in Threads
               PROVE  tpc[t] \in {"start", "run"} <=>
                        client_service_ # NULL /\ t = handle[client_service_]
    BY DEF ServiceHasItsThread
  <2>1. tpc[t] # "done"
    BY DEF CalmInv, OneThread, Waits, Idle, Quiet
  <2>2. client_service_ # NULL => ~Threadless
    BY DEF Threadless, Idle, Quiet
  <2> QED BY <2>1, <2>2 DEF CalmInv, OneThread, Threadless, TypeInv, TypeOK
<1> QED BY <1>1, CalmAlways, PTL

-----------------------------------------------------------------------------
(* The server implements ControlPlane. *)

\* Whom the running threads serve.
Serving == UNION {ToSet(list[owner[t]]) : t \in {u \in Threads : tpc[u] = "run"}}

LEMMA NobodyServed ==
  ASSUME \A t \in Threads : tpc[t] # "run" PROVE Serving = {}
BY DEF Serving

LEMMA OneServes ==
  ASSUME TypeInv, OneThread, NEW t \in Threads, tpc[t] = "run"
  PROVE  Serving = ToSet(list[client_service_])
<1>1. \A u \in Threads : tpc[u] = "run" => u = t
  BY DEF OneThread
<1>2. owner[t] = client_service_
  BY DEF OneThread
<1> QED BY <1>1, <1>2 DEF Serving

\* The abstract state is as it was.
LEMMA Stutters ==
  ASSUME db' = db, Serving' = Serving, client_service_' = client_service_,
         DatabaseAlive' <=> DatabaseAlive
  PROVE  UNCHANGED Plane!vars
<1>1. (client_service_ # NULL)' = (client_service_ # NULL)
  BY Zenon
<1>2. (~DatabaseAlive)' = (~DatabaseAlive)
  BY Zenon
<1> QED BY <1>1, <1>2, Zenon DEF Plane!vars, Serving

LEMMA Meets ==
  ASSUME NEW c \in Clients, client_service_ # NULL, c \notin ToSet(db),
         ToSet(db') = ToSet(db) \cup {c}, Serving' = Serving,
         client_service_' = client_service_, DatabaseAlive' <=> DatabaseAlive
  PROVE  Plane!Next
<1>1. (client_service_ # NULL)' = (client_service_ # NULL)
  BY Zenon
<1>2. (~DatabaseAlive)' = (~DatabaseAlive)
  BY Zenon
<1>3. ToSet(db)' = ToSet(db')
  BY DEF ToSet
<1>4. Plane!Meet(c)
  BY <1>1, <1>2, <1>3, Zenon DEF Plane!Meet, Serving
<1> QED BY <1>4, Zenon DEF Plane!Next

LEMMA Interrupts ==
  ASSUME db' = db, Serving' = {}, client_service_' = client_service_,
         DatabaseAlive' <=> DatabaseAlive
  PROVE  [Plane!Next]_Plane!vars
<1>1. (client_service_ # NULL)' = (client_service_ # NULL)
  BY Zenon
<1>2. (~DatabaseAlive)' = (~DatabaseAlive)
  BY Zenon
<1>3. CASE Serving = {}
  BY <1>3, Stutters, Zenon
<1>4. CASE Serving # {}
  <2>1. Plane!Interrupt
    BY <1>1, <1>2, <1>4, Zenon DEF Plane!Interrupt, Serving
  <2> QED BY <2>1, Zenon DEF Plane!Next
<1> QED BY <1>3, <1>4, Zenon

LEMMA Resumes ==
  ASSUME db' = db, Serving = {}, Serving' = ToSet(db), client_service_ # NULL,
         client_service_' = client_service_, DatabaseAlive' <=> DatabaseAlive
  PROVE  Plane!Next
<1>1. (client_service_ # NULL)' = (client_service_ # NULL)
  BY Zenon
<1>2. (~DatabaseAlive)' = (~DatabaseAlive)
  BY Zenon
<1>3. Plane!Resume
  BY <1>1, <1>2, Zenon DEF Plane!Resume, Serving
<1> QED BY <1>3, Zenon DEF Plane!Next

LEMMA StopsListening ==
  ASSUME db' = db, Serving = {}, Serving' = {}, client_service_ # NULL,
         client_service_' = NULL, DatabaseAlive' <=> DatabaseAlive
  PROVE  Plane!Next
<1>1. (~DatabaseAlive)' = (~DatabaseAlive)
  BY Zenon
<1>2. (client_service_ # NULL)' = FALSE
  BY Zenon
<1>3. Plane!StopListening
  BY <1>1, <1>2, Zenon DEF Plane!StopListening, Serving
<1> QED BY <1>3, Zenon DEF Plane!Next

LEMMA StartsListening ==
  ASSUME db' = db, Serving = {}, Serving' = {}, client_service_ = NULL,
         client_service_' # NULL, DatabaseAlive', DatabaseAlive
  PROVE  Plane!Next
<1>1. (~DatabaseAlive)' = (~DatabaseAlive)
  BY Zenon
<1>2. (client_service_ # NULL)' = TRUE
  BY Zenon
<1>3. Plane!StartListening
  BY <1>1, <1>2, Zenon DEF Plane!StartListening, Serving
<1> QED BY <1>3, Zenon DEF Plane!Next

LEMMA Stops ==
  ASSUME ToSet(db') = {}, Serving' = Serving, client_service_ = NULL,
         client_service_' = NULL, ~(DatabaseAlive'), DatabaseAlive
  PROVE  Plane!Next
<1>1. (client_service_ # NULL)' = (client_service_ # NULL)
  BY Zenon
<1>2. (~DatabaseAlive)' = TRUE
  BY Zenon
<1>3. ToSet(db)' = {}
  BY DEF ToSet
<1>4. Plane!Stop
  BY <1>1, <1>2, <1>3, Zenon DEF Plane!Stop, Serving
<1> QED BY <1>4, Zenon DEF Plane!Next

\* The steps that change nothing ControlPlane speaks of.
LEMMA Untouched ==
  ASSUME UNCHANGED <<db, client_service_, list, owner, tpc>>, DatabaseAlive' <=> DatabaseAlive
  PROVE  [Plane!Next]_Plane!vars
<1>1. Serving' = Serving
  BY DEF Serving
<1> QED BY <1>1, Stutters, Zenon

LEMMA NoThreadLeft ==
  ASSUME OneThread', Threadless' PROVE Serving' = {}
<1>1. \A t \in Threads : tpc'[t] # "run"
  BY DEF OneThread
<1> QED BY <1>1 DEF Serving

LEMMA NoThreadYet ==
  ASSUME OneThread, Threadless PROVE Serving = {} /\ \A t \in Threads : tpc[t] = "free"
BY NobodyServed DEF OneThread

LEMMA NewThreadServesNobody ==
  ASSUME TypeInv, OneThread, Threadless, NEW s, NewThread(s) PROVE Serving' = {}
<1>1. \A t \in Threads : tpc'[t] # "run"
  BY NoThreadYet DEF NewThread, TypeInv, TypeOK
<1> QED BY <1>1 DEF Serving

LEMMA PlaneStartService ==
  ASSUME CalmInv, StartService PROVE [Plane!Next]_Plane!vars
<1>1. pc[App] = "start_service" /\ NewThread(client_service_) /\ pc'[App] = "started"
      /\ db' = db /\ client_service_' = client_service_
  BY DEF StartService, Goto, CalmInv, TypeInv, TypeOK
<1>2. Serving' = {}
  BY <1>1, NewThreadServesNobody DEF CalmInv, Threadless
<1> QED BY <1>1, <1>2, Interrupts DEF DatabaseAlive

LEMMA PlaneCreate ==
  ASSUME CalmInv, NEW p \in Actors, Create(p) PROVE [Plane!Next]_Plane!vars
<1>1. /\ pc[p] = "create" /\ NewThread(target[p]) /\ pc'[p] = "created"
      /\ \A q \in Actors \ {p} : pc'[q] = pc[q]
      /\ db' = db /\ client_service_' = client_service_
  BY DEF Create, Goto, CalmInv, TypeInv, TypeOK
<1>2. Threadless
  BY <1>1 DEF Threadless
<1>3. Serving' = {}
  BY <1>1, <1>2, NewThreadServesNobody DEF CalmInv
<1>4. DatabaseAlive' <=> DatabaseAlive
  BY <1>1 DEF DatabaseAlive
<1> QED BY <1>1, <1>3, <1>4, Interrupts

LEMMA PlaneForget ==
  ASSUME CalmInv, CalmInv', Forget PROVE [Plane!Next]_Plane!vars
<1>1. /\ pc[App] = "forget" /\ pc'[App] \in {"purge", "idle"}
      /\ db' = db /\ client_service_' = NULL
  BY DEF Forget, Goto, CalmInv, TypeInv, TypeOK
<1>2. client_service_ # NULL /\ Threadless /\ Threadless'
  BY <1>1 DEF CalmInv, OneService, Busy, Threadless
<1>3. Serving = {} /\ Serving' = {}
  BY <1>2, NoThreadYet, NoThreadLeft DEF CalmInv
<1>4. DatabaseAlive' <=> DatabaseAlive
  BY <1>1 DEF DatabaseAlive
<1> QED BY <1>1, <1>2, <1>3, <1>4, StopsListening

LEMMA PlaneStartClientService ==
  ASSUME Calm, CalmInv, CalmInv', StartClientService PROVE [Plane!Next]_Plane!vars
<1>1. pc[App] = "idle" /\ "NOT_LISTENING" \in state /\ pc'[App] = "create" /\ db' = db
      /\ client_service_' \in Services
  BY CallsFind DEF StartClientService, Goto, Calm, CalmInv, TypeInv, TypeOK
<1>2. client_service_ = NULL /\ client_service_' # NULL
  BY <1>1 DEF CalmInv, FlagsAgree, Halfway
<1>3. Threadless /\ Threadless'
  BY <1>1, <1>2 DEF Threadless
<1>4. Serving = {} /\ Serving' = {}
  BY <1>3, NoThreadYet, NoThreadLeft DEF CalmInv
<1>5. DatabaseAlive' /\ DatabaseAlive
  BY <1>1 DEF DatabaseAlive
<1> QED BY <1>1, <1>2, <1>4, <1>5, StartsListening

LEMMA PlanePurge ==
  ASSUME CalmInv, Purge PROVE [Plane!Next]_Plane!vars
<1>1. /\ pc[App] = "purge" /\ pc'[App] = "destroy" /\ db' = <<>>
      /\ UNCHANGED <<client_service_, list, owner, tpc>>
  BY DEF Purge, Goto, CalmInv, TypeInv, TypeOK
<1>2. client_service_ = NULL /\ client_service_' = NULL
  BY <1>1 DEF CalmInv, StopClears
<1>3. Serving' = Serving
  BY <1>1 DEF Serving
<1>4. DatabaseAlive /\ ~(DatabaseAlive')
  BY <1>1 DEF DatabaseAlive
<1>5. ToSet(db') = {}
  BY <1>1, InjectiveEmpty
<1> QED BY <1>2, <1>3, <1>4, <1>5, Stops

LEMMA PlaneUpdate ==
  ASSUME CalmInv, NEW m \in Managers, Update(m) PROVE [Plane!Next]_Plane!vars
<1>1. /\ pc[m] = "update" /\ pc'[App] = pc[App] /\ db' = Append(db, adding[m])
      /\ UNCHANGED <<client_service_, list, owner, tpc>>
  BY DEF Update, Goto, CalmInv, TypeInv, TypeOK
<1>2. adding[m] \in Clients /\ adding[m] \notin ToSet(db) /\ db \in Seq(Clients)
  BY <1>1 DEF CalmInv, TypeInv, TypeOK, AddsClient, AddingAt, ListsAll
<1>3. ToSet(db') = ToSet(db) \cup {adding[m]}
  BY <1>1, <1>2, ToSetAppend
<1>4. client_service_ # NULL
  BY <1>1 DEF CalmInv, OneService, Busy
<1>5. Serving' = Serving
  BY <1>1 DEF Serving
<1>6. DatabaseAlive' <=> DatabaseAlive
  BY <1>1 DEF DatabaseAlive
<1> QED BY <1>1, <1>2, <1>3, <1>4, <1>5, <1>6, Meets

LEMMA PlaneBegin ==
  ASSUME CalmInv, CalmInv', NEW t \in Threads, Begin(t) PROVE [Plane!Next]_Plane!vars
<1>1. /\ tpc[t] = "start" /\ tpc' = [tpc EXCEPT ![t] = "run"]
      /\ UNCHANGED <<db, client_service_, handle, owner, pc>>
  BY DEF Begin
<1>2. /\ \A u \in Threads \ {t} : tpc[u] = "free" /\ tpc'[u] = "free"
      /\ tpc'[t] = "run"
      /\ owner[t] = client_service_ /\ t = handle[client_service_] /\ client_service_ # NULL
  BY <1>1 DEF CalmInv, OneThread, Threadless, TypeInv, TypeOK
<1>3. Serving = {}
  BY <1>1, <1>2, NobodyServed
<1>4. Serving' = ToSet(list'[client_service_])
  BY <1>1, <1>2 DEF Serving
<1>5. PICK p \in Actors : pc[p] \in {"started", "created"}
  BY <1>1 DEF CalmInv, OneThread
<1>6. \A q \in Actors \ {p} : pc[q] \in Resting
  BY <1>5, OthersRest DEF CalmInv, Resting
<1>7. /\ ~(Uncopied') /\ \A m \in Managers : pc'[m] \notin ListsNext
      /\ pc'[App] \notin {"delete", "forget"} /\ client_service_' # NULL
  BY <1>1, <1>2, <1>5, <1>6 DEF Uncopied, ListsNext, Resting
<1>8. ToSet(list'[client_service_]) = ToSet(db)
  BY <1>1, <1>7 DEF CalmInv, ListsAll
<1>9. DatabaseAlive' <=> DatabaseAlive
  BY <1>1 DEF DatabaseAlive
<1> QED BY <1>1, <1>2, <1>3, <1>4, <1>8, <1>9, Resumes

LEMMA PlaneEnd ==
  ASSUME CalmInv, NEW t \in Threads, End(t) PROVE [Plane!Next]_Plane!vars
<1>1. /\ tpc[t] # "free" /\ tpc' = [tpc EXCEPT ![t] = "done"]
      /\ UNCHANGED <<db, client_service_, list, owner, pc>>
  BY DEF End
<1>2. \A u \in Threads : tpc'[u] # "run"
  BY <1>1 DEF CalmInv, OneThread, TypeInv, TypeOK
<1>3. Serving' = {}
  BY <1>2 DEF Serving
<1>4. DatabaseAlive' <=> DatabaseAlive
  BY <1>1 DEF DatabaseAlive
<1> QED BY <1>1, <1>3, <1>4, Interrupts

\* Every step is one of ControlPlane, or none.
LEMMA PlaneStep == Calm /\ CalmInv /\ CalmInv' /\ [Next]_vars => [Plane!Next]_Plane!vars
<1> SUFFICES ASSUME Calm, CalmInv, CalmInv', [Next]_vars PROVE [Plane!Next]_Plane!vars
  OBVIOUS
<1>1. CASE Start
  BY <1>1, Untouched, StartEffect DEF DatabaseAlive, CalmInv
<1>2. CASE StartService
  BY <1>2, PlaneStartService
<1>3. CASE Started
  BY <1>3, Untouched DEF Started, Goto, DatabaseAlive
<1>4. CASE StopConnectionAcceptance
  BY <1>4, Untouched DEF StopConnectionAcceptance, DatabaseAlive
<1>5. CASE StartConnectionAcceptance
  BY <1>5, Untouched DEF StartConnectionAcceptance, Calls, Goto, DatabaseAlive
<1>6. CASE StopClientService
  BY <1>6, Untouched DEF StopClientService, Calls, Goto, DatabaseAlive
<1>7. CASE Clean
  BY <1>7, Interrupts, NoThreadLeft DEF Clean, Goto, DatabaseAlive, CalmInv, Threadless
<1>8. CASE Delete
  BY <1>8, Untouched DEF Delete, Goto, DatabaseAlive
<1>9. CASE Forget
  BY <1>9, PlaneForget
<1>10. CASE StartClientService
  BY <1>10, PlaneStartClientService
<1>11. CASE ServiceStarted
  BY <1>11, Untouched DEF ServiceStarted, Goto, DatabaseAlive
<1>12. CASE Stop
  BY <1>12, Untouched DEF Stop, Calls, Goto, DatabaseAlive
<1>13. CASE StopService
  BY <1>13, Untouched, StopServiceEffect DEF DatabaseAlive, CalmInv
<1>14. CASE Purge
  BY <1>14, PlanePurge
<1>15. CASE Destroy
  BY <1>15, Untouched DEF Destroy, Goto, DatabaseAlive
<1>16. ASSUME NEW p \in Actors, Cancel(p) PROVE [Plane!Next]_Plane!vars
  BY <1>16, Untouched DEF Cancel, Goto, DatabaseAlive
<1>17. ASSUME NEW p \in Actors, Join(p) PROVE [Plane!Next]_Plane!vars
  BY <1>17, Untouched DEF Join, Goto, DatabaseAlive
<1>18. ASSUME NEW p \in Actors, Joined(p) PROVE [Plane!Next]_Plane!vars
  BY <1>18, Interrupts, NoThreadLeft DEF Joined, Goto, DatabaseAlive, CalmInv, Threadless,
     TypeInv, TypeOK
<1>19. ASSUME NEW p \in Actors, Create(p) PROVE [Plane!Next]_Plane!vars
  BY <1>19, PlaneCreate
<1>20. ASSUME NEW m \in Managers, Open(m) PROVE [Plane!Next]_Plane!vars
  BY <1>20, Untouched DEF Open, Goto, DatabaseAlive
<1>21. ASSUME NEW m \in Managers, Update(m) PROVE [Plane!Next]_Plane!vars
  BY <1>21, PlaneUpdate
<1>22. ASSUME NEW m \in Managers, Listen(m) PROVE [Plane!Next]_Plane!vars
  BY <1>22, Untouched DEF Listen, Goto, DatabaseAlive
<1>23. ASSUME NEW m \in Managers, Add(m) PROVE [Plane!Next]_Plane!vars
  BY <1>23, Interrupts, NoThreadLeft DEF Add, Goto, DatabaseAlive, CalmInv, Threadless,
     OneService, Busy, AddsClient, AddingAt
<1>24. ASSUME NEW m \in Managers, Added(m) PROVE [Plane!Next]_Plane!vars
  BY <1>24, Untouched DEF Added, Goto, DatabaseAlive
<1>25. ASSUME NEW m \in Managers, NEW c \in Clients, Accept(m, c) PROVE [Plane!Next]_Plane!vars
  BY <1>25, Untouched DEF Accept, Goto, DatabaseAlive
<1>26. ASSUME NEW t \in Threads, Begin(t) PROVE [Plane!Next]_Plane!vars
  BY <1>26, PlaneBegin
<1>27. ASSUME NEW t \in Threads, End(t) PROVE [Plane!Next]_Plane!vars
  BY <1>27, PlaneEnd
<1>28. CASE Crash
  BY <1>28, NoCrash DEF CalmInv
<1>29. CASE UNCHANGED vars
  BY <1>29, Untouched DEF vars, DatabaseAlive
<1> QED BY <1>1, <1>2, <1>3, <1>4, <1>5, <1>6, <1>7, <1>8, <1>9, <1>10, <1>11, <1>12, <1>13,
           <1>14, <1>15, <1>16, <1>17, <1>18, <1>19, <1>20, <1>21, <1>22, <1>23, <1>24,
           <1>25, <1>26, <1>27, <1>28, <1>29, NextCases, Zenon

\* Told without threads, handles and lists, the server does what ControlPlane
\* says: a client is known from the time it was accepted, is served whenever a
\* service thread waits, and nobody is served while the service is stopped.
THEOREM Implements == ASSUME Calm PROVE Spec => Plane!Spec
<1>1. Clear
  BY Zenon DEF Calm
<1>2. Init => Plane!Init
  <2> SUFFICES ASSUME Init PROVE Plane!Init
    OBVIOUS
  <2>1. ToSet(db) = {} /\ client_service_ # NULL /\ DatabaseAlive
    BY InjectiveEmpty DEF Init, DatabaseAlive
  <2>2. Serving = {}
    BY NobodyServed DEF Init
  <2>3. (client_service_ # NULL) = TRUE /\ (~DatabaseAlive) = FALSE
    BY <2>1, Zenon
  <2> QED BY <2>1, <2>2, <2>3, Zenon DEF Plane!Init, Serving
<1>3. CalmInv /\ CalmInv' /\ [Next]_vars => [Plane!Next]_Plane!vars
  BY PlaneStep
<1> QED BY <1>2, <1>3, CalmAlways, PTL DEF Spec, Plane!Spec
=============================================================================
