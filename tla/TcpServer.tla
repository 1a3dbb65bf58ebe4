------------------------------ MODULE TcpServer ------------------------------
(***************************************************************************)
(* The control plane of the TCP server: the application's thread calling   *)
(* the methods of TcpServer (tcp_server.cpp), the connection managers'     *)
(* threads adding clients (connection_manager.cpp), the client services    *)
(* and their threads coming and going (client_service.cpp) and the client  *)
(* database (client_db.cpp).  No lock protects anything here but the       *)
(* database.  What a service thread does while it runs is in module        *)
(* ClientService; here it merely runs until it is cancelled.               *)
(*                                                                         *)
(* "actor" is the application or a connection manager's thread: both run   *)
(* ClientService::StopThread() and StartThread(), on any service they      *)
(* reach.  Using memory that was freed, or a null or zero handle, ends the *)
(* process.                                                                *)
(***************************************************************************)
EXTENDS Naturals, Sequences, SequencesExt

CONSTANTS
  Clients,        \* connections that arrive
  Managers,       \* ConnectionManager objects: bounds how many are made
  Services,       \* ClientService objects: bounds how many are made
  Threads,        \* service threads' identifiers
  App,            \* the application's thread
  NULL,
  Zero,           \* a handle in zeroed memory: it names no thread
  Garbage,        \* sets of flags an uninitialized TcpServer::state may hold
  Overlap,        \* whether connections arrive while a method runs, and when
                  \* no service is there
  SleepSuffices,  \* whether a new thread is under way when sleep(1) returns
  ListenFails,    \* whether a manager may find no port to listen on
  PurgeLimit      \* without Overlap: clients in the database when Stop() is called

ASSUME ActorsAssumption ==
  /\ App \notin Managers /\ NULL # Zero
  /\ {NULL, Zero} \cap (Managers \cup Services \cup Threads) = {}
ASSUME SwitchesAssumption ==
  {Overlap, SleepSuffices, ListenFails} \subseteq BOOLEAN /\ PurgeLimit \in Nat

Actors == Managers \cup {App}
Flags  == {"RUNNING", "NOT_ACCEPTING", "NOT_LISTENING"}

ASSUME GarbageAssumption == Garbage \subseteq SUBSET Flags

VARIABLES
  state,                \* TcpServer::state
  connection_manager_,  \* TcpServer::connection_manager_
  client_service_,      \* TcpServer::client_service_
  db,                   \* ClientDB::clients_
  alive,                \* services constructed and not deleted
  used,                 \* managers and services constructed so far
  list,                 \* ClientService::clients_ of each service
  handle,               \* ClientService::thread: NULL, Zero, or the
                        \* thread it names
  tpc, owner,           \* where each service thread is, and its service
  cancelled,            \* threads with a cancellation request pending
  pc,                   \* where each actor is
  target,               \* the service it works on
  joining,              \* the thread it waits for
  adding,               \* the client a manager is adding
  stopping,             \* the application is inside Stop()
  fault                 \* why the process died

server   == <<state, connection_manager_, client_service_, db>>
services == <<alive, used, list, handle>>
threads  == <<tpc, owner, cancelled>>
actors   == <<target, joining, adding, stopping>>
vars     == <<server, services, threads, pc, actors, fault>>

TypeOK ==
  /\ state \subseteq Flags
  /\ connection_manager_ \in Managers \cup {NULL}
  /\ client_service_ \in Services \cup {NULL}
  /\ db \in Seq(Clients)
  /\ alive \subseteq Services
  /\ used \subseteq Managers \cup Services
  /\ list \in [Services -> Seq(Clients)]
  /\ handle \in [Services -> Threads \cup {NULL, Zero}]
  /\ tpc \in [Threads -> {"free", "start", "run", "done"}]
  /\ owner \in [Threads -> Services]
  /\ cancelled \subseteq Threads
  /\ pc \in [Actors -> {"none", "open", "accept", "update", "listen", "add",
                        "new", "start_service", "started", "idle", "clean", "delete",
                        "forget", "stop_service", "purge", "destroy", "gone",
                        "cancel", "join", "wait", "create", "created"}]
  /\ target \in [Actors -> Services \cup {NULL}]
  /\ joining \in [Actors -> Threads \cup {NULL}]
  /\ adding \in [Managers -> Clients \cup {NULL}]
  /\ stopping \in BOOLEAN
  /\ fault \in {"none", "exit", "memory", "assert_thread", "assert_destructor"}

\* The constructor of TcpServer: one manager, one service whose handle is
\* zeroed memory, and SetBit() on a state that holds anything.
Init ==
  /\ state \in Garbage
  /\ connection_manager_ \in Managers
  /\ client_service_ \in Services
  /\ db = <<>>
  /\ alive = {client_service_}
  /\ used = {connection_manager_, client_service_}
  /\ list = [s \in Services |-> <<>>]
  /\ handle = [s \in Services |-> Zero]
  /\ tpc = [t \in Threads |-> "free"]
  /\ owner = [t \in Threads |-> client_service_]
  /\ cancelled = {}
  /\ pc = [p \in Actors |-> IF p = App THEN "new" ELSE "none"]
  /\ target = [p \in Actors |-> NULL]
  /\ joining = [p \in Actors |-> NULL]
  /\ adding = [m \in Managers |-> NULL]
  /\ stopping = FALSE
  /\ fault = "none"

Goto(p, label) == pc' = [pc EXCEPT ![p] = label]

\* TcpServer::Stop() frees the database, then the server.
ServerAlive   == pc[App] # "gone"
DatabaseAlive == pc[App] \notin {"destroy", "gone"}

\* No connection is being added, no manager's thread is on its way to accept().
Quiet == \A m \in Managers : pc[m] \in {"none", "accept"}

-----------------------------------------------------------------------------
(* ClientService::StopThread() and StartThread(), by any actor.            *)

\* Mutant: the thread is only waited for.
Cancel_NoRequest(p) ==
  /\ pc[p] = "cancel"
  /\ target[p] \in alive
  /\ handle[target[p]] \in Threads
  /\ Goto(p, "join")
  /\ UNCHANGED <<server, services, threads, actors, fault>>

\* pthread_cancel(*thread)
Cancel(p) ==
  /\ pc[p] = "cancel"
  /\ target[p] \in alive
  /\ handle[target[p]] \in Threads
  /\ cancelled' = cancelled \cup {handle[target[p]]}
  /\ Goto(p, "join")
  /\ UNCHANGED <<server, services, tpc, owner, actors, fault>>

\* Mutant: whatever the handle holds is joined.
Join_AnyHandle(p) ==
  /\ pc[p] = "join"
  /\ target[p] \in alive
  /\ joining' = [joining EXCEPT ![p] = handle[target[p]]]
  /\ Goto(p, "wait")
  /\ UNCHANGED <<server, services, threads, target, adding, stopping, fault>>

\* The call of pthread_join(*thread).
Join(p) ==
  /\ pc[p] = "join"
  /\ target[p] \in alive
  /\ handle[target[p]] \in Threads
  /\ joining' = [joining EXCEPT ![p] = handle[target[p]]]
  /\ Goto(p, "wait")
  /\ UNCHANGED <<server, services, threads, target, adding, stopping, fault>>

\* pthread_join() returns when the thread has ended, and at once when another
\* actor waits for it already; the handle is freed and cleared.
Joined(p) ==
  /\ pc[p] = "wait"
  /\ target[p] \in alive
  /\ \E t \in Threads :
       /\ joining[p] = t
       /\ \/ tpc[t] \in {"done", "free"} /\ tpc' = [tpc EXCEPT ![t] = "free"]
          \/ (\E q \in Actors \ {p} : joining[q] = t) /\ UNCHANGED tpc
  /\ handle' = [handle EXCEPT ![target[p]] = NULL]
  /\ joining' = [joining EXCEPT ![p] = NULL]
  /\ Goto(p, IF p = App THEN "clean" ELSE "add")
  /\ UNCHANGED <<server, alive, used, list, owner, cancelled, target, adding, stopping, fault>>

\* Mutant: the new thread's identifier is not stored.
NewThread_LosesHandle(s) ==
  \E t \in Threads :
    /\ tpc[t] = "free"
    /\ tpc' = [tpc EXCEPT ![t] = "start"]
    /\ owner' = [owner EXCEPT ![t] = s]
    /\ cancelled' = cancelled \ {t}
    /\ UNCHANGED handle

\* pthread_create() on the service s; the caller then sleeps.
NewThread(s) ==
  \E t \in Threads :
    /\ tpc[t] = "free"
    /\ tpc' = [tpc EXCEPT ![t] = "start"]
    /\ owner' = [owner EXCEPT ![t] = s]
    /\ cancelled' = cancelled \ {t}
    /\ handle' = [handle EXCEPT ![s] = t]

Create(p) ==
  /\ pc[p] = "create"
  /\ target[p] \in alive
  /\ handle[target[p]] # NULL
  /\ NewThread(target[p])
  /\ Goto(p, "created")
  /\ UNCHANGED <<server, alive, used, list, actors, fault>>

\* sleep(1) is over: what the new thread has done by then, nothing says.
Slept(s) == SleepSuffices => \A t \in Threads : owner[t] = s => tpc[t] # "start"

-----------------------------------------------------------------------------
(* A service thread.                                                       *)

\* Mutant: the clients are not fetched from the database.
Begin_NoCopy(t) ==
  /\ tpc[t] = "start"
  /\ owner[t] \in alive
  /\ tpc' = [tpc EXCEPT ![t] = "run"]
  /\ UNCHANGED <<server, services, owner, cancelled, pc, actors, fault>>

\* The thread starts: it asks whether the clients are to be fetched from the
\* database, then derives its descriptor sets from the list.
Begin(t) ==
  /\ tpc[t] = "start"
  /\ owner[t] \in alive
  /\ list' = IF "NOT_LISTENING" \in state THEN [list EXCEPT ![owner[t]] = @ \o db] ELSE list
  /\ tpc' = [tpc EXCEPT ![t] = "run"]
  /\ UNCHANGED <<server, alive, used, handle, owner, cancelled, pc, actors, fault>>

\* It is cancelled where it waits, or where CopyClients() prints.
End(t) ==
  /\ t \in cancelled
  /\ tpc[t] = "run" \/ (tpc[t] = "start" /\ "NOT_LISTENING" \in state)
  /\ tpc' = [tpc EXCEPT ![t] = "done"]
  /\ cancelled' = cancelled \ {t}
  /\ UNCHANGED <<server, services, owner, pc, actors, fault>>

-----------------------------------------------------------------------------
(* A connection manager's thread: ConnectionManager::StartThreadInternal(). *)

Known == ToSet(db) \cup {adding[m] : m \in Managers}

\* The socket is given its address and listens: the thread reads the server's.
Open(m) ==
  /\ pc[m] = "open"
  /\ ServerAlive
  /\ Goto(m, "accept")
  /\ UNCHANGED <<server, services, threads, actors, fault>>

\* accept() returned c; the application's listener may have been told of it.
Accept(m, c) ==
  /\ pc[m] = "accept"
  /\ ServerAlive
  /\ c \notin Known
  /\ ~Overlap => Quiet /\ pc[App] = "idle" /\ client_service_ # NULL
  /\ adding' = [adding EXCEPT ![m] = c]
  /\ Goto(m, "update")
  /\ UNCHANGED <<server, services, threads, target, joining, stopping, fault>>

\* Mutant: the client goes to the service only.
Update_Forgets(m) ==
  /\ pc[m] = "update"
  /\ DatabaseAlive
  /\ Goto(m, "listen")
  /\ UNCHANGED <<server, services, threads, actors, fault>>

\* TcpServer::AddClient(): ClientDB::Update(), then ClientService::Listen().
Update(m) ==
  /\ pc[m] = "update"
  /\ DatabaseAlive
  /\ db' = Append(db, adding[m])
  /\ Goto(m, "listen")
  /\ UNCHANGED <<state, connection_manager_, client_service_, services, threads, actors, fault>>

Listen(m) ==
  /\ pc[m] = "listen"
  /\ ServerAlive
  /\ client_service_ # NULL
  /\ target' = [target EXCEPT ![m] = client_service_]
  /\ Goto(m, "cancel")
  /\ UNCHANGED <<server, services, threads, joining, adding, stopping, fault>>

Add(m) ==
  /\ pc[m] = "add"
  /\ target[m] \in alive
  /\ list' = [list EXCEPT ![target[m]] = Append(@, adding[m])]
  /\ handle' = [handle EXCEPT ![target[m]] = Zero]
  /\ Goto(m, "create")
  /\ UNCHANGED <<server, alive, used, threads, actors, fault>>

Added(m) ==
  /\ pc[m] = "created"
  /\ Slept(target[m])
  /\ adding' = [adding EXCEPT ![m] = NULL]
  /\ Goto(m, "accept")
  /\ UNCHANGED <<server, services, threads, target, joining, stopping, fault>>

-----------------------------------------------------------------------------
(* The application's thread.                                               *)

\* TcpServer::Start(): the manager's thread first, then the service's.
Start ==
  /\ pc[App] = "new"
  /\ pc' = [pc EXCEPT ![App] = "start_service", ![connection_manager_] = "open"]
  /\ UNCHANGED <<server, services, threads, actors, fault>>

StartService ==
  /\ pc[App] = "start_service"
  /\ NewThread(client_service_)
  /\ Goto(App, "started")
  /\ UNCHANGED <<server, alive, used, list, actors, fault>>

Started ==
  /\ pc[App] = "started"
  /\ Slept(client_service_)
  /\ state' = state \cup {"RUNNING"}
  /\ Goto(App, "idle")
  /\ UNCHANGED <<connection_manager_, client_service_, db, services, threads, actors, fault>>

\* The application calls a method of the server, unless a connection is being
\* added and it takes care not to.
Calls == pc[App] = "idle" /\ (~Overlap => Quiet)

\* Mutant: the pointer to the manager stays.
CloseAcceptor_KeepsPointer ==
  /\ state' = state \cup {"NOT_ACCEPTING"}
  /\ UNCHANGED connection_manager_

\* ConnectionManager::Stop() no longer stops the thread.
CloseAcceptor ==
  IF "NOT_ACCEPTING" \in state THEN UNCHANGED <<state, connection_manager_>>
  ELSE /\ state' = state \cup {"NOT_ACCEPTING"}
       /\ connection_manager_' = NULL

StopConnectionAcceptance ==
  /\ Calls
  /\ CloseAcceptor
  /\ UNCHANGED <<client_service_, db, services, threads, pc, actors, fault>>

StartConnectionAcceptance ==
  /\ Calls
  /\ "NOT_ACCEPTING" \in state
  /\ state' = state \ {"NOT_ACCEPTING"}
  /\ \E m \in Managers \ used :
       /\ connection_manager_' = m
       /\ used' = used \cup {m}
       /\ Goto(m, "open")
  /\ UNCHANGED <<client_service_, db, alive, list, handle, threads, actors, fault>>

StopClientService ==
  /\ Calls
  /\ "NOT_LISTENING" \notin state
  /\ target' = [target EXCEPT ![App] = client_service_]
  /\ Goto(App, "cancel")
  /\ UNCHANGED <<server, services, threads, joining, adding, stopping, fault>>

\* The loop of ClientService::Stop() removes the client before last twice and
\* the last never.
Cleaned(clients_) == IF Len(clients_) <= 1 THEN <<>> ELSE <<Last(clients_)>>

Clean ==
  /\ pc[App] = "clean"
  /\ handle[target[App]] = NULL
  /\ list' = [list EXCEPT ![target[App]] = Cleaned(@)]
  /\ Goto(App, "delete")
  /\ UNCHANGED <<server, alive, used, handle, threads, actors, fault>>

Delete ==
  /\ pc[App] = "delete"
  /\ alive' = alive \ {target[App]}
  /\ Goto(App, "forget")
  /\ UNCHANGED <<server, used, list, handle, threads, actors, fault>>

\* Mutant: the pointer to the deleted service stays.
Forget_KeepsPointer ==
  /\ pc[App] = "forget"
  /\ state' = state \cup {"NOT_LISTENING"}
  /\ Goto(App, IF stopping THEN "purge" ELSE "idle")
  /\ UNCHANGED <<connection_manager_, client_service_, db, services, threads, actors, fault>>

Forget ==
  /\ pc[App] = "forget"
  /\ state' = state \cup {"NOT_LISTENING"}
  /\ client_service_' = NULL
  /\ Goto(App, IF stopping THEN "purge" ELSE "idle")
  /\ UNCHANGED <<connection_manager_, db, services, threads, actors, fault>>

StartClientService ==
  /\ Calls
  /\ "NOT_LISTENING" \in state
  /\ \E s \in Services \ used :
       /\ client_service_' = s
       /\ alive' = alive \cup {s}
       /\ used' = used \cup {s}
       /\ target' = [target EXCEPT ![App] = s]
  /\ Goto(App, "create")
  /\ UNCHANGED <<state, connection_manager_, db, list, handle, threads, joining, adding,
                 stopping, fault>>

ServiceStarted ==
  /\ pc[App] = "created"
  /\ Slept(client_service_)
  /\ state' = state \ {"NOT_LISTENING"}
  /\ Goto(App, "idle")
  /\ UNCHANGED <<connection_manager_, client_service_, db, services, threads, actors, fault>>

Stop ==
  /\ Calls
  /\ ~Overlap => Len(db) <= PurgeLimit
  /\ IF connection_manager_ # NULL THEN CloseAcceptor
                                   ELSE UNCHANGED <<state, connection_manager_>>
  /\ stopping' = TRUE
  /\ Goto(App, "stop_service")
  /\ UNCHANGED <<client_service_, db, services, threads, target, joining, adding, fault>>

StopService ==
  /\ pc[App] = "stop_service"
  /\ IF client_service_ # NULL /\ "NOT_LISTENING" \notin state
       THEN /\ target' = [target EXCEPT ![App] = client_service_]
            /\ Goto(App, "cancel")
       ELSE /\ Goto(App, "purge")
            /\ UNCHANGED target
  /\ UNCHANGED <<server, services, threads, joining, adding, stopping, fault>>

\* ClientDB::Purge(), of no client or one, and `delete client_db_'.
Purge ==
  /\ pc[App] = "purge"
  /\ Len(db) <= 1
  /\ db' = <<>>
  /\ Goto(App, "destroy")
  /\ UNCHANGED <<state, connection_manager_, client_service_, services, threads, actors, fault>>

Destroy ==
  /\ pc[App] = "destroy"
  /\ connection_manager_ = NULL
  /\ client_service_ = NULL
  /\ state' = state \ {"RUNNING"}
  /\ Goto(App, "gone")
  /\ UNCHANGED <<connection_manager_, client_service_, db, services, threads, actors, fault>>

-----------------------------------------------------------------------------
(* Where the process dies. *)

\* An actor or a thread uses what was freed, or a handle that names no thread.
BadAccess(p) ==
  \/ /\ pc[p] \in {"cancel", "join", "wait", "add", "create"}
     /\ target[p] \notin alive
  \/ /\ pc[p] \in {"cancel", "join"}
     /\ handle[target[p]] \notin Threads
  \* pthread_create() is given the handle another actor cleared.
  \/ pc[p] = "create" /\ handle[target[p]] = NULL
  \/ pc[p] = "open" /\ ~ServerAlive
  \/ pc[p] = "accept" /\ ~ServerAlive /\ Overlap
  \/ pc[p] = "update" /\ ~DatabaseAlive
  \/ pc[p] = "listen" /\ (~ServerAlive \/ client_service_ = NULL)

Crash ==
  /\ \/ /\ \/ \E p \in Actors : BadAccess(p)
           \/ \E t \in Threads : tpc[t] \in {"start", "run"} /\ owner[t] \notin alive
           \* Purge() of several clients frees the first of them twice.
           \/ pc[App] = "purge" /\ Len(db) > 1
           \* With a client listed twice the loop of ClientService::Stop() may
           \* stand on a node that remove() freed.
           \/ pc[App] = "clean" /\ ~IsInjective(list[target[App]])
        /\ fault' = "memory"
     \* A socket that cannot be bound, or cannot listen, ends the server.
     \/ /\ ListenFails
        /\ \E m \in Managers : pc[m] = "open"
        /\ fault' = "exit"
     \/ /\ pc[App] = "clean" /\ handle[target[App]] # NULL
        /\ fault' = "assert_thread"
     \/ /\ pc[App] = "destroy" /\ (connection_manager_ # NULL \/ client_service_ # NULL)
        /\ fault' = "assert_destructor"
  /\ UNCHANGED <<server, services, threads, pc, actors>>

AppStep ==
  \/ Start \/ StartService \/ Started
  \/ Clean \/ Delete \/ Forget \/ ServiceStarted
  \/ StopService \/ Purge \/ Destroy

Call ==
  \/ StopConnectionAcceptance \/ StartConnectionAcceptance
  \/ StopClientService \/ StartClientService \/ Stop

ActorStep(p) == Cancel(p) \/ Join(p) \/ Joined(p) \/ Create(p)

ManagerStep(m) == Open(m) \/ Update(m) \/ Listen(m) \/ Add(m) \/ Added(m)

ThreadStep(t) == Begin(t) \/ End(t)

Next ==
  /\ fault = "none"
  /\ \/ AppStep \/ Call
     \/ \E p \in Actors : ActorStep(p)
     \/ \E m \in Managers : ManagerStep(m) \/ \E c \in Clients : Accept(m, c)
     \/ \E t \in Threads : ThreadStep(t)
     \/ Crash

Spec == Init /\ [][Next]_vars

\* Every thread is scheduled; the application need never call a method.
Fairness ==
  /\ WF_vars(fault = "none" /\ (AppStep \/ ActorStep(App)))
  /\ \A m \in Managers : WF_vars(fault = "none" /\ (ManagerStep(m) \/ ActorStep(m)))
  /\ \A t \in Threads : WF_vars(fault = "none" /\ ThreadStep(t))

FairSpec == Spec /\ Fairness

-----------------------------------------------------------------------------
(* Properties.                                                             *)

\* No call is in progress, so the flags and the pointers should agree.
Idle == pc[App] = "idle"

Serves(t, s) == tpc[t] = "run" /\ owner[t] = s

\* Between calls, in whatever order they are made, the flags tell whether the
\* server has a connection manager and a client service: what the guards of the
\* Stop and Start methods and the destructor's assertions rely on.
FlagsTell ==
  Idle => /\ "NOT_ACCEPTING" \in state <=> connection_manager_ = NULL
          /\ "NOT_LISTENING" \in state <=> client_service_ = NULL

\* A service never lists a client the database does not know, so Purge() would
\* find every client to close (tcp_server.cpp AddClient: Update, then Listen).
ServesOnlyKnown ==
  DatabaseAlive => \A s \in alive : ToSet(list[s]) \subseteq ToSet(db)

\* Between calls, the running thread serves every client of the database, once:
\* what StartClientService() restores by fetching them (CopyClients()).
ServesEveryClient ==
  Idle /\ Quiet =>
    \A t \in Threads : Serves(t, client_service_) =>
      /\ ToSet(list[client_service_]) = ToSet(db)
      /\ IsInjective(list[client_service_])

\* Between calls, the only service thread is the one that client_service_'s
\* handle names, and none is left when the service is stopped.
ServiceHasItsThread ==
  Idle /\ Quiet =>
    \A t \in Threads : tpc[t] \in {"start", "run"} <=>
                         client_service_ # NULL /\ t = handle[client_service_]

\* No memory fault, no failed assertion.
NoFault == fault = "none"

\* TcpServer::Stop() returns: the service, its thread, the database and the
\* server are gone.  The connection managers and their threads stay.
StopEnds == pc[App] = "stop_service" ~> pc[App] = "gone"

\* client_service.cpp:312: assert(this->thread == NULL) after StopThread().
StoppedThread == fault # "assert_thread"

\* What the server promises an application that calls its methods while no
\* connection is being added.  It has stopped once the database is purged.
Plane == INSTANCE ControlPlane WITH
  known     <- ToSet(db),
  listening <- client_service_ # NULL,
  serving   <- UNION {ToSet(list[owner[t]]) : t \in {u \in Threads : tpc[u] = "run"}},
  stopped   <- ~DatabaseAlive

ImplementsControlPlane == Plane!FairSpec
=============================================================================
