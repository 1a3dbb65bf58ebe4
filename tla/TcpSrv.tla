-------------------------------- MODULE TcpSrv --------------------------------
(***************************************************************************)
(* The program tcpsrv (tcpsrv.cpp) and what its threads print: the main    *)
(* thread registers the listeners, starts the server and calls             *)
(* TcpServer::Display(), while the connection manager's thread accepts     *)
(* connections, tells the listener and adds them to the client database,   *)
(* whose lock the two share.  They share without a lock the buffer that    *)
(* network_convert_ip_n_to_p() returns when it is given none.              *)
(*                                                                         *)
(* Of a line only its addresses matter: they are converted one by one, in  *)
(* an order C++ leaves open, and printed together.  Restarting the client  *)
(* service for a new connection is the subject of module ClientService.    *)
(***************************************************************************)
EXTENDS Naturals, Sequences, SequencesExt

CONSTANTS
  Clients,  \* connections that arrive, each with its address
  Server,   \* the server's address
  NULL,     \* no address: an empty string
  Mixed     \* bytes of two addresses

ASSUME AddressesAssumption ==
  Server \notin Clients /\ {NULL, Mixed} \cap (Clients \cup {Server}) = {} /\ NULL # Mixed

VARIABLES
  listeners,  \* TcpServer::connected: uninitialized until it is registered
  running,    \* TCP_SERVER_RUNNING
  db,         \* ClientDB::clients_
  reading,    \* Display() holds the database's lock for reading
  cursor,     \* its position in the database
  pc,         \* where the main thread and the manager's are
  client,     \* the client the manager is adding
  todo,       \* addresses each thread has yet to convert for its line
  writing,    \* the address it is converting
  str_ip,     \* the shared buffer
  shared      \* history: threads in whose line the other used it, too

display == <<running, reading, cursor>>
buffer  == <<todo, writing, str_ip, shared>>
vars    == <<listeners, display, db, pc, client, buffer>>

Threads   == {"main", "manager"}
Addresses == Clients \cup {Server}

TypeOK ==
  /\ listeners \in {"garbage", "set"}
  /\ {running, reading} \subseteq BOOLEAN
  /\ db \in Seq(Clients)
  /\ cursor \in 1..(Len(db) + 1)
  /\ pc \in [Threads -> {"none", "register", "start", "started", "scanf", "listening",
                         "lock", "next", "line", "exited",
                         "accept", "wild", "server", "connected", "update", "accepted"}]
  /\ client \in Clients \cup {NULL}
  /\ todo \in [Threads -> SUBSET Addresses]
  /\ writing \in [Threads -> Addresses \cup {NULL}]
  /\ str_ip \in Addresses \cup {NULL, Mixed}
  /\ shared \subseteq Threads

Init ==
  /\ listeners = "garbage" /\ running = FALSE
  /\ db = <<>> /\ reading = FALSE /\ cursor = 1
  /\ pc = [p \in Threads |-> IF p = "main" THEN "register" ELSE "none"]
  /\ client = NULL
  /\ todo = [p \in Threads |-> {}]
  /\ writing = [p \in Threads |-> NULL]
  /\ str_ip = NULL /\ shared = {}

-----------------------------------------------------------------------------
(* A line of output. *)

Alive == pc["main"] # "exited"

\* The arguments of p's line are ready.
Ready(p) == todo[p] = {} /\ writing[p] = NULL

InLine(p) ==
  pc[p] \in {"started", "listening", "line", "server", "connected", "accepted"}

\* p is at the label from, its line printed if it had one, and goes on.
At(p, from)    == Alive /\ pc[p] = from /\ Ready(p)
Goto(p, label) == pc' = [pc EXCEPT ![p] = label]

\* The other thread is between memset() and inet_ntop().
AlsoConverts(p) == \E q \in Threads \ {p} : writing[q] # NULL

\* p goes on to a line that shows these addresses.
Line(p, label, addresses) ==
  /\ Goto(p, label)
  /\ todo' = [todo EXCEPT ![p] = addresses]
  /\ shared' = IF AlsoConverts(p) THEN shared \cup {p} ELSE shared \ {p}
  /\ UNCHANGED <<writing, str_ip>>

\* p uses the buffer.
Touch(p) == shared' = shared \cup {q \in Threads \ {p} : InLine(q)}

\* network_convert_ip_n_to_p(): memset() ...
Clear(p) ==
  /\ Alive
  /\ writing[p] = NULL
  /\ \E a \in todo[p] : writing' = [writing EXCEPT ![p] = a]
  /\ str_ip' = NULL
  /\ Touch(p)
  /\ UNCHANGED <<listeners, display, db, pc, client, todo>>

\* Mutant: the address is lost.
Fill_Nothing(p) ==
  /\ Alive
  /\ writing[p] # NULL
  /\ todo' = [todo EXCEPT ![p] = @ \ {writing[p]}]
  /\ writing' = [writing EXCEPT ![p] = NULL]
  /\ Touch(p)
  /\ UNCHANGED <<listeners, display, db, pc, client, str_ip>>

\* ... and inet_ntop(), at the same time as the other thread's, maybe.
Fill(p) ==
  /\ Alive
  /\ writing[p] # NULL
  /\ \/ str_ip' = writing[p]
     \/ AlsoConverts(p) /\ str_ip' = Mixed
  /\ Touch(p)
  /\ todo' = [todo EXCEPT ![p] = @ \ {writing[p]}]
  /\ writing' = [writing EXCEPT ![p] = NULL]
  /\ UNCHANGED <<listeners, display, db, pc, client>>

-----------------------------------------------------------------------------
(* The main thread. *)

RegisterListener ==
  /\ At("main", "register")
  /\ listeners' = "set"
  /\ Goto("main", "start")
  /\ UNCHANGED <<display, db, client, buffer>>

\* Mutant: the server is started before the listeners are registered.
Start_First ==
  /\ At("main", "register")
  /\ pc' = [pc EXCEPT !["main"] = "started", !["manager"] = "accept"]
  /\ todo' = [todo EXCEPT !["main"] = {Server}]
  /\ UNCHANGED <<listeners, display, db, client, writing, str_ip, shared>>

\* TcpServer::Start() creates the manager's thread and prints a line.
Start ==
  /\ At("main", "start")
  /\ pc' = [pc EXCEPT !["main"] = "started", !["manager"] = "accept"]
  /\ todo' = [todo EXCEPT !["main"] = {Server}]
  /\ UNCHANGED <<listeners, display, db, client, writing, str_ip, shared>>

Started ==
  /\ At("main", "started")
  /\ running' = TRUE
  /\ Goto("main", "scanf")
  /\ UNCHANGED <<listeners, reading, cursor, db, client, buffer>>

\* TcpServer::Display(), once there was input: main() calls it once, another
\* application as often as it likes.
Display ==
  /\ At("main", "scanf")
  /\ running
  /\ Line("main", "listening", {Server})
  /\ UNCHANGED <<listeners, display, db, client>>

Listening ==
  /\ At("main", "listening")
  /\ Goto("main", "lock")
  /\ UNCHANGED <<listeners, display, db, client, buffer>>

\* Mutant: no lock is taken.
ReadLock_None ==
  /\ At("main", "lock")
  /\ cursor' = 1
  /\ Goto("main", "next")
  /\ UNCHANGED <<listeners, running, reading, db, client, buffer>>

\* ClientDB::Display().  Update() holds the lock for one step.
ReadLock ==
  /\ At("main", "lock")
  /\ reading' = TRUE
  /\ cursor' = 1
  /\ Goto("main", "next")
  /\ UNCHANGED <<listeners, running, db, client, buffer>>

NextClient ==
  /\ At("main", "next")
  /\ cursor <= Len(db)
  /\ Line("main", "line", {db[cursor], Server})
  /\ UNCHANGED <<listeners, display, db, client>>

\* Mutant: the iterator moves twice.
Shown_Twice ==
  /\ At("main", "line")
  /\ cursor' = cursor + 2
  /\ Goto("main", "next")
  /\ UNCHANGED <<listeners, running, reading, db, client, buffer>>

Shown ==
  /\ At("main", "line")
  /\ cursor' = cursor + 1
  /\ Goto("main", "next")
  /\ UNCHANGED <<listeners, running, reading, db, client, buffer>>

\* Mutant: the lock is kept.
Unlock_Never ==
  /\ At("main", "next")
  /\ cursor > Len(db)
  /\ Goto("main", "scanf")
  /\ UNCHANGED <<listeners, display, db, client, buffer>>

Unlock ==
  /\ At("main", "next")
  /\ cursor > Len(db)
  /\ reading' = FALSE
  /\ Goto("main", "scanf")
  /\ UNCHANGED <<listeners, running, cursor, db, client, buffer>>

\* main() returns: the process exits, with the other threads wherever they are.
Return ==
  /\ At("main", "scanf")
  /\ Goto("main", "exited")
  /\ UNCHANGED <<listeners, display, db, client, buffer>>

-----------------------------------------------------------------------------
(* The connection manager's thread. *)

\* The pointer is tested, and called unless it is null: an uninitialized one
\* may lead anywhere, or be null.
Accept(c) ==
  /\ At("manager", "accept")
  /\ c \notin Range(db)
  /\ client' = c
  /\ IF listeners = "set"
       THEN Line("manager", "server", {Server})
       ELSE (\E label \in {"wild", "update"} : Goto("manager", label)) /\ UNCHANGED buffer
  /\ UNCHANGED <<listeners, display, db>>

\* ConnectedListener() prints the server's address, then the client's.
PrintServer ==
  /\ At("manager", "server")
  /\ Line("manager", "connected", {client})
  /\ UNCHANGED <<listeners, display, db, client>>

PrintClient ==
  /\ At("manager", "connected")
  /\ Goto("manager", "update")
  /\ UNCHANGED <<listeners, display, db, client, buffer>>

\* TcpServer::AddClient(): ClientDB::Update() waits for the lock.
Update ==
  /\ At("manager", "update")
  /\ ~reading
  /\ db' = Append(db, client)
  /\ Line("manager", "accepted", {client})
  /\ UNCHANGED <<listeners, display, client>>

Accepted ==
  /\ At("manager", "accepted")
  /\ client' = NULL
  /\ Goto("manager", "accept")
  /\ UNCHANGED <<listeners, display, db, buffer>>

-----------------------------------------------------------------------------

Convert(p) == Clear(p) \/ Fill(p)

Main ==
  \/ RegisterListener \/ Start \/ Started \/ Listening
  \/ ReadLock \/ NextClient \/ Shown \/ Unlock

Manager == PrintServer \/ PrintClient \/ Update \/ Accepted

Next ==
  \/ Main \/ Display \/ Return \/ Manager
  \/ \E p \in Threads : Convert(p)
  \/ \E c \in Clients : Accept(c)

Spec == Init /\ [][Next]_vars

\* Both threads are scheduled, and the lock is given to a writer that waits
\* while it is free time and again.  Neither input nor a connection need arrive.
FairSpec ==
  /\ Spec
  /\ WF_vars(Main) /\ WF_vars(Manager) /\ SF_vars(Update)
  /\ \A p \in Threads : WF_vars(Convert(p))

-----------------------------------------------------------------------------
(* Properties. *)

\* No thread that tests the listeners exists before they are registered: the
\* constructor leaves them uninitialized, and the tests for null rely on main()
\* registering them before Start() (tcpsrv.cpp:31, connection_manager.cpp:209).
NoWildCall == pc["manager"] # "wild"

\* A Display() goes through one and the same database, although connections
\* arrive meanwhile.
DisplaysOneDatabase ==
  [][pc["main"] \in {"next", "line"} => db' = db]_vars

\* Whoever holds the lock lets it go: every accepted client gets into the
\* database unless the process exits before.
AcceptedIsKnown ==
  \A c \in Clients : client = c ~> c \in Range(db) \/ ~Alive

\* The addresses p's line means to show.
About(p) ==
  CASE pc[p] \in {"started", "listening", "server"} -> {Server}
    [] pc[p] = "line" -> {db[cursor], Server}
    [] OTHER -> {client}

\* A line of one address shows that address, unless the other thread converted
\* one of its own meanwhile.  (A client's line in ClientDB::Display(), at "line",
\* means to show two and never does: tcp_client.cpp:36-38 prints the buffer
\* twice, with either address in it, though no other thread is involved.)
RightUnlessShared ==
  \A p \in Threads \ shared :
    InLine(p) /\ pc[p] # "line" /\ Ready(p) => About(p) = {str_ip}
=============================================================================
