---------------------------- MODULE ClientService ----------------------------
(***************************************************************************)
(* The client service of the TCP server (client_service.cpp): one thread   *)
(* that select()s over the descriptors of all connected clients, reads the *)
(* ready ones and hands what it read to the application, and the protocol  *)
(* by which the connection manager's thread adds a client.  The list of    *)
(* clients has no lock: Listen() cancels the service thread, joins it,     *)
(* changes the list and starts a new thread.                               *)
(*                                                                         *)
(* The module begins when TcpServer::Start() has returned: the service     *)
(* thread exists and the listening socket accepts.  What may go wrong      *)
(* before that, and while the application stops and starts the services,   *)
(* is the subject of module TcpServer.                                     *)
(*                                                                         *)
(* A client is named by the descriptor accept() returned for it, and a     *)
(* peer's byte stream is a sequence of chunks, a chunk being what one      *)
(* recvfrom() returns.  All chunks are equally long: clearing data_len     *)
(* bytes clears the whole buffer, and a positive garbage data_len means    *)
(* the chunk that is there.                                                *)
(***************************************************************************)
EXTENDS Integers, Sequences, Functions, FiniteSets

CONSTANTS
  Clients,    \* the descriptors of the connections that arrive
  Resetting,  \* those whose peer may reset the connection
  MaxChunks,  \* bound: the chunks a peer sends
  Threads,    \* pthread identifiers; one is free again once it was joined
  NoThread,   \* the null pthread_t*
  NoClient

ASSUME ClientsAssumption   == Clients \subseteq Nat \ {0} /\ Resetting \subseteq Clients
ASSUME MaxChunksAssumption == MaxChunks \in Nat
ASSUME ThreadsAssumption   == Threads # {} /\ NoThread \notin Threads
ASSUME NoClientAssumption  == NoClient \notin Clients

VARIABLES
  clients_,       \* ClientService::clients_
  thread,         \* ClientService::thread
  max_fd,         \* ClientService::max_fd
  backup_fd_set,  \* ClientService::backup_fd_set
  active_fd_set,  \* ClientService::active_fd_set
  data,           \* the global receive buffer: whose n-th chunk it holds
  tpc,            \* where each service thread is
  it,             \* its position in clients_
  data_len,       \* the sign of its data_len
  cancelled,      \* threads with a cancellation request pending
  cmpc,           \* where the connection manager's thread is
  accepted,       \* the client it is adding
  crashed,        \* the process died of a fault
  sent,           \* chunks sent by each peer
  unread,         \* chunks waiting in each socket
  peer,           \* state of each peer's end of the connection
  handed          \* history: all that `received' was given for each client

service == <<clients_, thread, max_fd, backup_fd_set, active_fd_set>>
local   == <<data, tpc, it, data_len, cancelled>>
manager == <<cmpc, accepted>>
sockets == <<sent, unread, peer>>
vars    == <<service, local, manager, sockets, crashed, handed>>

PCs == {"exited", "start", "select", "loop", "sleep", "deliver", "callback"}

\* An empty buffer, or one that memset() cleared.
Zeros == [from |-> NoClient, n |-> 0]

Chunk == [from : Clients \cup {NoClient}, n : Nat]

TypeOK ==
  /\ clients_ \in Seq(Clients)
  /\ thread \in Threads \cup {NoThread}
  /\ max_fd \in Clients \cup {0}
  /\ backup_fd_set \subseteq Clients
  /\ active_fd_set \subseteq Clients
  /\ data \in Chunk
  /\ tpc \in [Threads -> PCs]
  /\ it \in [Threads -> Nat \ {0}]
  /\ data_len \in [Threads -> {-1, 0, 1}]
  /\ cancelled \subseteq Threads
  /\ cmpc \in {"accept", "join", "add", "start"}
  /\ accepted \in Clients \cup {NoClient}
  /\ crashed \in BOOLEAN
  /\ sent \in [Clients -> Nat]
  /\ unread \in [Clients -> Nat]
  /\ peer \in [Clients -> {"open", "closed", "reset"}]
  /\ handed \in [Clients -> Seq(Chunk)]

\* The constructor ran and StartThread() created the first thread, whose
\* data_len is an uninitialized local.
Init ==
  /\ clients_ = <<>>
  /\ thread \in Threads
  /\ max_fd = 0
  /\ backup_fd_set = {}
  /\ active_fd_set = {}
  /\ data = Zeros
  /\ tpc = [t \in Threads |-> IF t = thread THEN "start" ELSE "exited"]
  /\ it = [t \in Threads |-> 1]
  /\ \E garbage \in {-1, 0, 1} :
       data_len = [t \in Threads |-> IF t = thread THEN garbage ELSE 0]
  /\ cancelled = {}
  /\ cmpc = "accept"
  /\ accepted = NoClient
  /\ crashed = FALSE
  /\ sent = [c \in Clients |-> 0]
  /\ unread = [c \in Clients |-> 0]
  /\ peer = [c \in Clients |-> "open"]
  /\ handed = [c \in Clients |-> <<>>]

-----------------------------------------------------------------------------
(* The peers. *)

Send(c) ==
  /\ peer[c] = "open"
  /\ sent[c] < MaxChunks
  /\ sent' = [sent EXCEPT ![c] = @ + 1]
  /\ unread' = [unread EXCEPT ![c] = @ + 1]
  /\ UNCHANGED <<service, local, manager, crashed, handed, peer>>

\* The peer closes its end, or resets the connection.
Disconnect(c) ==
  /\ peer[c] = "open"
  /\ \/ peer' = [peer EXCEPT ![c] = "closed"]
     \/ c \in Resetting /\ peer' = [peer EXCEPT ![c] = "reset"]
  /\ UNCHANGED <<service, local, manager, crashed, handed, sent, unread>>

-----------------------------------------------------------------------------
(* The service thread. *)

\* What select() reports: bytes to read, end of file, or a pending error.
Readable(c) == unread[c] > 0 \/ peer[c] # "open"

\* Mutant: the last client's descriptor is taken for the greatest.
IsMaxFd_Last(m) == m = IF clients_ = <<>> THEN 0 ELSE clients_[Len(clients_)]

IsMaxFd(m) ==
  /\ m \in Range(clients_) \cup {0}
  /\ \A c \in Range(clients_) : c <= m

\* GetMaxFd() and CopyClientFd(), at the head of the thread's function.
CopyFds(t) ==
  /\ tpc[t] = "start"
  /\ \E m \in Range(clients_) \cup {0} : IsMaxFd(m) /\ max_fd' = m
  /\ backup_fd_set' = Range(clients_)
  /\ tpc' = [tpc EXCEPT ![t] = "select"]
  /\ UNCHANGED <<clients_, thread, active_fd_set, data, it, data_len, cancelled,
                 manager, sockets, crashed, handed>>

\* Mutant: the loop starts one before the first client.
Select_BeforeFirst(t) ==
  /\ tpc[t] = "select"
  /\ t \notin cancelled
  /\ active_fd_set' = {c \in backup_fd_set : c <= max_fd /\ Readable(c)}
  /\ active_fd_set' # {}
  /\ it' = [it EXCEPT ![t] = 0]
  /\ tpc' = [tpc EXCEPT ![t] = "loop"]
  /\ UNCHANGED <<clients_, thread, max_fd, backup_fd_set, data, data_len, cancelled,
                 manager, sockets, crashed, handed>>

\* Mutant: select() polls.
Select_Polls(t) ==
  /\ tpc[t] = "select"
  /\ t \notin cancelled
  /\ active_fd_set' = {c \in backup_fd_set : c <= max_fd /\ Readable(c)}
  /\ it' = [it EXCEPT ![t] = 1]
  /\ tpc' = [tpc EXCEPT ![t] = "loop"]
  /\ UNCHANGED <<clients_, thread, max_fd, backup_fd_set, data, data_len, cancelled,
                 manager, sockets, crashed, handed>>

\* select() returns; a pending request would have cancelled the thread there.
Select(t) ==
  /\ tpc[t] = "select"
  /\ t \notin cancelled
  /\ active_fd_set' = {c \in backup_fd_set : c <= max_fd /\ Readable(c)}
  /\ active_fd_set' # {}
  /\ it' = [it EXCEPT ![t] = 1]
  /\ tpc' = [tpc EXCEPT ![t] = "loop"]
  /\ UNCHANGED <<clients_, thread, max_fd, backup_fd_set, data, data_len, cancelled,
                 manager, sockets, crashed, handed>>

AtClient(t, c) ==
  /\ tpc[t] = "loop"
  /\ it[t] <= Len(clients_)
  /\ c = clients_[it[t]]

AfterRead(len) == IF len = 0 THEN "sleep" ELSE "deliver"

\* recvfrom() on a ready client returns a chunk, an error (reported once) or zero.
Recv(t, c, len) ==
  /\ AtClient(t, c)
  /\ c \in active_fd_set
  /\ t \notin cancelled
  /\ data_len' = [data_len EXCEPT ![t] = len]
  /\ tpc' = [tpc EXCEPT ![t] = AfterRead(len)]
  /\ UNCHANGED <<service, it, cancelled, manager, sent, crashed, handed>>

RecvChunk(t, c) ==
  /\ unread[c] > 0
  /\ unread' = [unread EXCEPT ![c] = @ - 1]
  /\ data' = [from |-> c, n |-> sent[c] - unread[c] + 1]
  /\ Recv(t, c, 1)
  /\ UNCHANGED peer

RecvError(t, c) ==
  /\ unread[c] = 0
  /\ peer[c] = "reset"
  /\ peer' = [peer EXCEPT ![c] = "closed"]
  /\ Recv(t, c, -1)
  /\ UNCHANGED <<data, unread>>

RecvEof(t, c) ==
  /\ unread[c] = 0
  /\ peer[c] = "closed"
  /\ Recv(t, c, 0)
  /\ UNCHANGED <<data, unread, peer>>

\* A client that is not ready keeps the data_len of the one before it.
Skip(t, c) ==
  /\ AtClient(t, c)
  /\ c \notin active_fd_set
  /\ tpc' = [tpc EXCEPT ![t] = AfterRead(data_len[t])]
  /\ UNCHANGED <<service, data, it, data_len, cancelled, manager, sockets, crashed, handed>>

Awake(t) ==
  /\ tpc[t] = "sleep"
  /\ t \notin cancelled
  /\ tpc' = [tpc EXCEPT ![t] = "deliver"]
  /\ UNCHANGED <<service, data, it, data_len, cancelled, manager, sockets, crashed, handed>>

\* The application's `received' is called for the client at `it', ready or
\* not, with what the buffer holds; a length of zero or -1 hands over nothing.
\* (The connection manager left every client without a message delimiter.)
Received(t) ==
  /\ tpc[t] = "deliver"
  /\ handed' = IF data_len[t] > 0
                 THEN [handed EXCEPT ![clients_[it[t]]] = Append(@, data)]
                 ELSE handed
  /\ tpc' = [tpc EXCEPT ![t] = "callback"]
  /\ UNCHANGED <<service, data, it, data_len, cancelled, manager, sockets, crashed>>

\* Mutant: the loop ends after one client.
Return_Breaks(t) ==
  /\ tpc[t] = "callback"
  /\ tpc' = [tpc EXCEPT ![t] = "select"]
  /\ UNCHANGED <<service, data, it, data_len, cancelled, manager, sockets, crashed, handed>>

Return(t) ==
  /\ tpc[t] = "callback"
  /\ it' = [it EXCEPT ![t] = @ + 1]
  /\ tpc' = [tpc EXCEPT ![t] = "loop"]
  /\ UNCHANGED <<service, data, data_len, cancelled, manager, sockets, crashed, handed>>

\* Mutant: the buffer is not cleared.
EndPass_KeepsData(t) ==
  /\ tpc[t] = "loop"
  /\ it[t] > Len(clients_)
  /\ crashed' = (data_len[t] = -1)
  /\ tpc' = [tpc EXCEPT ![t] = "select"]
  /\ UNCHANGED <<service, data, it, data_len, cancelled, manager, sockets, handed>>

\* The end of a pass: memset(data, 0, data_len), of which a negative length
\* is converted to a huge one.
EndPass(t) ==
  /\ tpc[t] = "loop"
  /\ it[t] > Len(clients_)
  /\ crashed' = (data_len[t] = -1)
  /\ data' = IF data_len[t] = 0 THEN data ELSE Zeros
  /\ tpc' = [tpc EXCEPT ![t] = "select"]
  /\ UNCHANGED <<service, it, data_len, cancelled, manager, sockets, handed>>

\* Mutants: asynchronous cancellation, which strikes between the read and the
\* callback, too; and select() called with cancellation disabled.
AtCancellationPoint_Anywhere(t) == tpc[t] \in {"select", "loop", "sleep", "deliver", "callback"}

AtCancellationPoint_NotInSelect(t) ==
  \/ tpc[t] \in {"sleep", "callback"}
  \/ \E c \in active_fd_set : AtClient(t, c)

\* Cancellation is deferred: a request takes effect at select(), recvfrom(),
\* sleep(), and wherever the application's callback has a cancellation point.
AtCancellationPoint(t) ==
  \/ tpc[t] \in {"select", "sleep", "callback"}
  \/ \E c \in active_fd_set : AtClient(t, c)

\* The locals are gone with the thread; the buffer is not.
Cancelled(t) ==
  /\ t \in cancelled
  /\ AtCancellationPoint(t)
  /\ tpc' = [tpc EXCEPT ![t] = "exited"]
  /\ it' = [it EXCEPT ![t] = 1]
  /\ data_len' = [data_len EXCEPT ![t] = 0]
  /\ cancelled' = cancelled \ {t}
  /\ UNCHANGED <<service, data, manager, sockets, crashed, handed>>

ServiceStep(t) ==
  \/ CopyFds(t) \/ Select(t) \/ Awake(t) \/ Received(t) \/ Return(t) \/ EndPass(t)
  \/ \E c \in Clients : RecvChunk(t, c) \/ RecvError(t, c) \/ RecvEof(t, c) \/ Skip(t, c)
  \/ Cancelled(t)

-----------------------------------------------------------------------------
(* The connection manager's thread, from accept() through Listen(). *)

\* accept() returned c; Listen() begins with pthread_cancel().
Accept(c) ==
  /\ cmpc = "accept"
  /\ c \notin Range(clients_)
  /\ accepted' = c
  /\ cancelled' = cancelled \cup {thread}
  /\ cmpc' = "join"
  /\ UNCHANGED <<service, data, tpc, it, data_len, sockets, crashed, handed>>

\* Mutant: the thread is not waited for.
Join_NoWait ==
  /\ cmpc = "join"
  /\ thread' = NoThread
  /\ cmpc' = "add"
  /\ UNCHANGED <<clients_, max_fd, backup_fd_set, active_fd_set, local, accepted,
                 sockets, crashed, handed>>

\* pthread_join() returns and the handle is freed.
Join ==
  /\ cmpc = "join"
  /\ tpc[thread] = "exited"
  /\ thread' = NoThread
  /\ cmpc' = "add"
  /\ UNCHANGED <<clients_, max_fd, backup_fd_set, active_fd_set, local, accepted,
                 sockets, crashed, handed>>

AddClient ==
  /\ cmpc = "add"
  /\ clients_' = Append(clients_, accepted)
  /\ accepted' = NoClient
  /\ cmpc' = "start"
  /\ UNCHANGED <<thread, max_fd, backup_fd_set, active_fd_set, local,
                 sockets, crashed, handed>>

\* Mutant: the new thread's identifier is not stored.
StartThread_LosesHandle ==
  /\ cmpc = "start"
  /\ \E t \in Threads, garbage \in {-1, 0, 1} :
       /\ tpc[t] = "exited"
       /\ tpc' = [tpc EXCEPT ![t] = "start"]
       /\ data_len' = [data_len EXCEPT ![t] = garbage]
  /\ cmpc' = "accept"
  /\ UNCHANGED <<clients_, thread, max_fd, backup_fd_set, active_fd_set, data, it,
                 cancelled, accepted, sockets, crashed, handed>>

\* A new handle and pthread_create(); Listen() returns to accept().
StartThread ==
  /\ cmpc = "start"
  /\ \E t \in Threads, garbage \in {-1, 0, 1} :
       /\ tpc[t] = "exited"
       /\ thread' = t
       /\ tpc' = [tpc EXCEPT ![t] = "start"]
       /\ data_len' = [data_len EXCEPT ![t] = garbage]
  /\ cmpc' = "accept"
  /\ UNCHANGED <<clients_, max_fd, backup_fd_set, active_fd_set, data, it, cancelled,
                 accepted, sockets, crashed, handed>>

ManagerStep == Join \/ AddClient \/ StartThread

Next ==
  /\ ~crashed
  /\ \/ \E c \in Clients : Send(c) \/ Disconnect(c) \/ Accept(c)
     \/ ManagerStep
     \/ \E t \in Threads : ServiceStep(t)

Spec == Init /\ [][Next]_vars

\* Every thread is scheduled, and the application's callbacks return.  Nothing
\* is promised of the peers.
Fairness ==
  /\ WF_vars(~crashed /\ ManagerStep)
  /\ \A t \in Threads : WF_vars(~crashed /\ ServiceStep(t))

FairSpec == Spec /\ Fairness

-----------------------------------------------------------------------------
(* Properties. *)

Live(t) == tpc[t] # "exited"

\* No service thread is alive while the connection manager may change the
\* list or make a new thread: the read-write conflict the comment above
\* ClientService::Listen describes cannot occur.
ListExclusion == cmpc \in {"add", "start"} => \A t \in Threads : ~Live(t)

\* A service thread never outlives its handle: at most one thread runs the
\* loop, and Listen() can always find it to cancel it.
OneServiceThread == \A t \in Threads : Live(t) => t = thread

\* The n-th chunk of client c was handed over for c.
Given(c, n) == [from |-> c, n |-> n] \in Range(handed[c])

\* It was read from its socket and its hand-over comes next.
InHand(c, n) ==
  /\ data = [from |-> c, n |-> n]
  /\ \E t \in Threads : tpc[t] = "deliver" /\ data_len[t] > 0 /\ clients_[it[t]] = c

\* Cancelling the thread at an arbitrary moment never loses what it read:
\* each chunk is in the socket, in the thread's hand, or was given to the
\* application for the client it belongs to.  (How often is RepeatsFew.)
NothingLost ==
  \A c \in Clients : \A n \in 1..(sent[c] - unread[c]) : Given(c, n) \/ InHand(c, n)

\* Where a client was handed a chunk of its own that it had been handed before.
Repeats ==
  UNION {{<<c, i>> : i \in {i \in 1..Len(handed[c]) :
            /\ handed[c][i].from = c
            /\ \E j \in 1..(i-1) : handed[c][j] = handed[c][i]}} : c \in Clients}

\* A thread that is cancelled in the callback leaves its chunk in the buffer,
\* and the next one may find a length in data_len: if it passes over the client
\* the chunk is from, that client is handed it again (client_service.cpp:236).
\* This happens at most once for each thread that had a predecessor to take
\* over from: never in a pass of its own, as memset() clears what was read.
RepeatsFew ==
  Cardinality(Repeats) <= IF clients_ = <<>> THEN 0 ELSE Len(clients_) - 1

\* A running thread watches exactly the clients that were accepted, whatever
\* was accepted while its predecessor ran.
WatchesEveryClient ==
  \A t \in Threads : tpc[t] \notin {"exited", "start"} =>
    /\ {c \in backup_fd_set : c <= max_fd} = Range(clients_)
    /\ active_fd_set \subseteq Range(clients_)

\* The negative length that ends the process is a read error's: neither the
\* garbage a new thread finds in data_len nor a client that was passed over
\* brings it to memset() (client_service.cpp:242).
DiesOnlyOfReset == crashed => \E c \in Resetting : peer[c] = "closed"

\* Listen() always returns, unless the process dies: the service thread reaches
\* a cancellation point.
ListenReturns ==
  \A c \in Clients : accepted = c ~> (c \in Range(clients_) /\ cmpc = "accept") \/ crashed

\* What the service does is what module Delivery promises, a client being
\* registered when AddClient() has put it on the list.
Delivered == INSTANCE Delivery WITH registered <- Range(clients_)

ImplementsDelivery == Delivered!Spec

\* Whatever an accepted client sends reaches the application, although every
\* connection kills the thread that reads it, unless the process dies.
EverythingDelivered == <>crashed \/ Delivered!Served

\* The application is never given another client's bytes as received from this
\* one (tcpsrv.cpp:25 reports them as its "bytes received").
NoForeignBytes ==
  [][\A t \in Threads :
       Received(t) /\ data_len[t] > 0 => data.from \in {clients_[it[t]], NoClient}]_vars
=============================================================================
