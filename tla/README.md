# A verification project for ethnm

`ethnm` is a small C++ code base with two programs over one set of classes: a
multi-threaded TCP server that hands what its clients send to an application
(`tcpsrv.cpp` and the classes below it), and the core of an Ethernet network
management daemon (`nmsrv.cpp`, `ethnm.cpp`). This directory holds TLA+ modules
that model both, TLC configurations that check them on small instances, and
TLAPS proofs of what matters most for instances of any size.

**Which source is modelled.** Several files carry committed merge-conflict
markers, so the tree does not compile as it stands. The modules follow the side
`7aae719…`, the newer one and the one the Makefile's target `nmsrv` belongs to;
line numbers are those of the files as committed. The `HEAD` side is an older
variant without `Stop()`, without the rwlock and with `MsgHandler` in place of
the delimiters. The Makefile compiles with `-g` only: assertions are active, and
each mention of a shared variable is one load or store.

## Inventory

| Component | State | Operations | Interacts with |
|---|---|---|---|
| `TcpServer` | flags `state`, pointers to the three parts, the listeners | `Start`, `RegisterListener`, `Display`, `AddClient`, `StopConnectionAcceptance`, `StartConnectionAcceptance`, `StopClientService`, `StartClientService`, `CopyClients`, `Stop` | called by the application's thread, and `AddClient` by the connection manager's thread |
| `ConnectionManager` (TCP) | listening socket, thread handle | accept loop, `Stop` (closes an unrelated descriptor) | calls `TcpServer::AddClient` on its own thread |
| `ClientService` | `clients_`, `max_fd`, descriptor sets, thread handle; the global `data` | thread loop, `Listen`, `StartThread`, `StopThread`, `Stop` | `Listen` runs on the manager's thread, `Stop` on the application's; the loop calls `received` or a delimiter |
| `ClientDB` | list of clients, rwlock | `Update`, `Copy`, `Purge`, `Display` | manager's, service's and application's threads |
| `TcpClient` | descriptor, addresses, delimiter | `Abort` | freed by `ClientDB::Purge` |
| `ByteCircularBuffer` | ring, `front`, `rear`, `current_size` | create, write, read (peek or remove), reset | one per delimiter |
| `MsgDelimiterFixed`, `MsgDelimiterVar` | ring, message buffer | `Process`, `IsFlushable`, `ProcessMsg` | called by the service thread, call `received` |
| `EthnmCore` | `state_var`, `pre_state_var`, two thread handles | `Start`, `SetNmState`, `GetNmState`, `End`, `Stop`, `Notify` | main thread, network thread, state manager thread, signal handler |
| UDP multicast (`ConnectionManager`) | two sockets | `SetUdpSocket`, `SendMulticast`, `RecieveMulticast` | called by `EthnmCore` |
| Notify pipe, `someip_app` | a named pipe | one write, one read | nothing calls `Notify` |
| `network_utils` | one static buffer | address conversions | every thread that prints an address |
| test clients, `msg_handler` | none | interactive clients, the older message hook | |

Where the behaviour is hard:

* **Cancellation as a locking discipline.** The client service's list has no
  lock. The manager's thread cancels the service thread (deferred), joins it,
  appends to the list and starts a new thread. Nothing may be lost or seen
  half-done, wherever the thread was.
* **Three kinds of threads on shared pointers.** The application stops and
  starts services, deletes them and clears pointers, while a manager's thread
  follows those pointers. The managers' threads are never stopped.
* **Flags, pointers and thread handles that must agree** over any sequence of
  calls.
* **Index arithmetic in the ring**, where `front = rear` means full or empty.
* **A stream cut into chunks in any way**, with cancellation inside the callback.
* **Signals and threads on two integers with no lock** in the core.
* **A lock held over terminal output**, and a conversion buffer shared without one.

Correctness, per component: the service never touches its list in two threads, watches
every client it was given, loses nothing, hands each chunk over for the first time in
order and seldom a second time, and gets back to `accept`; the server's calls never
leave a dangling pointer or an unserved client; the ring is a queue; a delimiter gives
back the messages it was passed; the core's state manager catches up, and sleeping ends
the process; what the server displays is one state of its database, and every connection
gets into it.

## Modules

| Module | Models | Abstract counterpart |
|---|---|---|
| `Delivery` | what the server promises about received data | — |
| `ClientService` | `client_service.cpp`: thread loop and `Listen()` | implements `Delivery` |
| `ControlPlane` | what the server promises whoever stops and starts its services | — |
| `TcpServer` | `tcp_server.cpp`, `client_db.cpp`, the life cycle of services, managers and threads | implements `ControlPlane` |
| `TcpSrv` | `tcpsrv.cpp`, what its two threads print and the lock and buffer they share | — |
| `ByteQueue` | a bounded queue of bytes | — |
| `ByteCircularBuffer` | `ByteCircularBuffer.cpp` | implements `ByteQueue` |
| `MsgDelimiter` | what the delimiters share; uses the ring through `INSTANCE` | — |
| `MsgDelimiterFixed`, `MsgDelimiterVar` | the two delimiters | — |
| `EthNm` | `ethnm.cpp`, `nmsrv.cpp` | — |
| `ClientServiceProofs`, `TcpServerProofs`, `TcpSrvProofs`, `ByteCircularBufferProofs`, `MsgDelimiterFixedProofs`, `MsgDelimiterVarProofs`, `EthNmProofs` | theorems and proofs | |
| `MsgDelimiterProofs` | lemmas that both delimiters' proofs use | |
| `MC…` | constants for TLC | |

Operators named `X_Something` just before an operator `X`, and introduced by a
comment that begins with "Mutant", are faulty variants of `X`: each shows that
some property notices the fault. No specification uses them.

**ClientService.** One action per stretch of code between two points where
another thread or a cancellation can intervene. `tpc` is where a thread is:
`start` (head of the function: `CopyFds`), `select`, `loop` (the `for`
statement), `sleep` (after a read of zero bytes), `deliver` (the call of
`received`) and `callback` (inside it). `cmpc` is where the manager's thread is
in `Listen()`. `data_len` keeps only its sign; its initial value is arbitrary
because the local is uninitialized, and it survives from one client to the next,
as in the code; chunks are equally long, so a positive length is that of the chunk that
is there. `data` says whose chunk the global buffer holds. The callback runs for every
client of a pass, ready or not, with what the buffer holds, and `handed` is the
history of all it was given for each client: its chunks, its chunks again, other clients'
and zeros. A reset peer makes `recvfrom` return -1, and the
`memset(data, 0, -1)` that follows sets `crashed`. The manager sets every
client's delimiter to null, so the loop calls `received` directly.

**Delivery.** For each registered client its chunks are handed over for the first time in
the order of sending (`Deliver`), and each reaches the application in the end (`Served`).
In between a client may be handed zeros or a chunk the application was given before, its
own or another's (`Stray`): the code does both, and does no worse, such as giving one
client another's bytes before they are handed over for the client they are from.

**TcpServer.** Here a service thread merely runs (`start`, `run`, `done`). An actor is
the application's thread or a manager's thread; `StopThread()` is the actions `Cancel`,
`Join`, `Joined`, performed by any actor on any service, so two of them may join one
thread (glibc lets the second return at once), clear each other's handles or use a
deleted service. `handle` distinguishes null, zeroed memory and a thread's identifier.
`Begin` is the new thread's test of the NOT_LISTENING flag and its copy from the
database; a separate step of the application clears the flag after `sleep(1)`. `Crash`
is the process dying (`fault` says why): memory that was freed, a handle that names no
thread or is null where `pthread_create()` stores through it, a failed assertion.
`Purge` of two clients is such a fault, because the loop aborts the first one twice. A
manager's thread begins with `Open`, the socket it listens on; where the port is taken
(`ListenFails`) it exits the process.

**ControlPlane.** A connection is met (`known`), served from a `Resume` to the next
`Interrupt`, and known until `Stop`. `TcpServer` maps `known` to the database, `serving`
to the clients of the service whose thread has begun, and `listening` to its having a
service. Its fairness says that a client which was met does not wait for ever.

**TcpSrv.** A thread is at a line of output or between two. `todo` holds the addresses
of the line still to be converted, in any order, because C++ leaves the order of
arguments open; `writing` is the one being converted, from `memset()` (`Clear`) to
`inet_ntop()` (`Fill`); `str_ip` is the static buffer, `Mixed` after two conversions at
once. A client's line in `Display()` is the only one with two addresses; it prints the
one buffer twice and cannot show both, whatever the other thread does, so no property is
about what it shows. `Display()` takes the lock for reading, prints a line per client
and lets go; `Update()`, which needs the lock for writing, waits meanwhile. `main()`
calls `Display()` once, on input; the model lets the application call it again. `shared`
is a history variable: the threads in whose line the other one used the buffer.

**ByteCircularBuffer.** Write and read are split by the code's branches. The read
that turns around copies both pieces to the start of the caller's buffer, as
the code does.

**MsgDelimiter…** The service's loop calls `Process()` for every client of a pass: with
what it read, or, where the client was not ready, with whatever `data` and `data_len`
hold. `stream` is all the bytes one delimiter is called with, its client's or not, and
`Process(n)` writes the next `n` of them; `Lengths` has the lengths a failed read (-1,
which is 65535 in the parameter's 16 bits) and an ended connection (0) leave for later
clients, too. A length beyond the ring writes nothing, whatever the bytes. The write of
zero bytes fails the assertion. Whose bytes they are is the subject of `ClientService`
(`NoForeignBytes`). `Check` and `Take` are the questions and the reads of the loop,
`Return` is the callback's return, `Interrupt` the cancellation inside it. In
`MsgDelimiterVar` a header that lies across the end of the ring leaves one byte of an
uninitialized local as it was, hence `HeaderSizes` is a set.

**EthNm.** Loads and stores of `state_var` and `pre_state_var` are single actions:
`LoadPre`, `Compare`, `Load`, `Store`, then one comparison at a time in `Report`.
`End()` is two stores, made by a handler that runs on top of one thread, which makes no
step meanwhile, while the others go on. `GetNmState`, the public setter, is an action of
the environment for the states in `Commands`: in nmsrv itself the only call sits behind
`SendMulticast()`, which never returns. The state manager that runs `StopThread()` joins
the two threads `main()` waits for, itself among them. As glibc has it, a
`pthread_join()` returns at once when the thread has ended or another already waits for
it, and is a cancellation point when it waits: so the manager, cancelled by itself,
mostly ends in one of the two calls (`CancelledInJoin`), but may get past both
(`JoinReturns`) when `main()` waits for it already, and `main()` may return while the
manager waits (`JoinNetwork`, `JoinManager`). Past both it deletes the core, whose
destructor calls `Stop()`, which deletes the core: `Delete` is the process dying of that
recursion, or of the cancellation that cannot unwind a destructor.

## Runs

| Run | Checks | Bounds, and why they are enough |
|---|---|---|
| `client_service` | `TypeOK`, `ListExclusion`, `OneServiceThread`, `NothingLost`, `RepeatsFew`, `WatchesEveryClient`, `DiesOnlyOfReset`, `ListenReturns`, `ImplementsDelivery`, `EverythingDelivered` | two clients, arriving in either order of descriptors (`max_fd` depends on it), and two chunks each, so that order matters; one may reset, which ends the process; two thread identifiers, because one exits before the next is made. A chunk is handed over twice within these bounds: a thread cancelled in the callback, garbage in the next one's `data_len`, and the other client ready. The invariants and the safety of `Delivery` are proved for any of these numbers |
| `client_service_stray` | `NoForeignBytes` is violated | two clients |
| `ring` | `TypeOK`, `RingOK`, `ImplementsByteQueue`, `WritesAppend`, `ReadsOldest` | a ring of three bytes over two byte values: every position of the indices, every length, full and empty |
| `fixed` | `TypeOK`, `DeliversStream`, `NothingWaits`, `DiesOnlyWithoutBytes` | messages of 2 in a ring of 12 (10 in 10240), lengths of up to 5 and 65535, 26 bytes so that the ring turns around twice; two cancellations, the most the ring has room for: 1 left over + 2·(5−2) + 5 = 12 |
| `var` | `DeliversMessages`, `NothingWaits`, `DiesOnlyWithoutBytes`, `ProcessReturns` | all streams of five messages of 3, 4 or 5 bytes of which none lies across the end of a ring of 8 (two in each turn, so that the ring turns around twice), lengths of up to 3, which split headers and bodies everywhere, and 65535; one cancellation. The type invariant is that of `fixed` |
| `var_mixed` | `AssertionsHold` is violated | any mix of messages of 3 and 4, lengths of 1 to 3 |
| `server` | `NoFault`, `FlagsTell`, `ServesEveryClient`, `ServiceHasItsThread`, `StopEnds`, `ImplementsControlPlane` | three clients, two managers, three services: a service can be stopped and replaced twice, with clients arriving before and after |
| `server_races` | `TypeOK`, `ServesOnlyKnown` | two clients, two services and two threads; connections at any time, late threads, a port that is taken, garbage in the state word |
| `server_stop_race` | `StoppedThread` is violated | one client |
| `tcpsrv` | `TypeOK`, `NoWildCall`, `RightUnlessShared`, `DisplaysOneDatabase`, `AcceptedIsKnown` | three connections: a `Display()` with clients before and behind the cursor while another waits for the lock; any number of displays |
| `nm` | `TypeOK`, `WakesOnce`, `Settles`, `SleepEnds` | two signals and two state changes, anywhere; every order of the joins |
| `nm_signal` | `SignalEnds` is violated | nmsrv as built, one signal |

`CHECK_DEADLOCK FALSE` is said wherever the environment may stop: peers send
what they send, the application calls what it calls, the process may exit. The
ring's run checks deadlock.

What the passing runs assume of the environment:

* `client_service*` start when `TcpServer::Start()` has returned.
* `fixed` and `var`: a length is one `recvfrom()` returns, 0 to `kBufferSize` or -1. (A
  garbage length between `kBufferSize` and the size of the ring, which a new thread's
  uninitialized `data_len` may hold, would pass bytes from beyond the buffer.) In what is
  passed, no message lies across the end of the ring, where the bug of `BCBRead()` shows:
  in `fixed` because the one size divides the ring, as tcpcli's ten bytes divide 10240, in
  `var` because the streams are chosen so (`MayStraddle = FALSE`). In `var` this is asked
  of foreign bytes, too: another client's message, or a piece of one, must
  fit where it lands, and the zeros that `memset()` leaves in the buffer must not, because
  a header of zero is never consumed and `ProcessMsg()` would loop for ever. `fixed` takes
  any bytes.
* `server`: connections arrive only between two calls of the application and
  while a service listens (`Overlap = FALSE`), a second is enough for a thread to
  start (`SleepSuffices`), the state word happens to be zero (`Garbage`) and at
  most one client is in the database when `Stop()` is called (`PurgeLimit`), and the
  port is free whenever a manager opens it (`ListenFails = FALSE`). Each of
  these is needed: without the first, the manager dereferences null pointers and
  deleted services; without the second a new service may serve nobody; without
  the third `Stop()` skips a part; without the fourth `Purge()` frees a client
  twice, without the last the process exits.
* `tcpsrv`: nothing; connections arrive at any time.

**Findings.** The four violation runs: a client that is not ready is reported with
another client's bytes; headers across the end of the ring are misread,
because `BCBRead()` copies the second piece over the first; a connection during
`ClientService::Stop()` makes its assertion fail; SIGINT and SIGTERM print "exit!"
and never end nmsrv.

**Fairness.** Weak fairness of each thread's next step: POSIX threads are
scheduled, and outside `TcpSrv` no modelled step waits for a lock. A service thread
that waits in `select()` with nothing readable has no step to be fair to. The callbacks
of the application return. `ProcessReturns` needs fairness of `Process()` alone,
`Settles` and `SleepEnds` that of the three threads and of the handler.
`ImplementsControlPlane` has the fairness of `ControlPlane` follow from that of the
threads. In `TcpSrv`, `Update` is strongly fair: the application's displays each wait
for input, so the lock is free again and again, and a writer that waits for a free
lock gets it; the line itself needs no lock. Nothing is assumed of peers, of
signals, of input, or of when the application calls.

## Proofs

`ClientServiceProofs` proves, for any set of clients, any threads and any bound on
chunks, `TypeOK`, `ListExclusion`, `OneServiceThread`, `NothingLost`, `RepeatsFew`,
`WatchesEveryClient`, `DiesOnlyOfReset`, and that `Spec` implements `Delivery!Spec` with
`registered` mapped to the clients on the list. None of the invariants is inductive
alone. The argument runs in layers: typing; then who lives, by the manager's position
(while it is at `add` or `start` no thread is alive and the handle is null, otherwise
the live thread is the one of the handle), which gives exclusion and uniqueness; from
that, a thread beyond its start has descriptor sets made from the very list it walks,
because the list changes only while nobody lives; then that a chunk in the buffer which
was not handed over yet is the next one owed, and in the hand of the one thread that is
at `deliver`, which gives `NothingLost` and lets each `Received` map to `Deliver` or to
`Stray`: `handed` is not abstracted, so the refinement constrains every call of the
callback. For `RepeatsFew` the invariant counts (`Budget`): the buffer of a thread that
died in the callback can repeat once (`MayRepeat`), only the start of another thread
creates that situation, the repeat ends it, and the first client's first thread finds
the buffer empty.

`TcpServerProofs` has two layers, both for any numbers of clients, managers, services
and threads. *Whatever overlaps*: `TypeOK`, `ServesOnlyKnown` (the strengthening: a
manager that goes on to `Listen()` has its client in the database already), and, if the
uninitialized state word had neither flag set (`Clear`), `FlagsTell` and that `Stop()`
never meets the destructor's assertions: the invariant says which flag may disagree with
its pointer at which label of the application's call. *Where calls and connections do
not overlap* (`Calm`, the assumptions of run `server`): `NoFault`, `ServesEveryClient`,
`ServiceHasItsThread` and the refinement `Spec => ControlPlane!Spec`. `NoFault` is not
inductive, since whether a step uses freed memory depends on who may act: `CalmInv` says
that at most one actor is inside a call (`OneActs`), that the current service is the
only one that is neither deleted nor unused (`OneService`), that only its handle names a
thread and only that thread lives (`OneThread`), that an actor about to create a thread
has a handle to store it in (`HasHandle`), and that, outside the steps of adding a
client and of making or cleaning a service, its list is the database's, each client once
(`ListsAll`).

`ByteCircularBufferProofs` proves, for any ring of less than 65536 bytes and any
set of byte values, `TypeOK`, `RingOK`, that the ring implements `ByteQueue` (with
the queue being the bytes from `rear` on), `WritesAppend` and `ReadsOldest`. The
refinement says that held bytes keep their order and that what is taken or refused
fits the capacity; since `ByteQueue` quantifies over the data, `WritesAppend` adds that
the bytes appended are the caller's. `RingOK` is
inductive with `TypeOK`; the refinement has one lemma per branch of write and
read about the bytes held before and after.

`MsgDelimiterProofs` has what the delimiters share. The lemmas of
`ByteCircularBufferProofs` are taken over by `INSTANCE`; from them follows that a write
extends the piece of the stream the ring holds (`ProcessEffect`), and that a read which
does not lie across the end of the ring takes the first bytes of that piece
(`TakeEffect`). `BCBRead()` misplaces bytes in any other, so each delimiter's proof has
to show that it never makes one.

`MsgDelimiterFixedProofs` proves, for any ring, any message size that divides it
(`Divides`), any streams, chunks and cancellations, `TypeOK`, `DeliversStream` and
`NothingWaits`. The strengthening is that `rear` stays a multiple of the message size,
so that no read lies across the end, and that the bytes taken off the ring are as many
as were delivered; delivered and held bytes are then the stream so far. `RoomForChunks`
(`DiesOnlyWithoutBytes`) needs the room as well: `Roomy` says that what is left of a
message, what each cancellation may leave behind and one more chunk fit the ring
together, and `LengthsReadOrBeyond` that a length is one `recvfrom()` returns or is
beyond the ring. For the code's 10240 bytes, reads of 1024 and messages of 10 that is
nine cancellations in a row; run `fixed` sits exactly at this bound.

`MsgDelimiterVarProofs` proves `TypeOK`, `DeliversMessages` and `NothingWaits` for any
ring and any mix of message sizes, chunks and cancellations, under one hypothesis about
the bytes (`Sent`): a stream can be cut where its headers say (`Cuts`) into messages of
at least two bytes of which none lies across the end of the ring (`InOneTurn`); run
`var_mixed` shows that it is needed, and theorem `OneSize` that messages of one size
which divides the ring meet it. The invariant (`Progress`) says that the bytes taken off
the ring end at such a cut and that the next message begins there (`Begins`), and that
`rear` is that place modulo the ring. So the header and the message are within one turn,
every value the header may be taken for is the one the client wrote (`HeaderRead`), `pc
= "take"` means that the whole message is there, and its length is the one announced.
`RoomForChunks` needs `LengthsReadOrBeyond` and `Roomy`, which here depends on the least
and the greatest size. `Begins` is a recursive function. The library's induction
theorems cannot be used for it, since they take an operator; but its theorem that `<` is
well-founded on `Nat` takes none, and gives induction over *sets* of numbers (`Least`,
`Induction`), by which the definition of `Begins` has a solution for every number of
messages, and `Begins` the expected equations.

`EthNmProofs` proves `TypeOK` and `WakesOnce` for any number of signals and state
changes; `WakesOnce` assumes that no command stores `wake_up`, as only `Start()` does.
The strengthening says that, as long as `wake_up` stays the state, what the manager has
loaded is `wake_up`, and that after the report `pre_state_var` tells it that nothing
changed; `End()` cannot spoil that, because it stores `state_var` first.

`TcpSrvProofs` proves `TypeOK`, `NoWildCall`, `RightUnlessShared` and the action
property `DisplaysOneDatabase` for any number of connections. The manager's thread
exists only once the listeners are set (`Registered`), so it never tests a wild pointer.
The lock is held exactly while the main thread is at `next` or `line` (`Locked`), so
`Update()` waits there, the database stays as it is and the cursor within it. For the
lines, `LineOK` says of each thread that what it has yet to convert belongs to its line,
and that, unless the line is marked as shared, the other thread is not between
`memset()` and `inet_ntop()`: then the buffer, once the line is ready, holds an address
of that line, which is the address where there is only one. The mark cannot be missing,
because a line that begins while the other thread converts is marked at once.

The proofs assume the named assumptions on the constants in those modules (finite
bounds are not assumed), which TLC evaluates on its instances.

Model-checked only: what needs fairness (`ListenReturns`, `EverythingDelivered`,
`StopEnds`, the fairness of `ControlPlane`, `Settles`, `SleepEnds`, `ProcessReturns`,
`AcceptedIsKnown`), since TLAPS has no proof rules here for liveness under fairness and
ENABLED. Every invariant and every action property that a passing run checks is a
theorem.

## Not modelled

* `Notify()` and `someip_app`: no code calls the first, and the second only reads
  what it would have written.
* `RecieveMulticast()` is unreachable behind `SendMulticast()`, which never returns; of the
  UDP set-up only the exit on failure is in `EthNm`.
* `ConnectionManager::StopThread()` has no caller, and a failing `accept()` only prints.
* Descriptors of FD_SETSIZE and more, and the unrelated descriptor that
  `ConnectionManager::Stop()` closes: both are undefined writes or closes whose outcome
  depends on memory no model would tell apart.
* A second application thread: the repository's application is one thread.
* `ClientService` composed with a delimiter per client: the connection manager always
  sets the delimiter to null, so no program of the repository runs the two together.
  What the service does to a delimiter is in the delimiters' modules: calls for a client
  that is not ready, with any of the lengths and with foreign bytes, and the cancellation
  inside the callback (`Interrupt`). Which client the foreign bytes are from is not.
* `MsgHandler` and the rest of the `HEAD` side, `network_covert_ip_p_to_n()` (a pure
  function called once) and the interactive test clients, which are the environment.

## Plan

The order was that of importance: the receive path is what the server is for, so
`Delivery` and `ClientService` came first with their proofs, then the ring and the
delimiters on top of it, then the control plane with its abstract specification and its
proofs, the core, what `tcpsrv` prints, and last the proofs of `MsgDelimiterVar` and
`TcpSrv`. What would come next:

1. An abstract specification of both delimiters (bytes arrive, messages leave, no
   ring), with the two shown to implement it.
2. If the connection manager comes to set a delimiter again: the composition, and
   message sizes such as the 27 of the comment in
   `connection_manager.cpp:214`, which does not divide 10240, as findings.
