------------------------ MODULE ClientServiceProofs ------------------------
(***************************************************************************)
(* Theorems about module ClientService, for any set of clients and thread  *)
(* identifiers and any number of chunks.                                   *)
(***************************************************************************)
EXTENDS ClientService, FiniteSetTheorems, TLAPS

(* The assumptions on the constants that the proofs use. *)
USE ClientsAssumption, MaxChunksAssumption, ThreadsAssumption, NoClientAssumption

\* Every service step is one of these actions.
LEMMA NextCases ==
  ASSUME Next
  PROVE  \/ \E c \in Clients : Send(c) \/ Disconnect(c) \/ Accept(c)
         \/ Join \/ AddClient \/ StartThread
         \/ \E t \in Threads : \/ CopyFds(t) \/ Select(t) \/ Awake(t) \/ Received(t)
                               \/ Return(t) \/ EndPass(t) \/ Cancelled(t)
         \/ \E t \in Threads, c \in Clients :
              RecvChunk(t, c) \/ RecvError(t, c) \/ RecvEof(t, c) \/ Skip(t, c)
BY Zenon DEF Next, ManagerStep, ServiceStep

\* What is on the list is a client, and appending adds just that client.
LEMMA RangeOfList ==
  ASSUME clients_ \in Seq(Clients)
  PROVE  /\ Range(clients_) \subseteq Clients
         /\ \A i \in 1..Len(clients_) : clients_[i] \in Range(clients_)
         /\ \A c \in Clients : Range(Append(clients_, c)) = Range(clients_) \cup {c}
BY DEF Range

LEMMA RangeAppend ==
  ASSUME NEW S, NEW s \in Seq(S), NEW x \in S
  PROVE  Range(Append(s, x)) = Range(s) \cup {x}
BY DEF Range

-----------------------------------------------------------------------------
(* Type correctness.  TypeOK alone is not inductive: Accept() cancels the   *)
(* thread of the handle, and AddClient() appends the client accept()        *)
(* returned, so both must exist when the manager gets there; and a chunk is *)
(* numbered by what its socket has given up, never more than was sent.      *)

HandleInv ==
  /\ cmpc \in {"accept", "join"} <=> thread # NoThread
  /\ cmpc \in {"join", "add"} <=> accepted # NoClient
  /\ \A c \in Clients : unread[c] <= sent[c]

TypeInv == TypeOK /\ HandleInv

LEMMA TypeInit == Init => TypeInv
<1> SUFFICES ASSUME Init PROVE TypeInv
  OBVIOUS
<1>1. /\ data \in Chunk
      /\ tpc \in [Threads -> PCs]
      /\ data_len \in [Threads -> {-1, 0, 1}]
  BY DEF Init, Zeros, Chunk, PCs
<1>2. /\ clients_ \in Seq(Clients)
      /\ it \in [Threads -> Nat \ {0}]
      /\ peer \in [Clients -> {"open", "closed", "reset"}]
  BY DEF Init
<1>3. /\ sent \in [Clients -> Nat]
      /\ unread \in [Clients -> Nat]
      /\ handed \in [Clients -> Seq(Chunk)]
  BY DEF Init
<1>4. HandleInv
  BY DEF Init, HandleInv
<1> QED
  BY <1>1, <1>2, <1>3, <1>4 DEF Init, TypeOK, TypeInv

LEMMA TypeStep == TypeInv /\ [Next]_vars => TypeInv'
<1> SUFFICES ASSUME TypeOK, HandleInv, [Next]_vars PROVE TypeOK' /\ HandleInv'
  BY DEF TypeInv
<1> USE DEF PCs, service, local, manager, sockets
<1>1. ASSUME NEW c \in Clients, Send(c) PROVE TypeOK' /\ HandleInv'
  <2> sent \in [Clients -> Nat] /\ unread \in [Clients -> Nat]
    BY DEF TypeOK
  <2>1. sent' \in [Clients -> Nat] /\ unread' \in [Clients -> Nat]
    BY <1>1 DEF Send
  <2>2. \A d \in Clients : unread'[d] <= sent'[d]
    BY <1>1 DEF Send, HandleInv
  <2> QED BY <1>1, <2>1, <2>2 DEF Send, TypeOK, HandleInv
<1>2. ASSUME NEW c \in Clients, Disconnect(c) PROVE TypeOK' /\ HandleInv'
  <2>1. peer' \in [Clients -> {"open", "closed", "reset"}]
    BY <1>2 DEF Disconnect, TypeOK
  <2> QED BY <1>2, <2>1 DEF Disconnect, TypeOK, HandleInv
<1>3. ASSUME NEW c \in Clients, Accept(c) PROVE TypeOK' /\ HandleInv'
  <2>1. cancelled' \subseteq Threads /\ accepted' # NoClient
    BY <1>3 DEF Accept, TypeOK, HandleInv
  <2> QED BY <1>3, <2>1 DEF Accept, TypeOK, HandleInv
<1>4. CASE Join
  BY <1>4 DEF Join, TypeOK, HandleInv
<1>5. CASE AddClient
  <2>1. accepted \in Clients
    BY <1>5 DEF AddClient, TypeOK, HandleInv
  <2>2. clients_' \in Seq(Clients)
    BY <1>5, <2>1 DEF AddClient, TypeOK
  <2> QED BY <1>5, <2>2 DEF AddClient, TypeOK, HandleInv
<1>6. CASE StartThread
  <2>1. /\ tpc' \in [Threads -> PCs]
        /\ data_len' \in [Threads -> {-1, 0, 1}]
        /\ thread' \in Threads
    BY <1>6 DEF StartThread, TypeOK
  <2> QED BY <1>6, <2>1 DEF StartThread, TypeOK, HandleInv
<1>7. ASSUME NEW t \in Threads, CopyFds(t) PROVE TypeOK' /\ HandleInv'
  <2>1. /\ max_fd' \in Clients \cup {0}
        /\ backup_fd_set' \subseteq Clients
        /\ tpc' \in [Threads -> PCs]
    BY <1>7, RangeOfList DEF CopyFds, TypeOK
  <2> QED BY <1>7, <2>1 DEF CopyFds, TypeOK, HandleInv
<1>8. ASSUME NEW t \in Threads, Select(t) PROVE TypeOK' /\ HandleInv'
  <2>1. active_fd_set' \subseteq Clients
    BY <1>8 DEF Select, TypeOK
  <2>2. it' \in [Threads -> Nat \ {0}] /\ tpc' \in [Threads -> PCs]
    BY <1>8 DEF Select, TypeOK
  <2> QED BY <1>8, <2>1, <2>2 DEF Select, TypeOK, HandleInv
<1>9. ASSUME NEW t \in Threads, Awake(t) PROVE TypeOK' /\ HandleInv'
  <2>1. tpc' \in [Threads -> PCs]
    BY <1>9 DEF Awake, TypeOK
  <2> QED BY <1>9, <2>1 DEF Awake, TypeOK, HandleInv
<1>10. ASSUME NEW t \in Threads, Received(t) PROVE TypeOK' /\ HandleInv'
  <2>1. handed' \in [Clients -> Seq(Chunk)]
    <3> DEFINE c == clients_[it[t]]
    <3>1. handed \in [Clients -> Seq(Chunk)] /\ data \in Chunk
      BY DEF TypeOK
    <3>2. handed' = handed \/ handed' = [handed EXCEPT ![c] = Append(handed[c], data)]
      BY <1>10 DEF Received
    <3> HIDE DEF c
    <3>3. CASE c \in Clients
      BY <3>1, <3>2, <3>3
    <3>4. CASE c \notin Clients
      BY <3>1, <3>2, <3>4
    <3> QED BY <3>3, <3>4
  <2>2. tpc' \in [Threads -> PCs]
    BY <1>10 DEF Received, TypeOK
  <2> QED BY <1>10, <2>1, <2>2 DEF Received, TypeOK, HandleInv
<1>11. ASSUME NEW t \in Threads, Return(t) PROVE TypeOK' /\ HandleInv'
  <2>1. it' \in [Threads -> Nat \ {0}] /\ tpc' \in [Threads -> PCs]
    BY <1>11 DEF Return, TypeOK
  <2> QED BY <1>11, <2>1 DEF Return, TypeOK, HandleInv
<1>12. ASSUME NEW t \in Threads, EndPass(t) PROVE TypeOK' /\ HandleInv'
  <2>1. data' \in Chunk
    BY <1>12 DEF EndPass, Zeros, Chunk, TypeOK
  <2>2. tpc' \in [Threads -> PCs] /\ crashed' \in BOOLEAN
    BY <1>12 DEF EndPass, TypeOK
  <2> QED BY <1>12, <2>1, <2>2 DEF EndPass, TypeOK, HandleInv
<1>13. ASSUME NEW t \in Threads, Cancelled(t) PROVE TypeOK' /\ HandleInv'
  <2>1. tpc' \in [Threads -> PCs] /\ cancelled' \subseteq Threads
    BY <1>13 DEF Cancelled, TypeOK
  <2>2. it' \in [Threads -> Nat \ {0}] /\ data_len' \in [Threads -> {-1, 0, 1}]
    BY <1>13 DEF Cancelled, TypeOK
  <2> QED BY <1>13, <2>1, <2>2 DEF Cancelled, TypeOK, HandleInv
<1>14. ASSUME NEW t \in Threads, NEW c \in Clients, NEW len \in {-1, 0, 1}, Recv(t, c, len)
       PROVE  tpc' \in [Threads -> PCs] /\ data_len' \in [Threads -> {-1, 0, 1}]
  BY <1>14 DEF Recv, AfterRead, TypeOK
<1>15. ASSUME NEW t \in Threads, NEW c \in Clients, RecvChunk(t, c)
       PROVE  TypeOK' /\ HandleInv'
  <2>1. unread' \in [Clients -> Nat] /\ \A d \in Clients : unread'[d] <= unread[d]
    <3>1. unread \in [Clients -> Nat]
      BY DEF TypeOK
    <3>2. unread[c] > 0 /\ unread' = [unread EXCEPT ![c] = unread[c] - 1]
      BY <1>15 DEF RecvChunk
    <3> QED BY <3>1, <3>2
  <2>2. data' \in Chunk
    BY <1>15 DEF RecvChunk, Chunk, TypeOK, HandleInv
  <2>3. tpc' \in [Threads -> PCs] /\ data_len' \in [Threads -> {-1, 0, 1}]
    BY <1>14, <1>15 DEF RecvChunk
  <2>4. HandleInv'
    BY <1>15, <2>1 DEF RecvChunk, Recv, TypeOK, HandleInv
  <2> QED BY <1>15, <2>1, <2>2, <2>3, <2>4 DEF RecvChunk, Recv, TypeOK
<1>16. ASSUME NEW t \in Threads, NEW c \in Clients, RecvError(t, c)
       PROVE  TypeOK' /\ HandleInv'
  <2>1. peer' \in [Clients -> {"open", "closed", "reset"}]
    BY <1>16 DEF RecvError, TypeOK
  <2>2. tpc' \in [Threads -> PCs] /\ data_len' \in [Threads -> {-1, 0, 1}]
    BY <1>14, <1>16 DEF RecvError
  <2> QED BY <1>16, <2>1, <2>2 DEF RecvError, Recv, TypeOK, HandleInv
<1>17. ASSUME NEW t \in Threads, NEW c \in Clients, RecvEof(t, c)
       PROVE  TypeOK' /\ HandleInv'
  <2>1. tpc' \in [Threads -> PCs] /\ data_len' \in [Threads -> {-1, 0, 1}]
    BY <1>14, <1>17 DEF RecvEof
  <2> QED BY <1>17, <2>1 DEF RecvEof, Recv, TypeOK, HandleInv
<1>18. ASSUME NEW t \in Threads, NEW c \in Clients, Skip(t, c)
       PROVE TypeOK' /\ HandleInv'
  <2>1. tpc' \in [Threads -> PCs]
    BY <1>18 DEF Skip, AfterRead, TypeOK
  <2> QED BY <1>18, <2>1 DEF Skip, TypeOK, HandleInv
<1>19. CASE UNCHANGED vars
  BY <1>19 DEF vars, TypeOK, HandleInv
<1> QED
  BY <1>1, <1>2, <1>3, <1>4, <1>5, <1>6, <1>7, <1>8, <1>9, <1>10, <1>11, <1>12,
     <1>13, <1>15, <1>16, <1>17, <1>18, <1>19, NextCases, Zenon

\* The variables keep their types: in particular the iterator, the socket
\* counters and the thread handle of the service stay in range.
THEOREM TypeCorrect == Spec => []TypeOK
<1>1. TypeInv => TypeOK
  BY DEF TypeInv
<1> QED BY <1>1, TypeInit, TypeStep, PTL DEF Spec
-----------------------------------------------------------------------------
(* Mutual exclusion on the list.  OneServiceThread is inductive over the    *)
(* types: pthread_join() lets the manager forget only a thread that has     *)
(* exited, and it creates one only after it forgot the last.                *)

LEMMA ExclusionStep == TypeInv /\ OneServiceThread /\ [Next]_vars => OneServiceThread'
<1> SUFFICES ASSUME TypeInv, OneServiceThread, [Next]_vars PROVE OneServiceThread'
  OBVIOUS
<1> USE DEF OneServiceThread, Live
<1>1. /\ tpc \in [Threads -> PCs]
      /\ thread = NoThread => cmpc \in {"add", "start"}
      /\ cmpc \in {"add", "start"} => thread = NoThread
      /\ cmpc \in {"accept", "join", "add", "start"}
  BY DEF TypeInv, TypeOK, HandleInv
<1>2. ASSUME UNCHANGED <<tpc, thread>> PROVE OneServiceThread'
  BY <1>2
<1>3. CASE Join
  BY <1>1, <1>3 DEF Join, local
<1>4. CASE StartThread
  BY <1>1, <1>4 DEF StartThread
<1>5. ASSUME NEW t \in Threads, Live(t), thread' = thread,
             NEW pc, tpc' = [tpc EXCEPT ![t] = pc]
      PROVE  OneServiceThread'
  BY <1>1, <1>5
<1>6. ASSUME NEW t \in Threads,
             \/ CopyFds(t) \/ Select(t) \/ Awake(t) \/ Received(t)
             \/ Return(t) \/ EndPass(t)
      PROVE  OneServiceThread'
  BY <1>5, <1>6
     DEF CopyFds, Select, Awake, Received, Return, EndPass, service
<1>7. ASSUME NEW t \in Threads, NEW c \in Clients,
             RecvChunk(t, c) \/ RecvError(t, c) \/ RecvEof(t, c) \/ Skip(t, c)
      PROVE  OneServiceThread'
  BY <1>5, <1>7 DEF RecvChunk, RecvError, RecvEof, Recv, Skip, AtClient, service
<1>8. ASSUME NEW t \in Threads, Cancelled(t) PROVE OneServiceThread'
  BY <1>1, <1>8 DEF Cancelled, service
<1>9. ASSUME NEW c \in Clients, Send(c) \/ Disconnect(c) \/ Accept(c)
      PROVE  OneServiceThread'
  BY <1>2, <1>9 DEF Send, Disconnect, Accept, service, local
<1>10. CASE AddClient
  BY <1>2, <1>10 DEF AddClient, local
<1>11. CASE UNCHANGED vars
  BY <1>2, <1>11 DEF vars, service, local
<1> QED
  BY <1>3, <1>4, <1>6, <1>7, <1>8, <1>9, <1>10, <1>11, NextCases, Zenon

LEMMA TypeAlways == Spec => []TypeInv
BY TypeInit, TypeStep, PTL DEF Spec

\* A service thread never outlives its handle, so the next connection can
\* always find it and there is never a second one.
THEOREM OnlyOneThread == Spec => []OneServiceThread
<1>1. Init => OneServiceThread
  BY DEF Init, OneServiceThread, Live
<1> QED BY <1>1, TypeAlways, ExclusionStep, PTL DEF Spec

LEMMA ExclusionFromOne == TypeInv /\ OneServiceThread => ListExclusion
BY DEF TypeInv, HandleInv, OneServiceThread, ListExclusion, Live

\* No service thread is alive while Listen() changes the unlocked list.
THEOREM Exclusion == Spec => []ListExclusion
BY TypeAlways, OnlyOneThread, ExclusionFromOne, PTL
-----------------------------------------------------------------------------
(* Nothing is lost or invented.  The buffer outlives the thread that filled *)
(* it and the client it was filled for, and a client that is not ready is   *)
(* delivered whatever it holds; but neither the buffer nor what was handed  *)
(* over ever runs ahead of the sockets.                                     *)

BufferInv == \A c \in Clients : data.from = c => data.n \in 1..(sent[c] - unread[c])

GivenInv == \A c \in Clients : \A n \in Nat : Given(c, n) => n <= sent[c] - unread[c]

ZerosInv == data.from = NoClient => data.n = 0

LossInv == BufferInv /\ ZerosInv /\ GivenInv /\ NothingLost

LEMMA LossInit == Init => LossInv
<1> SUFFICES ASSUME Init PROVE LossInv
  OBVIOUS
<1>1. \A c \in Clients : handed[c] = <<>> /\ sent[c] - unread[c] = 0
  BY DEF Init
<1>2. GivenInv
  <2>1. \A c \in Clients : Range(handed[c]) = {}
    BY <1>1 DEF Range
  <2> QED BY <2>1 DEF GivenInv, Given
<1>3. BufferInv /\ ZerosInv
  BY DEF Init, BufferInv, ZerosInv, Zeros
<1>4. NothingLost
  BY <1>1 DEF NothingLost
<1> QED BY <1>2, <1>3, <1>4 DEF LossInv

\* The hand-over appends what the buffer holds to the present client's history.
LEMMA ReceivedEffect ==
  ASSUME TypeOK, NEW t \in Threads, Received(t)
  PROVE  \A c \in Clients : \A x :
           /\ x \in Range(handed[c]) => x \in Range(handed'[c])
           /\ x \in Range(handed'[c]) =>
                x \in Range(handed[c]) \/ (x = data /\ clients_[it[t]] = c)
           /\ data_len[t] > 0 /\ clients_[it[t]] = c => data \in Range(handed'[c])
<1> DEFINE d == clients_[it[t]]
<1>1. handed \in [Clients -> Seq(Chunk)] /\ data \in Chunk
  BY DEF TypeOK
<1>2. CASE data_len[t] > 0
  <2>1. handed' = [handed EXCEPT ![d] = Append(handed[d], data)]
    BY <1>2 DEF Received
  <2>4. d = clients_[it[t]]
    OBVIOUS
  <2> HIDE DEF d
  <2>2. ASSUME NEW c \in Clients
        PROVE  handed'[c] = IF c = d THEN Append(handed[c], data) ELSE handed[c]
    BY <1>1, <2>1
  <2>3. \A c \in Clients : Range(Append(handed[c], data)) = Range(handed[c]) \cup {data}
    BY <1>1, RangeAppend
  <2>5. \A c \in Clients :
          Range(handed'[c]) = IF c = d THEN Range(handed[c]) \cup {data} ELSE Range(handed[c])
    BY <2>2, <2>3
  <2> QED BY <2>4, <2>5
<1>3. CASE ~(data_len[t] > 0)
  BY <1>3 DEF Received
<1> QED BY <1>2, <1>3

LEMMA LossStep == TypeInv /\ OneServiceThread /\ LossInv /\ [Next]_vars => LossInv'
<1> SUFFICES ASSUME TypeInv, OneServiceThread, LossInv, [Next]_vars PROVE LossInv'
  OBVIOUS
<1>1. /\ tpc \in [Threads -> PCs]
      /\ sent \in [Clients -> Nat]
      /\ unread \in [Clients -> Nat]
      /\ data_len \in [Threads -> {-1, 0, 1}]
      /\ data \in Chunk
      /\ \A c \in Clients : unread[c] <= sent[c]
  BY DEF TypeInv, TypeOK, HandleInv
<1> USE DEF service, local, manager, sockets
\* A step in which no delivery was due, or which leaves it due.
<1>2. ASSUME handed' = handed, data' \in {data, Zeros},
             \A c \in Clients : sent'[c] - unread'[c] = sent[c] - unread[c],
             \A c \in Clients : \A n : InHand(c, n) => InHand(c, n)'
      PROVE  LossInv'
  <2>1. NothingLost'
    BY <1>2 DEF LossInv, NothingLost, Given
  <2>2. GivenInv'
    BY <1>2 DEF LossInv, GivenInv, Given
  <2>3. BufferInv' /\ ZerosInv'
    BY <1>2 DEF LossInv, BufferInv, ZerosInv, Zeros
  <2> QED BY <2>1, <2>2, <2>3 DEF LossInv
<1>3. ASSUME UNCHANGED <<data, tpc, it, data_len, clients_>>
      PROVE  \A c \in Clients : \A n : InHand(c, n) => InHand(c, n)'
  BY <1>3 DEF InHand
<1>4. ASSUME NEW t \in Threads, Live(t), tpc[t] # "deliver"
      PROVE  \A c \in Clients : \A n : ~InHand(c, n)
  BY <1>4 DEF InHand, OneServiceThread, Live
<1>5. ASSUME \A t \in Threads : tpc[t] # "deliver"
      PROVE  \A c \in Clients : \A n : ~InHand(c, n)
  BY <1>5 DEF InHand
<1>6. ASSUME NEW t \in Threads, \/ CopyFds(t) \/ Select(t) \/ Awake(t) \/ Return(t)
      PROVE  LossInv'
  BY <1>2, <1>4, <1>6 DEF CopyFds, Select, Awake, Return, Live
<1>7. ASSUME NEW t \in Threads, EndPass(t) PROVE LossInv'
  BY <1>2, <1>4, <1>7 DEF EndPass, Live
<1>8. ASSUME NEW t \in Threads, Cancelled(t) PROVE LossInv'
  <2>1. Live(t) /\ tpc[t] # "deliver"
    BY <1>8 DEF Cancelled, AtCancellationPoint, AtClient, Live
  <2> QED BY <1>2, <1>4, <1>8, <2>1 DEF Cancelled
<1>9. ASSUME NEW t \in Threads, NEW c \in Clients, Skip(t, c) PROVE LossInv'
  BY <1>2, <1>4, <1>9 DEF Skip, AtClient, Live
<1>10. ASSUME NEW t \in Threads, NEW c \in Clients, RecvEof(t, c) \/ RecvError(t, c)
       PROVE LossInv'
  BY <1>2, <1>4, <1>10 DEF RecvEof, RecvError, Recv, AtClient, Live
<1>11. ASSUME NEW t \in Threads, NEW c \in Clients, RecvChunk(t, c) PROVE LossInv'
  <2>1. \A d \in Clients : \A n : ~InHand(d, n)
    BY <1>4, <1>11 DEF RecvChunk, Recv, AtClient, Live
  <2>2. \A d \in Clients : \A n \in 1..(sent[d] - unread[d]) : Given(d, n)
    BY <2>1 DEF LossInv, NothingLost
  <2>0. PICK new \in Nat \ {0} : new = sent[c] - unread[c] + 1
    BY <1>1
  <2>3. /\ unread' = [unread EXCEPT ![c] = unread[c] - 1]
        /\ data' = [from |-> c, n |-> new]
        /\ sent' = sent /\ handed' = handed /\ it' = it /\ clients_' = clients_
        /\ clients_[it[t]] = c
        /\ tpc' = [tpc EXCEPT ![t] = "deliver"]
        /\ data_len' = [data_len EXCEPT ![t] = 1]
    <3>1. data' = [from |-> c, n |-> sent[c] - unread[c] + 1] /\ Recv(t, c, 1)
      BY <1>11 DEF RecvChunk
    <3>2. unread' = [unread EXCEPT ![c] = unread[c] - 1]
      BY <1>11 DEF RecvChunk
    <3>3. data' = [from |-> c, n |-> new]
      BY <2>0, <3>1
    <3> QED BY <3>1, <3>2, <3>3 DEF Recv, AtClient, AfterRead
  <2>4. \A d \in Clients : sent'[d] - unread'[d] = IF d = c THEN new ELSE sent[d] - unread[d]
    <3>1. unread' = [unread EXCEPT ![c] = unread[c] - 1] /\ sent' = sent
      BY <2>3
    <3>2. \A d \in Clients : sent[d] \in Nat /\ unread[d] \in Nat
      BY <1>1
    <3>3. \A d \in Clients : unread'[d] = IF d = c THEN unread[c] - 1 ELSE unread[d]
      BY <1>1, <3>1
    <3> QED BY <2>0, <3>1, <3>2, <3>3
  <2>5. \A d \in Clients : sent[d] - unread[d] \in Nat
    BY <1>1
  <2>6. InHand(c, new)'
    <3>1. tpc'[t] = "deliver" /\ data_len'[t] > 0 /\ clients_'[it'[t]] = c
      BY <1>1, <2>3
    <3> QED BY <2>3, <3>1 DEF InHand
  <2>7. BufferInv' /\ ZerosInv'
    BY <2>3, <2>4, <2>5 DEF BufferInv, ZerosInv
  <2>8. GivenInv'
    <3>1. sent[c] - unread[c] <= new
      BY <1>1, <2>0
    <3> QED BY <2>3, <2>4, <2>5, <3>1 DEF LossInv, GivenInv, Given
  <2>9. NothingLost'
    <3> SUFFICES ASSUME NEW d \in Clients, NEW n \in 1..(sent'[d] - unread'[d])
                 PROVE  Given(d, n)' \/ InHand(d, n)'
      BY DEF NothingLost
    <3>1. CASE d = c /\ n = new
      BY <2>6, <3>1
    <3>2. CASE ~(d = c /\ n = new)
      <4>1. n \in 1..(sent[d] - unread[d])
        BY <1>1, <2>0, <2>4, <2>5, <3>2
      <4> QED BY <2>2, <2>3, <4>1 DEF Given
    <3> QED BY <3>1, <3>2
  <2> QED BY <2>7, <2>8, <2>9 DEF LossInv
<1>12. ASSUME NEW t \in Threads, Received(t) PROVE LossInv'
  <2>1. TypeOK
    BY DEF TypeInv
  <2>2. \A d \in Clients : \A n : InHand(d, n) => data_len[t] > 0 /\ clients_[it[t]] = d
    BY <1>12 DEF InHand, Received, OneServiceThread, Live
  <2>3. UNCHANGED <<data, sent, unread>>
    BY <1>12 DEF Received
  <2>4. \A d \in Clients : \A n : Given(d, n) \/ InHand(d, n) => Given(d, n)'
    <3> SUFFICES ASSUME NEW d \in Clients, NEW n, Given(d, n) \/ InHand(d, n)
                 PROVE  Given(d, n)'
      OBVIOUS
    <3>1. PICK x : x = [from |-> d, n |-> n]
      OBVIOUS
    <3>2. CASE Given(d, n)
      <4>1. x \in Range(handed[d])
        BY <3>1, <3>2 DEF Given
      <4>2. x \in Range(handed'[d])
        BY <1>12, <2>1, <4>1, ReceivedEffect
      <4> QED BY <3>1, <4>2 DEF Given
    <3>3. CASE InHand(d, n)
      <4>1. x = data
        BY <3>1, <3>3 DEF InHand
      <4>2. data \in Range(handed'[d])
        BY <1>12, <2>1, <2>2, <3>3, ReceivedEffect
      <4> QED BY <3>1, <4>1, <4>2 DEF Given
    <3> QED BY <3>2, <3>3
  <2>5. NothingLost'
    BY <2>3, <2>4 DEF LossInv, NothingLost
  <2>6. \A d \in Clients : \A n \in Nat : Given(d, n)' => n <= sent[d] - unread[d]
    <3> SUFFICES ASSUME NEW d \in Clients, NEW n \in Nat, Given(d, n)'
                 PROVE  n <= sent[d] - unread[d]
      OBVIOUS
    <3>1. PICK x : x = [from |-> d, n |-> n]
      OBVIOUS
    <3>2. x \in Range(handed'[d])
      BY <3>1 DEF Given
    <3>3. x \in Range(handed[d]) \/ x = data
      BY <1>12, <2>1, <3>2, ReceivedEffect
    <3>4. Given(d, n) \/ data = [from |-> d, n |-> n]
      BY <3>1, <3>3 DEF Given
    <3>5. CASE Given(d, n)
      BY <3>5 DEF LossInv, GivenInv
    <3>6. CASE data = [from |-> d, n |-> n]
      <4>1. data.from = d /\ data.n = n
        BY <3>6
      <4> QED BY <1>1, <4>1 DEF LossInv, BufferInv
    <3> QED BY <3>4, <3>5, <3>6
  <2> QED BY <2>3, <2>5, <2>6 DEF LossInv, BufferInv, ZerosInv, GivenInv
<1>13. ASSUME NEW c \in Clients, Send(c) PROVE LossInv'
  <2>1. \A d \in Clients : sent'[d] - unread'[d] = sent[d] - unread[d]
    BY <1>1, <1>13 DEF Send
  <2> QED BY <1>2, <1>3, <1>13, <2>1 DEF Send
<1>14. ASSUME NEW c \in Clients, Disconnect(c) \/ Accept(c) PROVE LossInv'
  BY <1>2, <1>3, <1>14 DEF Disconnect, Accept
<1>15. CASE Join
  BY <1>2, <1>3, <1>15 DEF Join
<1>16. CASE AddClient
  <2>1. \A t \in Threads : tpc[t] # "deliver"
    BY <1>16 DEF AddClient, TypeInv, HandleInv, OneServiceThread, Live
  <2> QED BY <1>2, <1>5, <1>16, <2>1 DEF AddClient
<1>17. CASE StartThread
  <2>1. \A t \in Threads : tpc[t] # "deliver"
    BY <1>17 DEF StartThread, TypeInv, HandleInv, OneServiceThread, Live
  <2> QED BY <1>2, <1>5, <1>17, <2>1 DEF StartThread
<1>18. CASE UNCHANGED vars
  BY <1>2, <1>3, <1>18 DEF vars
<1> QED
  BY <1>6, <1>7, <1>8, <1>9, <1>10, <1>11, <1>12, <1>13, <1>14, <1>15, <1>16, <1>17,
     <1>18, NextCases, Zenon

LEMMA LossAlways == Spec => []LossInv
BY LossInit, LossStep, TypeAlways, OnlyOneThread, PTL DEF Spec

\* However often a new connection cancels the service thread, every chunk a
\* client sent is in its socket, in the thread's hand, or was handed over for
\* that client.
THEOREM NeverLost == Spec => []NothingLost
<1>1. LossInv => NothingLost
  BY DEF LossInv
<1> QED BY <1>1, LossAlways, PTL
-----------------------------------------------------------------------------
(* The list and what the service thread derives from it.  A thread beyond   *)
(* recvfrom() stands at a member of the list, the client being added is a   *)
(* new one, and the ready set a cancelled thread leaves names members only. *)

PlaceInv ==
  /\ accepted # NoClient => accepted \notin Range(clients_)
  /\ active_fd_set \subseteq Range(clients_)
  /\ \A t \in Threads : tpc[t] \in {"sleep", "deliver", "callback"} => it[t] <= Len(clients_)

LEMMA WatchesInit == Init => WatchesEveryClient /\ PlaceInv
BY DEF Init, WatchesEveryClient, PlaceInv, Range

LEMMA WatchesStep ==
  TypeInv /\ OneServiceThread /\ WatchesEveryClient /\ PlaceInv /\ [Next]_vars
    => WatchesEveryClient' /\ PlaceInv'
<1> SUFFICES ASSUME TypeInv, OneServiceThread, WatchesEveryClient, PlaceInv, [Next]_vars
             PROVE  WatchesEveryClient' /\ PlaceInv'
  OBVIOUS
<1>1. /\ tpc \in [Threads -> PCs]
      /\ it \in [Threads -> Nat \ {0}]
      /\ clients_ \in Seq(Clients)
      /\ Range(clients_) \subseteq Clients
  BY RangeOfList DEF TypeInv, TypeOK
<1> USE DEF service, local, manager, sockets, Live
<1> DEFINE Watching(t) == tpc[t] \notin {"exited", "start"}
           Placed(t)   == tpc[t] \in {"sleep", "deliver", "callback"}
\* Nothing the invariant reads changes, but for a thread that retreats.
<1>2. ASSUME UNCHANGED <<clients_, max_fd, backup_fd_set, active_fd_set, accepted, it>>,
             \A t \in Threads : (Watching(t)' => Watching(t)) /\ (Placed(t)' => Placed(t))
      PROVE  WatchesEveryClient' /\ PlaceInv'
  BY <1>2 DEF WatchesEveryClient, PlaceInv
<1>3. ASSUME NEW t \in Threads, NEW pc, tpc' = [tpc EXCEPT ![t] = pc]
      PROVE  \A u \in Threads : tpc'[u] = IF u = t THEN pc ELSE tpc[u]
  BY <1>1, <1>3
<1>4. ASSUME NEW t \in Threads, CopyFds(t) PROVE WatchesEveryClient' /\ PlaceInv'
  <2>1. /\ \A u \in Threads : Watching(u)' => u = t
        /\ \A u \in Threads : ~Placed(u)'
    BY <1>1, <1>4 DEF CopyFds, OneServiceThread
  <2>2. /\ UNCHANGED <<clients_, accepted, active_fd_set>>
        /\ backup_fd_set' = Range(clients_)
        /\ \A c \in Range(clients_) : c <= max_fd'
    BY <1>4 DEF CopyFds, IsMaxFd
  <2> QED BY <2>1, <2>2 DEF WatchesEveryClient, PlaceInv
<1>5. ASSUME NEW t \in Threads, Select(t) PROVE WatchesEveryClient' /\ PlaceInv'
  <2>1. active_fd_set' \subseteq Range(clients_)
    BY <1>5 DEF Select, WatchesEveryClient
  <2>2. \A u \in Threads : tpc'[u] = IF u = t THEN "loop" ELSE tpc[u]
    BY <1>3, <1>5 DEF Select
  <2>3. \A u \in Threads : u # t => it'[u] = it[u]
    BY <1>1, <1>5 DEF Select
  <2>4. UNCHANGED <<clients_, accepted, max_fd, backup_fd_set>>
    BY <1>5 DEF Select
  <2> QED BY <1>5, <2>1, <2>2, <2>3, <2>4 DEF Select, WatchesEveryClient, PlaceInv
<1>6. ASSUME NEW t \in Threads, Awake(t) \/ Received(t) \/ EndPass(t)
      PROVE  WatchesEveryClient' /\ PlaceInv'
  <2>1. \A u \in Threads : (Watching(u)' => Watching(u)) /\ (Placed(u)' => Placed(u))
    BY <1>1, <1>6 DEF Awake, Received, EndPass
  <2> QED BY <1>2, <1>6, <2>1 DEF Awake, Received, EndPass
<1>7. ASSUME NEW t \in Threads, Return(t) PROVE WatchesEveryClient' /\ PlaceInv'
  <2>1. \A u \in Threads : tpc'[u] = IF u = t THEN "loop" ELSE tpc[u]
    BY <1>3, <1>7 DEF Return
  <2>2. \A u \in Threads : u # t => it'[u] = it[u]
    BY <1>1, <1>7 DEF Return
  <2> QED BY <1>7, <2>1, <2>2 DEF Return, WatchesEveryClient, PlaceInv
<1>18. ASSUME NEW t \in Threads, Cancelled(t) PROVE WatchesEveryClient' /\ PlaceInv'
  <2>1. \A u \in Threads : tpc'[u] = IF u = t THEN "exited" ELSE tpc[u]
    BY <1>3, <1>18 DEF Cancelled
  <2>2. \A u \in Threads : u # t => it'[u] = it[u]
    BY <1>1, <1>18 DEF Cancelled
  <2> QED BY <1>18, <2>1, <2>2 DEF Cancelled, WatchesEveryClient, PlaceInv
\* The ways from the loop to a delivery all pass AtClient().
<1>8. ASSUME NEW t \in Threads, NEW c \in Clients, AtClient(t, c), NEW pc,
             tpc' = [tpc EXCEPT ![t] = pc], pc # "start", pc # "exited",
             UNCHANGED <<clients_, max_fd, backup_fd_set, active_fd_set, accepted, it>>
      PROVE  WatchesEveryClient' /\ PlaceInv'
  <2>1. \A u \in Threads : tpc'[u] = IF u = t THEN pc ELSE tpc[u]
    BY <1>3, <1>8
  <2> QED BY <1>8, <2>1 DEF AtClient, WatchesEveryClient, PlaceInv
<1>9. \A len : AfterRead(len) \notin {"start", "exited"}
  BY DEF AfterRead
<1>10. ASSUME NEW t \in Threads, NEW c \in Clients,
              RecvChunk(t, c) \/ RecvError(t, c) \/ RecvEof(t, c)
       PROVE  WatchesEveryClient' /\ PlaceInv'
  <2>1. PICK len : Recv(t, c, len)
    BY <1>10 DEF RecvChunk, RecvError, RecvEof
  <2> QED BY <1>8, <1>9, <2>1 DEF Recv
<1>11. ASSUME NEW t \in Threads, NEW c \in Clients, Skip(t, c)
       PROVE  WatchesEveryClient' /\ PlaceInv'
  BY <1>8, <1>9, <1>11 DEF Skip
<1>12. ASSUME NEW c \in Clients, Send(c) \/ Disconnect(c)
       PROVE  WatchesEveryClient' /\ PlaceInv'
  BY <1>2, <1>12 DEF Send, Disconnect
<1>13. ASSUME NEW c \in Clients, Accept(c) PROVE WatchesEveryClient' /\ PlaceInv'
  BY <1>13 DEF Accept, WatchesEveryClient, PlaceInv
<1>14. CASE Join
  BY <1>2, <1>14 DEF Join
<1>15. CASE AddClient
  <2>1. \A t \in Threads : tpc'[t] = "exited"
    BY <1>15 DEF AddClient, TypeInv, HandleInv, OneServiceThread
  <2>2. accepted \in Clients
    BY <1>15 DEF AddClient, TypeInv, TypeOK, HandleInv
  <2>3. Range(clients_') = Range(clients_) \cup {accepted}
    BY <1>1, <1>15, <2>2, RangeOfList DEF AddClient
  <2> QED BY <1>15, <2>1, <2>3 DEF AddClient, WatchesEveryClient, PlaceInv
<1>16. CASE StartThread
  <2>1. \A t \in Threads : ~Watching(t)' /\ ~Placed(t)'
    BY <1>1, <1>16 DEF StartThread, TypeInv, HandleInv, OneServiceThread
  <2>2. accepted' = NoClient
    BY <1>16 DEF StartThread, TypeInv, HandleInv
  <2>3. UNCHANGED <<clients_, active_fd_set>>
    BY <1>16 DEF StartThread
  <2> QED BY <2>1, <2>2, <2>3 DEF WatchesEveryClient, PlaceInv
<1>17. CASE UNCHANGED vars
  BY <1>2, <1>17 DEF vars
<1> QED
  BY <1>4, <1>5, <1>6, <1>7, <1>10, <1>11, <1>12, <1>13, <1>14, <1>15, <1>16, <1>17,
     <1>18, NextCases, Zenon

LEMMA WatchesAlways == Spec => [](WatchesEveryClient /\ PlaceInv)
BY WatchesInit, WatchesStep, TypeAlways, OnlyOneThread, PTL DEF Spec

\* A running thread select()s on exactly the clients that were accepted.
THEOREM WatchesAll == Spec => []WatchesEveryClient
BY WatchesAlways, PTL
-----------------------------------------------------------------------------
(* Repetitions.  A chunk that was handed over is still in the buffer when   *)
(* a thread dies in the callback, and it can be handed over again only by a *)
(* thread that found a length in data_len and has not passed its client.    *)
(* No step but the start of a thread creates that situation, and the        *)
(* repetition ends it.                                                      *)

\* The first position of clients_ that thread t has still to serve.
Ahead(t) ==
  CASE tpc[t] \in {"start", "select"} -> 1
    [] tpc[t] = "callback"            -> it[t] + 1
    [] OTHER                          -> it[t]

MayRepeat(t) ==
  /\ Live(t)
  /\ data_len[t] > 0
  /\ data.from \in Clients
  /\ Given(data.from, data.n)
  /\ \E i \in Ahead(t)..Len(clients_) : clients_[i] = data.from

\* The repetitions that the threads that are gone may have made.
Allowed ==
  IF Len(clients_) < 2 THEN 0
  ELSE Len(clients_) - 1 - (IF cmpc = "start" THEN 1 ELSE 0)

\* No client is listed twice, and the first client's first thread finds the
\* buffer empty.
ListInv ==
  /\ \A i, j \in 1..Len(clients_) : clients_[i] = clients_[j] => i = j
  /\ clients_ = <<>> => data = Zeros /\ cmpc # "start"
  /\ Len(clients_) = 1 /\ cmpc = "start" => data = Zeros

Budget ==
  /\ IsFiniteSet(Repeats)
  /\ Cardinality(Repeats) <= Allowed
  /\ \A t \in Threads : MayRepeat(t) => Cardinality(Repeats) < Allowed

LEMMA RepeatsMember ==
  ASSUME NEW c \in Clients, NEW i
  PROVE  <<c, i>> \in Repeats <=>
           /\ i \in 1..Len(handed[c])
           /\ handed[c][i].from = c
           /\ \E j \in 1..(i-1) : handed[c][j] = handed[c][i]
<1> DEFINE Again(d) == {k \in 1..Len(handed[d]) :
                          /\ handed[d][k].from = d
                          /\ \E j \in 1..(k-1) : handed[d][j] = handed[d][k]}
<1>1. <<c, i>> \in Repeats <=> \E d \in Clients : \E k \in Again(d) : <<c, i>> = <<d, k>>
  <2>1. Repeats = UNION {{<<d, k>> : k \in Again(d)} : d \in Clients}
    BY DEF Repeats
  <2> HIDE DEF Again
  <2>2. \A x : x \in Repeats <=> \E d \in Clients : x \in {<<d, k>> : k \in Again(d)}
    BY <2>1, Zenon
  <2>3. \A d : <<c, i>> \in {<<d, k>> : k \in Again(d)} <=> \E k \in Again(d) : <<c, i>> = <<d, k>>
    BY Zenon
  <2> QED BY <2>2, <2>3, Zenon
<1>2. \A d, k : <<c, i>> = <<d, k>> <=> c = d /\ i = k
  OBVIOUS
<1> HIDE DEF Again
<1>3. <<c, i>> \in Repeats <=> i \in Again(c)
  BY <1>1, <1>2
<1> QED BY <1>3 DEF Again

LEMMA ListStep == TypeInv /\ OneServiceThread /\ PlaceInv /\ ListInv /\ [Next]_vars => ListInv'
<1> SUFFICES ASSUME TypeInv, OneServiceThread, PlaceInv, ListInv, [Next]_vars PROVE ListInv'
  OBVIOUS
<1>1. /\ clients_ \in Seq(Clients)
      /\ tpc \in [Threads -> PCs]
      /\ it \in [Threads -> Nat \ {0}]
  BY DEF TypeInv, TypeOK
<1> USE DEF service, local, manager, sockets
\* Nothing is read into the buffer, and the manager is not at work.
<1>2. ASSUME UNCHANGED clients_, data' \in {data, Zeros}, cmpc' \in {cmpc, "accept", "join", "add"}
      PROVE  ListInv'
  BY <1>2 DEF ListInv
<1>3. ASSUME NEW c \in Clients, Send(c) \/ Disconnect(c) \/ Accept(c) PROVE ListInv'
  BY <1>2, <1>3 DEF Send, Disconnect, Accept
<1>4. CASE Join
  BY <1>2, <1>4 DEF Join
<1>5. CASE StartThread
  BY <1>2, <1>5 DEF StartThread
<1>6. CASE AddClient
  <2>1. accepted \in Clients /\ accepted \notin Range(clients_)
    BY <1>6 DEF AddClient, TypeInv, TypeOK, HandleInv, PlaceInv
  <2>2. clients_' = Append(clients_, accepted) /\ data' = data
    BY <1>6 DEF AddClient
  <2>3. \A i \in 1..Len(clients_) : clients_[i] # accepted
    BY <1>1, <2>1, RangeOfList
  <2>4. \A i, j \in 1..Len(clients_') : clients_'[i] = clients_'[j] => i = j
    <3>1. /\ Len(clients_') = Len(clients_) + 1
          /\ clients_'[Len(clients_) + 1] = accepted
          /\ \A i \in 1..Len(clients_) : clients_'[i] = clients_[i]
      BY <1>1, <2>1, <2>2
    <3> QED BY <1>1, <2>3, <3>1 DEF ListInv
  <2>5. clients_' # <<>> /\ (Len(clients_') = 1 => clients_ = <<>>)
    BY <1>1, <2>1, <2>2
  <2> QED BY <2>2, <2>4, <2>5 DEF ListInv
<1>7. ASSUME NEW t \in Threads, \/ CopyFds(t) \/ Select(t) \/ Awake(t) \/ Received(t)
                                \/ Return(t) \/ EndPass(t) \/ Cancelled(t)
      PROVE  ListInv'
  BY <1>2, <1>7 DEF CopyFds, Select, Awake, Received, Return, EndPass, Cancelled
<1>8. ASSUME NEW t \in Threads, NEW c \in Clients, RecvError(t, c) \/ RecvEof(t, c) \/ Skip(t, c)
      PROVE  ListInv'
  BY <1>2, <1>8 DEF RecvError, RecvEof, Recv, Skip
<1>9. ASSUME NEW t \in Threads, NEW c \in Clients, RecvChunk(t, c) PROVE ListInv'
  <2>1. AtClient(t, c) /\ UNCHANGED <<clients_, cmpc>>
    BY <1>9 DEF RecvChunk, Recv
  <2>2. clients_ # <<>>
    BY <1>1, <2>1 DEF AtClient
  <2>3. cmpc # "start"
    BY <2>1 DEF AtClient, TypeInv, HandleInv, OneServiceThread, Live
  <2> QED BY <2>1, <2>2, <2>3 DEF ListInv
<1>10. CASE UNCHANGED vars
  BY <1>2, <1>10 DEF vars
<1> QED
  BY <1>3, <1>4, <1>5, <1>6, <1>7, <1>8, <1>9, <1>10, NextCases, Zenon

\* A hand-over repeats at most what the buffer holds for the client at hand.
LEMMA ReceivedRepeats ==
  ASSUME TypeOK, NEW t \in Threads, Received(t), NEW c \in Clients, c = clients_[it[t]]
  PROVE  IF data_len[t] > 0 /\ data.from = c /\ Given(c, data.n)
         THEN Repeats' \subseteq Repeats \cup {<<c, Len(handed[c]) + 1>>}
         ELSE Repeats' \subseteq Repeats
<1>1. /\ handed \in [Clients -> Seq(Chunk)]
      /\ data \in Chunk
  BY DEF TypeOK
<1>2. CASE data_len[t] > 0
  <2>1. handed' = [handed EXCEPT ![c] = Append(handed[c], data)]
    BY <1>2 DEF Received
  <2>2. \A d \in Clients \ {c} : handed'[d] = handed[d]
    BY <1>1, <2>1
  <2>3. /\ handed'[c] = Append(handed[c], data)
        /\ Len(handed'[c]) = Len(handed[c]) + 1
        /\ handed'[c][Len(handed[c]) + 1] = data
        /\ \A i \in 1..Len(handed[c]) : handed'[c][i] = handed[c][i]
    BY <1>1, <2>1
  <2>4. Len(handed[c]) \in Nat
    BY <1>1
  <2>5. ASSUME NEW d \in Clients, NEW i, <<d, i>> \in Repeats', <<d, i>> \notin Repeats
        PROVE  /\ d = c /\ i = Len(handed[c]) + 1
               /\ data.from = c /\ Given(c, data.n)
    <3>0. /\ i \in 1..Len(handed'[d])
          /\ handed'[d][i].from = d
          /\ \E j \in 1..(i-1) : handed'[d][j] = handed'[d][i]
      <4>1. PICK e \in Clients : \E k \in 1..Len(handed'[e]) :
              /\ handed'[e][k].from = e
              /\ \E j \in 1..(k-1) : handed'[e][j] = handed'[e][k]
              /\ <<d, i>> = <<e, k>>
        BY <2>5 DEF Repeats
      <4>2. \A k : <<d, i>> = <<e, k>> => d = e /\ i = k
        OBVIOUS
      <4> QED BY <4>1, <4>2
    <3>1. /\ i \in 1..Len(handed'[d])
          /\ handed'[d][i].from = d
      BY <3>0
    <3>2. PICK j \in 1..(i-1) : handed'[d][j] = handed'[d][i]
      BY <3>0
    <3>3. d = c
      BY <2>2, <2>5, <3>1, <3>2, RepeatsMember
    <3>4. i = Len(handed[c]) + 1
      <4> SUFFICES ASSUME i \in 1..Len(handed[c]) PROVE FALSE
        BY <2>3, <2>4, <3>1, <3>3
      <4>1. j \in 1..Len(handed[c])
        BY <2>4, <3>2
      <4>2. handed[c][j] = handed[c][i] /\ handed[c][i].from = c
        BY <2>3, <3>1, <3>2, <3>3, <4>1
      <4> QED BY <2>5, <3>2, <3>3, <4>2, RepeatsMember
    <3>5. j \in 1..Len(handed[c]) /\ handed[c][j] = data /\ data.from = c
      BY <2>3, <2>4, <3>1, <3>2, <3>3, <3>4
    <3>6. data \in Range(handed[c])
      BY <1>1, <3>5 DEF Range
    <3>7. data = [from |-> c, n |-> data.n]
      BY <1>1, <3>5 DEF Chunk
    <3> QED BY <3>3, <3>4, <3>5, <3>6, <3>7 DEF Given
  <2>6. ASSUME NEW x \in Repeats', x \notin Repeats
        PROVE  /\ x = <<c, Len(handed[c]) + 1>>
               /\ data.from = c /\ Given(c, data.n)
    <3>1. PICK d \in Clients, i \in Nat : x = <<d, i>>
      BY <2>6 DEF Repeats
    <3> QED BY <2>5, <2>6, <3>1
  <2> QED BY <1>2, <2>6
<1>3. CASE ~(data_len[t] > 0)
  <2>1. handed' = handed
    BY <1>3 DEF Received
  <2> QED BY <1>3, <2>1 DEF Repeats
<1> QED BY <1>2, <1>3

LEMMA BudgetStep ==
  TypeInv /\ OneServiceThread /\ LossInv /\ PlaceInv /\ ListInv /\ Budget /\ [Next]_vars
    => Budget'
<1> SUFFICES ASSUME TypeInv, OneServiceThread, LossInv, PlaceInv, ListInv, Budget, [Next]_vars
             PROVE  Budget'
  OBVIOUS
<1>1. /\ clients_ \in Seq(Clients)
      /\ tpc \in [Threads -> PCs]
      /\ it \in [Threads -> Nat \ {0}]
      /\ data_len \in [Threads -> {-1, 0, 1}]
      /\ data \in Chunk
      /\ cmpc \in {"accept", "join", "add", "start"}
      /\ Len(clients_) \in Nat
  BY DEF TypeInv, TypeOK
<1>2. Cardinality(Repeats) \in Nat
  BY FS_CardinalityType DEF Budget
<1> USE DEF service, local, manager, sockets
\* Nothing is handed over and no thread gets into the situation.
<1>3. ASSUME UNCHANGED <<handed, clients_>>, cmpc' = "start" => cmpc = "start",
             \A t \in Threads : MayRepeat(t)' => MayRepeat(t)
      PROVE  Budget'
  <2>1. Repeats' = Repeats
    BY <1>3 DEF Repeats
  <2>2. Allowed \in Int /\ Allowed' \in Int /\ Allowed <= Allowed'
    BY <1>1, <1>3 DEF Allowed
  <2> QED BY <1>2, <1>3, <2>1, <2>2 DEF Budget
<1>4. ASSUME UNCHANGED <<tpc, it, data_len, data, clients_, handed>>
      PROVE  \A t \in Threads : MayRepeat(t)' => MayRepeat(t)
  BY <1>4 DEF MayRepeat, Live, Given, Ahead
\* A step of the one thread that is alive.
<1>5. ASSUME NEW t \in Threads, Live(t), UNCHANGED <<handed, clients_, cmpc>>,
             \A u \in Threads \ {t} : tpc'[u] = tpc[u],
             MayRepeat(t)' => MayRepeat(t)
      PROVE  Budget'
  <2>1. \A u \in Threads \ {t} : ~MayRepeat(u)'
    BY <1>5 DEF MayRepeat, OneServiceThread, Live
  <2> QED BY <1>3, <1>5, <2>1
<1>6. ASSUME NEW t \in Threads, NEW pc, tpc' = [tpc EXCEPT ![t] = pc]
      PROVE  tpc'[t] = pc /\ \A u \in Threads \ {t} : tpc'[u] = tpc[u]
  BY <1>1, <1>6
\* It moves on, past nobody or past some clients.
<1>7. ASSUME NEW t \in Threads, Live(t), UNCHANGED <<data, handed, clients_>>,
             Ahead(t) <= Ahead(t)', Ahead(t) \in Nat, Ahead(t)' \in Nat,
             data_len'[t] \in {data_len[t], 0, -1}
      PROVE  MayRepeat(t)' => MayRepeat(t)
  <2> SUFFICES ASSUME MayRepeat(t)' PROVE MayRepeat(t)
    OBVIOUS
  <2>1. PICK i \in Ahead(t)'..Len(clients_) : clients_[i] = data.from
    BY <1>7 DEF MayRepeat
  <2>2. i \in Ahead(t)..Len(clients_)
    BY <1>1, <1>7, <2>1
  <2>3. data_len[t] > 0
    BY <1>1, <1>7 DEF MayRepeat
  <2> QED BY <1>7, <2>1, <2>2, <2>3 DEF MayRepeat, Given
<1>8. ASSUME NEW t \in Threads, \/ CopyFds(t) \/ Select(t) \/ Awake(t) \/ Return(t)
      PROVE  Budget'
  <2>1. /\ Live(t) /\ UNCHANGED <<data, data_len, handed, clients_, cmpc>>
        /\ \A u \in Threads \ {t} : tpc'[u] = tpc[u]
    BY <1>6, <1>8 DEF CopyFds, Select, Awake, Return, Live
  <2>2. Ahead(t) <= Ahead(t)' /\ Ahead(t) \in Nat /\ Ahead(t)' \in Nat
    <3>1. CASE CopyFds(t)
      BY <1>6, <3>1 DEF CopyFds, Ahead
    <3>2. CASE Select(t)
      BY <1>1, <1>6, <3>2 DEF Select, Ahead
    <3>3. CASE Awake(t)
      BY <1>1, <1>6, <3>3 DEF Awake, Ahead
    <3>4. CASE Return(t)
      BY <1>1, <1>6, <3>4 DEF Return, Ahead
    <3> QED BY <1>8, <3>1, <3>2, <3>3, <3>4
  <2> QED BY <1>5, <1>7, <2>1, <2>2
<1>9. ASSUME NEW t \in Threads, NEW c \in Clients, RecvError(t, c) \/ RecvEof(t, c) \/ Skip(t, c)
      PROVE  Budget'
  <2>1. /\ tpc[t] = "loop" /\ tpc'[t] \in {"sleep", "deliver"}
        /\ UNCHANGED <<data, it, handed, clients_, cmpc>>
        /\ \A u \in Threads \ {t} : tpc'[u] = tpc[u]
        /\ data_len'[t] \in {data_len[t], 0, -1}
    BY <1>1, <1>6, <1>9 DEF RecvError, RecvEof, Recv, Skip, AtClient, AfterRead
  <2>2. Ahead(t) <= Ahead(t)' /\ Ahead(t) \in Nat /\ Ahead(t)' \in Nat
    BY <1>1, <2>1 DEF Ahead
  <2> QED BY <1>5, <1>7, <2>1, <2>2 DEF Live
\* What recvfrom() reads was never handed over.
<1>10. ASSUME NEW t \in Threads, NEW c \in Clients, RecvChunk(t, c) PROVE Budget'
  <2>1. /\ Live(t) /\ UNCHANGED <<handed, clients_, cmpc>>
        /\ \A u \in Threads \ {t} : tpc'[u] = tpc[u]
        /\ data'.from = c /\ data'.n = sent[c] - unread[c] + 1
    BY <1>6, <1>10 DEF RecvChunk, Recv, AtClient, AfterRead, Live
  <2>2. data'.n \in Nat /\ ~(data'.n <= sent[c] - unread[c])
    BY <2>1 DEF TypeInv, TypeOK, HandleInv
  <2>3. ~MayRepeat(t)'
    BY <2>1, <2>2 DEF MayRepeat, LossInv, GivenInv, Given
  <2> QED BY <1>5, <2>1, <2>3
<1>11. ASSUME NEW t \in Threads, EndPass(t) PROVE Budget'
  <2>1. /\ Live(t) /\ UNCHANGED <<handed, clients_, cmpc, data_len>>
        /\ \A u \in Threads \ {t} : tpc'[u] = tpc[u]
    BY <1>6, <1>11 DEF EndPass, Live
  <2>2. data_len[t] > 0 => data' = Zeros
    BY <1>11 DEF EndPass
  <2>3. ~MayRepeat(t)'
    BY <2>1, <2>2 DEF MayRepeat, Zeros
  <2> QED BY <1>5, <2>1, <2>3
<1>12. ASSUME NEW t \in Threads, Cancelled(t) PROVE Budget'
  <2>1. Live(t)
    BY <1>12 DEF Cancelled, AtCancellationPoint, AtClient, Live
  <2>2. /\ tpc'[t] = "exited" /\ UNCHANGED <<handed, clients_, cmpc>>
        /\ \A u \in Threads \ {t} : tpc'[u] = tpc[u]
    BY <1>6, <1>12 DEF Cancelled
  <2>3. ~MayRepeat(t)'
    BY <2>2 DEF MayRepeat, Live
  <2> QED BY <1>5, <2>1, <2>2, <2>3
\* The one repetition a thread can make.
<1>13. ASSUME NEW t \in Threads, Received(t) PROVE Budget'
  <2>1. it[t] \in 1..Len(clients_) /\ tpc[t] = "deliver" /\ TypeOK
    BY <1>1, <1>13 DEF Received, PlaceInv, TypeInv
  <2>2. PICK c \in Clients : c = clients_[it[t]]
    BY <1>1, <2>1, RangeOfList
  <2>3. UNCHANGED <<data, data_len, it, clients_, cmpc>> /\ tpc'[t] = "callback"
    BY <1>6, <1>13 DEF Received
  <2>4. Allowed' = Allowed
    BY <2>3 DEF Allowed
  <2>5. \A u \in Threads \ {t} : ~MayRepeat(u)'
    BY <1>6, <1>13 DEF Received, MayRepeat, OneServiceThread, Live
  <2>6. MayRepeat(t)' => MayRepeat(t)
    <3> SUFFICES ASSUME MayRepeat(t)' PROVE MayRepeat(t)
      OBVIOUS
    <3>1. PICK i \in (it[t] + 1)..Len(clients_) : clients_[i] = data.from
      BY <2>3 DEF MayRepeat, Ahead
    <3>2. i \in Ahead(t)..Len(clients_) /\ i \in 1..Len(clients_) /\ i # it[t]
      BY <1>1, <2>1, <3>1 DEF Ahead
    <3>3. data.from # c
      BY <2>1, <2>2, <3>1, <3>2 DEF ListInv
    <3>4. PICK x : x = [from |-> data.from, n |-> data.n]
      OBVIOUS
    <3>5. x \in Range(handed'[data.from]) /\ data.from \in Clients
      BY <2>3, <3>4 DEF MayRepeat, Given
    <3>6. x \in Range(handed[data.from])
      BY <1>13, <2>1, <2>2, <3>3, <3>5, ReceivedEffect
    <3> QED BY <2>1, <2>3, <3>1, <3>2, <3>4, <3>5, <3>6 DEF MayRepeat, Live, Given
  <2>7. CASE data_len[t] > 0 /\ data.from = c /\ Given(c, data.n)
    <3>1. MayRepeat(t)
      <4>1. it[t] \in Ahead(t)..Len(clients_)
        BY <1>1, <2>1 DEF Ahead
      <4> QED BY <2>1, <2>2, <2>7, <4>1 DEF MayRepeat, Live
    <3>2. ~MayRepeat(t)'
      <4> SUFFICES ASSUME MayRepeat(t)' PROVE FALSE
        OBVIOUS
      <4>1. PICK i \in (it[t] + 1)..Len(clients_) : clients_[i] = data.from
        BY <2>3 DEF MayRepeat, Ahead
      <4> QED BY <1>1, <2>1, <2>2, <2>7, <4>1 DEF ListInv
    <3>3. PICK new : Repeats' \subseteq Repeats \cup {new}
      BY <1>13, <2>1, <2>2, <2>7, ReceivedRepeats
    <3>4. /\ IsFiniteSet(Repeats \cup {new})
          /\ Cardinality(Repeats \cup {new}) <= Cardinality(Repeats) + 1
      <4>1. IsFiniteSet(Repeats)
        BY DEF Budget
      <4>2. /\ IsFiniteSet(Repeats \cup {new})
            /\ Cardinality(Repeats \cup {new}) =
                 IF new \in Repeats THEN Cardinality(Repeats) ELSE Cardinality(Repeats) + 1
        BY <4>1, FS_AddElement, Zenon
      <4> QED BY <1>2, <4>2
    <3>5. IsFiniteSet(Repeats') /\ Cardinality(Repeats') <= Cardinality(Repeats \cup {new})
      BY <3>3, <3>4, FS_Subset
    <3>6. Cardinality(Repeats') \in Nat /\ Cardinality(Repeats \cup {new}) \in Nat
      BY <3>4, <3>5, FS_CardinalityType
    <3>7. Allowed \in Int /\ Cardinality(Repeats) < Allowed
      BY <1>1, <3>1 DEF Allowed, Budget
    <3>8. Cardinality(Repeats') <= Allowed'
      BY <1>2, <2>4, <3>4, <3>5, <3>6, <3>7
    <3> QED BY <2>5, <3>2, <3>5, <3>8 DEF Budget
  <2>8. CASE ~(data_len[t] > 0 /\ data.from = c /\ Given(c, data.n))
    <3>1. Repeats' \subseteq Repeats
      BY <1>13, <2>1, <2>2, <2>8, ReceivedRepeats
    <3>2. IsFiniteSet(Repeats') /\ Cardinality(Repeats') <= Cardinality(Repeats)
      BY <3>1, FS_Subset DEF Budget
    <3>3. Cardinality(Repeats') \in Nat
      BY <3>2, FS_CardinalityType
    <3>4. Allowed \in Int
      BY <1>1 DEF Allowed
    <3> QED BY <1>2, <2>4, <2>5, <2>6, <3>2, <3>3, <3>4 DEF Budget
  <2> QED BY <2>7, <2>8
<1>14. ASSUME NEW c \in Clients, Send(c) \/ Disconnect(c) \/ Accept(c) PROVE Budget'
  BY <1>3, <1>4, <1>14 DEF Send, Disconnect, Accept
<1>15. CASE Join
  BY <1>3, <1>4, <1>15 DEF Join
\* A client more: the next thread will be one that has a predecessor.
<1>16. CASE AddClient
  <2>1. \A t \in Threads : ~Live(t)
    BY <1>16 DEF AddClient, TypeInv, HandleInv, OneServiceThread, Live
  <2>2. \A t \in Threads : ~MayRepeat(t)'
    BY <1>16, <2>1 DEF AddClient, MayRepeat, Live
  <2>3. Repeats' = Repeats
    BY <1>16 DEF AddClient, Repeats
  <2>4. accepted \in Clients
    BY <1>16 DEF AddClient, TypeInv, TypeOK, HandleInv
  <2>5. Len(clients_') = Len(clients_) + 1 /\ cmpc = "add" /\ cmpc' = "start"
    BY <1>1, <1>16, <2>4 DEF AddClient
  <2>6. Allowed' \in Int /\ Allowed \in Int /\ Allowed <= Allowed'
    BY <1>1, <2>5 DEF Allowed
  <2> QED BY <1>2, <2>2, <2>3, <2>6 DEF Budget
<1>17. CASE StartThread
  <2>1. Repeats' = Repeats
    BY <1>17 DEF StartThread, Repeats
  <2>2. /\ cmpc = "start" /\ cmpc' = "accept"
        /\ UNCHANGED <<clients_, data>>
    BY <1>17 DEF StartThread
  <2>3. clients_ # <<>>
    BY <2>2 DEF ListInv
  <2>4. PICK n \in Nat \ {0} : n = Len(clients_)
    BY <1>1, <2>3
  <2>5. CASE Len(clients_) = 1
    <3>1. data' = Zeros
      BY <2>2, <2>5 DEF ListInv
    <3>2. \A t \in Threads : ~MayRepeat(t)'
      BY <3>1 DEF MayRepeat, Zeros
    <3>3. Allowed' = Allowed
      BY <2>2, <2>5 DEF Allowed
    <3> QED BY <2>1, <3>2, <3>3 DEF Budget
  <2>6. CASE Len(clients_) >= 2
    <3>1. Allowed \in Int /\ Allowed' = Allowed + 1
      BY <1>1, <2>2, <2>6 DEF Allowed
    <3>2. IsFiniteSet(Repeats) /\ Cardinality(Repeats) <= Allowed
      BY DEF Budget
    <3>3. Cardinality(Repeats) < Allowed + 1 /\ Cardinality(Repeats) <= Allowed + 1
      BY <1>2, <3>1, <3>2
    <3>4. /\ IsFiniteSet(Repeats')
          /\ Cardinality(Repeats') < Allowed'
          /\ Cardinality(Repeats') <= Allowed'
      BY <2>1, <3>1, <3>2, <3>3
    <3> QED BY <3>4 DEF Budget
  <2>7. Len(clients_) = 1 \/ Len(clients_) >= 2
    <3>1. n = 1 \/ n >= 2
      OBVIOUS
    <3> QED BY <2>4, <3>1
  <2> QED BY <2>5, <2>6, <2>7
<1>18. CASE UNCHANGED vars
  BY <1>3, <1>4, <1>18 DEF vars
<1> QED
  BY <1>8, <1>9, <1>10, <1>11, <1>12, <1>13, <1>14, <1>15, <1>16, <1>17, <1>18,
     NextCases, Zenon

LEMMA BudgetInit == Init => ListInv /\ Budget
<1> SUFFICES ASSUME Init PROVE ListInv /\ Budget
  OBVIOUS
<1>1. clients_ = <<>> /\ data = Zeros /\ cmpc = "accept"
  BY DEF Init
<1>2. Repeats = {}
  BY DEF Init, Repeats
<1>3. \A t \in Threads : ~MayRepeat(t)
  BY <1>1 DEF MayRepeat, Zeros
<1>4. Allowed = 0
  BY <1>1 DEF Allowed
<1> QED BY <1>1, <1>2, <1>3, <1>4, FS_EmptySet DEF ListInv, Budget

\* A client is handed a chunk of its own again at most once for each thread
\* that took over from another, for any clients, threads and chunks.
THEOREM RepeatsAreFew == Spec => []RepeatsFew
<1>1. TypeInv /\ Budget => RepeatsFew
  <2> SUFFICES ASSUME TypeInv, Budget PROVE RepeatsFew
    OBVIOUS
  <2>1. clients_ \in Seq(Clients) /\ Cardinality(Repeats) \in Nat
    BY FS_CardinalityType DEF TypeInv, TypeOK, Budget
  <2>2. Cardinality(Repeats) <= Allowed
    BY DEF Budget
  <2>3. Allowed <= (IF clients_ = <<>> THEN 0 ELSE Len(clients_) - 1) /\ Allowed \in Int
    BY <2>1 DEF Allowed
  <2> QED BY <2>1, <2>2, <2>3 DEF RepeatsFew
<1> QED
  BY <1>1, BudgetInit, ListStep, BudgetStep, TypeAlways, OnlyOneThread, LossAlways,
     WatchesAlways, PTL DEF Spec
-----------------------------------------------------------------------------
(* The negative length.  A thread may carry -1 through a pass, its own      *)
(* garbage or an older read's, but select() found somebody ready: as long   *)
(* as no peer's reset was reported, a client that is ready is still ahead   *)
(* and will overwrite it before memset() is reached.                        *)

ResetSeen == \E c \in Resetting : peer[c] = "closed"

\* The first client that thread t has not passed.
Position(t) == IF tpc[t] = "loop" THEN it[t] ELSE it[t] + 1

ReadAhead(t) == \E i \in Position(t)..Len(clients_) : clients_[i] \in active_fd_set

InPass(t) == tpc[t] \in {"loop", "sleep", "deliver", "callback"}

DeathInv ==
  /\ \A c \in Clients : peer[c] = "reset" => c \in Resetting
  /\ crashed => ResetSeen
  /\ \A t \in Threads : InPass(t) /\ data_len[t] = -1 => ResetSeen \/ ReadAhead(t)

LEMMA DeathInit == Init => DeathInv
BY DEF Init, DeathInv, InPass

LEMMA DeathStep ==
  TypeInv /\ OneServiceThread /\ WatchesEveryClient /\ DeathInv /\ [Next]_vars => DeathInv'
<1> SUFFICES ASSUME TypeInv, OneServiceThread, WatchesEveryClient, DeathInv, [Next]_vars
             PROVE  DeathInv'
  OBVIOUS
<1>1. /\ tpc \in [Threads -> PCs]
      /\ it \in [Threads -> Nat \ {0}]
      /\ data_len \in [Threads -> {-1, 0, 1}]
      /\ clients_ \in Seq(Clients)
      /\ peer \in [Clients -> {"open", "closed", "reset"}]
      /\ Resetting \subseteq Clients
  BY DEF TypeInv, TypeOK
<1> USE DEF service, local, manager, sockets
\* A step of t that leaves the sockets' ends and the list alone.
<1>2. ASSUME UNCHANGED <<peer, crashed>>,
             \A t \in Threads : InPass(t)' /\ data_len'[t] = -1
                                => ReadAhead(t)' \/ (InPass(t) /\ data_len[t] = -1
                                                     /\ (ReadAhead(t) => ReadAhead(t)'))
      PROVE  DeathInv'
  BY <1>2 DEF DeathInv, ResetSeen
<1>3. ASSUME UNCHANGED <<tpc, it, data_len, clients_, active_fd_set>>
      PROVE  \A t \in Threads : /\ InPass(t)' <=> InPass(t)
                                /\ ReadAhead(t)' <=> ReadAhead(t)
  BY <1>3 DEF InPass, ReadAhead, Position
<1>4. ASSUME NEW c \in Clients, Send(c) \/ Accept(c) PROVE DeathInv'
  BY <1>2, <1>3, <1>4 DEF Send, Accept
<1>5. ASSUME NEW c \in Clients, Disconnect(c) PROVE DeathInv'
  <2>1. ResetSeen => ResetSeen'
    BY <1>1, <1>5 DEF Disconnect, ResetSeen
  <2>2. \A d \in Clients : peer'[d] = "reset" => d \in Resetting
    BY <1>1, <1>5 DEF Disconnect, DeathInv
  <2>3. UNCHANGED <<tpc, it, data_len, clients_, active_fd_set, crashed>>
    BY <1>5 DEF Disconnect
  <2> QED BY <1>3, <2>1, <2>2, <2>3 DEF DeathInv
<1>6. CASE Join
  BY <1>2, <1>3, <1>6 DEF Join
<1>7. CASE AddClient
  <2>1. \A t \in Threads : ~InPass(t)'
    BY <1>7 DEF AddClient, TypeInv, HandleInv, OneServiceThread, Live, InPass
  <2> QED BY <1>2, <1>7, <2>1 DEF AddClient
<1>8. CASE StartThread
  <2>1. \A t \in Threads : ~InPass(t)'
    BY <1>1, <1>8 DEF StartThread, TypeInv, HandleInv, OneServiceThread, Live, InPass
  <2> QED BY <1>2, <1>8, <2>1 DEF StartThread
<1>9. ASSUME NEW t \in Threads, NEW pc, tpc' = [tpc EXCEPT ![t] = pc],
             UNCHANGED <<clients_, active_fd_set>>
      PROVE  /\ tpc'[t] = pc
             /\ \A u \in Threads \ {t} : /\ tpc'[u] = tpc[u]
                                         /\ InPass(u)' <=> InPass(u)
             /\ \A u \in Threads : it'[u] = it[u] /\ tpc'[u] = tpc[u] =>
                                     (ReadAhead(u)' <=> ReadAhead(u))
  BY <1>1, <1>9 DEF InPass, ReadAhead, Position
<1>10. ASSUME NEW t \in Threads, CopyFds(t) \/ Cancelled(t) PROVE DeathInv'
  <2>1. ~InPass(t)'
    BY <1>1, <1>10 DEF CopyFds, Cancelled, InPass
  <2>2. ASSUME NEW u \in Threads, u # t
        PROVE  /\ (InPass(u)' => InPass(u)) /\ (ReadAhead(u)' <=> ReadAhead(u))
               /\ data_len'[u] = data_len[u]
    BY <1>1, <1>10, <2>2 DEF CopyFds, Cancelled, InPass, ReadAhead, Position
  <2>3. UNCHANGED <<peer, crashed>>
    BY <1>10 DEF CopyFds, Cancelled
  <2> QED BY <1>2, <2>1, <2>2, <2>3
\* The other threads are not in a pass.
<1>11. ASSUME NEW t \in Threads, Live(t) PROVE \A u \in Threads \ {t} : ~InPass(u)
  BY <1>11 DEF OneServiceThread, Live, InPass
<1>12. ASSUME NEW t \in Threads, NEW pc, Live(t), tpc' = [tpc EXCEPT ![t] = pc]
       PROVE  tpc'[t] = pc /\ \A u \in Threads \ {t} : ~InPass(u)'
  BY <1>1, <1>11, <1>12 DEF InPass
<1>13. ASSUME NEW t \in Threads, Select(t) PROVE DeathInv'
  <2>1. it'[t] = 1 /\ tpc'[t] = "loop" /\ \A u \in Threads \ {t} : ~InPass(u)'
    BY <1>1, <1>12, <1>13 DEF Select, Live
  <2>2. PICK c \in active_fd_set' : c \in Range(clients_)
    BY <1>13 DEF Select, WatchesEveryClient
  <2>3. PICK i \in 1..Len(clients_) : clients_[i] = c
    BY <1>1, <2>2 DEF Range
  <2>4. ReadAhead(t)'
    BY <1>13, <2>1, <2>2, <2>3 DEF Select, ReadAhead, Position
  <2> QED BY <1>2, <1>13, <2>1, <2>4 DEF Select
<1>14. ASSUME NEW t \in Threads, Awake(t) \/ Received(t) PROVE DeathInv'
  <2>1. /\ tpc[t] \in {"sleep", "deliver"} /\ tpc'[t] \in {"deliver", "callback"}
        /\ \A u \in Threads \ {t} : ~InPass(u)'
    BY <1>12, <1>14 DEF Awake, Received, Live
  <2>2. UNCHANGED <<it, data_len, clients_, active_fd_set, peer, crashed>>
    BY <1>14 DEF Awake, Received
  <2>3. InPass(t) /\ (ReadAhead(t) => ReadAhead(t)')
    BY <2>1, <2>2 DEF InPass, ReadAhead, Position
  <2> QED BY <1>2, <2>1, <2>2, <2>3
<1>15. ASSUME NEW t \in Threads, Return(t) PROVE DeathInv'
  <2>1. /\ tpc[t] = "callback" /\ tpc'[t] = "loop" /\ it'[t] = it[t] + 1
        /\ \A u \in Threads \ {t} : ~InPass(u)'
    BY <1>1, <1>12, <1>15 DEF Return, Live
  <2>2. UNCHANGED <<data_len, clients_, active_fd_set, peer, crashed>>
    BY <1>15 DEF Return
  <2>3. InPass(t) /\ (ReadAhead(t) => ReadAhead(t)')
    BY <2>1, <2>2 DEF InPass, ReadAhead, Position
  <2> QED BY <1>2, <2>1, <2>2, <2>3
<1>16. ASSUME NEW t \in Threads, EndPass(t) PROVE DeathInv'
  <2>1. tpc[t] = "loop" /\ ~InPass(t)' /\ \A u \in Threads \ {t} : ~InPass(u)'
    BY <1>1, <1>12, <1>16 DEF EndPass, Live, InPass
  <2>2. ~ReadAhead(t)
    BY <1>1, <1>16 DEF EndPass, ReadAhead, Position
  <2>3. data_len[t] = -1 => ResetSeen
    BY <2>1, <2>2 DEF DeathInv, InPass
  <2>4. peer' = peer /\ crashed' = (data_len[t] = -1)
    BY <1>16 DEF EndPass
  <2> QED BY <2>1, <2>3, <2>4 DEF DeathInv, ResetSeen
<1>17. ASSUME NEW t \in Threads, NEW c \in Clients, Skip(t, c) PROVE DeathInv'
  <2>1. /\ tpc[t] = "loop" /\ tpc'[t] \in {"sleep", "deliver"}
        /\ \A u \in Threads \ {t} : ~InPass(u)'
    BY <1>12, <1>17 DEF Skip, AtClient, AfterRead, Live
  <2>2. UNCHANGED <<it, data_len, clients_, active_fd_set, peer, crashed>>
    BY <1>17 DEF Skip
  <2>3. clients_[it[t]] \notin active_fd_set
    BY <1>17 DEF Skip, AtClient
  <2>4. InPass(t) /\ (ReadAhead(t) => ReadAhead(t)')
    BY <1>1, <2>1, <2>2, <2>3 DEF InPass, ReadAhead, Position
  <2> QED BY <1>2, <2>1, <2>2, <2>4
<1>18. ASSUME NEW t \in Threads, NEW c \in Clients, NEW len, Recv(t, c, len)
       PROVE  data_len'[t] = len /\ \A u \in Threads \ {t} : ~InPass(u)'
  BY <1>1, <1>12, <1>18 DEF Recv, AtClient, Live
<1>19. ASSUME NEW t \in Threads, NEW c \in Clients, RecvChunk(t, c) \/ RecvEof(t, c)
       PROVE  DeathInv'
  <2>1. data_len'[t] # -1 /\ \A u \in Threads \ {t} : ~InPass(u)'
    BY <1>18, <1>19 DEF RecvChunk, RecvEof
  <2> QED BY <1>2, <1>19, <2>1 DEF RecvChunk, RecvEof, Recv
<1>20. ASSUME NEW t \in Threads, NEW c \in Clients, RecvError(t, c) PROVE DeathInv'
  <2>1. c \in Resetting /\ peer' = [peer EXCEPT ![c] = "closed"]
    BY <1>20 DEF RecvError, DeathInv
  <2>2. ResetSeen'
    BY <1>1, <2>1 DEF ResetSeen
  <2>3. \A d \in Clients : peer'[d] = "reset" => d \in Resetting
    BY <1>1, <2>1 DEF DeathInv
  <2> QED BY <2>2, <2>3 DEF DeathInv
<1>21. CASE UNCHANGED vars
  BY <1>2, <1>3, <1>21 DEF vars
<1> QED
  BY <1>4, <1>5, <1>6, <1>7, <1>8, <1>10, <1>13, <1>14, <1>15, <1>16, <1>17, <1>19,
     <1>20, <1>21, NextCases, Zenon

\* The process dies of a negative length only when a peer really reset its
\* connection, whatever garbage new threads found in data_len.
THEOREM DeathOfReset == Spec => []DiesOnlyOfReset
<1>1. DeathInv => DiesOnlyOfReset
  BY DEF DeathInv, ResetSeen, DiesOnlyOfReset
<1> QED BY <1>1, DeathInit, DeathStep, TypeAlways, OnlyOneThread, WatchesAlways, PTL DEF Spec
-----------------------------------------------------------------------------
(* The service implements Delivery: AddClient() registers, Received()       *)
(* delivers the next chunk or hands over what is not new, and every other   *)
(* step of the manager and the threads is a stuttering step of the promise. *)

LEMMA DeliveryInit == Init => Delivered!Init
BY DEF Init, Delivered!Init, Range

LEMMA ReceivedDelivers ==
  ASSUME TypeInv, OneServiceThread, LossInv, PlaceInv, NEW t \in Threads, Received(t)
  PROVE  Delivered!Next \/ UNCHANGED <<clients_, sent, handed>>
<1> DEFINE c == clients_[it[t]]
<1>1. /\ clients_ \in Seq(Clients)
      /\ sent \in [Clients -> Nat]
      /\ unread \in [Clients -> Nat]
      /\ it \in [Threads -> Nat \ {0}]
      /\ data \in Chunk
      /\ \A d \in Clients : unread[d] <= sent[d]
  BY DEF TypeInv, TypeOK, HandleInv
<1>2. UNCHANGED <<clients_, sent>>
  BY DEF Received, service, sockets
<1>3. it[t] \in 1..Len(clients_)
  BY <1>1 DEF Received, PlaceInv
<1>4. c \in Range(clients_) /\ c \in Clients
  BY <1>1, <1>3, RangeOfList
<1>5. CASE data_len[t] > 0
  <2>1. handed' = [handed EXCEPT ![c] = Append(@, data)]
    BY <1>5 DEF Received
  <2>2. \A d \in Clients : \A n : InHand(d, n) => d = c
    BY DEF InHand, Received, OneServiceThread, Live
  <2> HIDE DEF c
  <2>3. CASE data.from = NoClient
    <3>1. data.n = 0
      BY <2>3 DEF LossInv, ZerosInv, Zeros
    <3>2. data = Delivered!Zeros
      BY <1>1, <2>3, <3>1 DEF Chunk, Delivered!Zeros
    <3>3. Delivered!Stray(c)
      BY <1>2, <1>4, <2>1, <3>2 DEF Delivered!Stray
    <3> QED BY <1>4, <3>3 DEF Delivered!Next
  <2>4. CASE data.from \in Clients
    <3>0. PICK d \in Clients, n \in Nat : data = [from |-> d, n |-> n]
      BY <1>1, <2>4 DEF Chunk
    <3>1. n \in 1..(sent[d] - unread[d])
      <4>1. data.from = d /\ data.n = n
        BY <3>0
      <4> QED BY <4>1 DEF LossInv, BufferInv
    <3>4. n \in 1..sent[d]
      BY <1>1, <3>1
    <3>2. CASE Given(d, n)
      <4>1. Delivered!Given(d, n)
        BY <3>2 DEF Given, Delivered!Given, Range, Delivered!Range
      <4>2. Delivered!Stray(c)
        BY <1>2, <1>4, <2>1, <3>0, <3>4, <4>1 DEF Delivered!Stray
      <4> QED BY <1>4, <4>2 DEF Delivered!Next
    <3>3. CASE ~Given(d, n)
      <4>1. InHand(d, n)
        BY <3>1, <3>3 DEF LossInv, NothingLost
      <4>2. d = c
        BY <2>2, <4>1
      <4>3. ASSUME NEW m \in 1..(n-1) PROVE Given(d, m)
        <5>1. m \in 1..(sent[d] - unread[d]) /\ m # n
          BY <1>1, <3>1
        <5>2. ~InHand(d, m)
          BY <3>0, <5>1 DEF InHand
        <5> QED BY <5>1, <5>2 DEF LossInv, NothingLost
      <4>4. ~Delivered!Given(d, n) /\ \A m \in 1..(n-1) : Delivered!Given(d, m)
        BY <3>3, <4>3 DEF Given, Delivered!Given, Range, Delivered!Range
      <4>5. Delivered!Deliver(d)
        BY <1>2, <1>4, <2>1, <3>0, <3>4, <4>2, <4>4 DEF Delivered!Deliver
      <4> QED BY <4>5 DEF Delivered!Next
    <3> QED BY <3>2, <3>3
  <2> QED BY <1>1, <2>3, <2>4 DEF Chunk
<1>6. CASE ~(data_len[t] > 0)
  BY <1>2, <1>6 DEF Received
<1> QED BY <1>5, <1>6

LEMMA DeliveryStep ==
  TypeInv /\ OneServiceThread /\ LossInv /\ PlaceInv /\ [Next]_vars
    => [Delivered!Next]_(Delivered!vars)
<1> SUFFICES ASSUME TypeInv, OneServiceThread, LossInv, PlaceInv, [Next]_vars
             PROVE  Delivered!Next \/ UNCHANGED <<Range(clients_), sent, handed>>
  BY DEF Delivered!vars
<1> USE DEF service, local, manager, sockets
<1>2. ASSUME UNCHANGED <<clients_, sent, handed>>
      PROVE  UNCHANGED <<Range(clients_), sent, handed>>
  BY <1>2
<1>3. ASSUME NEW c \in Clients, Send(c) PROVE Delivered!Next
  BY <1>3 DEF Send, Delivered!Next, Delivered!Send
<1>4. CASE AddClient
  <2>1. /\ accepted \in Clients /\ accepted \notin Range(clients_)
        /\ clients_ \in Seq(Clients)
    BY <1>4 DEF AddClient, TypeInv, TypeOK, HandleInv, PlaceInv
  <2>2. Range(clients_') = Range(clients_) \cup {accepted}
    BY <1>4, <2>1, RangeOfList DEF AddClient
  <2>3. Delivered!Register(accepted)
    BY <1>4, <2>1, <2>2 DEF AddClient, Delivered!Register
  <2> QED BY <2>1, <2>3 DEF Delivered!Next
<1>5. ASSUME NEW t \in Threads, Received(t)
      PROVE  Delivered!Next \/ UNCHANGED <<clients_, sent, handed>>
  BY <1>5, ReceivedDelivers
<1>6. ASSUME NEW c \in Clients, Disconnect(c) \/ Accept(c)
      PROVE  UNCHANGED <<clients_, sent, handed>>
  BY <1>6 DEF Disconnect, Accept
<1>7. ASSUME Join \/ StartThread PROVE UNCHANGED <<clients_, sent, handed>>
  BY <1>7 DEF Join, StartThread
<1>8. ASSUME NEW t \in Threads, \/ CopyFds(t) \/ Select(t) \/ Awake(t) \/ Return(t)
                                \/ EndPass(t) \/ Cancelled(t)
      PROVE  UNCHANGED <<clients_, sent, handed>>
  BY <1>8 DEF CopyFds, Select, Awake, Return, EndPass, Cancelled
<1>9. ASSUME NEW t \in Threads, NEW c \in Clients,
             RecvChunk(t, c) \/ RecvError(t, c) \/ RecvEof(t, c) \/ Skip(t, c)
      PROVE  UNCHANGED <<clients_, sent, handed>>
  BY <1>9 DEF RecvChunk, RecvError, RecvEof, Recv, Skip
<1>10. CASE UNCHANGED vars
  BY <1>10 DEF vars
<1> QED
  BY <1>2, <1>3, <1>4, <1>5, <1>6, <1>7, <1>8, <1>9, <1>10, NextCases, Zenon

\* Whatever the manager cancels and whenever, the application is handed each
\* registered client's chunks in order, and besides only zeros or what it was
\* handed before.
THEOREM Implements == Spec => ImplementsDelivery
BY DeliveryInit, DeliveryStep, TypeAlways, OnlyOneThread, LossAlways, WatchesAlways, PTL
   DEF Spec, ImplementsDelivery, Delivered!Spec
=============================================================================
