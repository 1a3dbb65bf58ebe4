------------------------------ MODULE ByteQueue ------------------------------
(***************************************************************************)
(* What the byte circular buffer promises: a bounded first-in first-out    *)
(* queue of bytes.  A write is taken whole or refused, a read returns its  *)
(* size or, when fewer bytes are there, zero; only a removing read shrinks *)
(* the queue.  Module ByteCircularBuffer implements it.                    *)
(***************************************************************************)
EXTENDS Naturals, Sequences

CONSTANTS
  Byte,     \* values of a byte
  Size,     \* capacity
  MaxRead   \* the most a caller asks for

VARIABLES
  queue,  \* the bytes held, oldest first
  ret     \* what the last call returned

vars == <<queue, ret>>

Init == queue = <<>> /\ ret = 0

Write(data) ==
  \/ /\ Len(queue) + Len(data) <= Size
     /\ queue' = queue \o data
     /\ ret' = Len(data)
  \/ /\ Len(queue) + Len(data) > Size
     /\ ret' = 0
     /\ UNCHANGED queue

Read(n, remove) ==
  \/ /\ n <= Len(queue)
     /\ queue' = IF remove THEN SubSeq(queue, n + 1, Len(queue)) ELSE queue
     /\ ret' = n
  \/ /\ n > Len(queue)
     /\ ret' = 0
     /\ UNCHANGED queue

Reset == queue' = <<>> /\ UNCHANGED ret

\* Data of every length that fits, and one that does not.
Chunk == UNION {[1..k -> Byte] : k \in 0..Size+1}

Next ==
  \/ \E data \in Chunk : Write(data)
  \/ \E n \in 0..MaxRead, remove \in BOOLEAN : Read(n, remove)
  \/ Reset

Spec == Init /\ [][Next]_vars
=============================================================================
