---------------------------- MODULE MCTcpServer ----------------------------
(* Model checking of module TcpServer.  Clients, managers, services and     *)
(* threads are interchangeable, which the safety runs use.                  *)
EXTENDS TcpServer

Symmetry == Permutations(Clients) \cup Permutations(Managers)
              \cup Permutations(Services) \cup Permutations(Threads)

\* The uninitialized state word happens to be zero, or has a bit set that Stop()
\* acts upon.
NoGarbage   == {{}}
SomeGarbage == {{}, {"NOT_LISTENING"}}
=============================================================================
