-------------------------- MODULE MCClientService --------------------------
(* Model checking of module ClientService.  Thread identifiers are         *)
(* interchangeable, which the safety runs exploit.                          *)
EXTENDS ClientService, TLC

ThreadSymmetry == Permutations(Threads)
=============================================================================
