------------------------------ MODULE MCBroker -------------------------------
(* A small instance of Broker: objects and clients are interchangeable. *)
EXTENDS Broker, TLC

Symmetry == Permutations(Objs) \cup Permutations(Clients)
==============================================================================
