--------------------------- MODULE MCRouteBroker ----------------------------
(* A small instance of RouteBroker: its sets are interchangeable. *)
EXTENDS RouteBroker, TLC

Symmetry == Permutations(Objs) \cup Permutations(Clients)
            \cup Permutations(Vals)
==============================================================================
