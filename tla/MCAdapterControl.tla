-------------------------- MODULE MCAdapterControl --------------------------
(* AdapterControl for TLC: components and stations are interchangeable. *)
EXTENDS AdapterControl, TLC

Symmetry == Permutations(Component) \cup Permutations(Neighbour)
=============================================================================
