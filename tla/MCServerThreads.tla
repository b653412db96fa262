--------------------------- MODULE MCServerThreads --------------------------
(* A few connections and rooms for model checking ServerThreads. *)
EXTENDS ServerThreads, TLC

Symmetry == Permutations(Conns) \cup Permutations(Rooms)
=============================================================================
