----------------------------- MODULE MCNodeHeap ------------------------------
(* NodeHeap on a small instance. *)
EXTENDS NodeHeap, TLC

(* Nodes of a kind are interchangeable. *)
Symmetry == Permutations(Nodes \ Fragments) \cup Permutations(Fragments)

=============================================================================
