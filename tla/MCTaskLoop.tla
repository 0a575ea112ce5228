----------------------------- MODULE MCTaskLoop ------------------------------
(* TaskLoop on small instances. *)
EXTENDS TaskLoop, TLC

(* The tasks and the worker threads are interchangeable (safety runs only). *)
Symmetry == Permutations(Tasks) \cup Permutations(Workers)

=============================================================================
