----------------------------- MODULE MCHttpLoad ------------------------------
(* HttpLoad on small instances. *)
EXTENDS HttpLoad, TLC

(* The loads are interchangeable (safety runs only). *)
Symmetry == Permutations(Loads)

=============================================================================
