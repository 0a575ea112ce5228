------------------------------ MODULE MCWinApp -------------------------------
(* WinApp on small instances. *)
EXTENDS WinApp, TLC

(* The tasks are interchangeable (safety runs only). *)
Symmetry == Permutations(Tasks)

=============================================================================
