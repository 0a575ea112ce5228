---------------------------- MODULE MCWinRequest -----------------------------
(* WinRequest on a small instance. *)
EXTENDS WinRequest

=============================================================================
