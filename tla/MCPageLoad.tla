----------------------------- MODULE MCPageLoad ------------------------------
(***************************************************************************)
(* PageLoad on small instances.  The scripts are interchangeable, but the  *)
(* run checks liveness, for which symmetry is not sound.                   *)
(***************************************************************************)
EXTENDS PageLoad

=============================================================================
