------------------------------ MODULE MCServeur -----------------------------
(* Small instances of Serveur for TLC.  Their run checks liveness, which     *)
(* leaves no room for symmetry.                                              *)
EXTENDS Serveur, TLC

=============================================================================
