----------------------------- MODULE MCLimiteur -----------------------------
(* Small instances of Limiteur for TLC.  Their run checks liveness, which    *)
(* leaves no room for symmetry.                                              *)
EXTENDS Limiteur, TLC

=============================================================================
