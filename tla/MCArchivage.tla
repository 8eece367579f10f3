----------------------------- MODULE MCArchivage ----------------------------
(* Small instances of Archivage for TLC.  Their runs check liveness, which   *)
(* leaves no room for symmetry.                                              *)
EXTENDS Archivage, TLC

=============================================================================
