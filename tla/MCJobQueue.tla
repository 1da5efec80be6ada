----------------------------- MODULE MCJobQueue -----------------------------
(* Model of JobQueue for TLC.                                              *)
EXTENDS JobQueue
=============================================================================
