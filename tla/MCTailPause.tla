---------------------------- MODULE MCTailPause ----------------------------
(* TailPause on small instances.                                            *)
EXTENDS TailPause
=============================================================================
