---------------------------- MODULE MCLoadWindow ----------------------------
(* LoadWindow for a tail and a copy, or a repair beside them.               *)
EXTENDS LoadWindow
=============================================================================
