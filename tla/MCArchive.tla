------------------------------ MODULE MCArchive ------------------------------
(* Archive on a table of two or three keys.                                *)
EXTENDS Archive
=============================================================================
