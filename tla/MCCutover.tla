----------------------------- MODULE MCCutover -----------------------------
(* Cutover of hops with and without a stream back.                          *)
EXTENDS Cutover

Hops == {{"after_thaw"}, {"reverse", "failback"}, {"reverse", "armed"}}
=============================================================================
