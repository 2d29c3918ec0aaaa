----------------------------- MODULE MCRangeCopy -----------------------------
(* RangeCopy on a table of two keys, cut after the first or not at all.     *)
EXTENDS RangeCopy

TwoKeys == 1..2
SmallEdges == {1}
=============================================================================
