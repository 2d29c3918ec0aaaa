------------------------------ MODULE MCClaims ------------------------------
(* Claims on two machines and two ranges.                                   *)
EXTENDS Claims

TwoRanges == 1..2
OneRange == 1..1
=============================================================================
