-------------------------- MODULE MCExtractService --------------------------
(***************************************************************************)
(* ExtractService for TLC: caps and sizes on both sides of both limits,    *)
(* scaled down to single digits.                                           *)
(***************************************************************************)
EXTENDS ExtractService

SmallCaps == {-1, 0, 1, 2, 3, 4, 5}
SmallSizes == 1 .. 5
=============================================================================
