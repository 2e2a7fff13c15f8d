------------------------- MODULE MCSetOpIterators --------------------------
(***************************************************************************)
(* SetOpIterators for TLC: keys 1..4 with two payloads, so that a filter  *)
(* skips several pairs in one next() and sets reach usize::MAX elements;  *)
(* batches of three (a run of equal keys and a merge against held         *)
(* elements); usize scaled to 0..4, so that the sum of the upper bounds   *)
(* of two 3-element sets overflows.                                       *)
(***************************************************************************)
EXTENDS SetOpIterators

MCKeys == 1..4
MCVals == {"x", "y"}
MCMaxBatch == 3
MCMaxUsize == 4

=============================================================================
