-------------------------- MODULE MCMeasureProgram --------------------------
(***************************************************************************)
(* Clocks for MeasureProgram: a period that does not divide the values of a *)
(* word, and a first edge at the start, in the middle and at the end of it. *)
(***************************************************************************)
EXTENDS MeasureProgram

SomeClocks == {<<7, 14>>, <<7, 24>>, <<7, 27>>}
=============================================================================
