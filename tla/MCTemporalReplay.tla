-------------------------- MODULE MCTemporalReplay --------------------------
(***************************************************************************)
(* TemporalReplay with the inputs of MCTemporalUnit.                       *)
(***************************************************************************)
EXTENDS TemporalReplay, MCTemporalUnit
=============================================================================
