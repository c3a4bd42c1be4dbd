---------------------------- MODULE MCScenarios -----------------------------
(***************************************************************************)
(* Inputs for the model checking of Scenarios: the units that are no stage *)
(* send the signals of MCSharedInputs.                                     *)
(***************************************************************************)
EXTENDS Scenarios, MCUnitService

MCSignalIDs == Stage \X (1..9)

MCOtherInputs == {sig \in MCSharedInputs : sig.unit \notin Stage}

ScenarioSymmetry == Permutations(Players) \cup Permutations(IncidentIDs)
=============================================================================
