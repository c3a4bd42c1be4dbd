SPECIFICATION Spec
CONSTANTS
  StationIDs = {"", "assembly", "test", "inspection", "rework"}
  IncidentIDs = {}
  SignalIDs = {s1}
  Fresh = fresh
  Backlog = 1
  MaxAttempts = 2
  Spoken = {"assembly", "inspection"}
  Inputs <- MCInputs
  ByHand = {}
  ManualInputs <- MCManualInputs
INVARIANTS
  AppliedOnce
