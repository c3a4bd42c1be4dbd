SPECIFICATION ReplaySpec
CONSTANTS
  StationIDs = {"", "assembly", "test", "inspection", "rework"}
  IncidentIDs = {}
  SignalIDs = {}
  Fresh = fresh
  Backlog = 1
  MaxAttempts = 2
  Spoken = {"assembly", "inspection"}
  Inputs <- MCInputs
  ByHand = {"test_result_timeout"}
  ManualInputs <- MCManualInputs
INVARIANTS
  WaitsAreTimed
  ReplaysAgree
PROPERTIES
  TerminalIsFinal
