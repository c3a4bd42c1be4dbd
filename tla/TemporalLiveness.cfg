SPECIFICATION DaySpec
CONSTANTS
  StationIDs = {"", "assembly", "test", "inspection", "rework"}
  IncidentIDs = {}
  SignalIDs = {}
  Fresh = fresh
  Backlog = 1
  MaxAttempts = 1
  Spoken = {"assembly", "inspection"}
  ByHand = {"retry_backoff_timer"}
  Inputs <- MCInputs
  ManualInputs <- MCManualInputs
INVARIANTS
  TypeOK
  WaitsAreTimed
  ResendsAreHarmless
PROPERTIES
  ImplementsLifecycle
  TestsEnd
  RetriesEnd
  
