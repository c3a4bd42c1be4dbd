SPECIFICATION Spec
CONSTANTS
  Units = {u1}
  StationIDs = {"", "assembly", "test", "inspection", "rework"}
  IncidentIDs = {i1, i2}
  SignalIDs = {}
  Fresh = fresh
  MaxAttempts = 2
  Handlers = {h1, h2}
  FailureClasses = {"flaky_infra"}
  Actions = {"scrap"}
  Fired = {"retry_backoff_timer"}
  Passed = {"assembly", "test"}
  Starts <- MCStarts
  Inputs <- MCInputs
  TimerInputs <- MCTimerInputs
INVARIANTS
  OneOpenIncident
CHECK_DEADLOCK FALSE
