SPECIFICATION SerialSpec
SYMMETRY Symmetry
CONSTANTS
  Units = {u1, u2}
  StationIDs = {"", "assembly", "test", "inspection", "rework"}
  IncidentIDs = {i1, i2}
  SignalIDs = {s1}
  Fresh = fresh
  MaxAttempts = 1
  Handlers = {h1, h2}
  FailureClasses = {"flaky_infra", "hard_failure", "malformed"}
  Actions = {"scrap"}
  Fired = {"retry_backoff_timer", "test_result_timeout"}
  Passed = {"assembly", "test"}
  Starts <- MCStarts
  Inputs <- MCSerialInputs
  TimerInputs <- MCTimerInputs
  TimerRequests <- MCTimerRequests
INVARIANTS
  TypeOK
  AdviceFits
PROPERTIES
  RequestsAreAtomic
CHECK_DEADLOCK FALSE
