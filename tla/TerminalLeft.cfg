SPECIFICATION ScheduledSpec
CONSTANTS
  Units = {u1}
  StationIDs = {"", "assembly", "test", "inspection", "rework"}
  IncidentIDs = {i1, i2}
  SignalIDs = {s1}
  Fresh = fresh
  MaxAttempts = 2
  Spoken = {"assembly", "inspection"}
  HeartbeatAt = {"assembly", "test"}
  Inputs <- MCInputs
  TimerInputs <- MCTimerInputs
PROPERTIES
  TerminalIsFinal
