SPECIFICATION ScenarioSpec
SYMMETRY ScenarioSymmetry
CONSTANTS
  Units = {u1, u2}
  Stage = {u2}
  Players = {p1, p2}
  StationIDs = {"", "assembly", "test", "inspection", "rework"}
  IncidentIDs = {i1, i2}
  SignalIDs <- MCSignalIDs
  Fresh = fresh
  MaxAttempts = 2
  Spoken = {"assembly"}
  HeartbeatAt = {}
  Inputs <- MCOtherInputs
  TimerInputs <- MCTimerInputs
INVARIANTS
  IncidentsIndexed
  DashboardIsOpenIncidents
  ViewsCurrent
  ScenariosReplay
