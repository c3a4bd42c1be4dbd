----------------------------- MODULE Scenarios ------------------------------
(***************************************************************************)
(* internal/sim and RunScenario: UnitService with clients that have the    *)
(* server play a demo scenario on a unit, while other clients go on with   *)
(* theirs.  A run is a loop over the steps of the scenario, each a request *)
(* like any other, so that runs take turns, on the same unit too.          *)
(*                                                                         *)
(* The ids of a scenario's signals are made of the unit and a number, the  *)
(* same in every run and in every scenario.                                *)
(***************************************************************************)
EXTENDS UnitService

CONSTANTS
  Stage,    \* units that scenarios are played on
  Players   \* bound: runs in progress at once

(* Other clients have units of their own, and so ids of their own.         *)
ASSUME StageAssumption ==
  /\ Stage \subseteq Units
  /\ "assembly" \in StationIDs
  /\ SignalIDs = Stage \X (1..9)
  /\ \A sig \in Inputs : sig.unit \notin Stage /\ sig.id \notin SignalIDs

VARIABLES
  plays,  \* bound: the one scenario that is played on a unit
  run     \* what each player plays: on which unit, and how many steps are done

NoRun == [unit |-> "", done |-> 0]

-----------------------------------------------------------------------------
(* scenarios.go                                                            *)

ScenarioNames ==
  {"happy_path_unit", "flaky_retry_success", "repeated_failure_rework",
   "heartbeat_timeout_hold", "duplicate_signal_rejected"}

ScenarioInit ==
  /\ Init
  /\ plays \in [Stage -> ScenarioNames]
  /\ run = [p \in Players |-> NoRun]

(* A step is a signal, or a timer that is fired by hand.                   *)
Send(u, n, type, station, payload) ==
  [signal |-> TRUE,
   event  |-> [id |-> <<u, n>>, type |-> type, unit |-> u,
               station |-> station, payload |-> payload]]

Fire(key) == [signal |-> FALSE, event |-> key]

Admit(u) == Send(u, 1, "unit.admitted", "", "")

ToAssembly(u) == <<Admit(u), Send(u, 2, "station.entered", "assembly", "")>>

ToTest(u) ==
  ToAssembly(u) \o <<Send(u, 3, "assembly.completed", "assembly", ""),
                     Send(u, 4, "test.started", "test", "")>>

FlakyFailure(u, n) == Send(u, n, "test.failed", "test", FlakyInfra)

ToRetry(u) == ToTest(u) \o <<FlakyFailure(u, 5), Fire(RetryBackoff("test"))>>

BuildScenario(name, u) ==
  CASE name = "happy_path_unit" ->
         ToTest(u) \o <<Send(u, 5, "test.passed", "test", ""),
                        Send(u, 6, "station.entered", "inspection", ""),
                        Send(u, 7, "inspection.completed", "inspection", "")>>
    [] name = "flaky_retry_success" ->
         ToRetry(u) \o <<Send(u, 6, "test.passed", "test", "")>>
    [] name = "repeated_failure_rework" ->
         ToRetry(u) \o <<FlakyFailure(u, 6),
                         Send(u, 7, "quality.disposition", "test",
                              "route_to_rework"),
                         Send(u, 8, "rework.started", "rework", ""),
                         Send(u, 9, "rework.completed", "rework", "")>>
    [] name = "heartbeat_timeout_hold" ->
         ToAssembly(u) \o <<Fire(Heartbeat("assembly"))>>
    [] name = "duplicate_signal_rejected" -> <<Admit(u), Admit(u)>>

-----------------------------------------------------------------------------
(* RunScenario                                                             *)

Playing(p) == run[p] # NoRun
Steps(p)   == BuildScenario(plays[run[p].unit], run[p].unit)
AllDone(p) == Playing(p) /\ run[p].done = Len(Steps(p))

Begin(p, u) ==
  /\ ~ Playing(p)
  /\ run' = [run EXCEPT ![p] = [unit |-> u, done |-> 0]]
  /\ UNCHANGED <<vars, plays>>

(* No step fails: its payload decodes, and the first step makes the unit   *)
(* known to those that fire a timer.                                       *)
PlayStep(p) ==
  /\ Playing(p) /\ ~ AllDone(p)
  /\ LET step == Steps(p)[run[p].done + 1]
     IN  \/ /\ step.signal
            /\ HandleSignal(step.event) \/ IgnoreDuplicate(step.event)
         \/ ~ step.signal /\ HandleTimer(run[p].unit, step.event)
  /\ run' = [run EXCEPT ![p].done = @ + 1]
  /\ UNCHANGED plays

(* The answer ends with the snapshot of that moment.                       *)
Report(p) ==
  /\ AllDone(p)
  /\ run' = [run EXCEPT ![p] = NoRun]
  /\ UNCHANGED <<vars, plays>>

(* The other clients, each with units of its own.                          *)
Others ==
  /\ \/ SignalNext
     \/ \E u \in Units \ Stage, key \in TimerInputs :
          key \in timers[u] /\ HandleTimer(u, key)
  /\ UNCHANGED <<plays, run>>

ScenarioNext ==
  \/ Others
  \/ \E p \in Players : PlayStep(p) \/ Report(p) \/ \E u \in Stage : Begin(p, u)

ScenarioSpec == ScenarioInit /\ [][ScenarioNext]_<<vars, plays, run>>

-----------------------------------------------------------------------------
(* Properties                                                              *)

FinalState(name) ==
  CASE name = "happy_path_unit"           -> "completed"
    [] name = "flaky_retry_success"       -> "ready_for_inspection"
    [] name = "repeated_failure_rework"   -> "ready_for_test"
    [] name = "heartbeat_timeout_hold"    -> "on_hold"
    [] name = "duplicate_signal_rejected" -> "ready_for_assembly"

(* A scenario ends where engine_test.go:500-510 says it does, however      *)
(* often it is played on its unit, and even if two runs of it take turns   *)
(* step by step: every effect of a run happens once, and in its place.     *)
ScenariosReplay ==
  \A p \in Players : AllDone(p)
    => workflows[run[p].unit].state = FinalState(plays[run[p].unit])
=============================================================================
