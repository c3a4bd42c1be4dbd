--------------------------- MODULE WorkflowEngine ---------------------------
(***************************************************************************)
(* internal/workflow: the transition engine of one unit's workflow, as     *)
(* functions from a snapshot and an event to a transition result.  Every   *)
(* runtime (the in-process service, the concurrent handlers, the Temporal  *)
(* workflow) calls these functions and differs in what it does with the    *)
(* result.                                                                 *)
(*                                                                         *)
(* Left out of a snapshot: product code (never set), timestamps and        *)
(* LastSignal* (read only by clients).  AttemptCountByStation has the one  *)
(* key "test" and is a number here; ActiveTimerKeys is a set, because the  *)
(* code removes every occurrence of a key.  A timer key is the pair of its *)
(* type and its station; the unit part is the owner of the set.            *)
(***************************************************************************)
EXTENDS Sequences, RetryPolicy, Phases

CONSTANTS
  StationIDs,   \* names a signal may carry; "" is a signal without one
  IncidentIDs   \* identifiers of incidents

ASSUME StationsAssumption ==
  {"", "test", "inspection", "rework"} \subseteq StationIDs

NoIncident == ""

ASSUME IncidentsAssumption == NoIncident \notin IncidentIDs

-----------------------------------------------------------------------------
(* types.go (its states are in Phases), signals/types.go                   *)

TimerTypes ==
  {"test_result_timeout", "station_heartbeat_timeout",
   "retry_backoff_timer", "manual_review_sla_timer"}

SignalTypes ==
  {"unit.admitted", "station.entered", "assembly.completed", "test.started",
   "test.passed", "test.failed", "station.heartbeat", "quality.disposition",
   "rework.started", "rework.completed", "inspection.completed",
   "operator.override"}

(* What the engine tells apart in a payload: the failure class of a failed *)
(* test, the action of a disposition, or that the JSON does not decode.    *)
Malformed == "malformed"
Payloads  == {"", FlakyInfra, "hard_failure", "route_to_rework", "scrap",
              "unknown_action", Malformed}

TimerKey == TimerTypes \X StationIDs

TestResult(station)   == <<"test_result_timeout", station>>
Heartbeat(station)    == <<"station_heartbeat_timeout", station>>
RetryBackoff(station) == <<"retry_backoff_timer", station>>
ReviewSLA(station)    == <<"manual_review_sla_timer", station>>

HoldReasons == ReasonCodes \cup TimerTypes \cup {""}

Workflow ==
  [state    : States,
   station  : StationIDs,
   attempts : Nat,
   timers   : SUBSET TimerKey,
   hold     : HoldReasons,
   incident : IncidentIDs \cup {NoIncident}]

(* New: the snapshot of a unit that has not been seen before.              *)
New == [state |-> "pending", station |-> "", attempts |-> 0,
        timers |-> {}, hold |-> "", incident |-> NoIncident]

-----------------------------------------------------------------------------
(* decisions.go.  Of a decision only its type and the state it moves to    *)
(* are kept; of an incident action only what to do and the category.       *)

DecisionTypes ==
  {"accept_signal", "reject_signal", "transition_state", "schedule_timer",
   "cancel_timer", "start_retry", "escalate", "place_hold",
   "route_to_rework", "complete_incident"}

Decision(type)    == [type |-> type, to |-> ""]
Transition(state) == [type |-> "transition_state", to |-> state]

Categories   == {"test_flake", "repeated_failure", "heartbeat_timeout"}
NoAction     == "none"
CloseAction  == "close"
(* An upsert is named by the category it writes.                           *)
IncidentActions == Categories \cup {NoAction, CloseAction}

(* A result that leaves the snapshot alone and records one rejection.      *)
Rejected(wf) ==
  [next |-> wf, decisions |-> <<Decision("reject_signal")>>,
   start |-> {}, cancel |-> {}, incident |-> NoAction]

(* Every accepted transition records accept_signal first, then the         *)
(* decisions of the case at hand.                                          *)
Accepted(wf, decisions, start, cancel, incident) ==
  [next |-> wf, decisions |-> <<Decision("accept_signal")>> \o decisions,
   start |-> start, cancel |-> cancel, incident |-> incident]

(* An accepted signal whose only decision is the move to a state.          *)
Move(wf, state, station, start) ==
  Accepted([wf EXCEPT !.state = state, !.station = station],
           <<Transition(state)>>, start, {}, NoAction)

-----------------------------------------------------------------------------
(* ApplySignal, one operator per case of its switch.                       *)

UnitAdmitted(wf) == Move(wf, "ready_for_assembly", wf.station, {})


StationEntered(wf, station) ==
  Move(wf, IF wf.state = "ready_for_assembly" THEN "in_assembly"
           ELSE "in_inspection", station, {Heartbeat(station)})

AssemblyCompleted(wf, station) ==
  Accepted([wf EXCEPT !.state = "ready_for_test", !.station = "test"],
           <<Decision("cancel_timer"), Transition("ready_for_test")>>,
           {}, {Heartbeat(station)}, NoAction)

TestTimers == {TestResult("test"), Heartbeat("test")}

TestStarted(wf) == Move(wf, "awaiting_test_result", "test", TestTimers)

(* Mutant: the retry is decided and never scheduled.                       *)
RetryTestUnscheduled(wf) ==
  Accepted([wf EXCEPT !.state = "retry_pending", !.attempts = @ + 1],
           <<Decision("cancel_timer"), Decision("cancel_timer"),
             Decision("start_retry"), Transition("retry_pending")>>,
           {}, TestTimers, "test_flake")

(* Mutant: the test is repeated at once, without a backoff.                *)
RetryTestAtOnce(wf) ==
  Accepted([wf EXCEPT !.state = "awaiting_test_result", !.attempts = @ + 1],
           <<Decision("start_retry"), Transition("awaiting_test_result")>>,
           {TestResult("test")}, {Heartbeat("test")}, "test_flake")

(* Both outcomes of a failed test count the attempt and cancel the timers  *)
(* of the test; the policy decides between a retry and a hold.             *)
RetryTest(wf) ==
  Accepted([wf EXCEPT !.state = "retry_pending", !.attempts = @ + 1],
           <<Decision("cancel_timer"), Decision("cancel_timer"),
             Decision("start_retry"), Transition("retry_pending")>>,
           {RetryBackoff("test")}, TestTimers, "test_flake")

HoldTest(wf, reason) ==
  Accepted([wf EXCEPT !.state = "on_hold", !.attempts = @ + 1, !.hold = reason],
           <<Decision("cancel_timer"), Decision("cancel_timer"),
             Decision("place_hold"), Decision("escalate"),
             Transition("on_hold")>>,
           {ReviewSLA("test")}, TestTimers, "repeated_failure")

(* Mutant: the hold is explained by the failure class, not by the policy.  *)
TestFailedByClass(wf, failureClass) ==
  IF Evaluate(failureClass, wf.attempts).retry THEN RetryTest(wf)
  ELSE HoldTest(wf, failureClass)

TestFailed(wf, failureClass) ==
  LET policy == Evaluate(failureClass, wf.attempts)
  IN  IF policy.retry THEN RetryTest(wf) ELSE HoldTest(wf, policy.reason)

(* Mutant: a passed test leaves the incident open.                         *)
TestPassedKeepsIncident(wf) ==
  Accepted([wf EXCEPT !.state = "ready_for_inspection", !.hold = ""],
           <<Transition("ready_for_inspection")>>, {}, TestTimers, NoAction)

TestPassed(wf) ==
  Accepted([wf EXCEPT !.state = "ready_for_inspection", !.hold = ""],
           <<Decision("cancel_timer"), Decision("cancel_timer"),
             Transition("ready_for_inspection"),
             Decision("complete_incident")>>,
           {}, TestTimers, CloseAction)

HeartbeatReceived(wf, station) ==
  Accepted(wf, <<Decision("schedule_timer")>>, {Heartbeat(station)}, {}, NoAction)

(* Mutant: the hold reason outlives the hold.                              *)
QualityDispositionKeepsHold(wf, action) ==
  Move(wf, IF action = "scrap" THEN "scrapped" ELSE "awaiting_rework",
       wf.station, {})

QualityDisposition(wf, action) ==
  LET released == [wf EXCEPT !.hold = ""]
  IN  IF action = "route_to_rework"
      THEN Accepted([released EXCEPT !.state = "awaiting_rework"],
                    <<Decision("route_to_rework"),
                      Transition("awaiting_rework")>>, {}, {}, NoAction)
      ELSE Move(released, "scrapped", wf.station, {})

ReworkStarted(wf)   == Move(wf, "in_rework", "rework", {})
ReworkCompleted(wf) == Move(wf, "ready_for_test", "test", {})

InspectionCompleted(wf, station) ==
  Accepted([wf EXCEPT !.state = "completed", !.station = ""],
           <<Decision("cancel_timer"), Transition("completed")>>,
           {}, {Heartbeat(station)}, NoAction)

(* The guards of the switch: every other signal is rejected, unless its    *)
(* payload is needed and does not decode.                                  *)
HeartbeatStates ==
  {"in_assembly", "awaiting_test_result", "in_rework", "in_inspection"}

Expected(wf, sig) ==
  \/ sig.type = "unit.admitted" /\ wf.state = "pending"
  \/ /\ sig.type = "station.entered"
     /\ \/ wf.state = "ready_for_assembly"
        \/ wf.state = "ready_for_inspection" /\ sig.station = "inspection"
  \/ sig.type = "assembly.completed" /\ wf.state = "in_assembly"
  \/ sig.type = "test.started" /\ wf.state = "ready_for_test"
  \/ sig.type \in {"test.failed", "test.passed"}
     /\ wf.state = "awaiting_test_result"
  \/ sig.type = "station.heartbeat" /\ wf.state \in HeartbeatStates
  \/ sig.type = "quality.disposition" /\ wf.state = "on_hold"
  \/ sig.type = "rework.started" /\ wf.state = "awaiting_rework"
  \/ sig.type = "rework.completed" /\ wf.state = "in_rework"
  \/ sig.type = "inspection.completed" /\ wf.state = "in_inspection"

(* ApplySignal returns an error, and no result, in exactly this case.      *)
DecodeFails(wf, sig) ==
  /\ Expected(wf, sig)
  /\ sig.type \in {"test.failed", "quality.disposition"}
  /\ sig.payload = Malformed

Accepts(wf, sig) ==
  /\ Expected(wf, sig)
  /\ sig.type = "quality.disposition"
       => sig.payload \in {"route_to_rework", "scrap"}

Effect(wf, sig) ==
  CASE sig.type = "unit.admitted"        -> UnitAdmitted(wf)
    [] sig.type = "station.entered"      -> StationEntered(wf, sig.station)
    [] sig.type = "assembly.completed"   -> AssemblyCompleted(wf, sig.station)
    [] sig.type = "test.started"         -> TestStarted(wf)
    [] sig.type = "test.failed"          -> TestFailed(wf, sig.payload)
    [] sig.type = "test.passed"          -> TestPassed(wf)
    [] sig.type = "station.heartbeat"    -> HeartbeatReceived(wf, sig.station)
    [] sig.type = "quality.disposition"  -> QualityDisposition(wf, sig.payload)
    [] sig.type = "rework.started"       -> ReworkStarted(wf)
    [] sig.type = "rework.completed"     -> ReworkCompleted(wf)
    [] sig.type = "inspection.completed" -> InspectionCompleted(wf, sig.station)
    [] OTHER                             -> Rejected(wf)

(* Mutant: cancelled timers stay in the snapshot.                          *)
RearmKeepsCancelled(result) ==
  [result EXCEPT !.next.timers = @ \cup result.start]

(* The tail of ApplySignal: the snapshot's own list of timer keys follows  *)
(* the timers the transition starts and cancels.                           *)
Rearm(result) ==
  [result EXCEPT !.next.timers = (@ \cup result.start) \ result.cancel]

ApplySignal(wf, sig) ==
  IF Accepts(wf, sig) THEN Rearm(Effect(wf, sig)) ELSE Rejected(wf)

-----------------------------------------------------------------------------
(* ApplyTimer.  key is the payload's key, from which its type and station  *)
(* are taken.  A timeout has no guard on the state.                        *)

(* Mutant: nothing limits the wait for the result of the retried test.     *)
RetryWindowUntimed(wf, key) ==
  [next      |-> [wf EXCEPT !.state  = "awaiting_test_result",
                            !.timers = @ \ {key}],
   decisions |-> <<Transition("awaiting_test_result")>>,
   start     |-> {}, cancel |-> {}, incident |-> NoAction]

RetryWindowOpens(wf, key) ==
  [next      |-> [wf EXCEPT !.state  = "awaiting_test_result",
                            !.timers = (@ \ {key}) \cup {TestResult(key[2])}],
   decisions |-> <<Transition("awaiting_test_result"),
                   Decision("schedule_timer")>>,
   start     |-> {TestResult(key[2])}, cancel |-> {}, incident |-> NoAction]

(* Mutant: the hold leaves no transition decision behind.                  *)
TimedOutUnrecorded(wf, key) ==
  [next      |-> [wf EXCEPT !.state = "on_hold", !.hold = key[1],
                            !.timers = @ \ {key}],
   decisions |-> <<Decision("place_hold"), Decision("escalate")>>,
   start     |-> {}, cancel |-> {}, incident |-> "heartbeat_timeout"]

TimedOut(wf, key) ==
  [next      |-> [wf EXCEPT !.state = "on_hold", !.hold = key[1],
                            !.timers = @ \ {key}],
   decisions |-> <<Decision("place_hold"), Decision("escalate"),
                   Transition("on_hold")>>,
   start     |-> {}, cancel |-> {}, incident |-> "heartbeat_timeout"]

(* Mutant: the retry timer opens a window whatever the state.              *)
ApplyTimerUnguarded(wf, key) ==
  CASE key[1] = "retry_backoff_timer" -> RetryWindowOpens(wf, key)
    [] key[1] \in {"station_heartbeat_timeout", "test_result_timeout"}
         -> TimedOut(wf, key)
    [] OTHER -> Rejected(wf)

ApplyTimer(wf, key) ==
  CASE key[1] = "retry_backoff_timer" /\ wf.state = "retry_pending"
         -> RetryWindowOpens(wf, key)
    [] key[1] \in {"station_heartbeat_timeout", "test_result_timeout"}
         -> TimedOut(wf, key)
    [] OTHER -> Rejected(wf)
=============================================================================
