---------------------------- MODULE TemporalUnit ----------------------------
(***************************************************************************)
(* internal/temporalruntime: one unit's workflow execution, the client     *)
(* that signals it and the server that keeps its timers.  The workflow     *)
(* receives one signal, manual timer or future at a time and applies the   *)
(* result's snapshot and timers; decisions and incidents are dropped.      *)
(*                                                                         *)
(* Which of several ready events the selector takes is left open: to the   *)
(* workflow an event that waits is like one that has not happened yet.     *)
(***************************************************************************)
EXTENDS WorkflowEngine

CONSTANTS
  SignalIDs,     \* signal ids whose reuse is followed
  Fresh,         \* stands for any id that no other signal carries
  Inputs,        \* the signals clients may send
  ManualInputs,  \* the timers clients may fire by hand
  Backlog,       \* bound: signals, and manual timers, waiting at once
  MaxAttempts    \* bound: failed tests sent

Signal == [id : SignalIDs \cup {Fresh}, type : SignalTypes,
           station : StationIDs, payload : Payloads]

(* Timers the engine can arm: all but heartbeats are armed for "test".     *)
Armable == {k \in TimerKey :
              k[1] = "station_heartbeat_timeout" \/ k[2] = "test"}

ASSUME InputsAssumption ==
  /\ Inputs \subseteq Signal
  /\ ManualInputs \subseteq Armable
  /\ Backlog \in Nat \ {0}
  /\ MaxAttempts \in Nat
  /\ Fresh \notin SignalIDs

VARIABLES
  execution,  \* what the server knows of the workflow id's last execution
  wf,         \* the workflow's snapshot
  timers,     \* keys of the workflow's map of scheduled timers
  due,        \* those whose future is ready
  signalCh,   \* signals delivered and not received yet
  timerCh,    \* manual timers delivered and not received yet
  applied,    \* history: how often each followed id was accepted (at most 2)
  trouble     \* history: the category the dropped incident actions ask for

vars == <<execution, wf, timers, due, signalCh, timerCh, applied, trouble>>

TypeOK ==
  /\ execution \in {"none", "running", "completed", "timed_out"}
  /\ wf \in Workflow
  /\ timers \subseteq Armable /\ due \subseteq timers
  /\ signalCh \in Seq(Inputs) /\ Len(signalCh) <= Backlog
  /\ timerCh \in Seq(ManualInputs) /\ Len(timerCh) <= Backlog
  /\ applied \in [SignalIDs -> 0..2]
  /\ trouble \in Categories \cup {NoAction}

Init ==
  /\ execution = "none"
  /\ wf = New
  /\ timers = {} /\ due = {}
  /\ signalCh = <<>> /\ timerCh = <<>>
  /\ applied = [i \in SignalIDs |-> 0]
  /\ trouble = NoAction

-----------------------------------------------------------------------------
(* The client (runtime.go)                                                 *)

FailuresSent ==
  wf.attempts + Len(SelectSeq(signalCh, LAMBDA s : s.type = "test.failed"))

Sendable(sig) == sig.type = "test.failed" => FailuresSent < MaxAttempts

(* Mutant: a completed execution may be followed by another.               *)
ReusableAfterAny == {"none", "timed_out", "completed"}

(* ALLOW_DUPLICATE_FAILED_ONLY: a completed execution is not followed by   *)
(* another, one that ran into its timeout is.                              *)
Reusable == {"none", "timed_out"}

(* HandleSignal: SignalWithStartWorkflow                                   *)
SignalRunning(sig) ==
  /\ execution = "running"
  /\ Len(signalCh) < Backlog /\ Sendable(sig)
  /\ signalCh' = Append(signalCh, sig)
  /\ UNCHANGED <<execution, wf, timers, due, timerCh, applied, trouble>>

SignalStarts(sig) ==
  /\ execution \in Reusable
  /\ execution' = "running"
  /\ wf' = New
  /\ signalCh' = <<sig>>
  /\ trouble' = NoAction
  /\ UNCHANGED <<timers, due, timerCh, applied>>

(* HandleTimer: SignalWorkflow, which needs a running execution.           *)
SendTimer(key) ==
  /\ execution = "running"
  /\ Len(timerCh) < Backlog
  /\ timerCh' = Append(timerCh, key)
  /\ UNCHANGED <<execution, wf, timers, due, signalCh, applied, trouble>>

(* The calls that answer with an error and change nothing.                 *)
Refuse == execution = "completed" /\ UNCHANGED vars

-----------------------------------------------------------------------------
(* The workflow (workflow.go)                                              *)

Working == execution = "running"

AfterAction(category, action) ==
  IF action = CloseAction THEN NoAction
  ELSE IF action = NoAction THEN category ELSE action

(* Mutant: a ready future is taken although its timer was cancelled.       *)
ApplyTimerChangesKeepsReady(result, scheduled) ==
  /\ timers' = (scheduled \ result.cancel) \cup result.start
  /\ due' = (due \cap scheduled) \ result.start

(* applyTimerChanges: a timer started again has a new future.              *)
ApplyTimerChanges(result, scheduled) ==
  /\ timers' = (scheduled \ result.cancel) \cup result.start
  /\ due' = (due \cap scheduled) \ (result.cancel \cup result.start)

(* The loop ends in a terminal state, within the task that reached it: the *)
(* timers are cancelled and what the channels still hold is lost.          *)
Close(outcome) ==
  /\ execution' = outcome
  /\ timers' = {} /\ due' = {}
  /\ signalCh' = <<>> /\ timerCh' = <<>>

(* Take a result; the rest of the channels and timers stays as given.      *)
Proceed(result, scheduled, signals, manual) ==
  /\ wf' = result.next
  /\ trouble' = AfterAction(trouble, result.incident)
  /\ \/ /\ result.next.state \in Terminal
        /\ Close("completed")
     \/ /\ result.next.state \notin Terminal
        /\ ApplyTimerChanges(result, scheduled)
        /\ signalCh' = signals /\ timerCh' = manual
        /\ UNCHANGED execution

Count(sig) ==
  applied' = IF sig.id \in SignalIDs /\ Accepts(wf, sig) /\ applied[sig.id] < 2
             THEN [applied EXCEPT ![sig.id] = @ + 1] ELSE applied

ReceiveSignal ==
  /\ Working /\ signalCh # <<>>
  /\ LET sig == Head(signalCh)
     IN  \/ /\ ~ DecodeFails(wf, sig)
            /\ Proceed(ApplySignal(wf, sig), timers, Tail(signalCh), timerCh)
            /\ Count(sig)
         \/ /\ DecodeFails(wf, sig)
            /\ signalCh' = Tail(signalCh)
            /\ UNCHANGED <<execution, wf, timers, due, timerCh, trouble, applied>>

(* A timer fired by hand leaves the scheduled one running.                 *)
ReceiveTimer ==
  /\ Working /\ timerCh # <<>>
  /\ Proceed(ApplyTimer(wf, Head(timerCh)), timers, signalCh, Tail(timerCh))
  /\ UNCHANGED applied

TimerFires(key) ==
  /\ Working /\ key \in due
  /\ Proceed(ApplyTimer(wf, key), timers \ {key}, signalCh, timerCh)
  /\ UNCHANGED applied

-----------------------------------------------------------------------------
(* The server                                                              *)

Elapse(key) ==
  /\ execution = "running" /\ key \in timers \ due
  /\ due' = due \cup {key}
  /\ UNCHANGED <<execution, wf, timers, signalCh, timerCh, applied, trouble>>

(* WorkflowExecutionTimeout                                                *)
Expire ==
  /\ execution = "running"
  /\ Close("timed_out")
  /\ UNCHANGED <<wf, applied, trouble>>

(* What happens within the 24 hours of an execution ...                    *)
DayNext ==
  \/ \E sig \in Inputs : SignalRunning(sig) \/ SignalStarts(sig)
  \/ \E key \in ManualInputs : SendTimer(key)
  \/ Refuse \/ ReceiveSignal \/ ReceiveTimer
  \/ \E key \in Armable : TimerFires(key) \/ Elapse(key)

(* ... and beyond.                                                         *)
Next == DayNext \/ Expire

Spec == Init /\ [][Next]_vars

(* The server fires timers, and the worker takes what is ready: a workflow *)
(* task goes on until nothing is.                                          *)
Fairness ==
  /\ WF_vars(ReceiveSignal) /\ WF_vars(ReceiveTimer)
  /\ \A key \in Armable : WF_vars(TimerFires(key)) /\ WF_vars(Elapse(key))

DaySpec == Init /\ [][DayNext]_vars /\ Fairness

-----------------------------------------------------------------------------
(* Properties                                                              *)

(* Wherever the workflow waits for a station, a test or a retry, the SDK   *)
(* runs the timer that ends the wait, whatever was fired by hand.          *)
WaitsAreTimed ==
  execution = "running" =>
    /\ wf.state \in {"in_assembly", "in_inspection"}
         => Heartbeat(wf.station) \in timers
    /\ wf.state = "awaiting_test_result" => TestResult("test") \in timers
    /\ wf.state = "retry_pending" => RetryBackoff("test") \in timers

(* A completed or scrapped unit stays as it is: the loop takes nothing     *)
(* more and no execution follows (workflow.go:30, runtime.go:43).          *)
TerminalIsFinal == [][wf.state \in Terminal => wf' = wf]_vars

(* The workflow keeps no signal ids, but a signal that is delivered twice  *)
(* in a row changes nothing the second time: what a signal asks for, its   *)
(* first delivery rules out, heartbeats excepted (engine.go:40-262).       *)
ResendsAreHarmless ==
  \A sig \in Inputs :
    ~ DecodeFails(wf, sig) =>
      LET once == ApplySignal(wf, sig).next
      IN  ApplySignal(once, sig).next = once

(* Within an execution the unit follows the lifecycle, with timeouts only  *)
(* in the phases that are not terminal.                                    *)
Lifecycle == INSTANCE UnitLifecycle WITH
  Units         <- {"unit"},
  Interruptible <- States \ Terminal,
  phase         <- [u \in {"unit"} |-> wf.state],
  failures      <- [u \in {"unit"} |-> wf.attempts],
  trouble       <- [u \in {"unit"} |-> trouble]

ImplementsLifecycle == Lifecycle!Spec

(* A wait for a test or a retry ends.                                      *)
TestsEnd   == wf.state = "awaiting_test_result" ~> wf.state # "awaiting_test_result"
RetriesEnd == wf.state = "retry_pending" ~> wf.state # "retry_pending"

(* A station holds a unit for ever only if it goes on sending heartbeats.  *)
HeartbeatTaken == ReceiveSignal /\ Head(signalCh).type = "station.heartbeat"


(* SPEC.md:596: dedupe is by id.                                           *)
AppliedOnce == \A i \in SignalIDs : applied[i] <= 1
=============================================================================
