------------------------- MODULE TemporalUnitProofs -------------------------
(***************************************************************************)
(* Theorems about a unit on Temporal, for any signals, stations, manual    *)
(* timers and backlog, and whatever the selector takes first.              *)
(***************************************************************************)
EXTENDS TemporalUnit, WorkflowEngineProofs

-----------------------------------------------------------------------------
(* A retry begins with the timer that ends it and without the one of the   *)
(* test, and starts neither again.                                         *)
RetryTimed(w, r) ==
  r.next.state = "retry_pending" =>
    /\ TestResult("test") \notin r.start
    /\ w.state # "retry_pending" => /\ RetryBackoff("test") \in r.start
                                   /\ TestResult("test") \in r.cancel

(* The timers a signal starts are some that Armable names, and a retry     *)
(* that it leads to is timed.                                              *)
LEMMA SignalStartsTimers ==
  ASSUME NEW w \in Workflow, NEW sig, sig.station \in StationIDs
  PROVE  LET r == ApplySignal(w, sig)
         IN  /\ r.start \subseteq Armable
             /\ RetryTimed(w, r)
<1>. DEFINE r == ApplySignal(w, sig)
<1>1. CASE ~ Accepts(w, sig)
  BY <1>1 DEF ApplySignal, Rejected, RetryTimed
<1>2. ASSUME NEW s \in StationIDs
      PROVE  /\ Heartbeat(s) \in Armable
             /\ {TestResult("test"), RetryBackoff("test"), ReviewSLA("test")}
                  \subseteq Armable
  <2>1. /\ Heartbeat(s) \in TimerKey
        /\ {TestResult("test"), RetryBackoff("test"), ReviewSLA("test")}
             \subseteq TimerKey
    BY StationsAssumption, TimerKeys
  <2>2. /\ Heartbeat(s)[1] = "station_heartbeat_timeout"
        /\ TestResult("test")[2] = "test" /\ RetryBackoff("test")[2] = "test"
        /\ ReviewSLA("test")[2] = "test"
    BY DEF TestResult, Heartbeat, RetryBackoff, ReviewSLA
  <2>. QED  BY <2>1, <2>2 DEF Armable
<1>3. CASE Accepts(w, sig) /\ sig.type = "station.heartbeat"
  <2>1. /\ r.start = {Heartbeat(sig.station)} /\ r.next.state = w.state
        /\ w.state # "retry_pending"
    <3>0. w.state # "retry_pending"
      BY <1>3 DEF Accepts, Expected, HeartbeatStates
    <3>1. r = Rearm(Accepted(w, <<Decision("schedule_timer")>>,
                             {Heartbeat(sig.station)}, {}, NoAction))
      BY <1>3 DEF ApplySignal, Effect, HeartbeatReceived
    <3>. DEFINE m == [w EXCEPT !.timers = (w.timers \cup {Heartbeat(sig.station)}) \ {}]
    <3>2. r.start = {Heartbeat(sig.station)} /\ r.next = m
      <4>. HIDE DEF m, r
      <4>. QED  BY <3>1, RearmedFields DEF m
    <3>3. m.state = w.state
      BY DEF Workflow
    <3>. QED  BY <3>0, <3>2, <3>3
  <2>. HIDE DEF r
  <2>2. r.start \subseteq Armable
    BY <1>2, <2>1
  <2>. QED  BY <2>1, <2>2 DEF r, RetryTimed
<1>4. CASE Accepts(w, sig) /\ sig.type # "station.heartbeat"
  <2>1. Leads(sig, r.next.state, r.start)
    BY <1>4, AcceptedLeads
  <2>. HIDE DEF r
  <2>2. r.start \subseteq Armable
    <3>1. {} \subseteq Armable /\ TestTimers \subseteq Armable
      BY <1>2, StationsAssumption DEF TestTimers
    <3>. QED  BY <1>2, <2>1, <3>1 DEF Leads
  <2>3. r.next.state = "retry_pending"
          => sig.type = "test.failed" /\ r.start = {RetryBackoff("test")}
    BY <2>1 DEF Leads
  <2>4. sig.type = "test.failed" => r.cancel = TestTimers
    <3>1. sig.type = "test.failed" => r = Rearm(TestFailed(w, sig.payload))
      BY <1>4 DEF r, ApplySignal, Effect
    <3>2. Rearm(TestFailed(w, sig.payload)).cancel = TestTimers
      <4>1. Rearm(RetryTest(w)).cancel = TestTimers
        BY DEF Rearm, RetryTest, Accepted
      <4>2. \A reason : Rearm(HoldTest(w, reason)).cancel = TestTimers
        BY DEF Rearm, HoldTest, Accepted
      <4>3. \/ TestFailed(w, sig.payload) = RetryTest(w)
            \/ \E reason : TestFailed(w, sig.payload) = HoldTest(w, reason)
        BY DEF TestFailed
      <4>. QED  BY <4>1, <4>2, <4>3
    <3>. QED  BY <3>1, <3>2
  <2>5. TestResult("test") # RetryBackoff("test") /\ TestResult("test") \in TestTimers
    BY DEF TestResult, RetryBackoff, TestTimers
  <2>6. RetryTimed(w, r)
    BY <2>3, <2>4, <2>5 DEF RetryTimed
  <2>. QED  BY <2>2, <2>6 DEF r
<1>. QED  BY <1>1, <1>3, <1>4

-----------------------------------------------------------------------------
(* The invariant of the execution.                                         *)

Watches(key) == key[1] \in {"station_heartbeat_timeout", "test_result_timeout"}

(* A snapshot w may go on naming a timer that fired for nothing, but no    *)
(* timeout that is not among the SDK's timers ts; while a retry is         *)
(* pending, its timer runs, and none for the result of the test.           *)
Tracks(w, ts) ==
  /\ \A key \in w.timers : Watches(key) => key \in ts
  /\ w.state = "retry_pending" => /\ RetryBackoff("test") \in ts
                                 /\ TestResult("test") \notin ts

Scheduled == Tracks(wf, timers)

(* An execution runs exactly until it is terminal, or expires before.      *)
Loop ==
  /\ execution = "running" => wf.state \notin Terminal /\ Scheduled
  /\ execution # "running" => timers = {}
  /\ wf.state \in Terminal => execution = "completed"

IInv == TypeOK /\ Coherent(wf) /\ Loop

(* Before its first signal, a unit has no execution and no timers.         *)
LEMMA InitInvariant == Init => IInv
<1>. SUFFICES ASSUME Init  PROVE IInv
  OBVIOUS
<1>1. New \in Workflow /\ Coherent(New) /\ New.state = "pending"
  BY StationsAssumption, ReviewTimer DEF New, Workflow, States, HoldReasons, Coherent, Timed
<1>2. TypeOK
  BY <1>1, InputsAssumption DEF Init, TypeOK
<1>. QED  BY <1>1, <1>2 DEF Init, IInv, Loop, Terminal

(* What an event handler may make of a snapshot and its timers: an answer  *)
(* that keeps the contract, and the timers left, which lack at most one    *)
(* that is over.                                                           *)
Takes(w, ts, r, scheduled) ==
  /\ Contract(w, r)
  /\ r.start \subseteq Armable
  /\ RetryTimed(w, r)
  /\ scheduled \subseteq ts
  /\ \A key \in ts \ scheduled :
       /\ Watches(key) => key \notin r.next.timers
       /\ key = RetryBackoff("test") => r.next.state # "retry_pending"

(* The timers after it are those the new snapshot needs                    *)
(* (workflow.go:56-110).                                                   *)
LEMMA TakingTracks ==
  ASSUME NEW w \in Workflow, NEW ts, NEW r, NEW scheduled,
         Tracks(w, ts), Takes(w, ts, r, scheduled)
  PROVE  Tracks(r.next, (scheduled \ r.cancel) \cup r.start)
<1>. DEFINE rest == (scheduled \ r.cancel) \cup r.start
<1>1. Coherent(r.next) /\ r.next.timers \subseteq (w.timers \ r.cancel) \cup r.start
  BY DEF Takes, Contract
<1>2. ASSUME NEW key \in r.next.timers, Watches(key)  PROVE key \in rest
  BY <1>1, <1>2 DEF Tracks, Takes
<1>3. ASSUME r.next.state = "retry_pending"
      PROVE  RetryBackoff("test") \in rest /\ TestResult("test") \notin rest
  <2>1. CASE w.state # "retry_pending"
    BY <1>3, <2>1 DEF Takes, RetryTimed
  <2>2. CASE w.state = "retry_pending"
    <3>1. RetryBackoff("test") \in ts /\ RetryBackoff("test") \in scheduled
      BY <1>3, <2>2 DEF Tracks, Takes
    <3>2. RetryBackoff("test") \in r.next.timers
      BY <1>1, <1>3 DEF Coherent, Timed
    <3>3. TestResult("test") \notin scheduled /\ TestResult("test") \notin r.start
      BY <1>3, <2>2 DEF Tracks, Takes, RetryTimed
    <3>. QED  BY <1>1, <3>1, <3>2, <3>3
  <2>. QED  BY <2>1, <2>2
<1>. QED  BY <1>2, <1>3 DEF Tracks

(* Taking such an answer keeps the invariant.                              *)
LEMMA ProceedKeeps ==
  ASSUME IInv, Working, NEW r, NEW scheduled, NEW signals, NEW manual,
         Takes(wf, timers, r, scheduled), Proceed(r, scheduled, signals, manual),
         signals \in Seq(Inputs), Len(signals) <= Backlog,
         manual \in Seq(ManualInputs), Len(manual) <= Backlog,
         applied' \in [SignalIDs -> 0..2]
  PROVE  IInv'
<1>1. /\ wf' = r.next /\ r.next \in Workflow /\ Coherent(r.next)
      /\ r.incident \in IncidentActions
  BY DEF Takes, Contract, Result, Proceed
<1>2. Coherent(wf)'
  BY <1>1 DEF Coherent, Timed
<1>3. trouble' \in Categories \cup {NoAction}
  BY <1>1 DEF Proceed, AfterAction, IInv, TypeOK, IncidentActions
<1>4. CASE r.next.state \in Terminal
  <2>1. /\ execution' = "completed" /\ timers' = {} /\ due' = {}
        /\ signalCh' = <<>> /\ timerCh' = <<>>
    BY <1>4 DEF Proceed, Close
  <2>2. TypeOK'
    BY <1>1, <1>3, <2>1, InputsAssumption DEF TypeOK
  <2>. QED  BY <1>2, <2>1, <2>2 DEF IInv, Loop
<1>5. CASE r.next.state \notin Terminal
  <2>1. /\ timers' = (scheduled \ r.cancel) \cup r.start
        /\ due' = (due \cap scheduled) \ (r.cancel \cup r.start)
        /\ signalCh' = signals /\ timerCh' = manual /\ execution' = "running"
    BY <1>5 DEF Proceed, ApplyTimerChanges, Working
  <2>2. TypeOK'
    BY <1>1, <1>3, <2>1, InputsAssumption DEF TypeOK, IInv, Takes
  <2>3. Tracks(r.next, timers')
    BY <2>1, TakingTracks DEF IInv, TypeOK, Loop, Working, Scheduled
  <2>4. Scheduled'
    BY <1>1, <2>3 DEF Scheduled, Tracks, Watches
  <2>. QED  BY <1>1, <1>2, <1>5, <2>1, <2>2, <2>4 DEF IInv, Loop
<1>. QED  BY <1>4, <1>5

(* So does what the workflow takes from a channel ...                      *)
LEMMA TakesSignal ==
  ASSUME NEW w \in Workflow, Coherent(w), NEW ts, NEW sig \in Inputs
  PROVE  Takes(w, ts, ApplySignal(w, sig), ts)
<1>1. sig.station \in StationIDs
  BY InputsAssumption DEF Signal
<1>. QED  BY <1>1, ApplySignalContract, SignalStartsTimers DEF Takes

(* ... and a timer, fired by hand or by its future.                        *)
LEMMA TakesTimer ==
  ASSUME NEW w \in Workflow, Coherent(w), NEW ts, NEW key \in Armable,
         NEW scheduled \in {ts, ts \ {key}}
  PROVE  Takes(w, ts, ApplyTimer(w, key), scheduled)
<1>. DEFINE r == ApplyTimer(w, key)
<1>0. scheduled \subseteq ts /\ \A k \in ts \ scheduled : k = key
  OBVIOUS
<1>1. /\ key \in TimerKey
      /\ key[1] = "station_heartbeat_timeout" \/ key[2] = "test"
  BY DEF Armable
<1>2. Contract(w, r)
  BY <1>1, ApplyTimerContract
<1>3. CASE key[1] = "retry_backoff_timer" /\ w.state = "retry_pending"
  <2>1. r.start = {TestResult("test")} /\ r.next.state = "awaiting_test_result"
    BY <1>1, <1>3 DEF ApplyTimer, RetryWindowOpens, Workflow
  <2>2. TestResult("test") \in Armable
    BY StationsAssumption, TimerKeys DEF Armable, TestResult
  <2>3. ~ Watches(key) /\ w.state = "retry_pending"
    BY <1>3 DEF Watches
  <2>. HIDE DEF r
  <2>4. Takes(w, ts, r, scheduled)
    BY <1>2, <1>0, <2>1, <2>2, <2>3 DEF Takes, RetryTimed
  <2>. QED  BY <2>4 DEF r
<1>4. CASE Watches(key)
  <2>1. r = TimedOut(w, key)
    BY <1>4 DEF ApplyTimer, Watches
  <2>2. r.start = {} /\ r.next.state = "on_hold" /\ r.next.timers = w.timers \ {key}
    <3>. DEFINE n == [w EXCEPT !.state = "on_hold", !.hold = key[1],
                               !.timers = w.timers \ {key}]
    <3>1. n.state = "on_hold" /\ n.timers = w.timers \ {key}
      BY <1>1 DEF Workflow
    <3>2. r.start = {} /\ r.next = n
      BY <2>1 DEF TimedOut
    <3>. HIDE DEF r, n
    <3>. QED  BY <3>1, <3>2
  <2>. HIDE DEF r
  <2>3. key \notin r.next.timers /\ r.next.state # "retry_pending"
    BY <2>2
  <2>4. Takes(w, ts, r, scheduled)
    BY <1>2, <1>0, <2>2, <2>3 DEF Takes, RetryTimed
  <2>. QED  BY <2>4 DEF r
<1>5. CASE ~ Watches(key) /\ ~ (key[1] = "retry_backoff_timer" /\ w.state = "retry_pending")
  <2>1. r = Rejected(w)
    BY <1>5 DEF ApplyTimer, Watches
  <2>2. r.start = {} /\ r.next = w
    BY <2>1 DEF Rejected
  <2>3. key = RetryBackoff("test") => w.state # "retry_pending"
    BY <1>5 DEF RetryBackoff
  <2>. HIDE DEF r
  <2>4. Takes(w, ts, r, scheduled)
    BY <1>2, <1>5, <1>0, <2>2, <2>3 DEF Takes, RetryTimed
  <2>. QED  BY <2>4 DEF r
<1>. QED  BY <1>3, <1>4, <1>5

(* The rest of a channel is one of the same messages.                      *)
LEMMA Rest ==
  ASSUME NEW S, NEW s \in Seq(S), s # <<>>, Len(s) <= Backlog
  PROVE  Head(s) \in S /\ Tail(s) \in Seq(S) /\ Len(Tail(s)) <= Backlog
  BY InputsAssumption

(* The count of acceptances is a history of bounded numbers.               *)
LEMMA CountType ==
  ASSUME IInv, NEW sig, Count(sig)  PROVE applied' \in [SignalIDs -> 0..2]
  BY DEF Count, IInv, TypeOK

(* Each step of client, workflow and server keeps the invariant.           *)
LEMMA NextInvariant == IInv /\ [Next]_vars => IInv'
<1>. SUFFICES ASSUME IInv, [Next]_vars  PROVE IInv'
  OBVIOUS
<1>. USE DEF IInv
<1>0. wf \in Workflow /\ Coherent(wf)
  BY DEF TypeOK
<1>1. CASE UNCHANGED vars
  BY <1>1 DEF vars, TypeOK, Coherent, Timed, Loop, Scheduled, Tracks, Watches
<1>2. ASSUME NEW sig \in Inputs, SignalRunning(sig)  PROVE IInv'
  <2>1. signalCh' \in Seq(Inputs) /\ Len(signalCh') <= Backlog
    BY <1>2, InputsAssumption DEF SignalRunning, TypeOK
  <2>. QED  BY <1>2, <2>1 DEF SignalRunning, TypeOK, Coherent, Timed, Loop, Scheduled, Tracks
<1>3. ASSUME NEW sig \in Inputs, SignalStarts(sig)  PROVE IInv'
  <2>1. New \in Workflow /\ Coherent(New) /\ New.state = "pending" /\ New.timers = {}
    BY StationsAssumption, ReviewTimer DEF New, Workflow, States, HoldReasons, Coherent, Timed
  <2>2. signalCh' \in Seq(Inputs) /\ Len(signalCh') <= Backlog
    BY <1>3, InputsAssumption DEF SignalStarts
  <2>. HIDE DEF IInv
  <2>3. /\ wf' = New /\ execution' = "running" /\ trouble' = NoAction
        /\ timers' = timers /\ due' = due /\ timerCh' = timerCh /\ applied' = applied
    BY <1>3 DEF SignalStarts
  <2>. QED  BY <2>1, <2>2, <2>3 DEF IInv, TypeOK, Coherent, Timed, Loop, Scheduled, Tracks, Terminal
<1>4. ASSUME NEW key \in ManualInputs, SendTimer(key)  PROVE IInv'
  <2>1. timerCh' \in Seq(ManualInputs) /\ Len(timerCh') <= Backlog
    BY <1>4, InputsAssumption DEF SendTimer, TypeOK
  <2>. QED  BY <1>4, <2>1 DEF SendTimer, TypeOK, Coherent, Timed, Loop, Scheduled, Tracks
<1>5. CASE ReceiveSignal
  <2>. DEFINE sig == Head(signalCh)
  <2>1. /\ sig \in Inputs /\ Tail(signalCh) \in Seq(Inputs)
        /\ Len(Tail(signalCh)) <= Backlog
    BY <1>5, Rest DEF ReceiveSignal, TypeOK
  <2>2. CASE /\ Proceed(ApplySignal(wf, sig), timers, Tail(signalCh), timerCh)
             /\ Count(sig)
    BY <1>0, <1>5, <2>1, <2>2, TakesSignal, CountType, ProceedKeeps
       DEF ReceiveSignal, TypeOK
  <2>3. CASE /\ signalCh' = Tail(signalCh)
             /\ UNCHANGED <<execution, wf, timers, due, timerCh, trouble, applied>>
    BY <2>1, <2>3 DEF TypeOK, Coherent, Timed, Loop, Scheduled, Tracks
  <2>. QED  BY <1>5, <2>2, <2>3 DEF ReceiveSignal
<1>6. CASE ReceiveTimer
  <2>1. /\ Head(timerCh) \in ManualInputs /\ Tail(timerCh) \in Seq(ManualInputs)
        /\ Len(Tail(timerCh)) <= Backlog
    BY <1>6, Rest DEF ReceiveTimer, TypeOK
  <2>2. Takes(wf, timers, ApplyTimer(wf, Head(timerCh)), timers)
    BY <1>0, <2>1, InputsAssumption, TakesTimer
  <2>. QED  BY <1>6, <2>1, <2>2, ProceedKeeps DEF ReceiveTimer, TypeOK
<1>7. ASSUME NEW key \in Armable, TimerFires(key)  PROVE IInv'
  <2>1. Takes(wf, timers, ApplyTimer(wf, key), timers \ {key})
    BY <1>0, TakesTimer
  <2>. QED  BY <1>7, <2>1, ProceedKeeps DEF TimerFires, TypeOK
<1>8. ASSUME NEW key \in Armable, Elapse(key)  PROVE IInv'
  BY <1>8 DEF Elapse, TypeOK, Coherent, Timed, Loop, Scheduled, Tracks
<1>9. CASE Expire
  <2>1. /\ execution = "running" /\ execution' = "timed_out"
        /\ timers' = {} /\ due' = {} /\ signalCh' = <<>> /\ timerCh' = <<>>
        /\ wf' = wf /\ applied' = applied /\ trouble' = trouble
    BY <1>9 DEF Expire, Close
  <2>2. TypeOK'
    BY <2>1, InputsAssumption DEF TypeOK
  <2>3. Coherent(wf)'
    BY <2>1 DEF Coherent, Timed
  <2>. QED  BY <2>1, <2>2, <2>3 DEF Loop
<1>10. CASE Refuse
  BY <1>1, <1>10 DEF Refuse
<1>. QED  BY <1>1, <1>2, <1>3, <1>4, <1>5, <1>6, <1>7, <1>8, <1>9, <1>10
          DEF Next, DayNext

(* The invariant holds in every execution.                                 *)
LEMMA Invariance == Spec => []IInv
<1>. QED  BY InitInvariant, NextInvariant, PTL DEF Spec

-----------------------------------------------------------------------------
(* The variables keep their types.                                         *)
THEOREM TypeCorrect == Spec => []TypeOK
<1>1. IInv => TypeOK
  BY DEF IInv
<1>. QED  BY <1>1, Invariance, PTL

(* The SDK runs the timer of every wait of a running workflow, whatever    *)
(* was fired by hand or elapsed before (workflow.go:54-110).               *)
THEOREM NoUntimedWait == Spec => []WaitsAreTimed
<1>1. /\ \A s : Watches(Heartbeat(s))
      /\ Watches(TestResult("test"))
  BY DEF Watches, Heartbeat, TestResult
<1>2. IInv => WaitsAreTimed
  BY <1>1 DEF IInv, Loop, Scheduled, Tracks, Coherent, Timed, WaitsAreTimed
<1>. QED  BY <1>2, Invariance, PTL

(* A signal delivered twice in a row changes nothing the second time.      *)
THEOREM HarmlessResends == Spec => []ResendsAreHarmless
<1>1. ASSUME NEW w \in Workflow, NEW sig \in Inputs
      PROVE  LET once == ApplySignal(w, sig).next
             IN  ApplySignal(once, sig).next = once
  <2>. DEFINE once == ApplySignal(w, sig).next
  <2>1. CASE ~ Accepts(w, sig)
    BY <2>1 DEF ApplySignal, Rejected
  <2>2. CASE Accepts(w, sig) /\ sig.type # "station.heartbeat"
    <3>1. sig.station \in StationIDs
      BY InputsAssumption DEF Signal
    <3>2. Leads(sig, once.state, ApplySignal(w, sig).start)
      BY <2>2, <3>1, AcceptedLeads
    <3>. HIDE DEF once
    <3>3. ~ Accepts(once, sig)
      BY <3>2 DEF Leads, Accepts, Expected
    <3>4. ApplySignal(once, sig).next = once
      BY <3>3 DEF ApplySignal, Rejected
    <3>. QED  BY <3>4 DEF once
  <2>3. CASE Accepts(w, sig) /\ sig.type = "station.heartbeat"
    <3>. DEFINE key == Heartbeat(sig.station)
    <3>1. ASSUME NEW v, Accepts(v, sig)
          PROVE  ApplySignal(v, sig).next = [v EXCEPT !.timers = (v.timers \cup {key}) \ {}]
      <4>1. ApplySignal(v, sig) =
              Rearm(Accepted(v, <<Decision("schedule_timer")>>, {key}, {}, NoAction))
        BY <2>3, <3>1 DEF ApplySignal, Effect, HeartbeatReceived
      <4>. HIDE DEF key
      <4>. QED  BY <4>1, RearmedFields
    <3>. HIDE DEF key
    <3>2. /\ once \in [state : States, station : StationIDs, attempts : Nat,
                       timers : SUBSET (TimerKey \cup {key}), hold : HoldReasons,
                       incident : IncidentIDs \cup {NoIncident}]
          /\ once.state = w.state /\ once.timers = w.timers \cup {key}
      <4>. DEFINE m == [w EXCEPT !.timers = (w.timers \cup {key}) \ {}]
      <4>1. once = m
        BY <2>3, <3>1
      <4>. HIDE DEF once
      <4>. QED  BY <4>1 DEF Workflow
    <3>. HIDE DEF once
    <3>3. Accepts(once, sig)
      BY <2>3, <3>2 DEF Accepts, Expected
    <3>4. [once EXCEPT !.timers = (once.timers \cup {key}) \ {}] = once
      BY <3>2
    <3>5. ApplySignal(once, sig).next = once
      BY <3>1, <3>3, <3>4
    <3>. QED  BY <3>5 DEF once
  <2>. QED  BY <2>1, <2>2, <2>3
<1>2. IInv => ResendsAreHarmless
  BY <1>1 DEF IInv, TypeOK, ResendsAreHarmless
<1>. QED  BY <1>2, Invariance, PTL

(* A terminal unit stays as it is: its execution has ended, takes nothing  *)
(* more and is followed by none.                                           *)
THEOREM TerminalStays == Spec => TerminalIsFinal
<1>1. ASSUME IInv, [Next]_vars, wf.state \in Terminal  PROVE wf' = wf
  <2>1. execution = "completed"
    BY <1>1 DEF IInv, Loop
  <2>. QED  BY <1>1, <2>1 DEF Next, DayNext, SignalRunning, SignalStarts, Reusable,
              SendTimer, Refuse, ReceiveSignal, ReceiveTimer, TimerFires, Working,
              Elapse, Expire, vars
<1>2. IInv /\ [Next]_vars => [wf.state \in Terminal => wf' = wf]_vars
  BY <1>1
<1>. QED  BY <1>2, Invariance, PTL DEF Spec, TerminalIsFinal
-----------------------------------------------------------------------------
(* Within the time an execution has, the workflow implements the lifecycle *)
(* of UnitLifecycle.                                                       *)

(* An execution that has not started has done nothing, and none expires.   *)
Day ==
  /\ execution # "timed_out"
  /\ execution = "none" => wf = New /\ trouble = NoAction

DInv == IInv /\ Day

(* Without expiry, there is one execution.                                 *)
LEMMA DayInvariance == Init /\ [][DayNext]_vars => []DInv
<1>1. Init => DInv
  BY InitInvariant DEF Init, Day, DInv
<1>2. ASSUME DInv, [DayNext]_vars  PROVE DInv'
  <2>1. IInv'
    BY <1>2, NextInvariant DEF DInv, Next
  <2>2. Day'
    BY <1>2 DEF DInv, Day, DayNext, SignalRunning, SignalStarts, SendTimer, Refuse,
       ReceiveSignal, ReceiveTimer, TimerFires, Working, Proceed, Close, Elapse, vars
  <2>. QED  BY <2>1, <2>2 DEF DInv
<1>. QED  BY <1>1, <1>2, PTL

(* The workflow that takes an answer which keeps the contract makes a step *)
(* of the lifecycle, or none.                                              *)
LEMMA AnswerImplements ==
  ASSUME DInv, Working, NEW r, Contract(wf, r), wf' = r.next,
         trouble' = AfterAction(trouble, r.incident)
  PROVE  [Lifecycle!Next]_Lifecycle!vars
<1>. DEFINE phase    == [v \in {"unit"} |-> wf.state]
            failures == [v \in {"unit"} |-> wf.attempts]
            troubles == [v \in {"unit"} |-> trouble]
            phaseN    == [v \in {"unit"} |-> wf'.state]
            failuresN == [v \in {"unit"} |-> wf'.attempts]
            troublesN == [v \in {"unit"} |-> trouble']
<1>1. /\ SomeStep(wf, wf', r.incident)
      /\ wf.state \in States \ Terminal /\ wf.attempts \in Nat
  BY DEF Contract, DInv, IInv, TypeOK, Workflow, Loop, Working
<1>2. /\ wf'.attempts = wf.attempts => failuresN = failures
      /\ trouble' = trouble => troublesN = troubles
      /\ wf'.state = wf.state => phaseN = phase
      /\ phase["unit"] = wf.state /\ failures["unit"] = wf.attempts
  OBVIOUS
<1>3. /\ \A p : wf'.state = p => Lifecycle!Enter("unit", p)
      /\ wf'.attempts = wf.attempts + 1 => Lifecycle!Fail("unit")
      /\ \A c : trouble' = c => Lifecycle!Raise("unit", c)
  <2>1. ASSUME NEW p, wf'.state = p  PROVE Lifecycle!Enter("unit", p)
    BY <2>1 DEF Lifecycle!Enter
  <2>2. wf'.attempts = wf.attempts + 1 => Lifecycle!Fail("unit")
    BY DEF Lifecycle!Fail
  <2>3. ASSUME NEW c, trouble' = c  PROVE Lifecycle!Raise("unit", c)
    BY <2>3 DEF Lifecycle!Raise
  <2>. QED  BY <2>1, <2>2, <2>3
<1>4. CASE QuietStep(wf, wf', r.incident)
  <2>1. wf'.attempts = wf.attempts /\ trouble' = trouble
    BY <1>4 DEF QuietStep, AfterAction, NoAction, CloseAction
  <2>2. CASE wf'.state = wf.state
    BY <1>2, <2>1, <2>2 DEF Lifecycle!vars
  <2>3. CASE <<wf.state, wf'.state>> \in Edges
    <3>1. PICK e \in Lifecycle!Edges : wf.state = e[1] /\ wf'.state = e[2]
      <4>1. Lifecycle!Edges = Edges
        BY DEF Lifecycle!Edges, Edges
      <4>2. /\ <<wf.state, wf'.state>>[1] = wf.state
            /\ <<wf.state, wf'.state>>[2] = wf'.state
        OBVIOUS
      <4>. QED  BY <2>3, <4>1, <4>2
    <3>2. phase["unit"] = e[1] /\ Lifecycle!Enter("unit", e[2])
      <4>1. wf'.state = e[2] => Lifecycle!Enter("unit", e[2])
        BY <1>3
      <4>. QED  BY <1>2, <3>1, <4>1
    <3>3. Lifecycle!Advance("unit")
      BY <1>2, <2>1, <3>2, Zenon DEF Lifecycle!Advance
    <3>. QED  BY <3>3 DEF Lifecycle!Next
  <2>. QED  BY <1>4, <2>2, <2>3 DEF QuietStep
<1>5. CASE RetryStep(wf, wf', r.incident)
  <2>1. trouble' = "test_flake"
    BY <1>5 DEF RetryStep, AfterAction, NoAction, CloseAction
  <2>2. /\ phase["unit"] = "awaiting_test_result" /\ failures["unit"] = 0
        /\ wf'.state = "retry_pending" /\ wf'.attempts = wf.attempts + 1
    <3>1. wf.attempts = 0 /\ wf'.attempts = 1 => wf'.attempts = wf.attempts + 1
      OBVIOUS
    <3>. QED  BY <1>2, <1>5, <3>1, Zenon DEF RetryStep
  <2>3. Lifecycle!Retry("unit")
    BY <1>3, <2>1, <2>2, Zenon DEF Lifecycle!Retry
  <2>. QED  BY <2>3 DEF Lifecycle!Next
<1>6. CASE HoldStep(wf, wf', r.incident)
  <2>1. trouble' = "repeated_failure"
    BY <1>6 DEF HoldStep, AfterAction, NoAction, CloseAction
  <2>2. /\ phase["unit"] = "awaiting_test_result"
        /\ wf'.state = "on_hold" /\ wf'.attempts = wf.attempts + 1
    BY <1>2, <1>6 DEF HoldStep
  <2>3. Lifecycle!Hold("unit")
    BY <1>3, <2>1, <2>2, Zenon DEF Lifecycle!Hold
  <2>. QED  BY <2>3 DEF Lifecycle!Next
<1>7. CASE PassStep(wf, wf', r.incident)
  <2>1. trouble' = Lifecycle!NoTrouble
    BY <1>7 DEF PassStep, AfterAction, NoAction, CloseAction, Lifecycle!NoTrouble
  <2>2. /\ phase["unit"] = "awaiting_test_result"
        /\ wf'.state = "ready_for_inspection" /\ failuresN = failures
    BY <1>2, <1>7 DEF PassStep
  <2>3. Lifecycle!Pass("unit")
    BY <1>3, <2>1, <2>2, Zenon DEF Lifecycle!Pass
  <2>. QED  BY <2>3 DEF Lifecycle!Next
<1>8. CASE TimeOutStep(wf, wf', r.incident)
  <2>1. trouble' = "heartbeat_timeout"
    BY <1>8 DEF TimeOutStep, AfterAction, NoAction, CloseAction
  <2>2. /\ phase["unit"] \in States \ Terminal
        /\ wf'.state = "on_hold" /\ failuresN = failures
    BY <1>1, <1>2, <1>8 DEF TimeOutStep
  <2>3. Lifecycle!TimeOut("unit")
    BY <1>3, <2>1, <2>2, Zenon DEF Lifecycle!TimeOut
  <2>. QED  BY <2>3 DEF Lifecycle!Next
<1>. QED  BY <1>1, <1>4, <1>5, <1>6, <1>7, <1>8 DEF SomeStep

(* Each step of workflow, client and server is one of the lifecycle, or    *)
(* none.                                                                   *)
LEMMA DayStepImplements == DInv /\ [DayNext]_vars => [Lifecycle!Next]_Lifecycle!vars
<1>. SUFFICES ASSUME DInv, [DayNext]_vars  PROVE [Lifecycle!Next]_Lifecycle!vars
  OBVIOUS
<1>1. CASE UNCHANGED <<wf, trouble>>
  BY <1>1 DEF Lifecycle!vars
<1>2. ASSUME NEW r, NEW scheduled, NEW signals, NEW manual, Working,
             Takes(wf, timers, r, scheduled), Proceed(r, scheduled, signals, manual)
      PROVE  [Lifecycle!Next]_Lifecycle!vars
  BY <1>2, AnswerImplements DEF Takes, Proceed
<1>3. ASSUME NEW sig, SignalStarts(sig)  PROVE UNCHANGED <<wf, trouble>>
  BY <1>3 DEF SignalStarts, Reusable, DInv, Day
<1>4. CASE ReceiveSignal
  <2>1. Head(signalCh) \in Inputs
    BY <1>4, Rest DEF ReceiveSignal, DInv, IInv, TypeOK
  <2>2. Takes(wf, timers, ApplySignal(wf, Head(signalCh)), timers)
    BY <2>1, TakesSignal DEF DInv, IInv, TypeOK
  <2>. QED  BY <1>1, <1>2, <1>4, <2>2 DEF ReceiveSignal
<1>5. CASE ReceiveTimer
  <2>1. Head(timerCh) \in Armable
    BY <1>5, Rest, InputsAssumption DEF ReceiveTimer, DInv, IInv, TypeOK
  <2>2. Takes(wf, timers, ApplyTimer(wf, Head(timerCh)), timers)
    BY <2>1, TakesTimer DEF DInv, IInv, TypeOK
  <2>. QED  BY <1>2, <1>5, <2>2 DEF ReceiveTimer
<1>6. ASSUME NEW key \in Armable, TimerFires(key)
      PROVE  [Lifecycle!Next]_Lifecycle!vars
  <2>1. Takes(wf, timers, ApplyTimer(wf, key), timers \ {key})
    BY TakesTimer DEF DInv, IInv, TypeOK
  <2>. QED  BY <1>2, <1>6, <2>1 DEF TimerFires
<1>7. CASE \/ \E sig \in Inputs : SignalRunning(sig)
           \/ \E key \in ManualInputs : SendTimer(key)
           \/ Refuse \/ \E key \in Armable : Elapse(key)
           \/ UNCHANGED vars
  BY <1>1, <1>7 DEF SignalRunning, SendTimer, Refuse, Elapse, vars
<1>. QED  BY <1>1, <1>3, <1>4, <1>5, <1>6, <1>7 DEF DayNext

(* The workflow implements the lifecycle of its unit, and no timeout       *)
(* reaches a unit that is done (workflow.go:30-78).                        *)
THEOREM Implementation == DaySpec => ImplementsLifecycle
<1>1. Init => wf.state = "pending" /\ wf.attempts = 0 /\ trouble = NoAction
  <2>1. New.state = "pending" /\ New.attempts = 0
    BY DEF New
  <2>. QED  BY <2>1 DEF Init
<1>2. Init => Lifecycle!Init
  BY <1>1 DEF Lifecycle!Init, Lifecycle!NoTrouble, NoAction
<1>. QED  BY <1>2, DayInvariance, DayStepImplements, PTL
          DEF DaySpec, ImplementsLifecycle, Lifecycle!Spec
=============================================================================
