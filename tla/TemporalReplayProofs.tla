----------------------- MODULE TemporalReplayProofs -----------------------
(***************************************************************************)
(* Theorems about the workflow with its replays, for any signals,          *)
(* stations, manual timers and backlog, any number of restarts, and every  *)
(* order in which futures that are ready at once can be taken.             *)
(***************************************************************************)
EXTENDS TemporalReplay, TemporalUnitProofs, FiniteSetTheorems

-----------------------------------------------------------------------------
(* Alike snapshots, field by field.                                        *)
SameFields(v, w) ==
  /\ v.state = w.state /\ v.station = w.station /\ v.attempts = w.attempts
  /\ v.timers = w.timers /\ v.incident = w.incident
  /\ v.hold # w.hold => {v.hold, w.hold} \subseteq TimerTypes

(* That is what Alike says of two snapshots.                               *)
LEMMA AlikeFields ==
  ASSUME NEW v \in Workflow, NEW w \in Workflow
  PROVE  Alike(v, w) <=> SameFields(v, w)
<1>. DEFINE p == [v EXCEPT !.hold = ""]
            q == [w EXCEPT !.hold = ""]
<1>2. /\ p \in Workflow /\ p.hold = "" /\ p.state = v.state /\ p.station = v.station
      /\ p.attempts = v.attempts /\ p.timers = v.timers /\ p.incident = v.incident
  BY DEF Workflow, HoldReasons
<1>3. /\ q \in Workflow /\ q.hold = "" /\ q.state = w.state /\ q.station = w.station
      /\ q.attempts = w.attempts /\ q.timers = w.timers /\ q.incident = w.incident
  BY DEF Workflow, HoldReasons
<1>4. Alike(v, w) <=> p = q /\ (v.hold # w.hold => {v.hold, w.hold} \subseteq TimerTypes)
  BY DEF Alike
<1>. HIDE DEF p, q
<1>5. p = q <=> /\ p.state = q.state /\ p.station = q.station /\ p.attempts = q.attempts
                /\ p.timers = q.timers /\ p.incident = q.incident
  <2>1. ASSUME NEW u \in Workflow
        PROVE  u = [state |-> u.state, station |-> u.station, attempts |-> u.attempts,
                    timers |-> u.timers, hold |-> u.hold, incident |-> u.incident]
    BY Zenon DEF Workflow
  <2>2. /\ p = [state |-> p.state, station |-> p.station, attempts |-> p.attempts,
                timers |-> p.timers, hold |-> "", incident |-> p.incident]
        /\ q = [state |-> q.state, station |-> q.station, attempts |-> q.attempts,
                timers |-> q.timers, hold |-> "", incident |-> q.incident]
    BY <1>2, <1>3, <2>1
  <2>. QED  BY <2>2
<1>. QED  BY <1>2, <1>3, <1>4, <1>5 DEF SameFields

(* Two answers that ask for the same timers and the same incident and lead *)
(* to alike snapshots.                                                     *)
SameAnswer(q, r) ==
  /\ q.start = r.start /\ q.cancel = r.cancel /\ q.incident = r.incident
  /\ Alike(q.next, r.next)

(* An answer is the same as itself.                                        *)
LEMMA AlikeItself == \A r : SameAnswer(r, r)
  BY DEF SameAnswer, Alike

(* What alike snapshots reject they reject alike.                          *)
LEMMA RejectedAlike ==
  ASSUME NEW v, NEW w, Alike(v, w)
  PROVE  SameAnswer(Rejected(v), Rejected(w))
  BY DEF SameAnswer, Rejected

(* Alike snapshots that are not equal are on hold.                         *)
LEMMA AlikeApart ==
  ASSUME NEW v \in Workflow, NEW w \in Workflow, Coherent(v), Coherent(w),
         Alike(v, w), v # w
  PROVE  /\ v.state = "on_hold" /\ w.state = "on_hold"
         /\ v.station = w.station /\ v.timers = w.timers
         /\ [v EXCEPT !.hold = ""] = [w EXCEPT !.hold = ""]
<1>1. SameFields(v, w) /\ v.hold # w.hold
  BY AlikeFields DEF SameFields, Workflow
<1>2. v.hold # "" /\ w.hold # ""
  BY <1>1 DEF SameFields, TimerTypes
<1>. QED  BY <1>1, <1>2 DEF Coherent, SameFields, Alike

(* The engine never reads the reason of a hold: it answers a signal alike. *)
(* The one signal that a hold accepts, a disposition, clears the reason    *)
(* (engine.go:208-230).                                                    *)
LEMMA SignalsAlike ==
  ASSUME NEW v \in Workflow, NEW w \in Workflow, Coherent(v), Coherent(w),
         Alike(v, w), NEW sig
  PROVE  /\ DecodeFails(v, sig) <=> DecodeFails(w, sig)
         /\ SameAnswer(ApplySignal(v, sig), ApplySignal(w, sig))
<1>1. CASE v = w
  BY <1>1, AlikeItself
<1>2. CASE v # w
  <2>1. /\ v.state = "on_hold" /\ w.state = "on_hold"
        /\ v.station = w.station
        /\ [v EXCEPT !.hold = ""] = [w EXCEPT !.hold = ""]
    BY <1>2, AlikeApart
  <2>2. /\ Expected(v, sig) <=> Expected(w, sig)
        /\ Accepts(v, sig) <=> Accepts(w, sig)
        /\ Accepts(v, sig) => sig.type = "quality.disposition"
    BY <2>1 DEF Expected, Accepts, HeartbeatStates
  <2>3. CASE ~ Accepts(v, sig)
    <3>1. ApplySignal(v, sig) = Rejected(v) /\ ApplySignal(w, sig) = Rejected(w)
      BY <2>2, <2>3 DEF ApplySignal
    <3>. QED  BY <2>2, <3>1, RejectedAlike DEF DecodeFails
  <2>4. CASE Accepts(v, sig)
    <3>1. QualityDisposition(v, sig.payload) = QualityDisposition(w, sig.payload)
      BY <2>1 DEF QualityDisposition
    <3>2. /\ Effect(v, sig) = QualityDisposition(v, sig.payload)
          /\ Effect(w, sig) = QualityDisposition(w, sig.payload)
      BY <2>2, <2>4 DEF Effect
    <3>3. ApplySignal(v, sig) = ApplySignal(w, sig)
      BY <2>2, <2>4, <3>1, <3>2 DEF ApplySignal
    <3>. QED  BY <2>2, <3>3, AlikeItself DEF DecodeFails
  <2>. QED  BY <2>3, <2>4
<1>. QED  BY <1>1, <1>2

(* So it does a timer: a timeout overwrites the reason                     *)
(* (engine.go:305-315).                                                    *)
LEMMA TimersAlike ==
  ASSUME NEW v \in Workflow, NEW w \in Workflow, Coherent(v), Coherent(w),
         Alike(v, w), NEW key
  PROVE  SameAnswer(ApplyTimer(v, key), ApplyTimer(w, key))
<1>1. CASE v = w
  BY <1>1, AlikeItself
<1>2. CASE v # w
  <2>1. /\ v.state = "on_hold" /\ w.state = "on_hold" /\ v.timers = w.timers
        /\ [v EXCEPT !.hold = ""] = [w EXCEPT !.hold = ""]
    BY <1>2, AlikeApart
  <2>2. CASE Watches(key)
    <3>1. [v EXCEPT !.state = "on_hold", !.hold = key[1], !.timers = v.timers \ {key}]
        = [w EXCEPT !.state = "on_hold", !.hold = key[1], !.timers = w.timers \ {key}]
      <4>1. SameFields(v, w)
        BY AlikeFields
      <4>. QED  BY <4>1 DEF SameFields, Workflow
    <3>2. ApplyTimer(v, key) = ApplyTimer(w, key)
      BY <2>2, <3>1 DEF ApplyTimer, TimedOut, Watches
    <3>. QED  BY <3>2, AlikeItself
  <2>3. CASE ~ Watches(key)
    <3>1. ApplyTimer(v, key) = Rejected(v) /\ ApplyTimer(w, key) = Rejected(w)
      BY <2>1, <2>3 DEF ApplyTimer, Watches
    <3>. QED  BY <3>1, RejectedAlike
  <2>. QED  BY <2>2, <2>3
<1>. QED  BY <1>1, <1>2

-----------------------------------------------------------------------------

(* The memories a task works on, and what each turn keeps of them: they    *)
(* are those of an execution that runs, a future that is ready is one of a *)
(* timer that was not started in the task, and few timers are.             *)
TaskMemory == [wf : Workflow, timers : SUBSET Armable,
               trouble : Categories \cup {NoAction},
               ready : SUBSET Armable, started : SUBSET Armable]

Sound(m) ==
  /\ m \in TaskMemory
  /\ Coherent(m.wf) /\ Tracks(m.wf, m.timers)
  /\ m.ready \subseteq m.timers \cap due
  /\ m.ready \cap m.started = {}
  /\ IsFiniteSet(m.started)

(* A signal starts finitely many timers ...                                *)
LEMMA SignalStartsFew ==
  ASSUME NEW w \in Workflow, NEW sig \in Inputs
  PROVE  IsFiniteSet(ApplySignal(w, sig).start)
<1>1. IsFiniteSet({}) /\ \A x : IsFiniteSet({x})
  BY FS_EmptySet, FS_Singleton
<1>2. IsFiniteSet(TestTimers)
  <2>1. TestTimers = {TestResult("test")} \cup {Heartbeat("test")}
    BY DEF TestTimers
  <2>. QED  BY <1>1, <2>1, FS_Union
<1>3. CASE ~ Accepts(w, sig)
  BY <1>1, <1>3 DEF ApplySignal, Rejected
<1>4. CASE Accepts(w, sig) /\ sig.type = "station.heartbeat"
  <2>1. ApplySignal(w, sig) =
          Rearm(Accepted(w, <<Decision("schedule_timer")>>,
                         {Heartbeat(sig.station)}, {}, NoAction))
    BY <1>4 DEF ApplySignal, Effect, HeartbeatReceived
  <2>2. ApplySignal(w, sig).start = {Heartbeat(sig.station)}
    BY <2>1 DEF Rearm, Accepted
  <2>. QED  BY <1>1, <2>2
<1>5. CASE Accepts(w, sig) /\ sig.type # "station.heartbeat"
  <2>1. sig.station \in StationIDs
    BY InputsAssumption DEF Signal
  <2>2. Leads(sig, ApplySignal(w, sig).next.state, ApplySignal(w, sig).start)
    BY <1>5, <2>1, AcceptedLeads
  <2>. QED  BY <1>1, <1>2, <2>2 DEF Leads
<1>. QED  BY <1>3, <1>4, <1>5

(* ... and so does a timer.                                                *)
LEMMA TimerStartsFew ==
  ASSUME NEW w, NEW key  PROVE IsFiniteSet(ApplyTimer(w, key).start)
<1>1. IsFiniteSet({}) /\ \A x : IsFiniteSet({x})
  BY FS_EmptySet, FS_Singleton
<1>. QED  BY <1>1 DEF ApplyTimer, RetryWindowOpens, TimedOut, Rejected

(* Taking an answer keeps a memory sound (workflow.go:56-110).             *)
LEMMA TakeSound ==
  ASSUME NEW m, Sound(m), NEW r, NEW scheduled,
         Takes(m.wf, m.timers, r, scheduled), IsFiniteSet(r.start)
  PROVE  Sound(Take(m, r, scheduled))
<1>. DEFINE d == Take(m, r, scheduled)
<1>1. /\ d.wf = r.next
      /\ d.trouble = AfterAction(m.trouble, r.incident)
      /\ d.timers = (scheduled \ r.cancel) \cup r.start
      /\ d.ready = (m.ready \cap scheduled) \ (r.cancel \cup r.start)
      /\ d.started = m.started \cup r.start
      /\ d = [wf |-> d.wf, timers |-> d.timers, trouble |-> d.trouble,
              ready |-> d.ready, started |-> d.started]
  BY DEF Take
<1>. HIDE DEF d
<1>2. /\ r.next \in Workflow /\ Coherent(r.next) /\ r.incident \in IncidentActions
      /\ r.start \subseteq Armable /\ scheduled \subseteq m.timers
  BY DEF Takes, Contract, Result
<1>3. /\ m.wf \in Workflow /\ m.timers \subseteq Armable
      /\ m.trouble \in Categories \cup {NoAction}
      /\ m.ready \subseteq Armable /\ m.started \subseteq Armable
  BY DEF Sound, TaskMemory
<1>4. AfterAction(m.trouble, r.incident) \in Categories \cup {NoAction}
  BY <1>2, <1>3 DEF AfterAction, IncidentActions
<1>5. d \in TaskMemory
  BY <1>1, <1>2, <1>3, <1>4 DEF TaskMemory
<1>6. Tracks(d.wf, d.timers)
  <2>1. Tracks(m.wf, m.timers)
    BY DEF Sound
  <2>2. Tracks(r.next, (scheduled \ r.cancel) \cup r.start)
    BY <1>3, <2>1, TakingTracks
  <2>. QED  BY <1>1, <2>2
<1>7. IsFiniteSet(d.started)
  <2>1. IsFiniteSet(m.started)
    BY DEF Sound
  <2>2. IsFiniteSet(m.started \cup r.start)
    BY <2>1, FS_Union
  <2>. QED  BY <1>1, <2>2
<1>8. Sound(d)
  BY <1>1, <1>2, <1>5, <1>6, <1>7 DEF Sound
<1>. QED  BY <1>8 DEF d

(* So does each turn of the loop.                                          *)
LEMMA TurnSound ==
  ASSUME TypeOK, NEW m, Sound(m), NEW n \in Nat \ {0}, NEW d \in Turn(m, n)
  PROVE  Sound(d)
<1>1. m.wf \in Workflow /\ Coherent(m.wf) /\ m.ready \subseteq Armable
  BY DEF Sound, TaskMemory
<1>2. ASSUME NEW sig \in Inputs  PROVE Sound(TakeSignal(m, sig))
  <2>1. /\ Takes(m.wf, m.timers, ApplySignal(m.wf, sig), m.timers)
        /\ IsFiniteSet(ApplySignal(m.wf, sig).start)
    BY <1>1, TakesSignal, SignalStartsFew
  <2>2. Sound(Take(m, ApplySignal(m.wf, sig), m.timers))
    BY <2>1, TakeSound
  <2>. QED  BY <2>2 DEF TakeSignal
<1>3. ASSUME NEW key \in Armable, NEW scheduled \in {m.timers, m.timers \ {key}}
      PROVE  Sound(Take(m, ApplyTimer(m.wf, key), scheduled))
  <2>1. Takes(m.wf, m.timers, ApplyTimer(m.wf, key), scheduled)
    <3>1. CASE scheduled = m.timers
      <4>1. Takes(m.wf, m.timers, ApplyTimer(m.wf, key), m.timers)
        BY <1>1, TakesTimer
      <4>. QED  BY <3>1, <4>1
    <3>2. CASE scheduled = m.timers \ {key}
      <4>1. Takes(m.wf, m.timers, ApplyTimer(m.wf, key), m.timers \ {key})
        BY <1>1, TakesTimer
      <4>. QED  BY <3>2, <4>1
    <3>. QED  BY <3>1, <3>2
  <2>2. IsFiniteSet(ApplyTimer(m.wf, key).start)
    BY TimerStartsFew
  <2>. QED  BY <2>1, <2>2, TakeSound
<1>4. CASE n <= Len(signalCh)
  <2>1. d = TakeSignal(m, signalCh[n]) /\ signalCh[n] \in Inputs
    BY <1>4 DEF Turn, TypeOK
  <2>. QED  BY <1>2, <2>1
<1>5. CASE ~ (n <= Len(signalCh)) /\ n <= Len(signalCh) + Len(timerCh)
  <2>. DEFINE key == timerCh[n - Len(signalCh)]
  <2>1. d = TakeManual(m, key) /\ key \in ManualInputs
    BY <1>5 DEF Turn, TypeOK
  <2>2. key \in Armable
    BY <2>1, InputsAssumption
  <2>. HIDE DEF key
  <2>. QED  BY <1>3, <2>1, <2>2 DEF TakeManual
<1>6. CASE ~ (n <= Len(signalCh)) /\ ~ (n <= Len(signalCh) + Len(timerCh))
  <2>1. CASE d = m
    BY <2>1
  <2>2. CASE d # m
    <3>1. PICK key \in m.ready : d = TakeFuture(m, key)
      BY <1>6, <2>2 DEF Turn
    <3>. QED  BY <1>1, <1>3, <3>1 DEF TakeFuture
  <2>. QED  BY <2>1, <2>2
<1>. QED  BY <1>4, <1>5, <1>6

-----------------------------------------------------------------------------
(* Two memories that differ only in which timeout a hold names.            *)
Same(d, e) ==
  /\ Alike(d.wf, e.wf) /\ d.timers = e.timers /\ d.trouble = e.trouble
  /\ d.ready = e.ready /\ d.started = e.started

(* Taking the same answer, they stay so ...                                *)
LEMMA TakesAlike ==
  ASSUME NEW d, NEW e, Same(d, e), NEW q, NEW r, SameAnswer(q, r), NEW scheduled
  PROVE  Same(Take(d, q, scheduled), Take(e, r, scheduled))
  BY DEF Take, Same, SameAnswer

(* ... and so they do through the turns that the history fixes, those that *)
(* take signals and manual timers.                                         *)
LEMMA TurnAlike ==
  ASSUME TypeOK, NEW d, NEW e, Sound(d), Sound(e), Same(d, e),
         NEW n \in 1..(Len(signalCh) + Len(timerCh)),
         NEW f \in Turn(d, n), NEW g \in Turn(e, n)
  PROVE  Same(f, g)
<1>1. /\ d.wf \in Workflow /\ Coherent(d.wf) /\ e.wf \in Workflow /\ Coherent(e.wf)
      /\ Alike(d.wf, e.wf) /\ d.timers = e.timers
  BY DEF Sound, TaskMemory, Same
<1>2. Ended(d) <=> Ended(e)
  BY <1>1, AlikeFields DEF Ended, SameFields
<1>3. CASE n <= Len(signalCh)
  <2>1. f = TakeSignal(d, signalCh[n]) /\ g = TakeSignal(e, signalCh[n])
    BY <1>3 DEF Turn
  <2>2. Same(TakeSignal(d, signalCh[n]), TakeSignal(e, signalCh[n]))
    BY <1>1, <1>2, SignalsAlike, TakesAlike DEF TakeSignal
  <2>. QED  BY <2>1, <2>2
<1>4. CASE ~ (n <= Len(signalCh))
  <2>. DEFINE key == timerCh[n - Len(signalCh)]
  <2>1. f = TakeManual(d, key) /\ g = TakeManual(e, key)
    BY <1>4 DEF Turn, TypeOK
  <2>2. Same(TakeManual(d, key), TakeManual(e, key))
    BY <1>1, <1>2, TimersAlike, TakesAlike DEF TakeManual
  <2>. QED  BY <2>1, <2>2
<1>. QED  BY <1>3, <1>4

-----------------------------------------------------------------------------

(* The keys of the futures that a memory d has taken since it was m.       *)
Taken(m, d) == m.ready \ d.ready

(* Was one of them a timeout?                                              *)
TimedOutSince(m, d) == \E key \in Taken(m, d) : Watches(key)

(* The timers that a retry starts when its window opens.                   *)
Window(opened) == IF opened THEN {TestResult("test")} ELSE {}

(* The keys that the snapshot drops.                                       *)
Over(m, d, opened) ==
  {key \in Taken(m, d) : Watches(key) \/ (opened /\ key = RetryBackoff("test"))}

(* Whatever the order in which futures are taken, what becomes of m        *)
(* depends only on which they are and on whether the window of a retry has *)
(* opened; but a hold may name any timeout among them.                     *)
Drained(m, d, opened) ==
  /\ d.ready \subseteq m.ready
  /\ opened => m.wf.state = "retry_pending" /\ RetryBackoff("test") \in Taken(m, d)
  /\ d.timers = (m.timers \ Taken(m, d)) \cup Window(opened)
  /\ d.started = m.started \cup Window(opened)
  /\ d.wf.station = m.wf.station /\ d.wf.attempts = m.wf.attempts
  /\ d.wf.incident = m.wf.incident
  /\ d.wf.timers = (m.wf.timers \ Over(m, d, opened)) \cup Window(opened)
  /\ IF TimedOutSince(m, d)
     THEN /\ d.wf.state = "on_hold" /\ d.wf.hold \in TimerTypes
          /\ d.trouble = "heartbeat_timeout"
     ELSE /\ d.wf.state = IF opened THEN "awaiting_test_result" ELSE m.wf.state
          /\ d.wf.hold = m.wf.hold /\ d.trouble = m.trouble

(* It is so before the first future is taken ...                           *)
LEMMA NothingDrained == ASSUME NEW m  PROVE Drained(m, m, FALSE)
<1>1. Taken(m, m) = {}
  BY DEF Taken
<1>. QED  BY <1>1 DEF Drained, TimedOutSince, Window, Over

(* ... and after each.  That the window opens only once rests on Tracks:   *)
(* while a retry is pending, no timer for the result of the test runs, so  *)
(* the one that the window starts is new and its future not ready          *)
(* (workflow.go:57-68, engine.go:281-316).                                 *)
LEMMA FutureTaken ==
  ASSUME NEW m, NEW d, Sound(m), Sound(d), NEW opened \in BOOLEAN,
         Drained(m, d, opened), NEW key \in d.ready
  PROVE  LET e == TakeFuture(d, key)
         IN  /\ e.ready = d.ready \ {key}
             /\ \E b \in BOOLEAN : Drained(m, e, b)
<1>. DEFINE e == TakeFuture(d, key)
            r == ApplyTimer(d.wf, key)
<1>1. /\ d.wf \in Workflow /\ m.wf \in Workflow
      /\ d.ready \subseteq d.timers /\ d.timers \subseteq Armable
      /\ m.ready \subseteq m.timers
      /\ m.wf.state = "retry_pending" => TestResult("test") \notin m.timers
      /\ d.wf.state = "retry_pending" => TestResult("test") \notin d.timers
  BY DEF Sound, TaskMemory, Tracks
<1>2. /\ e.wf = r.next /\ e.trouble = AfterAction(d.trouble, r.incident)
      /\ e.timers = ((d.timers \ {key}) \ r.cancel) \cup r.start
      /\ e.ready = (d.ready \cap (d.timers \ {key})) \ (r.cancel \cup r.start)
      /\ e.started = d.started \cup r.start
  BY DEF TakeFuture, Take
<1>3. /\ key \in m.ready /\ key \notin Taken(m, d)
      /\ e.ready = d.ready \ {key} => Taken(m, e) = Taken(m, d) \cup {key}
  BY DEF Drained, Taken
<1>4. CASE key[1] = "retry_backoff_timer" /\ d.wf.state = "retry_pending"
  <2>1. key[2] = "test" /\ key = RetryBackoff("test")
    BY <1>1, <1>4 DEF Armable, TimerKey, RetryBackoff
  <2>2. /\ r.start = {TestResult("test")} /\ r.cancel = {} /\ r.incident = NoAction
        /\ r.next = [d.wf EXCEPT !.state = "awaiting_test_result",
                       !.timers = (d.wf.timers \ {key}) \cup {TestResult("test")}]
    BY <1>4, <2>1 DEF ApplyTimer, RetryWindowOpens
  <2>3. /\ r.next.state = "awaiting_test_result"
        /\ r.next.timers = (d.wf.timers \ {key}) \cup {TestResult("test")}
        /\ r.next.station = d.wf.station /\ r.next.attempts = d.wf.attempts
        /\ r.next.incident = d.wf.incident /\ r.next.hold = d.wf.hold
    BY <1>1, <2>2 DEF Workflow
  <2>. HIDE DEF r, e
  <2>4. e.ready = d.ready \ {key}
    BY <1>1, <1>2, <1>4, <2>2
  <2>5. /\ ~ TimedOutSince(m, d) /\ ~ opened /\ m.wf.state = "retry_pending"
        /\ d.wf.hold = m.wf.hold /\ d.trouble = m.trouble
    BY <1>4 DEF Drained
  <2>6. ~ Watches(key) /\ ~ TimedOutSince(m, e)
    BY <1>3, <1>4, <2>4, <2>5 DEF Watches, TimedOutSince
  <2>7. e.trouble = d.trouble
    BY <1>2, <2>2 DEF AfterAction, NoAction, CloseAction
  <2>8. Window(opened) = {} /\ Window(TRUE) = {TestResult("test")}
    BY <2>5 DEF Window
  <2>9. /\ TestResult("test") \notin m.ready
        /\ \A k \in Taken(m, e) : k # TestResult("test")
    BY <1>1, <2>5 DEF Taken
  <2>10. Over(m, e, TRUE) = Over(m, d, opened) \cup {key}
    BY <1>3, <2>1, <2>4, <2>5, <2>6 DEF Over
  <2>11. Drained(m, e, TRUE)
    <3>1. e.ready \subseteq m.ready /\ RetryBackoff("test") \in Taken(m, e)
      BY <1>3, <2>1, <2>4 DEF Drained
    <3>2. /\ e.timers = (m.timers \ Taken(m, e)) \cup Window(TRUE)
          /\ e.started = m.started \cup Window(TRUE)
      BY <1>2, <1>3, <2>2, <2>4, <2>8 DEF Drained
    <3>3. e.wf.timers = (m.wf.timers \ Over(m, e, TRUE)) \cup Window(TRUE)
      BY <1>2, <2>3, <2>8, <2>10 DEF Drained
    <3>. QED  BY <1>2, <2>3, <2>5, <2>6, <2>7, <3>1, <3>2, <3>3 DEF Drained
  <2>. QED  BY <2>4, <2>11 DEF e
<1>5. CASE Watches(key)
  <2>1. /\ r.start = {} /\ r.cancel = {} /\ r.incident = "heartbeat_timeout"
        /\ r.next = [d.wf EXCEPT !.state = "on_hold", !.hold = key[1],
                                 !.timers = d.wf.timers \ {key}]
    BY <1>5 DEF ApplyTimer, TimedOut, Watches
  <2>2. /\ r.next.state = "on_hold" /\ r.next.hold = key[1]
        /\ r.next.timers = d.wf.timers \ {key}
        /\ r.next.station = d.wf.station /\ r.next.attempts = d.wf.attempts
        /\ r.next.incident = d.wf.incident
    BY <1>1, <2>1 DEF Workflow
  <2>. HIDE DEF r, e
  <2>3. e.ready = d.ready \ {key}
    BY <1>1, <1>2, <2>1
  <2>4. TimedOutSince(m, e)
    BY <1>3, <1>5, <2>3 DEF TimedOutSince
  <2>5. e.trouble = "heartbeat_timeout" /\ key[1] \in TimerTypes
    BY <1>2, <1>5, <2>1 DEF AfterAction, NoAction, CloseAction, Watches, TimerTypes
  <2>6. key \notin Window(opened) /\ key # RetryBackoff("test")
    <3>1. opened => TestResult("test") \notin m.ready
      BY <1>1 DEF Drained
    <3>. QED  BY <1>3, <1>5, <3>1 DEF Window, Watches, RetryBackoff
  <2>7. Drained(m, e, opened)
    <3>1. /\ e.ready \subseteq m.ready
          /\ opened => /\ m.wf.state = "retry_pending"
                       /\ RetryBackoff("test") \in Taken(m, e)
      BY <1>3, <2>3 DEF Drained
    <3>2. /\ e.timers = (m.timers \ Taken(m, e)) \cup Window(opened)
          /\ e.started = m.started \cup Window(opened)
      BY <1>2, <1>3, <2>1, <2>3, <2>6 DEF Drained
    <3>3. e.wf.timers = (m.wf.timers \ Over(m, e, opened)) \cup Window(opened)
      <4>1. Over(m, e, opened) = Over(m, d, opened) \cup {key}
        BY <1>3, <1>5, <2>3 DEF Over
      <4>2. /\ d.wf.timers = (m.wf.timers \ Over(m, d, opened)) \cup Window(opened)
            /\ e.wf.timers = d.wf.timers \ {key}
        BY <1>2, <2>2 DEF Drained
      <4>. QED  BY <2>6, <4>1, <4>2
    <3>. QED  BY <1>2, <2>2, <2>4, <2>5, <3>1, <3>2, <3>3 DEF Drained
  <2>. QED  BY <2>3, <2>7 DEF e
<1>6. CASE /\ ~ Watches(key)
           /\ ~ (key[1] = "retry_backoff_timer" /\ d.wf.state = "retry_pending")
  <2>1. r.start = {} /\ r.cancel = {} /\ r.incident = NoAction /\ r.next = d.wf
    BY <1>6 DEF ApplyTimer, Watches, Rejected
  <2>. HIDE DEF r, e
  <2>2. e.ready = d.ready \ {key} /\ e.trouble = d.trouble
    BY <1>1, <1>2, <2>1 DEF AfterAction, NoAction, CloseAction
  <2>3. TimedOutSince(m, e) <=> TimedOutSince(m, d)
    BY <1>3, <1>6, <2>2 DEF TimedOutSince
  <2>4. /\ opened => key # RetryBackoff("test") /\ key \notin Window(opened)
        /\ ~ opened => key \notin Window(opened)
    <3>1. opened => TestResult("test") \notin m.ready
      BY <1>1 DEF Drained
    <3>. QED  BY <1>3, <3>1 DEF Window, Drained
  <2>5. Drained(m, e, opened)
    <3>1. /\ e.ready \subseteq m.ready
          /\ opened => /\ m.wf.state = "retry_pending"
                       /\ RetryBackoff("test") \in Taken(m, e)
      BY <1>3, <2>2 DEF Drained
    <3>2. /\ e.timers = (m.timers \ Taken(m, e)) \cup Window(opened)
          /\ e.started = m.started \cup Window(opened)
      BY <1>2, <1>3, <2>1, <2>2, <2>4 DEF Drained
    <3>3. e.wf.timers = (m.wf.timers \ Over(m, e, opened)) \cup Window(opened)
      <4>1. Over(m, e, opened) = Over(m, d, opened)
        BY <1>3, <1>6, <2>2, <2>4 DEF Over
      <4>. QED  BY <1>2, <2>1, <4>1 DEF Drained
    <3>. QED  BY <1>2, <2>1, <2>2, <2>3, <3>1, <3>2, <3>3 DEF Drained
  <2>. QED  BY <2>2, <2>5 DEF e
<1>. QED  BY <1>4, <1>5, <1>6
-----------------------------------------------------------------------------
(* Induction over the numbers, from the order of the numbers being well    *)
(* founded: a set of numbers that is not empty has a least member ...      *)
LEMMA Least ==
  ASSUME NEW T \in SUBSET Nat, T # {}
  PROVE  \E x \in T : \A y \in T : x <= y
<1>. DEFINE R == {ss \in Nat \X Nat : ss[1] < ss[2]}
<1>1. IsWellFoundedOn(R, Nat)
  BY NatLessThanWellFounded DEF OpToRel
<1>2. \A x, y \in Nat : <<y, x>> \in R <=> y < x
  OBVIOUS
<1>. HIDE DEF R
<1>3. PICK x \in T : \A y \in T : ~ (<<y, x>> \in R)
  BY <1>1, WFMin
<1>4. ASSUME NEW y \in T  PROVE x <= y
  <2>1. x \in Nat /\ y \in Nat /\ ~ (y < x)
    BY <1>2, <1>3
  <2>. QED  BY <2>1
<1>. QED  BY <1>4

(* ... and one that has 0, and with n also n + 1, has all of them.         *)
LEMMA Induct ==
  ASSUME NEW T, 0 \in T, \A n \in Nat : n \in T => n + 1 \in T
  PROVE  Nat \subseteq T
<1>. SUFFICES ASSUME Nat \ T # {}  PROVE FALSE
  OBVIOUS
<1>1. PICK x \in Nat \ T : \A y \in Nat \ T : x <= y
  BY Least
<1>2. x # 0 /\ x - 1 \in Nat /\ x - 1 \in T
  BY <1>1
<1>3. (x - 1) + 1 \in T
  BY <1>2
<1>. QED BY <1>1, <1>3

(* The function that After chooses exists and is the one it defines: turn  *)
(* by turn, there is a beginning of it, any two agree, and together they   *)
(* make it up.                                                             *)
LEMMA AfterTurns ==
  ASSUME NEW m
  PROVE  /\ After(m)[0] = {m}
         /\ \A n \in Nat : After(m)[n + 1] = UNION {Turn(d, n + 1) : d \in After(m)[n]}
<1>. DEFINE Step(X, n) == UNION {Turn(d, n) : d \in X}
            Upto(f, k) == f = [n \in 0..k |-> IF n = 0 THEN {m} ELSE Step(f[n - 1], n)]
<1>1. After(m) = CHOOSE f : f = [n \in Nat |-> IF n = 0 THEN {m} ELSE Step(f[n - 1], n)]
  BY DEF After
<1>. HIDE DEF Step
<1>2. \A f, k : Upto(f, k) /\ k \in Nat => f[0] = {m}
                /\ \A n \in 0..k : n # 0 => f[n] = Step(f[n - 1], n)
  <2>. TAKE f, k
  <2>. HAVE Upto(f, k) /\ k \in Nat
  <2>1. \A n \in 0..k : f[n] = IF n = 0 THEN {m} ELSE Step(f[n - 1], n)
    <3>. DEFINE e(n) == IF n = 0 THEN {m} ELSE Step(f[n - 1], n)
    <3>1. f = [n \in 0..k |-> e(n)]
      OBVIOUS
    <3>. HIDE DEF e
    <3>2. \A n \in 0..k : f[n] = e(n)
      BY <3>1
    <3>. QED  BY <3>2 DEF e
  <2>2. 0 \in 0..k
    OBVIOUS
  <2>. HIDE DEF Upto
  <2>. QED  BY <2>1, <2>2
<1>3. \A k \in Nat : \E f : Upto(f, k)
  <2>. DEFINE T == {k \in Nat : \E f : Upto(f, k)}
  <2>1. 0 \in T
    <3>1. Upto([n \in 0..0 |-> {m}], 0)
      OBVIOUS
    <3>. QED  BY <3>1
  <2>2. ASSUME NEW k \in Nat, k \in T  PROVE k + 1 \in T
    <3>1. PICK f : Upto(f, k)
      BY <2>2
    <3>. DEFINE g == [n \in 0..(k + 1) |-> IF n = k + 1 THEN Step(f[k], k + 1) ELSE f[n]]
    <3>2. Upto(g, k + 1)
      <4>1. ASSUME NEW n \in 0..(k + 1)
            PROVE  g[n] = IF n = 0 THEN {m} ELSE Step(g[n - 1], n)
        <5>1. CASE n = k + 1
          <6>1. k \in 0..(k + 1) /\ k # k + 1 /\ n - 1 = k /\ n # 0
            BY <5>1
          <6>. QED  BY <5>1, <6>1
        <5>2. CASE n # k + 1 /\ n # 0
          <6>1. n \in 0..k /\ n - 1 \in 0..(k + 1) /\ n - 1 # k + 1
            BY <5>2
          <6>. QED  BY <1>2, <3>1, <5>2, <6>1
        <5>3. CASE n = 0
          BY <1>2, <3>1, <5>3
        <5>. QED  BY <5>1, <5>2, <5>3
      <4>. QED  BY <4>1
    <3>. HIDE DEF Upto, g
    <3>. QED  BY <3>2
  <2>. HIDE DEF T
  <2>3. Nat \subseteq T
    BY <2>1, <2>2, Induct
  <2>. QED  BY <2>3 DEF T
<1>4. \A n \in Nat : \A j, k \in Nat : \A f, g :
         n <= j /\ n <= k /\ Upto(f, j) /\ Upto(g, k) => f[n] = g[n]
  <2>. DEFINE T == {n \in Nat : \A j, k \in Nat : \A f, g :
                      n <= j /\ n <= k /\ Upto(f, j) /\ Upto(g, k) => f[n] = g[n]}
  <2>1. 0 \in T
    BY <1>2
  <2>2. ASSUME NEW n \in Nat, n \in T  PROVE n + 1 \in T
    <3>1. ASSUME NEW j \in Nat, NEW k \in Nat, NEW f, NEW g,
                 n + 1 <= j, n + 1 <= k, Upto(f, j), Upto(g, k)
          PROVE  f[n + 1] = g[n + 1]
      <4>1. f[n] = g[n]
        <5>1. n <= j /\ n <= k
          BY <3>1
        <5>. HIDE DEF Upto
        <5>. QED  BY <2>2, <3>1, <5>1
      <4>2. n + 1 \in 0..j /\ n + 1 \in 0..k /\ n + 1 # 0 /\ (n + 1) - 1 = n
        BY <3>1
      <4>. HIDE DEF Upto
      <4>3. /\ f[n + 1] = Step(f[(n + 1) - 1], n + 1)
            /\ g[n + 1] = Step(g[(n + 1) - 1], n + 1)
        BY <1>2, <3>1, <4>2
      <4>. QED  BY <4>1, <4>2, <4>3
    <3>. QED  BY <3>1
  <2>. HIDE DEF T
  <2>3. Nat \subseteq T
    BY <2>1, <2>2, Induct
  <2>. QED  BY <2>3 DEF T
<1>. DEFINE F == [k \in Nat |-> (CHOOSE f : Upto(f, k))[k]]
<1>5. F = [n \in Nat |-> IF n = 0 THEN {m} ELSE Step(F[n - 1], n)]
  <2>. HIDE DEF Upto
  <2>1. \A k \in Nat : Upto(CHOOSE f : Upto(f, k), k)
    BY <1>3
  <2>2. ASSUME NEW n \in Nat
        PROVE  F[n] = IF n = 0 THEN {m} ELSE Step(F[n - 1], n)
    <3>1. CASE n = 0
      BY <1>2, <2>1, <3>1
    <3>2. CASE n # 0
      <4>. DEFINE f == CHOOSE f : Upto(f, n)
                  g == CHOOSE g : Upto(g, n - 1)
      <4>1. n \in 0..n /\ n - 1 \in Nat /\ n - 1 <= n /\ n - 1 <= n - 1
        BY <3>2
      <4>2. Upto(f, n) /\ Upto(g, n - 1)
        BY <2>1, <4>1
      <4>3. F[n] = f[n] /\ F[n - 1] = g[n - 1]
        BY <4>1
      <4>. HIDE DEF f, g, F
      <4>4. f[n] = Step(f[n - 1], n)
        BY <1>2, <3>2, <4>1, <4>2
      <4>5. f[n - 1] = g[n - 1]
        BY <1>4, <4>1, <4>2
      <4>. QED  BY <3>2, <4>3, <4>4, <4>5
    <3>. QED  BY <3>1, <3>2
  <2>3. F = [n \in Nat |-> F[n]]
    OBVIOUS
  <2>. HIDE DEF F
  <2>. QED  BY <2>2, <2>3
<1>6. After(m) = [n \in Nat |-> IF n = 0 THEN {m} ELSE Step(After(m)[n - 1], n)]
  <2>. DEFINE Rec(f) == f = [n \in Nat |-> IF n = 0 THEN {m} ELSE Step(f[n - 1], n)]
  <2>1. After(m) = CHOOSE f : Rec(f)
    BY <1>1
  <2>2. Rec(F)
    <3>. HIDE DEF F
    <3>. QED  BY <1>5
  <2>. HIDE DEF Rec, F
  <2>3. Rec(After(m))
    BY <2>1, <2>2
  <2>. QED  BY <2>3 DEF Rec
<1>7. After(m)[0] = {m}
  BY <1>6
<1>8. ASSUME NEW n \in Nat  PROVE After(m)[n + 1] = Step(After(m)[n], n + 1)
  <2>1. n + 1 \in Nat /\ n + 1 # 0 /\ (n + 1) - 1 = n
    OBVIOUS
  <2>. QED  BY <1>6, <2>1
<1>. QED  BY <1>7, <1>8 DEF Step

-----------------------------------------------------------------------------
(* The turns that the history fixes.                                       *)
Posted == Len(signalCh) + Len(timerCh)

(* There are finitely many.                                                *)
LEMMA PostedNat == TypeOK => Posted \in Nat
  BY DEF TypeOK, Posted

(* The memories of a task are sound after any number of turns.             *)
LEMMA AfterSound ==
  ASSUME TypeOK, NEW b, Sound(b)
  PROVE  \A n \in Nat : \A d \in After(b)[n] : Sound(d)
<1>. DEFINE T == {n \in Nat : \A d \in After(b)[n] : Sound(d)}
<1>1. 0 \in T
  BY AfterTurns
<1>2. ASSUME NEW n \in Nat, n \in T  PROVE n + 1 \in T
  <2>1. n + 1 \in Nat \ {0}
    OBVIOUS
  <2>2. ASSUME NEW e \in After(b)[n + 1]  PROVE Sound(e)
    <3>1. PICK d \in After(b)[n] : e \in Turn(d, n + 1)
      BY <2>2, AfterTurns
    <3>. QED  BY <1>2, <2>1, <3>1, TurnSound
  <2>. QED  BY <2>1, <2>2
<1>. HIDE DEF T
<1>3. Nat \subseteq T
  BY <1>1, <1>2, Induct
<1>. QED  BY <1>3 DEF T

(* Two replays of a task stay alike as long as its history fixes them.     *)
LEMMA AfterAlike ==
  ASSUME TypeOK, NEW b, NEW c, Sound(b), Sound(c), Same(b, c)
  PROVE  \A n \in 0..Posted : \A f \in After(b)[n], g \in After(c)[n] : Same(f, g)
<1>. DEFINE T == {n \in Nat : n <= Posted =>
                    \A f \in After(b)[n], g \in After(c)[n] : Same(f, g)}
<1>0. Posted \in Nat
  BY PostedNat
<1>1. 0 \in T
  BY AfterTurns
<1>2. ASSUME NEW n \in Nat, n \in T  PROVE n + 1 \in T
  <2>1. ASSUME n + 1 <= Posted, NEW p \in After(b)[n + 1], NEW q \in After(c)[n + 1]
        PROVE  Same(p, q)
    <3>1. PICK d \in After(b)[n] : p \in Turn(d, n + 1)
      BY <2>1, AfterTurns
    <3>2. PICK e \in After(c)[n] : q \in Turn(e, n + 1)
      BY <2>1, AfterTurns
    <3>3. Sound(d) /\ Sound(e)
      BY AfterSound
    <3>4. Same(d, e)
      BY <1>0, <1>2, <2>1
    <3>5. n + 1 \in 1..(Len(signalCh) + Len(timerCh))
      BY <1>0, <2>1 DEF Posted
    <3>. QED  BY <3>1, <3>2, <3>3, <3>4, <3>5, TurnAlike
  <2>. QED  BY <2>1
<1>. HIDE DEF T
<1>3. Nat \subseteq T
  BY <1>1, <1>2, Induct
<1>. QED  BY <1>0, <1>3 DEF T

(* No future ends the workflow: a timer leads to no terminal state.        *)
LEMMA EndsAsItWas ==
  ASSUME NEW m, NEW d, NEW opened, Drained(m, d, opened), Ended(d)
  PROVE  Ended(m)
  BY DEF Drained, Ended, Terminal

(* After them, j more turns have taken j futures, or all that are ready.   *)
LEMMA AfterDrained ==
  ASSUME TypeOK, IsFiniteSet(due), NEW b, Sound(b)
  PROVE  \A j \in Nat : \A d \in After(b)[Posted + j] :
           \E m \in After(b)[Posted], opened \in BOOLEAN :
             /\ Drained(m, d, opened)
             /\ Ended(m) => d = m
             /\ Ended(m) \/ d.ready = {} \/ Cardinality(d.ready) + j <= Cardinality(due)
<1>. DEFINE Drains(d, j) ==
              \E m \in After(b)[Posted], opened \in BOOLEAN :
                /\ Drained(m, d, opened)
                /\ Ended(m) => d = m
                /\ Ended(m) \/ d.ready = {} \/ Cardinality(d.ready) + j <= Cardinality(due)
            T == {j \in Nat : \A d \in After(b)[Posted + j] : Drains(d, j)}
<1>0. Posted \in Nat /\ Cardinality(due) \in Nat
  BY PostedNat, FS_CardinalityType
<1>1. ASSUME NEW d, Sound(d)
      PROVE  /\ IsFiniteSet(d.ready) /\ Cardinality(d.ready) \in Nat
             /\ Cardinality(d.ready) <= Cardinality(due)
  <2>1. d.ready \in SUBSET due
    BY <1>1 DEF Sound
  <2>. QED  BY <2>1, FS_Subset, FS_CardinalityType
<1>2. 0 \in T
  <2>1. ASSUME NEW d \in After(b)[Posted]  PROVE Drains(d, 0)
    <3>1. Cardinality(d.ready) + 0 <= Cardinality(due)
      BY <1>0, <1>1, AfterSound
    <3>. QED  BY <3>1, NothingDrained
  <2>2. Posted + 0 = Posted
    BY <1>0
  <2>. HIDE DEF Drains
  <2>. QED  BY <2>1, <2>2
<1>3. ASSUME NEW j \in Nat, j \in T  PROVE j + 1 \in T
  <2>. DEFINE n == Posted + j
  <2>1. n \in Nat /\ Posted + (j + 1) = n + 1 /\ ~ (n + 1 <= Posted)
    BY <1>0
  <2>2. ASSUME NEW e \in After(b)[n + 1]  PROVE Drains(e, j + 1)
    <3>. HIDE DEF n
    <3>1. PICK d \in After(b)[n] : e \in Turn(d, n + 1)
      BY <2>1, <2>2, AfterTurns
    <3>2. Sound(d) /\ IsFiniteSet(d.ready) /\ Cardinality(d.ready) \in Nat
      BY <1>1, <2>1, AfterSound
    <3>3. Drains(d, j)
      BY <1>3, <3>1 DEF n
    <3>4. PICK m \in After(b)[Posted], opened \in BOOLEAN :
            /\ Drained(m, d, opened)
            /\ Ended(m) => d = m
            /\ Ended(m) \/ d.ready = {} \/ Cardinality(d.ready) + j <= Cardinality(due)
      BY <3>3
    <3>5. Turn(d, n + 1) = IF Ended(d) \/ d.ready = {} THEN {d}
                           ELSE {TakeFuture(d, key) : key \in d.ready}
      <4>1. ~ (n + 1 <= Len(signalCh)) /\ ~ (n + 1 <= Len(signalCh) + Len(timerCh))
        BY <2>1 DEF Posted, TypeOK
      <4>. QED  BY <4>1 DEF Turn
    <3>6. CASE Ended(d) \/ d.ready = {}
      <4>1. e = d
        BY <3>1, <3>5, <3>6
      <4>. QED  BY <3>4, <3>6, <4>1, EndsAsItWas
    <3>7. CASE ~ (Ended(d) \/ d.ready = {})
      <4>1. PICK key \in d.ready : e = TakeFuture(d, key)
        BY <3>1, <3>5, <3>7
      <4>2. ~ Ended(m) /\ Sound(m)
        BY <1>0, <3>4, <3>7, AfterSound
      <4>3. /\ e.ready = d.ready \ {key}
            /\ \E c \in BOOLEAN : Drained(m, e, c)
        BY <3>2, <3>4, <4>1, <4>2, FutureTaken
      <4>4. Cardinality(e.ready) = Cardinality(d.ready) - 1
        BY <3>2, <4>3, FS_RemoveElement
      <4>5. Cardinality(e.ready) + (j + 1) <= Cardinality(due)
        BY <1>0, <3>2, <3>4, <3>7, <4>2, <4>4
      <4>. QED  BY <4>2, <4>3, <4>5
    <3>. QED  BY <3>6, <3>7
  <2>. HIDE DEF Drains
  <2>. QED  BY <2>1, <2>2
<1>. HIDE DEF T
<1>4. Nat \subseteq T
  BY <1>2, <1>3, Induct
<1>. QED  BY <1>4 DEF T

-----------------------------------------------------------------------------
(* The memories that a history can be replayed to.                         *)
Memories == [wf : Workflow, timers : SUBSET Armable,
             trouble : Categories \cup {NoAction}]

(* The invariant of the workflow with its replays: the one of the          *)
(* execution, for the memory the worker has, and that all others are       *)
(* alike; the futures of a task are finitely many.                         *)
RInv ==
  /\ IInv
  /\ IsFiniteSet(due)
  /\ Now \in replays /\ replays \subseteq Memories
  /\ ReplaysAgree

(* What the engine keeps of a snapshot, it keeps of those alike.           *)
LEMMA AlikeKeeps ==
  ASSUME NEW v \in Workflow, NEW w \in Workflow, Alike(v, w), Coherent(w)
  PROVE  Coherent(v) /\ \A ts : Tracks(w, ts) => Tracks(v, ts)
<1>1. SameFields(v, w)
  BY AlikeFields
<1>2. "" \notin TimerTypes /\ TimerTypes \cap ReasonCodes = {}
  BY DEF TimerTypes, ReasonCodes
<1>3. Coherent(v)
  BY <1>1, <1>2 DEF SameFields, Coherent, Timed
<1>4. \A ts : Tracks(w, ts) => Tracks(v, ts)
  BY <1>1 DEF SameFields, Tracks
<1>. QED  BY <1>3, <1>4

(* A task begins with a sound memory ...                                   *)
LEMMA BeginsSound ==
  ASSUME RInv, Working, NEW m \in replays
  PROVE  Sound(Begun(m))
<1>1. /\ m \in Memories /\ wf \in Workflow /\ Coherent(wf) /\ Scheduled
      /\ Alike(m.wf, wf) /\ m.timers = timers
  BY DEF RInv, IInv, TypeOK, Loop, Working, ReplaysAgree
<1>2. /\ m.wf \in Workflow /\ m.timers \subseteq Armable
      /\ m.trouble \in Categories \cup {NoAction}
  BY <1>1 DEF Memories
<1>3. Coherent(m.wf) /\ Tracks(m.wf, m.timers)
  BY <1>1, <1>2, AlikeKeeps DEF Scheduled
<1>. DEFINE b == Begun(m)
<1>4. /\ b = [wf |-> m.wf, timers |-> m.timers, trouble |-> m.trouble,
              ready |-> due \cap m.timers, started |-> {}]
      /\ b.wf = m.wf /\ b.timers = m.timers /\ b.ready = due \cap m.timers
      /\ b.started = {}
  BY DEF Begun
<1>. HIDE DEF b
<1>5. b \in TaskMemory
  BY <1>2, <1>4 DEF TaskMemory
<1>6. Sound(b)
  BY <1>3, <1>4, <1>5, FS_EmptySet DEF Sound
<1>. QED  BY <1>6 DEF b

(* ... and in all replays with memories that are alike.                    *)
LEMMA BeginsAlike ==
  ASSUME RInv, NEW m \in replays, NEW n \in replays
  PROVE  Alike(m.wf, n.wf) /\ Same(Begun(m), Begun(n))
<1>1. /\ m \in Memories /\ n \in Memories /\ wf \in Workflow
      /\ Alike(m.wf, wf) /\ m.timers = timers /\ m.trouble = trouble
      /\ Alike(n.wf, wf) /\ n.timers = timers /\ n.trouble = trouble
  BY DEF RInv, IInv, TypeOK, ReplaysAgree
<1>2. m.wf \in Workflow /\ n.wf \in Workflow
  BY <1>1 DEF Memories
<1>3. SameFields(m.wf, wf) /\ SameFields(n.wf, wf)
  BY <1>1, <1>2, AlikeFields
<1>4. SameFields(m.wf, n.wf)
  BY <1>3 DEF SameFields
<1>5. Alike(m.wf, n.wf)
  BY <1>2, <1>4, AlikeFields
<1>. QED  BY <1>1, <1>5 DEF Same, Begun

(* The number of timers that a task left running tells whether the window  *)
(* of a retry has opened: its timer is one more.                           *)
LEMMA CommandsTell ==
  ASSUME NEW m, NEW d, Sound(m), NEW opened \in BOOLEAN, Drained(m, d, opened),
         d.ready = {}
  PROVE  /\ Cardinality(m.started \cap m.timers) \in Nat
         /\ Cardinality(d.started \cap d.timers) =
              Cardinality(m.started \cap m.timers) + IF opened THEN 1 ELSE 0
<1>. DEFINE X == m.started \cap m.timers
<1>1. IsFiniteSet(X) /\ Cardinality(X) \in Nat
  <2>1. IsFiniteSet(m.started) /\ X \in SUBSET m.started
    BY DEF Sound
  <2>. QED  BY <2>1, FS_Subset, FS_CardinalityType
<1>2. d.started \cap d.timers = X \cup Window(opened)
  BY DEF Drained, Taken, Sound
<1>3. CASE opened
  <2>1. TestResult("test") \notin X
    BY <1>3 DEF Drained, Sound, Tracks
  <2>2. d.started \cap d.timers = X \cup {TestResult("test")}
    BY <1>2, <1>3 DEF Window
  <2>. HIDE DEF X
  <2>3. Cardinality(X \cup {TestResult("test")}) = Cardinality(X) + 1
    BY <1>1, <2>1, FS_AddElement
  <2>. QED  BY <1>1, <1>3, <2>2, <2>3 DEF X
<1>4. CASE ~ opened
  BY <1>1, <1>2, <1>4 DEF Window
<1>. QED  BY <1>3, <1>4

(* The end of the loop changes the timers alone.                           *)
LEMMA ClosedFields ==
  ASSUME NEW m, Sound(m)
  PROVE  LET d == Closed(m)
         IN  /\ d.wf = m.wf /\ d.trouble = m.trouble /\ d.started = m.started
             /\ d.timers = IF Ended(m) THEN {} ELSE m.timers
             /\ Ended(d) <=> Ended(m)
<1>1. CASE Ended(m)
  <2>. DEFINE d == [m EXCEPT !.timers = {}]
  <2>1. d.wf = m.wf /\ d.trouble = m.trouble /\ d.started = m.started /\ d.timers = {}
    BY DEF Sound, TaskMemory
  <2>2. Closed(m) = d
    BY <1>1 DEF Closed
  <2>. HIDE DEF d
  <2>. QED  BY <1>1, <2>1, <2>2 DEF Ended
<1>2. CASE ~ Ended(m)
  BY <1>2 DEF Closed
<1>. QED  BY <1>1, <1>2

(* A task takes what is sent and posted, and then every future that is     *)
(* ready, unless a terminal state ends it before.                          *)
LEMMA TaskEnds ==
  ASSUME RInv, Working, NEW m \in replays, NEW d \in Task(m)
  PROVE  \E s \in After(Begun(m))[Posted], o \in BOOLEAN,
            p \in After(Begun(m))[Posted + Cardinality(due)] :
           /\ Sound(s) /\ Sound(p) /\ d = Closed(p) /\ Drained(s, p, o)
           /\ IF Ended(s) THEN p = s ELSE ~ Ended(p) /\ p.ready = {}
<1>0. /\ TypeOK /\ IsFiniteSet(due) /\ Posted \in Nat
      /\ Cardinality(due) \in Nat /\ Posted + Cardinality(due) \in Nat
  BY PostedNat, FS_CardinalityType DEF RInv, IInv
<1>1. Sound(Begun(m))
  BY BeginsSound
<1>2. PICK p \in After(Begun(m))[Posted + Cardinality(due)] : d = Closed(p)
  BY DEF Task, Posted
<1>3. PICK s \in After(Begun(m))[Posted], o \in BOOLEAN :
        /\ Drained(s, p, o)
        /\ Ended(s) => p = s
        /\ \/ Ended(s) \/ p.ready = {}
           \/ Cardinality(p.ready) + Cardinality(due) <= Cardinality(due)
  BY <1>0, <1>1, AfterDrained
<1>4. Sound(s) /\ Sound(p)
  BY <1>0, <1>1, AfterSound
<1>5. ASSUME ~ Ended(s)  PROVE ~ Ended(p) /\ p.ready = {}
  <2>1. p.ready \in SUBSET due
    BY <1>4 DEF Sound
  <2>2. IsFiniteSet(p.ready) /\ Cardinality(p.ready) \in Nat
    BY <1>0, <2>1, FS_Subset, FS_CardinalityType
  <2>3. p.ready = {} \/ Cardinality(p.ready) = 0
    BY <1>0, <1>3, <1>5, <2>2
  <2>4. p.ready = {}
    BY <2>2, <2>3, FS_EmptySet
  <2>5. ~ Ended(p)
    BY <1>3, <1>5, EndsAsItWas
  <2>. QED  BY <2>4, <2>5
<1>6. IF Ended(s) THEN p = s ELSE ~ Ended(p) /\ p.ready = {}
  BY <1>3, <1>5
<1>. QED  BY <1>2, <1>3, <1>4, <1>6, Zenon

(* Each task comes to an end, in whatever order it takes the futures, and  *)
(* has then none left, unless it closed the workflow.                      *)
LEMMA TaskTakesAll ==
  ASSUME RInv, Working, NEW m \in replays
  PROVE  Task(m) # {} /\ \A d \in Task(m) : Ended(d) \/ d.ready = {}
<1>. DEFINE b == Begun(m)
            T == {n \in Nat : After(b)[n] # {}}
            turns == Posted + Cardinality(due)
<1>1. 0 \in T
  BY AfterTurns
<1>2. ASSUME NEW n \in Nat, n \in T  PROVE n + 1 \in T
  <2>1. PICK d : d \in After(b)[n]
    BY <1>2
  <2>2. Turn(d, n + 1) # {}
    BY DEF Turn
  <2>. HIDE DEF b
  <2>3. After(b)[n + 1] # {}
    BY <2>1, <2>2, AfterTurns
  <2>. QED  BY <2>3
<1>. HIDE DEF T
<1>3. Nat \subseteq T
  BY <1>1, <1>2, Induct
<1>4. turns \in Nat
  BY PostedNat, FS_CardinalityType DEF RInv, IInv
<1>5. Task(m) # {}
  <2>1. PICK d : d \in After(b)[turns]
    BY <1>3, <1>4 DEF T
  <2>2. Closed(d) \in Task(m)
    BY <2>1 DEF Task, Posted
  <2>. QED  BY <2>2
<1>6. ASSUME NEW d \in Task(m)  PROVE Ended(d) \/ d.ready = {}
  <2>1. PICK s, p :
          /\ Sound(p) /\ d = Closed(p)
          /\ IF Ended(s) THEN p = s ELSE ~ Ended(p) /\ p.ready = {}
    BY TaskEnds
  <2>2. Ended(d) <=> Ended(p)
    BY <2>1, ClosedFields
  <2>3. CASE Ended(p)
    BY <2>2, <2>3
  <2>4. CASE ~ Ended(p)
    <3>1. p.ready = {}
      <4>1. ~ Ended(s)
        BY <2>1, <2>4
      <4>. QED  BY <2>1, <4>1
    <3>. QED  BY <2>1, <2>4, <3>1 DEF Closed
  <2>. QED  BY <2>3, <2>4
<1>. QED  BY <1>5, <1>6

(* What it ends with is the memory of an execution, running or closed.     *)
LEMMA TaskKeeps ==
  ASSUME RInv, Working, NEW m \in replays, NEW d \in Task(m)
  PROVE  /\ Memory(d) \in Memories /\ Coherent(d.wf)
         /\ Ended(d) => d.timers = {}
         /\ ~ Ended(d) => Tracks(d.wf, d.timers)
<1>1. PICK p : Sound(p) /\ d = Closed(p)
  BY TaskEnds
<1>2. /\ d.wf = p.wf /\ d.trouble = p.trouble
      /\ d.timers = IF Ended(p) THEN {} ELSE p.timers
      /\ Ended(d) <=> Ended(p)
  BY <1>1, ClosedFields
<1>3. /\ p.wf \in Workflow /\ p.timers \subseteq Armable
      /\ p.trouble \in Categories \cup {NoAction}
      /\ Coherent(p.wf) /\ Tracks(p.wf, p.timers)
  BY <1>1 DEF Sound, TaskMemory
<1>4. Memory(d) \in Memories
  BY <1>2, <1>3 DEF Memory, Memories
<1>. QED  BY <1>2, <1>3, <1>4

(* Two replays of a task, in any two orders, that the SDK cannot tell      *)
(* apart by their commands end alike.  The signals and manual timers leave *)
(* them alike; the futures taken after those are the same in both; and the *)
(* window of a retry opened in both or in neither, or their commands would *)
(* differ.                                                                 *)
LEMMA TasksAgree ==
  ASSUME RInv, Working, NEW m \in replays, NEW n \in replays,
         NEW d \in Task(m), NEW e \in Task(n), SameCommands(d, e)
  PROVE  Alike(d.wf, e.wf) /\ d.timers = e.timers /\ d.trouble = e.trouble
<1>1. TypeOK /\ Posted \in Nat
  BY PostedNat DEF RInv, IInv
<1>2. Sound(Begun(m)) /\ Sound(Begun(n)) /\ Same(Begun(m), Begun(n))
  BY BeginsSound, BeginsAlike
<1>3. PICK s \in After(Begun(m))[Posted], o \in BOOLEAN,
          p \in After(Begun(m))[Posted + Cardinality(due)] :
        /\ Sound(s) /\ Sound(p) /\ d = Closed(p) /\ Drained(s, p, o)
        /\ IF Ended(s) THEN p = s ELSE ~ Ended(p) /\ p.ready = {}
  BY TaskEnds
<1>4. PICK t \in After(Begun(n))[Posted], u \in BOOLEAN,
          q \in After(Begun(n))[Posted + Cardinality(due)] :
        /\ Sound(t) /\ Sound(q) /\ e = Closed(q) /\ Drained(t, q, u)
        /\ IF Ended(t) THEN q = t ELSE ~ Ended(q) /\ q.ready = {}
  BY TaskEnds
<1>6. Same(s, t)
  BY <1>1, <1>2, AfterAlike
<1>7. s.wf \in Workflow /\ t.wf \in Workflow /\ p.wf \in Workflow /\ q.wf \in Workflow
  BY <1>3, <1>4 DEF Sound, TaskMemory
<1>8. SameFields(s.wf, t.wf)
  BY <1>6, <1>7, AlikeFields DEF Same
<1>9. Ended(s) <=> Ended(t)
  BY <1>8 DEF SameFields, Ended
<1>10. /\ d.wf = p.wf /\ d.trouble = p.trouble /\ d.started = p.started
       /\ d.timers = IF Ended(p) THEN {} ELSE p.timers
       /\ e.wf = q.wf /\ e.trouble = q.trouble /\ e.started = q.started
       /\ e.timers = IF Ended(q) THEN {} ELSE q.timers
  BY <1>3, <1>4, ClosedFields
<1>11. CASE Ended(s)
  BY <1>3, <1>4, <1>6, <1>9, <1>10, <1>11 DEF Same
<1>12. CASE ~ Ended(s)
  <2>1. ~ Ended(p) /\ ~ Ended(q) /\ p.ready = {} /\ q.ready = {}
    BY <1>3, <1>4, <1>9, <1>12
  <2>3. o = u
    <3>1. Cardinality(p.started \cap p.timers) = Cardinality(q.started \cap q.timers)
      BY <1>10, <2>1 DEF SameCommands
    <3>2. /\ Cardinality(s.started \cap s.timers) \in Nat
          /\ Cardinality(p.started \cap p.timers) =
               Cardinality(s.started \cap s.timers) + IF o THEN 1 ELSE 0
      BY <1>3, <2>1, CommandsTell
    <3>3. Cardinality(q.started \cap q.timers) =
            Cardinality(t.started \cap t.timers) + IF u THEN 1 ELSE 0
      BY <1>4, <2>1, CommandsTell
    <3>4. s.started = t.started /\ s.timers = t.timers
      BY <1>6 DEF Same
    <3>. QED  BY <3>1, <3>2, <3>3, <3>4
  <2>4. Taken(s, p) = Taken(t, q)
    BY <1>6, <2>1 DEF Taken, Same
  <2>5. /\ TimedOutSince(s, p) <=> TimedOutSince(t, q)
        /\ Over(s, p, o) = Over(t, q, u)
    BY <2>3, <2>4 DEF TimedOutSince, Over
  <2>6. SameFields(p.wf, q.wf) /\ p.timers = q.timers /\ p.trouble = q.trouble
    BY <1>3, <1>4, <1>6, <1>8, <2>3, <2>4, <2>5 DEF Drained, SameFields, Same
  <2>. QED  BY <1>7, <1>10, <2>1, <2>6, AlikeFields
<1>. QED  BY <1>11, <1>12

-----------------------------------------------------------------------------
(* The invariant holds before the first execution ...                      *)
LEMMA ReplayInitInvariant == ReplayInit => RInv
<1>. SUFFICES ASSUME ReplayInit  PROVE RInv
  OBVIOUS
<1>1. IInv /\ replays = {Now} /\ due = {}
  BY InitInvariant DEF ReplayInit, Init
<1>2. Now \in Memories
  BY <1>1 DEF IInv, TypeOK, Now, Memories
<1>3. ReplaysAgree
  <2>1. Now.wf = wf /\ Now.timers = timers /\ Now.trouble = trouble
    BY DEF Now
  <2>. QED  BY <1>1, <2>1 DEF ReplaysAgree, Alike
<1>. QED  BY <1>1, <1>2, <1>3, FS_EmptySet DEF RInv

(* ... after a workflow task, for which the replays are those with the     *)
(* same commands ...                                                       *)
LEMMA TaskInvariant ==
  ASSUME RInv, WorkflowTask  PROVE RInv'
<1>. DEFINE ends == [m \in replays |-> Task(m)]
<1>1. /\ Working /\ Now \in replays /\ TypeOK
      /\ due' = {} /\ signalCh' = <<>> /\ timerCh' = <<>> /\ applied' = applied
  BY DEF WorkflowTask, RInv, IInv
<1>2. PICK end \in Task(Now) :
        /\ wf' = end.wf /\ timers' = end.timers /\ trouble' = end.trouble
        /\ execution' = IF Ended(end) THEN "completed" ELSE execution
        /\ replays' = {Memory(d) : d \in {e \in UNION {ends[m] : m \in replays} :
                                            SameCommands(e, end)}}
  BY <1>1 DEF WorkflowTask
<1>3. \A x \in replays' : \E m \in replays : \E d \in Task(m) :
         x = Memory(d) /\ SameCommands(d, end)
  BY <1>2
<1>4. Now' \in replays'
  <2>1. end \in UNION {ends[m] : m \in replays} /\ SameCommands(end, end)
    BY <1>1, <1>2 DEF SameCommands
  <2>2. Now' = Memory(end)
    BY <1>2 DEF Now, Memory
  <2>. QED  BY <1>2, <2>1, <2>2
<1>5. /\ Memory(end) \in Memories /\ Coherent(end.wf)
      /\ Ended(end) => end.timers = {}
      /\ ~ Ended(end) => Tracks(end.wf, end.timers)
  BY <1>1, TaskKeeps
<1>6. /\ end.wf \in Workflow /\ end.timers \subseteq Armable
      /\ end.trouble \in Categories \cup {NoAction}
  BY <1>5 DEF Memory, Memories
<1>7. IInv'
  <2>1. TypeOK'
    BY <1>1, <1>2, <1>6, InputsAssumption DEF TypeOK
  <2>2. Coherent(wf)'
    BY <1>2, <1>5 DEF Coherent, Timed
  <2>3. execution = "running"
    BY <1>1 DEF Working
  <2>4. Ended(end) <=> wf'.state \in Terminal
    BY <1>2 DEF Ended
  <2>5. ~ Ended(end) => Scheduled'
    BY <1>2, <1>5 DEF Scheduled, Tracks
  <2>6. Loop'
    BY <1>2, <1>5, <2>3, <2>4, <2>5 DEF Loop
  <2>. QED  BY <2>1, <2>2, <2>6 DEF IInv
<1>8. replays' \subseteq Memories
  BY <1>1, <1>3, TaskKeeps
<1>9. ReplaysAgree'
  <2>1. ASSUME NEW x \in replays'
        PROVE  Alike(x.wf, wf') /\ x.timers = timers' /\ x.trouble = trouble'
    <3>1. PICK m \in replays : \E d \in Task(m) : x = Memory(d) /\ SameCommands(d, end)
      BY <1>3
    <3>2. PICK d \in Task(m) : x = Memory(d) /\ SameCommands(d, end)
      BY <3>1
    <3>3. Alike(d.wf, end.wf) /\ d.timers = end.timers /\ d.trouble = end.trouble
      BY <1>1, <3>2, TasksAgree
    <3>. QED  BY <1>2, <3>2, <3>3 DEF Memory
  <2>. QED  BY <2>1 DEF ReplaysAgree, Alike
<1>10. IsFiniteSet(due)'
  BY <1>1, FS_EmptySet
<1>. QED  BY <1>4, <1>7, <1>8, <1>9, <1>10 DEF RInv

(* ... after a restart of the worker, which takes up any of them ...       *)
LEMMA RestartInvariant ==
  ASSUME RInv, Restart  PROVE RInv'
<1>1. PICK m \in replays : wf' = m.wf /\ timers' = m.timers /\ trouble' = m.trouble
  BY DEF Restart
<1>2. /\ m \in Memories /\ wf \in Workflow /\ Coherent(wf) /\ TypeOK /\ Loop
      /\ Alike(m.wf, wf) /\ m.timers = timers /\ m.trouble = trouble
  BY DEF RInv, IInv, TypeOK, ReplaysAgree
<1>3. /\ m.wf \in Workflow /\ m.timers \subseteq Armable
      /\ m.trouble \in Categories \cup {NoAction}
      /\ m = [wf |-> m.wf, timers |-> m.timers, trouble |-> m.trouble]
  BY <1>2 DEF Memories
<1>4. UNCHANGED <<execution, due, signalCh, timerCh, applied, replays>>
  BY DEF Restart
<1>5. /\ Coherent(m.wf) /\ m.wf.state = wf.state
      /\ Tracks(wf, timers) => Tracks(m.wf, timers)
  BY <1>2, <1>3, AlikeKeeps, AlikeFields DEF SameFields
<1>6. IInv'
  <2>1. TypeOK'
    BY <1>1, <1>2, <1>3, <1>4 DEF TypeOK
  <2>2. Coherent(wf)'
    BY <1>1, <1>5 DEF Coherent, Timed
  <2>3. Scheduled => Scheduled'
    BY <1>1, <1>2, <1>5 DEF Scheduled, Tracks
  <2>4. Loop'
    BY <1>1, <1>2, <1>4, <1>5, <2>3 DEF Loop
  <2>. QED  BY <2>1, <2>2, <2>4 DEF IInv
<1>7. Now' \in replays'
  BY <1>1, <1>3, <1>4 DEF Now
<1>8. ReplaysAgree'
  <2>1. ASSUME NEW n \in replays
        PROVE  Alike(n.wf, m.wf) /\ n.timers = m.timers /\ n.trouble = m.trouble
    BY <1>2, <2>1, BeginsAlike DEF RInv, ReplaysAgree
  <2>. QED  BY <1>1, <1>4, <2>1 DEF ReplaysAgree, Alike
<1>. QED  BY <1>4, <1>6, <1>7, <1>8 DEF RInv

(* ... at the start of an execution, which forgets those of the last ...   *)
LEMMA StartsInvariant ==
  ASSUME RInv, NEW sig \in Inputs, Starts(sig)  PROVE RInv'
<1>1. IInv'
  BY NextInvariant DEF RInv, Starts, Next, DayNext
<1>2. /\ wf' = New /\ timers' = {} /\ trouble' = NoAction /\ due' = due
      /\ replays' = {[wf |-> New, timers |-> {}, trouble |-> NoAction]}
  BY DEF Starts, SignalStarts, Reusable, RInv, IInv, Loop
<1>3. Now' = [wf |-> New, timers |-> {}, trouble |-> NoAction]
  BY <1>2 DEF Now
<1>4. Now' \in Memories
  BY <1>1, <1>2, <1>3 DEF IInv, TypeOK, Memories
<1>5. ReplaysAgree'
  <2>1. ASSUME NEW m \in replays'
        PROVE  m.wf = New /\ m.timers = {} /\ m.trouble = NoAction
    BY <1>2
  <2>. QED  BY <1>2, <2>1 DEF ReplaysAgree, Alike
<1>. QED  BY <1>1, <1>2, <1>3, <1>4, <1>5 DEF RInv

(* ... at its timeout ...                                                  *)
LEMMA RunsOutInvariant ==
  ASSUME RInv, RunsOut  PROVE RInv'
<1>1. IInv'
  BY NextInvariant DEF RInv, RunsOut, Next
<1>2. /\ wf' = wf /\ timers' = {} /\ trouble' = trouble /\ due' = {}
      /\ replays' = {[m EXCEPT !.timers = {}] : m \in replays}
  BY DEF RunsOut, Expire, Close
<1>3. ASSUME NEW m \in replays
      PROVE  /\ [m EXCEPT !.timers = {}]
                  = [wf |-> m.wf, timers |-> {}, trouble |-> m.trouble]
             /\ Alike(m.wf, wf) /\ m.trouble = trouble
             /\ m.wf \in Workflow /\ m.trouble \in Categories \cup {NoAction}
  <2>1. m \in Memories
    BY DEF RInv
  <2>. QED  BY <2>1 DEF RInv, ReplaysAgree, Memories
<1>4. \A x \in replays' : \E m \in replays :
         x = [wf |-> m.wf, timers |-> {}, trouble |-> m.trouble]
  BY <1>2, <1>3
<1>5. Now' \in replays'
  <2>1. Now \in replays /\ Now.wf = wf /\ Now.trouble = trouble
    BY DEF RInv, Now
  <2>2. [Now EXCEPT !.timers = {}] = [wf |-> wf, timers |-> {}, trouble |-> trouble]
    BY <1>3, <2>1
  <2>3. Now' = [wf |-> wf, timers |-> {}, trouble |-> trouble]
    BY <1>2 DEF Now
  <2>. QED  BY <1>2, <2>1, <2>2, <2>3
<1>6. replays' \subseteq Memories
  <2>1. ASSUME NEW m \in replays
        PROVE  [wf |-> m.wf, timers |-> {}, trouble |-> m.trouble] \in Memories
    BY <1>3 DEF Memories
  <2>. QED  BY <1>4, <2>1
<1>7. ReplaysAgree'
  <2>1. ASSUME NEW x \in replays'
        PROVE  Alike(x.wf, wf') /\ x.timers = timers' /\ x.trouble = trouble'
    BY <1>2, <1>3, <1>4, <2>1
  <2>. QED  BY <2>1 DEF ReplaysAgree, Alike
<1>. QED  BY <1>1, <1>2, <1>5, <1>6, <1>7, FS_EmptySet DEF RInv

(* ... and after what the client and the server do.                        *)
LEMMA ReplayNextInvariant == RInv /\ [ReplayNext]_replayVars => RInv'
<1>. SUFFICES ASSUME RInv, [ReplayNext]_replayVars  PROVE RInv'
  OBVIOUS
<1>1. ASSUME [Next]_vars, UNCHANGED <<wf, timers, trouble, replays>>,
             due' = due \/ \E key : due' = due \cup {key}
      PROVE  RInv'
  <2>1. IInv'
    BY <1>1, NextInvariant DEF RInv
  <2>2. IsFiniteSet(due)'
    BY <1>1, FS_AddElement DEF RInv
  <2>3. ReplaysAgree'
    BY <1>1 DEF RInv, ReplaysAgree, Alike
  <2>4. Now' = Now
    BY <1>1 DEF Now
  <2>. QED  BY <1>1, <2>1, <2>2, <2>3, <2>4 DEF RInv
<1>2. CASE UNCHANGED replayVars
  BY <1>1, <1>2 DEF replayVars, vars
<1>3. ASSUME NEW sig \in Inputs, SignalRunning(sig), UNCHANGED replays  PROVE RInv'
  BY <1>1, <1>3 DEF SignalRunning, Next, DayNext
<1>4. ASSUME NEW key \in ManualInputs, SendTimer(key), UNCHANGED replays  PROVE RInv'
  BY <1>1, <1>4 DEF SendTimer, Next, DayNext
<1>5. ASSUME NEW key \in Armable, Elapse(key), UNCHANGED replays  PROVE RInv'
  BY <1>1, <1>5 DEF Elapse, Next, DayNext
<1>6. CASE Refuse /\ UNCHANGED replays
  BY <1>1, <1>6 DEF Refuse, vars
<1>. QED  BY <1>2, <1>3, <1>4, <1>5, <1>6, TaskInvariant, RestartInvariant,
             StartsInvariant, RunsOutInvariant DEF ReplayNext

(* The invariant holds in every execution with its replays.                *)
LEMMA ReplayInvariance == ReplaySpec => []RInv
<1>. QED  BY ReplayInitInvariant, ReplayNextInvariant, PTL DEF ReplaySpec

(* The variables keep their types, a restart included.                     *)
THEOREM ReplayTypeCorrect == ReplaySpec => []TypeOK
<1>1. RInv => TypeOK
  BY DEF RInv, IInv
<1>. QED  BY <1>1, ReplayInvariance, PTL

(* Every replay that the SDK lets pass ends where the lost memory was, but *)
(* for which timeout a hold names, although no history records which of    *)
(* several futures that were ready was taken first (workflow.go:54).       *)
THEOREM ReplaysEndAlike == ReplaySpec => []ReplaysAgree
<1>1. RInv => ReplaysAgree
  BY DEF RInv
<1>. QED  BY <1>1, ReplayInvariance, PTL

(* A task that runs, or is replayed, has an end, and at its end no future  *)
(* is ready unless it closed the workflow.                                 *)
TasksEnd ==
  Working => \A m \in replays :
    Task(m) # {} /\ \A d \in Task(m) : Ended(d) \/ d.ready = {}

(* Tasks never get stuck, and leave nothing for a later one that a replay  *)
(* could take in another (workflow.go:30-73).                              *)
THEOREM TasksTakeAll == ReplaySpec => []TasksEnd
<1>1. RInv => TasksEnd
  BY TaskTakesAll DEF TasksEnd
<1>. QED  BY <1>1, ReplayInvariance, PTL

(* The SDK runs the timer of every wait of a running workflow, after       *)
(* replays as well (workflow.go:54-110).                                   *)
THEOREM NoUntimedWaitAfterReplay == ReplaySpec => []WaitsAreTimed
<1>1. /\ \A s : Watches(Heartbeat(s))
      /\ Watches(TestResult("test"))
  BY DEF Watches, Heartbeat, TestResult
<1>2. RInv => WaitsAreTimed
  BY <1>1 DEF RInv, IInv, Loop, Scheduled, Tracks, Coherent, Timed, WaitsAreTimed
<1>. QED  BY <1>2, ReplayInvariance, PTL

(* A terminal unit stays as it is: a restart of the worker brings back the *)
(* same snapshot, as nothing terminal is on hold.                          *)
THEOREM TerminalStaysAfterReplay == ReplaySpec => TerminalIsFinal
<1>1. ASSUME RInv, [ReplayNext]_replayVars, wf.state \in Terminal  PROVE wf' = wf
  <2>1. execution = "completed" /\ wf \in Workflow /\ Coherent(wf)
    BY <1>1 DEF RInv, IInv, TypeOK, Loop
  <2>2. ASSUME Restart  PROVE wf' = wf
    <3>1. PICK m \in replays : wf' = m.wf
      BY <2>2 DEF Restart
    <3>2. m.wf \in Workflow /\ Alike(m.wf, wf) /\ m \in Memories
      BY <1>1 DEF RInv, ReplaysAgree, Memories
    <3>3. Coherent(m.wf)
      BY <2>1, <3>2, AlikeKeeps
    <3>4. m.wf = wf
      BY <1>1, <2>1, <3>2, <3>3, AlikeApart DEF Terminal
    <3>. QED  BY <3>1, <3>4
  <2>. QED  BY <1>1, <2>1, <2>2 DEF ReplayNext, WorkflowTask, Working, Starts, RunsOut,
              SignalRunning, SignalStarts, Reusable, SendTimer, Refuse, Elapse,
              Expire, vars, replayVars
<1>2. RInv /\ [ReplayNext]_replayVars => [wf.state \in Terminal => wf' = wf]_vars
  BY <1>1
<1>. QED  BY <1>2, ReplayInvariance, PTL DEF ReplaySpec, TerminalIsFinal
=============================================================================
