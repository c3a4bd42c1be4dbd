------------------------ MODULE WorkflowEngineProofs ------------------------
(***************************************************************************)
(* What the transition engine returns, for every snapshot and every event: *)
(* the lemmas the proofs about the runtimes rest on.                       *)
(***************************************************************************)
EXTENDS WorkflowEngine, TLAPS

DecisionRecord ==
  {Decision(t) : t \in DecisionTypes \ {"transition_state"}}
    \cup {Transition(s) : s \in States}

Result ==
  [next : Workflow, decisions : Seq(DecisionRecord) \ {<<>>},
   start : SUBSET TimerKey, cancel : SUBSET TimerKey,
   incident : IncidentActions]

(* Lists of up to five members, and one member in front of a list.         *)
LEMMA ShortLists ==
  ASSUME NEW S, NEW a \in S, NEW b \in S, NEW c \in S, NEW d \in S
  PROVE  /\ <<a>> \in Seq(S) \ {<<>>}
         /\ <<a, b>> \in Seq(S) \ {<<>>}
         /\ <<a, b, c>> \in Seq(S) \ {<<>>}
         /\ <<a, b, c, d>> \in Seq(S) \ {<<>>}
         /\ \A e \in S : <<a, b, c, d, e>> \in Seq(S) \ {<<>>}
  OBVIOUS

(* A list with one more member in front is a list of the same members.     *)
LEMMA Prefixed ==
  ASSUME NEW S, NEW a \in S, NEW l \in Seq(S)
  PROVE  <<a>> \o l \in Seq(S) \ {<<>>}
  OBVIOUS

(* Every timer key the engine builds is one.                               *)
LEMMA TimerKeys ==
  ASSUME NEW s \in StationIDs
  PROVE  /\ TestResult(s) \in TimerKey
         /\ Heartbeat(s) \in TimerKey
         /\ RetryBackoff(s) \in TimerKey
         /\ ReviewSLA(s) \in TimerKey
  BY DEF TestResult, Heartbeat, RetryBackoff, ReviewSLA, TimerKey, TimerTypes

(* What Decision and Transition build are decision records.                *)
LEMMA DecisionRecords ==
  /\ \A t \in DecisionTypes \ {"transition_state"} : Decision(t) \in DecisionRecord
  /\ \A s \in States : Transition(s) \in DecisionRecord
  BY DEF DecisionRecord

(* A rejection is a well-formed result.                                    *)
LEMMA RejectedType ==
  ASSUME NEW wf \in Workflow
  PROVE  Rejected(wf) \in Result
<1>1. Decision("reject_signal") \in DecisionRecord
  BY DecisionRecords DEF DecisionTypes
<1>2. <<Decision("reject_signal")>> \in Seq(DecisionRecord) \ {<<>>}
  BY <1>1, ShortLists
<1>. QED  BY <1>2 DEF Rejected, Result, IncidentActions, NoAction

-----------------------------------------------------------------------------
(* The contract of the engine: what a runtime may rely on, whatever the    *)
(* snapshot and the event.                                                 *)

(* A snapshot is coherent: it has a hold reason exactly on hold, waits for *)
(* a retry only after its first failure, and wherever it waits, for the    *)
(* review of a failed test too, it holds the timer that ends the wait.     *)
Timed(wf) ==
  /\ wf.state \in {"in_assembly", "in_inspection"}
       => Heartbeat(wf.station) \in wf.timers
  /\ wf.state = "awaiting_test_result" => TestResult("test") \in wf.timers
  /\ wf.state = "retry_pending" => RetryBackoff("test") \in wf.timers
  /\ wf.hold \in ReasonCodes => ReviewSLA("test") \in wf.timers

Coherent(wf) ==
  /\ wf.state = "on_hold" <=> wf.hold # ""
  /\ wf.state = "retry_pending" => wf.attempts = 1
  /\ Timed(wf)

(* The decisions tell where the unit went.                                 *)
Tells(ds, from, to) ==
  /\ \A i \in DOMAIN ds : ds[i].type = "transition_state" => ds[i].to = to
  /\ from # to => \E i \in DOMAIN ds : ds[i].type = "transition_state"

(* The kinds of step to a snapshot n with an incident action, one for each *)
(* way of treating the unit's incident.                                    *)
QuietStep(wf, n, action) ==
  /\ action = NoAction /\ n.attempts = wf.attempts
  /\ \/ n.state = wf.state /\ n.hold = wf.hold
     \/ <<wf.state, n.state>> \in Edges /\ n.hold = ""

RetryStep(wf, n, action) ==
  /\ action = "test_flake" /\ wf.attempts = 0 /\ n.attempts = 1
  /\ wf.state = "awaiting_test_result" /\ n.state = "retry_pending"
  /\ n.hold = ""

HoldStep(wf, n, action) ==
  /\ action = "repeated_failure" /\ n.attempts = wf.attempts + 1
  /\ wf.state = "awaiting_test_result" /\ n.state = "on_hold"
  /\ n.hold \in ReasonCodes

PassStep(wf, n, action) ==
  /\ action = CloseAction /\ n.attempts = wf.attempts
  /\ wf.state = "awaiting_test_result" /\ n.state = "ready_for_inspection"
  /\ n.hold = ""

TimeOutStep(wf, n, action) ==
  /\ action = "heartbeat_timeout" /\ n.attempts = wf.attempts
  /\ n.state = "on_hold" /\ n.hold \in TimerTypes

SomeStep(wf, n, action) ==
  \/ QuietStep(wf, n, action) \/ RetryStep(wf, n, action)
  \/ HoldStep(wf, n, action)  \/ PassStep(wf, n, action)
  \/ TimeOutStep(wf, n, action)

Contract(wf, r) ==
  /\ r \in Result
  /\ Coherent(r.next)
  /\ r.next.incident = wf.incident
  /\ r.next.timers \subseteq (wf.timers \ r.cancel) \cup r.start
  /\ Tells(r.decisions, wf.state, r.next.state)
  /\ SomeStep(wf, r.next, r.incident)

(* A decision in front that is not a transition tells nothing more.        *)
LEMMA TellsPrefixed ==
  ASSUME NEW S, NEW a \in S, NEW l \in Seq(S), NEW from, NEW to,
         a.type # "transition_state", Tells(l, from, to)
  PROVE  Tells(<<a>> \o l, from, to)
<1>1. /\ DOMAIN (<<a>> \o l) = 1..(Len(l) + 1)
      /\ DOMAIN l = 1..Len(l)
      /\ Len(l) \in Nat
      /\ (<<a>> \o l)[1] = a
      /\ \A j \in 1..Len(l) : (<<a>> \o l)[j + 1] = l[j]
  OBVIOUS
<1>2. ASSUME NEW i \in DOMAIN (<<a>> \o l),
             (<<a>> \o l)[i].type = "transition_state"
      PROVE  (<<a>> \o l)[i].to = to
  <2>1. i # 1
    BY <1>1, <1>2
  <2>2. i - 1 \in 1..Len(l) /\ (i - 1) + 1 = i
    BY <1>1, <2>1
  <2>3. (<<a>> \o l)[(i - 1) + 1] = l[i - 1]
    BY <1>1, <2>2
  <2>. QED  BY <1>1, <1>2, <2>2, <2>3 DEF Tells
<1>3. ASSUME from # to
      PROVE  \E i \in DOMAIN (<<a>> \o l) :
               (<<a>> \o l)[i].type = "transition_state"
  <2>1. PICK j \in DOMAIN l : l[j].type = "transition_state"
    BY <1>3 DEF Tells
  <2>2. j + 1 \in 1..(Len(l) + 1)
    BY <1>1
  <2>. QED  BY <1>1, <2>1, <2>2
<1>. QED  BY <1>2, <1>3 DEF Tells

(* The review timer is none that a transition cancels, and a unit without  *)
(* a hold reason needs none.                                               *)
LEMMA ReviewTimer ==
  /\ \A s : /\ ReviewSLA("test") # Heartbeat(s)
            /\ ReviewSLA("test") # TestResult(s)
            /\ ReviewSLA("test") # RetryBackoff(s)
  /\ "" \notin ReasonCodes
  /\ ReasonCodes \cap TimerTypes = {}
  BY DEF ReviewSLA, Heartbeat, TestResult, RetryBackoff, ReasonCodes, TimerTypes

(* What a case of the switch has to show of its answer for ApplySignal to  *)
(* keep the contract once Rearm has brought the timers up to date.         *)
Fits(wf, n, ds, start, cancel, action) ==
  /\ n \in Workflow /\ n.incident = wf.incident /\ n.timers = wf.timers
  /\ ds \in Seq(DecisionRecord) /\ Tells(ds, wf.state, n.state)
  /\ start \in SUBSET TimerKey /\ cancel \in SUBSET TimerKey
  /\ action \in IncidentActions
  /\ Coherent([n EXCEPT !.timers = (wf.timers \cup start) \ cancel])
  /\ SomeStep(wf, n, action)

(* Rearm changes the timers of the snapshot it returns and nothing else.   *)
LEMMA RearmedResult ==
  ASSUME NEW n, NEW es, NEW start, NEW cancel, NEW action
  PROVE  Rearm([next |-> n, decisions |-> es, start |-> start,
                cancel |-> cancel, incident |-> action]) =
           [next |-> [n EXCEPT !.timers = (n.timers \cup start) \ cancel],
            decisions |-> es, start |-> start, cancel |-> cancel,
            incident |-> action]
<1>. DEFINE a == [next |-> n, decisions |-> es, start |-> start,
                  cancel |-> cancel, incident |-> action]
            m == [n EXCEPT !.timers = (n.timers \cup start) \ cancel]
<1>1. Rearm(a) = [a EXCEPT !.next = m]
  BY DEF Rearm
<1>. HIDE DEF m
<1>2. [a EXCEPT !.next = m] =
        [next |-> m, decisions |-> es, start |-> start, cancel |-> cancel,
         incident |-> action]
  OBVIOUS
<1>. QED  BY <1>1, <1>2 DEF m

(* An answer that fits keeps the contract: accept_signal in front tells    *)
(* nothing more, and Rearm gives the snapshot the timers that Fits         *)
(* foresees.                                                               *)
LEMMA FittingIsContract ==
  ASSUME NEW wf \in Workflow, NEW n, NEW ds, NEW start, NEW cancel, NEW action,
         Fits(wf, n, ds, start, cancel, action)
  PROVE  Contract(wf, Rearm(Accepted(n, ds, start, cancel, action)))
<1>. DEFINE m  == [n EXCEPT !.timers = (wf.timers \cup start) \ cancel]
            es == <<Decision("accept_signal")>> \o ds
            r  == Rearm(Accepted(n, ds, start, cancel, action))
<1>1. /\ m \in Workflow
      /\ m.state = n.state /\ m.attempts = n.attempts /\ m.hold = n.hold
      /\ m.incident = wf.incident
      /\ m.timers = (wf.timers \cup start) \ cancel
      /\ Coherent(m)
  BY DEF Fits, Workflow
<1>2. r = [next |-> m, decisions |-> es, start |-> start, cancel |-> cancel,
           incident |-> action]
  <2>1. Accepted(n, ds, start, cancel, action) =
          [next |-> n, decisions |-> es, start |-> start, cancel |-> cancel,
           incident |-> action]
    BY DEF Accepted
  <2>. HIDE DEF es
  <2>2. n.timers = wf.timers
    BY DEF Fits
  <2>. HIDE DEF es
  <2>. QED  BY ONLY <2>1, <2>2, RearmedResult
<1>3. /\ Decision("accept_signal") \in DecisionRecord
      /\ Decision("accept_signal").type # "transition_state"
  BY DecisionRecords DEF DecisionTypes, Decision
<1>4. es \in Seq(DecisionRecord) \ {<<>>} /\ Tells(es, wf.state, m.state)
  BY <1>1, <1>3, Prefixed, TellsPrefixed DEF Fits
<1>. HIDE DEF m, es, r
<1>5. r \in Result
  BY <1>1, <1>2, <1>4 DEF Result, Fits
<1>6. SomeStep(wf, m, action)
  BY <1>1 DEF Fits, SomeStep, QuietStep, RetryStep, HoldStep, PassStep,
              TimeOutStep
<1>7. Contract(wf, r)
  BY <1>1, <1>2, <1>4, <1>5, <1>6 DEF Contract
<1>. QED  BY <1>7 DEF r

(* Lists with one transition among other decisions.                        *)
Plain(d) == d.type # "transition_state"

(* Where the one transition stands among the decisions does not matter.    *)
LEMMA TellsShort ==
  ASSUME NEW from, NEW to, NEW t, t.type = "transition_state", t.to = to,
         NEW a, NEW b, NEW c, NEW d, Plain(a), Plain(b), Plain(c), Plain(d)
  PROVE  /\ Tells(<<a>>, from, from)
         /\ Tells(<<a, t>>, from, to)
         /\ Tells(<<t, a>>, from, to)
         /\ Tells(<<a, b, t>>, from, to)
         /\ Tells(<<a, b, t, c>>, from, to)
         /\ Tells(<<a, b, c, t>>, from, to)
         /\ Tells(<<a, b, c, d, t>>, from, to)
<1>1. Tells(<<a, t>>, from, to)
  BY DEF Tells, Plain
<1>2. Tells(<<a, b, t, c>>, from, to)
  BY DEF Tells, Plain
<1>3. Tells(<<a, b, c, t>>, from, to)
  BY DEF Tells, Plain
<1>4. Tells(<<a, b, c, d, t>>, from, to)
  BY DEF Tells, Plain
<1>5. Tells(<<a>>, from, from)
  BY DEF Tells, Plain
<1>6. Tells(<<t, a>>, from, to)
  BY DEF Tells, Plain
<1>7. Tells(<<a, b, t>>, from, to)
  BY DEF Tells, Plain
<1>. QED  BY <1>1, <1>2, <1>3, <1>4, <1>5, <1>6, <1>7

(* Only transition_state decisions move a unit.                            *)
LEMMA PlainDecisions ==
  /\ \A type \in DecisionTypes \ {"transition_state"} : Plain(Decision(type))
  /\ \A s : Transition(s).type = "transition_state" /\ Transition(s).to = s
  BY DEF Plain, Decision, Transition

(* The case unit.admitted of ApplySignal keeps the contract.               *)
LEMMA UnitAdmittedFits ==
  ASSUME NEW wf \in Workflow, Coherent(wf), wf.state = "pending"
  PROVE  Contract(wf, Rearm(UnitAdmitted(wf)))
<1>. DEFINE n  == [wf EXCEPT !.state = "ready_for_assembly", !.station = wf.station]
            ds == <<Transition("ready_for_assembly")>>
<1>1. UnitAdmitted(wf) = Accepted(n, ds, {}, {}, NoAction)
  BY DEF UnitAdmitted, Move
<1>2. ds \in Seq(DecisionRecord)
  BY DecisionRecords, ShortLists DEF States
<1>3. Tells(ds, wf.state, n.state)
  BY DEF Tells, Transition, Workflow
<1>4. Fits(wf, n, ds, {}, {}, NoAction)
  BY <1>2, <1>3, ReviewTimer DEF Fits, Workflow, States, IncidentActions, Coherent, Timed,
     SomeStep, QuietStep, Edges
<1>. QED  BY <1>1, <1>4, FittingIsContract

(* The case station.entered of ApplySignal keeps the contract.             *)
LEMMA StationEnteredFits ==
  ASSUME NEW wf \in Workflow, Coherent(wf), NEW st \in StationIDs,
         wf.state \in {"ready_for_assembly", "ready_for_inspection"}
  PROVE  Contract(wf, Rearm(StationEntered(wf, st)))
<1>. DEFINE s == IF wf.state = "ready_for_assembly" THEN "in_assembly"
                 ELSE "in_inspection"
            n  == [wf EXCEPT !.state = s, !.station = st]
            ds == <<Transition(s)>>
<1>1. StationEntered(wf, st) = Accepted(n, ds, {Heartbeat(st)}, {}, NoAction)
  BY DEF StationEntered, Move
<1>2. <<wf.state, s>> \in Edges /\ s \in {"in_assembly", "in_inspection"}
  BY DEF Edges
<1>3. ds \in Seq(DecisionRecord)
  BY <1>2, DecisionRecords, ShortLists DEF States
<1>4. Tells(ds, wf.state, n.state)
  BY DEF Tells, Transition, Workflow
<1>. HIDE DEF s
<1>5. Fits(wf, n, ds, {Heartbeat(st)}, {}, NoAction)
  BY <1>2, <1>3, <1>4, TimerKeys, ReviewTimer DEF Fits, Workflow, States, IncidentActions,
     Coherent, Timed, SomeStep, QuietStep
<1>. QED  BY <1>1, <1>5, FittingIsContract

(* The case assembly.completed of ApplySignal keeps the contract.          *)
LEMMA AssemblyCompletedFits ==
  ASSUME NEW wf \in Workflow, Coherent(wf), NEW st \in StationIDs,
         wf.state = "in_assembly"
  PROVE  Contract(wf, Rearm(AssemblyCompleted(wf, st)))
<1>. DEFINE n  == [wf EXCEPT !.state = "ready_for_test", !.station = "test"]
            ds == <<Decision("cancel_timer"), Transition("ready_for_test")>>
<1>1. AssemblyCompleted(wf, st) = Accepted(n, ds, {}, {Heartbeat(st)}, NoAction)
  BY DEF AssemblyCompleted
<1>2. ds \in Seq(DecisionRecord)
  BY DecisionRecords, ShortLists DEF States, DecisionTypes
<1>3. Tells(ds, wf.state, n.state)
  BY PlainDecisions, TellsShort DEF DecisionTypes, Workflow
<1>4. Fits(wf, n, ds, {}, {Heartbeat(st)}, NoAction)
  BY <1>2, <1>3, StationsAssumption, TimerKeys, ReviewTimer DEF Fits, Workflow, States, IncidentActions,
     Coherent, Timed, SomeStep, QuietStep, Edges
<1>. QED  BY <1>1, <1>4, FittingIsContract

(* The case test.started of ApplySignal keeps the contract.                *)
LEMMA TestStartedFits ==
  ASSUME NEW wf \in Workflow, Coherent(wf), wf.state = "ready_for_test"
  PROVE  Contract(wf, Rearm(TestStarted(wf)))
<1>. DEFINE n  == [wf EXCEPT !.state = "awaiting_test_result", !.station = "test"]
            ds == <<Transition("awaiting_test_result")>>
<1>1. TestStarted(wf) = Accepted(n, ds, TestTimers, {}, NoAction)
  BY DEF TestStarted, Move, TestTimers
<1>2. ds \in Seq(DecisionRecord)
  BY DecisionRecords, ShortLists DEF States, DecisionTypes
<1>3. Tells(ds, wf.state, n.state)
  BY DEF Tells, Transition, Decision, Workflow
<1>4. Fits(wf, n, ds, TestTimers, {}, NoAction)
  BY <1>2, <1>3, StationsAssumption, TimerKeys, ReviewTimer DEF Fits, Workflow, States, IncidentActions,
     Coherent, Timed, SomeStep, QuietStep, Edges, TestTimers
<1>. QED  BY <1>1, <1>4, FittingIsContract

(* A failed test that is retried keeps the contract (engine.go:119-149).   *)
LEMMA RetryTestFits ==
  ASSUME NEW wf \in Workflow, Coherent(wf), wf.state = "awaiting_test_result",
         wf.attempts = 0
  PROVE  Contract(wf, Rearm(RetryTest(wf)))
<1>. DEFINE k  == wf.attempts + 1
            n  == [wf EXCEPT !.state = "retry_pending", !.attempts = k]
            ds == <<Decision("cancel_timer"), Decision("cancel_timer"),
                    Decision("start_retry"), Transition("retry_pending")>>
<1>1. RetryTest(wf) = Accepted(n, ds, {RetryBackoff("test")}, TestTimers, "test_flake")
  BY DEF RetryTest
<1>2. ds \in Seq(DecisionRecord)
  BY DecisionRecords, ShortLists DEF States, DecisionTypes
<1>3. Tells(ds, wf.state, n.state)
  BY PlainDecisions, TellsShort DEF DecisionTypes, Workflow
<1>4. k \in Nat /\ wf.attempts \in Nat /\ k = 1
  BY DEF Workflow
<1>. HIDE DEF k
<1>5. /\ n \in Workflow /\ n.incident = wf.incident /\ n.timers = wf.timers
      /\ TestTimers \in SUBSET TimerKey
  BY <1>4, StationsAssumption, TimerKeys DEF Workflow, States, TestTimers, HoldReasons
<1>6. SomeStep(wf, n, "test_flake")
  <2>1. n.attempts = 1 /\ n.state = "retry_pending" /\ n.hold = ""
    BY <1>4 DEF Workflow, Coherent
  <2>. QED  BY <2>1 DEF SomeStep, RetryStep
<1>7. Coherent([n EXCEPT !.timers = (wf.timers \cup {RetryBackoff("test")}) \ TestTimers])
  BY <1>4, <1>5, ReviewTimer
     DEF Coherent, Timed, TestTimers, TestResult, Heartbeat, RetryBackoff, Workflow, ReasonCodes
<1>8. Fits(wf, n, ds, {RetryBackoff("test")}, TestTimers, "test_flake")
  BY <1>2, <1>3, <1>5, <1>6, <1>7, StationsAssumption, TimerKeys
     DEF Fits, IncidentActions, Categories
<1>. QED  BY <1>1, <1>8, FittingIsContract

(* So does one that puts the unit on hold (engine.go:151-172).             *)
LEMMA HoldTestFits ==
  ASSUME NEW wf \in Workflow, Coherent(wf), NEW reason \in ReasonCodes,
         wf.state = "awaiting_test_result"
  PROVE  Contract(wf, Rearm(HoldTest(wf, reason)))
<1>. DEFINE k  == wf.attempts + 1
            n  == [wf EXCEPT !.state = "on_hold", !.attempts = k, !.hold = reason]
            ds == <<Decision("cancel_timer"), Decision("cancel_timer"),
                    Decision("place_hold"), Decision("escalate"),
                    Transition("on_hold")>>
<1>1. HoldTest(wf, reason) = Accepted(n, ds, {ReviewSLA("test")}, TestTimers, "repeated_failure")
  BY DEF HoldTest
<1>2. ds \in Seq(DecisionRecord)
  BY DecisionRecords, ShortLists DEF States, DecisionTypes
<1>3. Tells(ds, wf.state, n.state)
  BY PlainDecisions, TellsShort DEF DecisionTypes, Workflow
<1>4. k \in Nat /\ wf.attempts \in Nat /\ k = wf.attempts + 1
  BY DEF Workflow
<1>. HIDE DEF k
<1>5. /\ n \in Workflow /\ n.incident = wf.incident /\ n.timers = wf.timers
      /\ TestTimers \in SUBSET TimerKey
  BY <1>4, StationsAssumption, TimerKeys DEF Workflow, States, TestTimers, HoldReasons
<1>6. SomeStep(wf, n, "repeated_failure")
  BY <1>4 DEF SomeStep, HoldStep, Workflow
<1>7. Coherent([n EXCEPT !.timers = (wf.timers \cup {ReviewSLA("test")}) \ TestTimers])
  BY <1>4, <1>5, ReviewTimer
     DEF Coherent, Timed, TestTimers, TestResult, Heartbeat, RetryBackoff, Workflow, ReasonCodes
<1>8. Fits(wf, n, ds, {ReviewSLA("test")}, TestTimers, "repeated_failure")
  BY <1>2, <1>3, <1>5, <1>6, <1>7, StationsAssumption, TimerKeys
     DEF Fits, IncidentActions, Categories
<1>. QED  BY <1>1, <1>8, FittingIsContract

(* The case test.passed of ApplySignal keeps the contract.                 *)
LEMMA TestPassedFits ==
  ASSUME NEW wf \in Workflow, Coherent(wf), wf.state = "awaiting_test_result"
  PROVE  Contract(wf, Rearm(TestPassed(wf)))
<1>. DEFINE n  == [wf EXCEPT !.state = "ready_for_inspection", !.hold = ""]
            ds == <<Decision("cancel_timer"), Decision("cancel_timer"),
                    Transition("ready_for_inspection"),
                    Decision("complete_incident")>>
<1>1. TestPassed(wf) = Accepted(n, ds, {}, TestTimers, CloseAction)
  BY DEF TestPassed
<1>2. ds \in Seq(DecisionRecord)
  BY DecisionRecords, ShortLists DEF States, DecisionTypes
<1>3. Tells(ds, wf.state, n.state)
  BY PlainDecisions, TellsShort DEF DecisionTypes, Workflow
<1>4. Fits(wf, n, ds, {}, TestTimers, CloseAction)
  BY <1>2, <1>3, StationsAssumption, TimerKeys, ReviewTimer DEF Fits, Workflow, States, IncidentActions,
     Coherent, Timed, SomeStep, PassStep, TestTimers, HoldReasons
<1>. QED  BY <1>1, <1>4, FittingIsContract

(* The case station.heartbeat of ApplySignal keeps the contract.           *)
LEMMA HeartbeatReceivedFits ==
  ASSUME NEW wf \in Workflow, Coherent(wf), NEW st \in StationIDs
  PROVE  Contract(wf, Rearm(HeartbeatReceived(wf, st)))
<1>. DEFINE n  == wf
            ds == <<Decision("schedule_timer")>>
<1>1. HeartbeatReceived(wf, st) = Accepted(n, ds, {Heartbeat(st)}, {}, NoAction)
  BY DEF HeartbeatReceived
<1>2. ds \in Seq(DecisionRecord)
  BY DecisionRecords, ShortLists DEF States, DecisionTypes
<1>3. Tells(ds, wf.state, n.state)
  BY PlainDecisions, TellsShort DEF DecisionTypes
<1>4. Fits(wf, n, ds, {Heartbeat(st)}, {}, NoAction)
  BY <1>2, <1>3, TimerKeys, ReviewTimer DEF Fits, Workflow, States, IncidentActions,
     Coherent, Timed, SomeStep, QuietStep
<1>. QED  BY <1>1, <1>4, FittingIsContract

(* A disposition that routes the unit to rework keeps the contract.        *)
LEMMA RouteToReworkFits ==
  ASSUME NEW wf \in Workflow, Coherent(wf), wf.state = "on_hold"
  PROVE  Contract(wf, Rearm(QualityDisposition(wf, "route_to_rework")))
<1>. DEFINE n  == [wf EXCEPT !.state = "awaiting_rework", !.hold = ""]
            ds == <<Decision("route_to_rework"), Transition("awaiting_rework")>>
<1>1. QualityDisposition(wf, "route_to_rework") = Accepted(n, ds, {}, {}, NoAction)
  BY DEF QualityDisposition
<1>2. ds \in Seq(DecisionRecord)
  BY DecisionRecords, ShortLists DEF States, DecisionTypes
<1>3. Tells(ds, wf.state, n.state)
  BY PlainDecisions, TellsShort DEF DecisionTypes, Workflow
<1>4. Fits(wf, n, ds, {}, {}, NoAction)
  BY <1>2, <1>3, ReviewTimer DEF Fits, Workflow, States, IncidentActions,
     Coherent, Timed, SomeStep, QuietStep, Edges, HoldReasons
<1>. QED  BY <1>1, <1>4, FittingIsContract

(* So does one that scraps it (engine.go:208-230).                         *)
LEMMA ScrapFits ==
  ASSUME NEW wf \in Workflow, Coherent(wf), wf.state = "on_hold"
  PROVE  Contract(wf, Rearm(QualityDisposition(wf, "scrap")))
<1>. DEFINE n  == [wf EXCEPT !.hold = "", !.state = "scrapped", !.station = wf.station]
            ds == <<Transition("scrapped")>>
<1>1. QualityDisposition(wf, "scrap") = Accepted(n, ds, {}, {}, NoAction)
  BY DEF QualityDisposition, Move, Workflow
<1>2. ds \in Seq(DecisionRecord)
  BY DecisionRecords, ShortLists DEF States, DecisionTypes
<1>3. Tells(ds, wf.state, n.state)
  BY DEF Tells, Transition, Decision, Workflow
<1>4. Fits(wf, n, ds, {}, {}, NoAction)
  BY <1>2, <1>3, ReviewTimer DEF Fits, Workflow, States, IncidentActions,
     Coherent, Timed, SomeStep, QuietStep, Edges, HoldReasons
<1>. QED  BY <1>1, <1>4, FittingIsContract

(* The case rework.started of ApplySignal keeps the contract.              *)
LEMMA ReworkStartedFits ==
  ASSUME NEW wf \in Workflow, Coherent(wf), wf.state = "awaiting_rework"
  PROVE  Contract(wf, Rearm(ReworkStarted(wf)))
<1>. DEFINE n  == [wf EXCEPT !.state = "in_rework", !.station = "rework"]
            ds == <<Transition("in_rework")>>
<1>1. ReworkStarted(wf) = Accepted(n, ds, {}, {}, NoAction)
  BY DEF ReworkStarted, Move
<1>2. ds \in Seq(DecisionRecord)
  BY DecisionRecords, ShortLists DEF States, DecisionTypes
<1>3. Tells(ds, wf.state, n.state)
  BY DEF Tells, Transition, Decision, Workflow
<1>4. Fits(wf, n, ds, {}, {}, NoAction)
  BY <1>2, <1>3, StationsAssumption DEF Fits, Workflow, States, IncidentActions,
     Coherent, Timed, SomeStep, QuietStep, Edges
<1>. QED  BY <1>1, <1>4, FittingIsContract

(* The case rework.completed of ApplySignal keeps the contract.            *)
LEMMA ReworkCompletedFits ==
  ASSUME NEW wf \in Workflow, Coherent(wf), wf.state = "in_rework"
  PROVE  Contract(wf, Rearm(ReworkCompleted(wf)))
<1>. DEFINE n  == [wf EXCEPT !.state = "ready_for_test", !.station = "test"]
            ds == <<Transition("ready_for_test")>>
<1>1. ReworkCompleted(wf) = Accepted(n, ds, {}, {}, NoAction)
  BY DEF ReworkCompleted, Move
<1>2. ds \in Seq(DecisionRecord)
  BY DecisionRecords, ShortLists DEF States, DecisionTypes
<1>3. Tells(ds, wf.state, n.state)
  BY DEF Tells, Transition, Decision, Workflow
<1>4. Fits(wf, n, ds, {}, {}, NoAction)
  BY <1>2, <1>3, StationsAssumption DEF Fits, Workflow, States, IncidentActions,
     Coherent, Timed, SomeStep, QuietStep, Edges
<1>. QED  BY <1>1, <1>4, FittingIsContract

(* The case inspection.completed of ApplySignal keeps the contract.        *)
LEMMA InspectionCompletedFits ==
  ASSUME NEW wf \in Workflow, Coherent(wf), NEW st \in StationIDs,
         wf.state = "in_inspection"
  PROVE  Contract(wf, Rearm(InspectionCompleted(wf, st)))
<1>. DEFINE n  == [wf EXCEPT !.state = "completed", !.station = ""]
            ds == <<Decision("cancel_timer"), Transition("completed")>>
<1>1. InspectionCompleted(wf, st) = Accepted(n, ds, {}, {Heartbeat(st)}, NoAction)
  BY DEF InspectionCompleted
<1>2. ds \in Seq(DecisionRecord)
  BY DecisionRecords, ShortLists DEF States, DecisionTypes
<1>3. Tells(ds, wf.state, n.state)
  BY PlainDecisions, TellsShort DEF DecisionTypes, Workflow
<1>4. Fits(wf, n, ds, {}, {Heartbeat(st)}, NoAction)
  BY <1>2, <1>3, StationsAssumption, TimerKeys, ReviewTimer DEF Fits, Workflow, States, IncidentActions,
     Coherent, Timed, SomeStep, QuietStep, Edges
<1>. QED  BY <1>1, <1>4, FittingIsContract

(* Hence test.failed does, whatever the failure class: a retry is granted  *)
(* only if no test failed before.                                          *)
LEMMA TestFailedFits ==
  ASSUME NEW wf \in Workflow, Coherent(wf), NEW class,
         wf.state = "awaiting_test_result"
  PROVE  Contract(wf, Rearm(TestFailed(wf, class)))
<1>. DEFINE policy == Evaluate(class, wf.attempts)
<1>1. /\ policy.retry => wf.attempts = 0
      /\ policy.reason \in ReasonCodes
  <2>1. wf.attempts \in Nat
    BY DEF Workflow
  <2>2. policy.retry => wf.attempts < 1
    BY Zenon DEF Evaluate
  <2>3. policy.reason \in ReasonCodes
    BY DEF Evaluate, ReasonCodes
  <2>. QED  BY <2>1, <2>2, <2>3
<1>2. TestFailed(wf, class) = IF policy.retry THEN RetryTest(wf)
                              ELSE HoldTest(wf, policy.reason)
  BY DEF TestFailed
<1>. HIDE DEF policy
<1>3. CASE policy.retry
  BY <1>1, <1>2, <1>3, RetryTestFits
<1>4. CASE ~ policy.retry
  BY <1>1, <1>2, <1>4, HoldTestFits
<1>. QED  BY <1>3, <1>4

(* A rejected signal or timer leaves the snapshot alone                    *)
(* (engine.go:333-343), which keeps the contract.                          *)
LEMMA RejectedFits ==
  ASSUME NEW wf \in Workflow, Coherent(wf)
  PROVE  Contract(wf, Rejected(wf))
<1>. DEFINE ds == <<Decision("reject_signal")>>
<1>1. Tells(ds, wf.state, wf.state)
  BY PlainDecisions, TellsShort DEF DecisionTypes
<1>2. Rejected(wf) = [next |-> wf, decisions |-> ds, start |-> {},
                      cancel |-> {}, incident |-> NoAction]
  BY DEF Rejected
<1>3. Rejected(wf) \in Result
  BY RejectedType
<1>. HIDE DEF ds
<1>. QED  BY <1>1, <1>2, <1>3 DEF Contract, SomeStep, QuietStep

(* Every signal, in every state, keeps the contract.                       *)
THEOREM ApplySignalContract ==
  ASSUME NEW wf \in Workflow, Coherent(wf), NEW sig, sig.station \in StationIDs
  PROVE  Contract(wf, ApplySignal(wf, sig))
<1>1. CASE ~ Accepts(wf, sig)
  BY <1>1, RejectedFits DEF ApplySignal
<1>2. ASSUME Accepts(wf, sig)
      PROVE  Contract(wf, Rearm(Effect(wf, sig)))
  <2>. USE <1>2 DEF Accepts, Expected, Effect
  <2>1. CASE sig.type = "unit.admitted"
    BY <2>1, UnitAdmittedFits
  <2>2. CASE sig.type = "station.entered"
    BY <2>2, StationEnteredFits
  <2>3. CASE sig.type = "assembly.completed"
    BY <2>3, AssemblyCompletedFits
  <2>4. CASE sig.type = "test.started"
    BY <2>4, TestStartedFits
  <2>5. CASE sig.type = "test.failed"
    BY <2>5, TestFailedFits
  <2>6. CASE sig.type = "test.passed"
    BY <2>6, TestPassedFits
  <2>7. CASE sig.type = "station.heartbeat"
    BY <2>7, HeartbeatReceivedFits
  <2>8. CASE sig.type = "quality.disposition"
    BY <2>8, RouteToReworkFits, ScrapFits
  <2>9. CASE sig.type = "rework.started"
    BY <2>9, ReworkStartedFits
  <2>10. CASE sig.type = "rework.completed"
    BY <2>10, ReworkCompletedFits
  <2>11. CASE sig.type = "inspection.completed"
    BY <2>11, InspectionCompletedFits
  <2>. QED  BY <2>1, <2>2, <2>3, <2>4, <2>5, <2>6, <2>7, <2>8, <2>9, <2>10, <2>11
<1>. QED  BY <1>1, <1>2 DEF ApplySignal

(* The retry timer keeps the contract: the wait it opens is timed          *)
(* (engine.go:286-303).                                                    *)
LEMMA RetryWindowOpensFits ==
  ASSUME NEW wf \in Workflow, Coherent(wf), wf.state = "retry_pending",
         NEW key \in TimerKey, key[2] = "test"
  PROVE  Contract(wf, RetryWindowOpens(wf, key))
<1>. DEFINE n  == [wf EXCEPT !.state  = "awaiting_test_result",
                             !.timers = (wf.timers \ {key}) \cup {TestResult("test")}]
            ds == <<Transition("awaiting_test_result"), Decision("schedule_timer")>>
            r  == RetryWindowOpens(wf, key)
<1>1. r = [next |-> n, decisions |-> ds, start |-> {TestResult("test")},
           cancel |-> {}, incident |-> NoAction]
  BY DEF RetryWindowOpens
<1>2. TestResult("test") \in TimerKey
  BY StationsAssumption, TimerKeys
<1>3. ds \in Seq(DecisionRecord) \ {<<>>}
  BY DecisionRecords, ShortLists DEF States, DecisionTypes
<1>4. n \in Workflow
  BY <1>2 DEF Workflow, States
<1>5. /\ n.state = "awaiting_test_result" /\ n.hold = "" /\ n.incident = wf.incident
      /\ n.timers = (wf.timers \ {key}) \cup {TestResult("test")}
      /\ n.attempts = wf.attempts
  BY DEF Workflow, Coherent
<1>6. Tells(ds, wf.state, n.state)
  BY <1>5, PlainDecisions, TellsShort DEF DecisionTypes
<1>. HIDE DEF n, ds, r
<1>7. r \in Result
  BY <1>1, <1>2, <1>3, <1>4 DEF Result, IncidentActions
<1>8. Coherent(n) /\ SomeStep(wf, n, NoAction)
  BY <1>5, ReviewTimer DEF Coherent, Timed, SomeStep, QuietStep, Edges
<1>9. Contract(wf, r)
  BY <1>1, <1>5, <1>6, <1>7, <1>8 DEF Contract
<1>. QED  BY <1>9 DEF r

(* So does a timeout, in whatever state it fires (engine.go:305-326).      *)
LEMMA TimedOutFits ==
  ASSUME NEW wf \in Workflow, NEW key \in TimerKey
  PROVE  Contract(wf, TimedOut(wf, key))
<1>. DEFINE n  == [wf EXCEPT !.state = "on_hold", !.hold = key[1],
                             !.timers = wf.timers \ {key}]
            ds == <<Decision("place_hold"), Decision("escalate"),
                    Transition("on_hold")>>
            r  == TimedOut(wf, key)
<1>1. r = [next |-> n, decisions |-> ds, start |-> {}, cancel |-> {},
           incident |-> "heartbeat_timeout"]
  BY DEF TimedOut
<1>2. key[1] \in TimerTypes
  BY DEF TimerKey
<1>3. ds \in Seq(DecisionRecord) \ {<<>>}
  BY DecisionRecords, ShortLists DEF States, DecisionTypes
<1>4. n \in Workflow
  BY <1>2 DEF Workflow, States, HoldReasons
<1>5. /\ n.state = "on_hold" /\ n.hold = key[1] /\ n.incident = wf.incident
      /\ n.timers = wf.timers \ {key} /\ n.attempts = wf.attempts
  BY DEF Workflow
<1>6. Tells(ds, wf.state, n.state)
  BY <1>5, PlainDecisions, TellsShort DEF DecisionTypes
<1>. HIDE DEF n, ds, r
<1>7. r \in Result
  BY <1>1, <1>3, <1>4 DEF Result, IncidentActions, Categories
<1>8. Coherent(n) /\ SomeStep(wf, n, "heartbeat_timeout")
  BY <1>2, <1>5, ReviewTimer DEF Coherent, Timed, SomeStep, TimeOutStep, TimerTypes
<1>9. Contract(wf, r)
  BY <1>1, <1>5, <1>6, <1>7, <1>8 DEF Contract
<1>. QED  BY <1>9 DEF r

(* So does every timer whose key the engine can have armed.                *)
THEOREM ApplyTimerContract ==
  ASSUME NEW wf \in Workflow, Coherent(wf), NEW key \in TimerKey,
         key[1] = "station_heartbeat_timeout" \/ key[2] = "test"
  PROVE  Contract(wf, ApplyTimer(wf, key))
<1>1. CASE key[1] = "retry_backoff_timer" /\ wf.state = "retry_pending"
  BY <1>1, RetryWindowOpensFits DEF ApplyTimer
<1>2. CASE key[1] \in {"station_heartbeat_timeout", "test_result_timeout"}
  BY <1>2, TimedOutFits DEF ApplyTimer
<1>3. CASE /\ ~ (key[1] = "retry_backoff_timer" /\ wf.state = "retry_pending")
           /\ key[1] \notin {"station_heartbeat_timeout", "test_result_timeout"}
  BY <1>3, RejectedFits DEF ApplyTimer
<1>. QED  BY <1>1, <1>2, <1>3
-----------------------------------------------------------------------------
(* What the contract leaves open: which signal leads where, and the timers *)
(* it starts on the way.                                                   *)

Leads(sig, state, start) ==
  \/ sig.type = "unit.admitted" /\ state = "ready_for_assembly" /\ start = {}
  \/ /\ sig.type = "station.entered" /\ state \in {"in_assembly", "in_inspection"}
     /\ start = {Heartbeat(sig.station)}
  \/ sig.type = "assembly.completed" /\ state = "ready_for_test" /\ start = {}
  \/ /\ sig.type = "test.started" /\ state = "awaiting_test_result"
     /\ start = TestTimers
  \/ /\ sig.type = "test.failed" /\ state = "retry_pending"
     /\ start = {RetryBackoff("test")}
  \/ /\ sig.type = "test.failed" /\ state = "on_hold"
     /\ start = {ReviewSLA("test")}
  \/ sig.type = "test.passed" /\ state = "ready_for_inspection" /\ start = {}
  \/ /\ sig.type = "quality.disposition" /\ state \in {"awaiting_rework", "scrapped"}
     /\ start = {}
  \/ sig.type = "rework.started" /\ state = "in_rework" /\ start = {}
  \/ sig.type = "rework.completed" /\ state = "ready_for_test" /\ start = {}
  \/ sig.type = "inspection.completed" /\ state = "completed" /\ start = {}

(* A hold reason exactly on hold.                                          *)
HoldNamed(w) == w.state = "on_hold" <=> w.hold # ""

(* Rearm changes neither the state nor the timers to start.                *)
LEMMA RearmedFields ==
  ASSUME NEW n, NEW ds, NEW start, NEW cancel, NEW action
  PROVE  LET r == Rearm(Accepted(n, ds, start, cancel, action))
         IN  /\ r.start = start /\ r.cancel = cancel /\ r.incident = action
             /\ r.next = [n EXCEPT !.timers = (n.timers \cup start) \ cancel]
<1>. DEFINE es == <<Decision("accept_signal")>> \o ds
<1>1. Accepted(n, ds, start, cancel, action) =
        [next |-> n, decisions |-> es, start |-> start, cancel |-> cancel,
         incident |-> action]
  BY DEF Accepted
<1>. DEFINE m == [n EXCEPT !.timers = (n.timers \cup start) \ cancel]
<1>2. Rearm(Accepted(n, ds, start, cancel, action)) =
        [next |-> m, decisions |-> es, start |-> start, cancel |-> cancel,
         incident |-> action]
  <2>. HIDE DEF es
  <2>. QED  BY ONLY <1>1, RearmedResult DEF m
<1>. HIDE DEF es, m
<1>3. LET r == Rearm(Accepted(n, ds, start, cancel, action))
      IN  r.start = start /\ r.cancel = cancel /\ r.incident = action /\ r.next = m
  BY <1>2
<1>. QED  BY <1>3 DEF m

(* An accepted signal leads where its case of the switch says              *)
(* (engine.go:40-262); a heartbeat leads nowhere.  That the answer is a    *)
(* whole snapshot takes less than Coherent, which snapshots taken over by  *)
(* overlapping requests need not be.                                       *)
LEMMA AcceptedLeads ==
  ASSUME NEW w \in Workflow, NEW sig, sig.station \in StationIDs,
         Accepts(w, sig), sig.type # "station.heartbeat"
  PROVE  LET r == ApplySignal(w, sig)
         IN  /\ Leads(sig, r.next.state, r.start)
             /\ r.next \in Workflow
             /\ HoldNamed(w) => HoldNamed(r.next)
<1>. DEFINE L(r) == /\ Leads(sig, r.next.state, r.start)
                    /\ r.next \in Workflow
                    /\ HoldNamed(w) => HoldNamed(r.next)
<1>0. HoldNamed(w) /\ sig.type # "quality.disposition" => w.hold = ""
  BY DEF Accepts, Expected, HoldNamed
<1>1. ApplySignal(w, sig) = Rearm(Effect(w, sig))
  BY DEF ApplySignal
<1>2. ASSUME NEW n \in Workflow, NEW ds, NEW start, NEW cancel, NEW action,
             Leads(sig, n.state, start), HoldNamed(w) => HoldNamed(n)
      PROVE  L(Rearm(Accepted(n, ds, start, cancel, action)))
  <2>. DEFINE r == Rearm(Accepted(n, ds, start, cancel, action))
              m == [n EXCEPT !.timers = (n.timers \cup start) \ cancel]
  <2>1. r.start = start /\ r.next = m
    <3>. HIDE DEF m
    <3>. QED  BY RearmedFields DEF m
  <2>2. start \subseteq TimerKey
    <3>1. /\ TestTimers \subseteq TimerKey /\ Heartbeat(sig.station) \in TimerKey
          /\ RetryBackoff("test") \in TimerKey /\ ReviewSLA("test") \in TimerKey
      BY StationsAssumption, TimerKeys DEF TestTimers
    <3>. QED  BY <1>2, <3>1 DEF Leads
  <2>3. m \in Workflow /\ m.state = n.state /\ m.hold = n.hold
    BY <2>2 DEF Workflow
  <2>. HIDE DEF r, m
  <2>4. L(r)
    BY <1>2, <2>1, <2>3 DEF HoldNamed
  <2>. QED  BY <2>4 DEF r
<1>3. ASSUME NEW w0 \in Workflow, NEW state \in States, NEW st \in StationIDs,
             NEW start, Leads(sig, state, start),
             state # "on_hold", HoldNamed(w) => w0.hold = ""
      PROVE  L(Rearm(Move(w0, state, st, start)))
  <2>. DEFINE n == [w0 EXCEPT !.state = state, !.station = st]
  <2>1. n \in Workflow /\ n.state = state /\ n.hold = w0.hold
    BY DEF Workflow
  <2>. HIDE DEF n
  <2>2. HoldNamed(w) => HoldNamed(n)
    BY <1>3, <2>1 DEF HoldNamed
  <2>. HIDE DEF L
  <2>. QED  BY <1>2, <1>3, <2>1, <2>2 DEF Move, n
<1>. HIDE DEF L
<1>4. CASE sig.type = "unit.admitted"
  <2>1. L(Rearm(UnitAdmitted(w)))
    BY <1>3, <1>0, <1>4 DEF UnitAdmitted, Leads, States, Workflow
  <2>. QED  BY <1>1, <1>4, <2>1 DEF Effect, L
<1>5. CASE sig.type = "station.entered"
  <2>1. L(Rearm(StationEntered(w, sig.station)))
    BY <1>3, <1>0, <1>5 DEF StationEntered, Leads, States
  <2>. QED  BY <1>1, <1>5, <2>1 DEF Effect, L
<1>6. CASE sig.type = "assembly.completed"
  <2>. DEFINE n == [w EXCEPT !.state = "ready_for_test", !.station = "test"]
  <2>1. n \in Workflow /\ n.state = "ready_for_test" /\ n.hold = w.hold
    BY StationsAssumption DEF Workflow, States
  <2>2. Leads(sig, n.state, {}) /\ (HoldNamed(w) => HoldNamed(n))
    BY <1>0, <1>6, <2>1 DEF Leads, HoldNamed
  <2>. HIDE DEF n
  <2>3. L(Rearm(AssemblyCompleted(w, sig.station)))
    BY <1>2, <2>1, <2>2 DEF AssemblyCompleted, n
  <2>. QED  BY <1>1, <1>6, <2>3 DEF Effect, L
<1>7. CASE sig.type = "test.started"
  <2>1. L(Rearm(TestStarted(w)))
    BY <1>3, <1>0, <1>7, StationsAssumption DEF TestStarted, Leads, States
  <2>. QED  BY <1>1, <1>7, <2>1 DEF Effect, L
<1>8. CASE sig.type = "test.failed"
  <2>. DEFINE k == w.attempts + 1
  <2>1. k \in Nat
    BY DEF Workflow
  <2>. HIDE DEF k
  <2>2. L(Rearm(RetryTest(w)))
    <3>. DEFINE n == [w EXCEPT !.state = "retry_pending", !.attempts = k]
    <3>1. n \in Workflow /\ n.state = "retry_pending" /\ n.hold = w.hold
      BY <2>1 DEF Workflow, States
    <3>2. Leads(sig, n.state, {RetryBackoff("test")}) /\ (HoldNamed(w) => HoldNamed(n))
      BY <1>0, <1>8, <3>1 DEF Leads, HoldNamed
    <3>. HIDE DEF n
    <3>. QED  BY <1>2, <3>1, <3>2 DEF RetryTest, n, k
  <2>3. ASSUME NEW reason \in ReasonCodes  PROVE L(Rearm(HoldTest(w, reason)))
    <3>. DEFINE n == [w EXCEPT !.state = "on_hold", !.attempts = k, !.hold = reason]
    <3>1. n \in Workflow /\ n.state = "on_hold" /\ n.hold = reason /\ reason # ""
      BY <2>1, ReviewTimer DEF Workflow, States, HoldReasons
    <3>2. Leads(sig, n.state, {ReviewSLA("test")}) /\ (HoldNamed(w) => HoldNamed(n))
      BY <1>0, <1>8, <3>1 DEF Leads, HoldNamed
    <3>. HIDE DEF n
    <3>. QED  BY <1>2, <3>1, <3>2 DEF HoldTest, n, k
  <2>4. Evaluate(sig.payload, w.attempts).reason \in ReasonCodes
    BY DEF Evaluate, ReasonCodes
  <2>5. L(Rearm(TestFailed(w, sig.payload)))
    BY <2>2, <2>3, <2>4 DEF TestFailed
  <2>. QED  BY <1>1, <1>8, <2>5 DEF Effect, L
<1>9. CASE sig.type = "test.passed"
  <2>. DEFINE n == [w EXCEPT !.state = "ready_for_inspection", !.hold = ""]
  <2>1. n \in Workflow /\ n.state = "ready_for_inspection" /\ n.hold = ""
    BY DEF Workflow, States, HoldReasons
  <2>2. Leads(sig, n.state, {}) /\ (HoldNamed(w) => HoldNamed(n))
    BY <1>0, <1>9, <2>1 DEF Leads, HoldNamed
  <2>. HIDE DEF n
  <2>3. L(Rearm(TestPassed(w)))
    BY <1>2, <2>1, <2>2 DEF TestPassed, n
  <2>. QED  BY <1>1, <1>9, <2>3 DEF Effect, L
<1>10. CASE sig.type = "quality.disposition"
  <2>. DEFINE released == [w EXCEPT !.hold = ""]
              n == [released EXCEPT !.state = "awaiting_rework"]
  <2>1. /\ released \in Workflow /\ released.hold = "" /\ w.station \in StationIDs
        /\ n \in Workflow /\ n.state = "awaiting_rework" /\ n.hold = ""
    BY DEF Workflow, States, HoldReasons
  <2>2. Leads(sig, n.state, {}) /\ Leads(sig, "scrapped", {}) /\ (HoldNamed(w) => HoldNamed(n))
    BY <1>0, <1>10, <2>1 DEF Leads, HoldNamed
  <2>. HIDE DEF n, released
  <2>3. L(Rearm(Accepted(n, <<Decision("route_to_rework"),
                              Transition("awaiting_rework")>>, {}, {}, NoAction)))
    BY <1>2, <2>1, <2>2
  <2>4. L(Rearm(Move(released, "scrapped", w.station, {})))
    BY <1>3, <2>1, <2>2 DEF States
  <2>5. L(Rearm(QualityDisposition(w, sig.payload)))
    BY <2>3, <2>4 DEF QualityDisposition, n, released
  <2>. QED  BY <1>1, <1>10, <2>5 DEF Effect, L
<1>11. CASE sig.type = "rework.started"
  <2>1. L(Rearm(ReworkStarted(w)))
    BY <1>3, <1>0, <1>11, StationsAssumption DEF ReworkStarted, Leads, States
  <2>. QED  BY <1>1, <1>11, <2>1 DEF Effect, L
<1>12. CASE sig.type = "rework.completed"
  <2>1. L(Rearm(ReworkCompleted(w)))
    BY <1>3, <1>0, <1>12, StationsAssumption DEF ReworkCompleted, Leads, States
  <2>. QED  BY <1>1, <1>12, <2>1 DEF Effect, L
<1>13. CASE sig.type = "inspection.completed"
  <2>. DEFINE n == [w EXCEPT !.state = "completed", !.station = ""]
  <2>1. n \in Workflow /\ n.state = "completed" /\ n.hold = w.hold
    BY StationsAssumption DEF Workflow, States
  <2>2. Leads(sig, n.state, {}) /\ (HoldNamed(w) => HoldNamed(n))
    BY <1>0, <1>13, <2>1 DEF Leads, HoldNamed
  <2>. HIDE DEF n
  <2>3. L(Rearm(InspectionCompleted(w, sig.station)))
    BY <1>2, <2>1, <2>2 DEF InspectionCompleted, n
  <2>. QED  BY <1>1, <1>13, <2>3 DEF Effect, L
<1>. QED  BY <1>4, <1>5, <1>6, <1>7, <1>8, <1>9, <1>10, <1>11, <1>12, <1>13
          DEF Accepts, Expected

(* Every answer to a signal is a whole snapshot, if it was given one.      *)
LEMMA SignalKeepsWhole ==
  ASSUME NEW w \in Workflow, NEW sig, sig.station \in StationIDs, HoldNamed(w)
  PROVE  ApplySignal(w, sig).next \in Workflow /\ HoldNamed(ApplySignal(w, sig).next)
<1>1. CASE ~ Accepts(w, sig)
  BY <1>1 DEF ApplySignal, Rejected
<1>2. CASE Accepts(w, sig) /\ sig.type # "station.heartbeat"
  BY <1>2, AcceptedLeads
<1>3. CASE Accepts(w, sig) /\ sig.type = "station.heartbeat"
  <2>. DEFINE key == Heartbeat(sig.station)
              m   == [w EXCEPT !.timers = (w.timers \cup {key}) \ {}]
  <2>1. ApplySignal(w, sig) =
          Rearm(Accepted(w, <<Decision("schedule_timer")>>, {key}, {}, NoAction))
    BY <1>3 DEF ApplySignal, Effect, HeartbeatReceived
  <2>2. key \in TimerKey
    BY TimerKeys
  <2>3. m \in Workflow /\ m.state = w.state /\ m.hold = w.hold
    <3>. HIDE DEF key
    <3>. QED  BY <2>2 DEF Workflow
  <2>4. ApplySignal(w, sig).next = m
    <3>. HIDE DEF key, m
    <3>. QED  BY <2>1, RearmedFields DEF m
  <2>. QED  BY <2>3, <2>4 DEF HoldNamed
<1>. QED  BY <1>1, <1>2, <1>3

(* So is every answer to a timer.                                          *)
LEMMA TimerKeepsWhole ==
  ASSUME NEW w \in Workflow, NEW key \in TimerKey, HoldNamed(w)
  PROVE  ApplyTimer(w, key).next \in Workflow /\ HoldNamed(ApplyTimer(w, key).next)
<1>1. CASE key[1] = "retry_backoff_timer" /\ w.state = "retry_pending"
  <2>. DEFINE n == [w EXCEPT !.state  = "awaiting_test_result",
                             !.timers = (w.timers \ {key}) \cup {TestResult(key[2])}]
  <2>1. ApplyTimer(w, key).next = n
    BY <1>1 DEF ApplyTimer, RetryWindowOpens
  <2>2. TestResult(key[2]) \in TimerKey
    BY TimerKeys DEF TimerKey
  <2>3. n \in Workflow /\ n.state = "awaiting_test_result" /\ n.hold = w.hold
    BY <2>2 DEF Workflow, States
  <2>. HIDE DEF n
  <2>. QED  BY <1>1, <2>1, <2>3 DEF HoldNamed
<1>2. CASE key[1] \in {"station_heartbeat_timeout", "test_result_timeout"}
  <2>. DEFINE n == [w EXCEPT !.state = "on_hold", !.hold = key[1],
                             !.timers = w.timers \ {key}]
  <2>1. ApplyTimer(w, key).next = n
    BY <1>2 DEF ApplyTimer, TimedOut
  <2>2. n \in Workflow /\ n.state = "on_hold" /\ n.hold = key[1]
    BY <1>2 DEF Workflow, States, HoldReasons, TimerTypes
  <2>. HIDE DEF n
  <2>. QED  BY <1>2, <2>1, <2>2 DEF HoldNamed
<1>3. CASE /\ ~ (key[1] = "retry_backoff_timer" /\ w.state = "retry_pending")
           /\ key[1] \notin {"station_heartbeat_timeout", "test_result_timeout"}
  BY <1>3 DEF ApplyTimer, Rejected
<1>. QED  BY <1>1, <1>2, <1>3
-----------------------------------------------------------------------------
(* The types of the answers, for snapshots that need not be coherent: the  *)
(* ones that overlapping requests hand to the engine.                      *)

(* An accepted answer of the right parts is a result.                      *)
LEMMA AcceptedType ==
  ASSUME NEW n \in Workflow, NEW ds \in Seq(DecisionRecord),
         NEW start \in SUBSET TimerKey, NEW cancel \in SUBSET TimerKey,
         NEW action \in IncidentActions
  PROVE  Rearm(Accepted(n, ds, start, cancel, action)) \in Result
<1>. DEFINE m  == [n EXCEPT !.timers = (n.timers \cup start) \ cancel]
            es == <<Decision("accept_signal")>> \o ds
<1>1. m \in Workflow
  BY DEF Workflow
<1>2. es \in Seq(DecisionRecord) \ {<<>>}
  <2>1. Decision("accept_signal") \in DecisionRecord
    BY DecisionRecords DEF DecisionTypes
  <2>. QED  BY <2>1, Prefixed
<1>3. Rearm(Accepted(n, ds, start, cancel, action)) =
        [next |-> m, decisions |-> es, start |-> start, cancel |-> cancel,
         incident |-> action]
  <2>1. Accepted(n, ds, start, cancel, action) =
          [next |-> n, decisions |-> es, start |-> start, cancel |-> cancel,
           incident |-> action]
    BY DEF Accepted
  <2>. HIDE DEF es
  <2>. QED  BY ONLY <2>1, RearmedResult DEF m
<1>. HIDE DEF m, es
<1>. QED  BY <1>1, <1>2, <1>3 DEF Result

(* So is a move to a state at a station.                                   *)
LEMMA MoveType ==
  ASSUME NEW w \in Workflow, NEW state \in States, NEW st \in StationIDs,
         NEW start \in SUBSET TimerKey
  PROVE  Rearm(Move(w, state, st, start)) \in Result
<1>. DEFINE n == [w EXCEPT !.state = state, !.station = st]
<1>1. n \in Workflow
  BY DEF Workflow
<1>2. <<Transition(state)>> \in Seq(DecisionRecord)
  BY DecisionRecords, ShortLists
<1>3. NoAction \in IncidentActions /\ {} \in SUBSET TimerKey
  BY DEF IncidentActions
<1>. HIDE DEF n
<1>. QED  BY <1>1, <1>2, <1>3, AcceptedType DEF Move, n

(* A failed test is counted and answered with a retry or with a hold.      *)
LEMMA TestFailedType ==
  ASSUME NEW w \in Workflow, NEW class
  PROVE  Rearm(TestFailed(w, class)) \in Result
<1>. DEFINE k == w.attempts + 1
            reason == Evaluate(class, w.attempts).reason
            n == [w EXCEPT !.state = "retry_pending", !.attempts = k]
            o == [w EXCEPT !.state = "on_hold", !.attempts = k, !.hold = reason]
            ds == <<Decision("cancel_timer"), Decision("cancel_timer"),
                    Decision("start_retry"), Transition("retry_pending")>>
            es == <<Decision("cancel_timer"), Decision("cancel_timer"),
                    Decision("place_hold"), Decision("escalate"),
                    Transition("on_hold")>>
<1>1. k \in Nat
  BY DEF Workflow
<1>2. reason \in ReasonCodes
  BY DEF Evaluate, ReasonCodes
<1>. HIDE DEF k, reason
<1>3. n \in Workflow /\ o \in Workflow
  BY <1>1, <1>2 DEF Workflow, States, HoldReasons
<1>4. ds \in Seq(DecisionRecord) /\ es \in Seq(DecisionRecord)
  BY DecisionRecords, ShortLists DEF States, DecisionTypes
<1>5. /\ {RetryBackoff("test")} \in SUBSET TimerKey
      /\ {ReviewSLA("test")} \in SUBSET TimerKey
      /\ TestTimers \in SUBSET TimerKey
  BY StationsAssumption, TimerKeys DEF TestTimers
<1>6. {"test_flake", "repeated_failure"} \subseteq IncidentActions
  BY DEF IncidentActions, Categories
<1>. HIDE DEF n, o, ds, es
<1>7. Rearm(Accepted(n, ds, {RetryBackoff("test")}, TestTimers, "test_flake")) \in Result
  BY <1>3, <1>4, <1>5, <1>6, AcceptedType
<1>8. Rearm(Accepted(o, es, {ReviewSLA("test")}, TestTimers, "repeated_failure")) \in Result
  BY <1>3, <1>4, <1>5, <1>6, AcceptedType
<1>. QED  BY <1>7, <1>8 DEF TestFailed, RetryTest, HoldTest, n, o, ds, es, k, reason

(* Whatever the snapshot and the signal, the answer is a result            *)
(* (engine.go:40-343).                                                     *)
THEOREM ApplySignalType ==
  ASSUME NEW w \in Workflow, NEW sig, sig.station \in StationIDs
  PROVE  ApplySignal(w, sig) \in Result
<1>1. /\ {} \in SUBSET TimerKey /\ {Heartbeat(sig.station)} \in SUBSET TimerKey
      /\ TestTimers \in SUBSET TimerKey
      /\ {"", "test", "rework"} \subseteq StationIDs /\ w.station \in StationIDs
  BY StationsAssumption, TimerKeys DEF TestTimers, Workflow
<1>2. {NoAction, CloseAction} \subseteq IncidentActions
  BY DEF IncidentActions
<1>3. /\ Rearm(UnitAdmitted(w)) \in Result /\ Rearm(TestStarted(w)) \in Result
      /\ Rearm(ReworkStarted(w)) \in Result /\ Rearm(ReworkCompleted(w)) \in Result
      /\ Rearm(StationEntered(w, sig.station)) \in Result
  BY <1>1, MoveType DEF UnitAdmitted, TestStarted, ReworkStarted, ReworkCompleted,
     StationEntered, States
<1>4. Rearm(AssemblyCompleted(w, sig.station)) \in Result
  <2>. DEFINE n  == [w EXCEPT !.state = "ready_for_test", !.station = "test"]
              ds == <<Decision("cancel_timer"), Transition("ready_for_test")>>
  <2>1. n \in Workflow
    BY <1>1 DEF Workflow, States
  <2>2. ds \in Seq(DecisionRecord)
    BY DecisionRecords, ShortLists DEF States, DecisionTypes
  <2>. HIDE DEF n, ds
  <2>. QED  BY <1>1, <1>2, <2>1, <2>2, AcceptedType DEF AssemblyCompleted, n, ds
<1>5. Rearm(TestPassed(w)) \in Result
  <2>. DEFINE n  == [w EXCEPT !.state = "ready_for_inspection", !.hold = ""]
              ds == <<Decision("cancel_timer"), Decision("cancel_timer"),
                      Transition("ready_for_inspection"),
                      Decision("complete_incident")>>
  <2>1. n \in Workflow
    BY DEF Workflow, States, HoldReasons
  <2>2. ds \in Seq(DecisionRecord)
    BY DecisionRecords, ShortLists DEF States, DecisionTypes
  <2>. HIDE DEF n, ds
  <2>. QED  BY <1>1, <1>2, <2>1, <2>2, AcceptedType DEF TestPassed, n, ds
<1>6. Rearm(HeartbeatReceived(w, sig.station)) \in Result
  <2>1. <<Decision("schedule_timer")>> \in Seq(DecisionRecord)
    BY DecisionRecords, ShortLists DEF DecisionTypes
  <2>. QED  BY <1>1, <1>2, <2>1, AcceptedType DEF HeartbeatReceived
<1>7. Rearm(QualityDisposition(w, sig.payload)) \in Result
  <2>. DEFINE released == [w EXCEPT !.hold = ""]
              n  == [released EXCEPT !.state = "awaiting_rework"]
              ds == <<Decision("route_to_rework"), Transition("awaiting_rework")>>
  <2>1. n \in Workflow /\ released \in Workflow
    BY DEF Workflow, States, HoldReasons
  <2>2. ds \in Seq(DecisionRecord)
    BY DecisionRecords, ShortLists DEF States, DecisionTypes
  <2>. HIDE DEF n, ds, released
  <2>3. Rearm(Accepted(n, ds, {}, {}, NoAction)) \in Result
    BY <1>1, <1>2, <2>1, <2>2, AcceptedType
  <2>4. Rearm(Move(released, "scrapped", w.station, {})) \in Result
    BY <1>1, <2>1, MoveType DEF States
  <2>. QED  BY <2>3, <2>4 DEF QualityDisposition, n, ds, released
<1>8. Rearm(InspectionCompleted(w, sig.station)) \in Result
  <2>. DEFINE n  == [w EXCEPT !.state = "completed", !.station = ""]
              ds == <<Decision("cancel_timer"), Transition("completed")>>
  <2>1. n \in Workflow
    BY <1>1 DEF Workflow, States
  <2>2. ds \in Seq(DecisionRecord)
    BY DecisionRecords, ShortLists DEF States, DecisionTypes
  <2>. HIDE DEF n, ds
  <2>. QED  BY <1>1, <1>2, <2>1, <2>2, AcceptedType DEF InspectionCompleted, n, ds
<1>9. ASSUME Accepts(w, sig)  PROVE Rearm(Effect(w, sig)) \in Result
  BY <1>3, <1>4, <1>5, <1>6, <1>7, <1>8, <1>9, TestFailedType DEF Accepts, Expected, Effect
<1>. QED  BY <1>9, RejectedType DEF ApplySignal, Result

(* So is the answer to every timer (engine.go:265-330).                    *)
THEOREM ApplyTimerType ==
  ASSUME NEW w \in Workflow, NEW key \in TimerKey
  PROVE  ApplyTimer(w, key) \in Result
<1>0. key[1] \in TimerTypes /\ TestResult(key[2]) \in TimerKey
  BY TimerKeys DEF TimerKey
<1>1. RetryWindowOpens(w, key) \in Result
  <2>. DEFINE n  == [w EXCEPT !.state  = "awaiting_test_result",
                              !.timers = (w.timers \ {key}) \cup {TestResult(key[2])}]
              ds == <<Transition("awaiting_test_result"), Decision("schedule_timer")>>
  <2>1. n \in Workflow
    BY <1>0 DEF Workflow, States
  <2>2. ds \in Seq(DecisionRecord) \ {<<>>}
    BY DecisionRecords, ShortLists DEF States, DecisionTypes
  <2>3. RetryWindowOpens(w, key) =
          [next |-> n, decisions |-> ds, start |-> {TestResult(key[2])},
           cancel |-> {}, incident |-> NoAction]
    BY DEF RetryWindowOpens
  <2>. HIDE DEF n, ds
  <2>. QED  BY <1>0, <2>1, <2>2, <2>3 DEF Result, IncidentActions
<1>2. TimedOut(w, key) \in Result
  <2>. DEFINE n  == [w EXCEPT !.state = "on_hold", !.hold = key[1],
                              !.timers = w.timers \ {key}]
              ds == <<Decision("place_hold"), Decision("escalate"),
                      Transition("on_hold")>>
  <2>1. n \in Workflow
    BY <1>0 DEF Workflow, States, HoldReasons
  <2>2. ds \in Seq(DecisionRecord) \ {<<>>}
    BY DecisionRecords, ShortLists DEF States, DecisionTypes
  <2>3. TimedOut(w, key) =
          [next |-> n, decisions |-> ds, start |-> {}, cancel |-> {},
           incident |-> "heartbeat_timeout"]
    BY DEF TimedOut
  <2>. HIDE DEF n, ds
  <2>. QED  BY <2>1, <2>2, <2>3 DEF Result, IncidentActions, Categories
<1>. QED  BY <1>1, <1>2, RejectedType DEF ApplyTimer
=============================================================================
