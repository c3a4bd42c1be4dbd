---------------------------- MODULE SerialClients ---------------------------
(***************************************************************************)
(* The overlapping service of ConcurrentService under clients that wait,   *)
(* for each unit, for the answer to one request before they send the next, *)
(* and that give an id to signals of one unit only.  Requests for          *)
(* different units still overlap.  So used, each request takes effect at   *)
(* once, when it ends: the service implements UnitService.                 *)
(***************************************************************************)
EXTENDS ConcurrentService

CONSTANT TimerRequests   \* the timers clients fire, each for a unit

(* A unit starts without an incident, so neither on hold nor after a       *)
(* failure, and where it waits, timed.                                     *)
AtRest(wf) ==
  /\ wf.state \notin {"on_hold", "retry_pending"}
  /\ wf.state \in {"in_assembly", "in_inspection"} => Heartbeat(wf.station) \in wf.timers
  /\ wf.state = "awaiting_test_result" => TestResult("test") \in wf.timers

ASSUME RequestsAssumption ==
  /\ TimerRequests \subseteq Units \X TimerInputs
  /\ MaxAttempts \in Nat /\ Fresh \notin SignalIDs
  /\ \A s1, s2 \in Inputs : s1.id = s2.id /\ s1.id # Fresh => s1.unit = s2.unit
  /\ \A wf \in Starts : AtRest(wf)

VARIABLE before   \* history: what the store held for a unit when its request came

(* The owner of an incident that was opened.                               *)
Owns(u, i) == incidents[i] # Store!NoRecord /\ incidents[i].unit = u

(* What the store holds for a unit; blank for a unit without a request.    *)
Part(u, id) ==
  [snapshot |-> Snapshot(u), timers |-> timers[u], history |-> history[u],
   incidents |-> [i \in IncidentIDs |-> IF Owns(u, i) THEN incidents[i]
                                                     ELSE Store!NoRecord],
   open |-> openIncident[u], view |-> unitViews[u],
   dashboard |-> [i \in IncidentIDs |-> IF Owns(u, i) THEN incidentViews[i]
                                                     ELSE NoAction],
   id |-> id,
   status |-> IF id \in SignalIDs THEN signals[id] ELSE "unseen"]

Blank == [id |-> Fresh]

SerialInit == Init /\ before = [u \in Units |-> Blank]

Remember(u, id) == before' = [before EXCEPT ![u] = Part(u, id)]

SerialNext == \E h \in Handlers :
  \/ \E sig \in Inputs :
       Quiet(sig.unit) /\ TakeSignal(h, sig) /\ Remember(sig.unit, sig.id)
  \/ \E u \in Units, key \in TimerInputs :
       /\ <<u, key>> \in TimerRequests /\ Quiet(u)
       /\ TakeTimer(h, u, key) /\ Remember(u, Fresh)
  \/ /\ Step(h)
     /\ before' = IF Busy(h)' THEN before
                  ELSE [before EXCEPT ![task[h].unit] = Blank]

SerialSpec == SerialInit /\ [][SerialNext]_<<vars, before>>

-----------------------------------------------------------------------------
(* The store in which a request in progress has not begun                  *)

Begun(u) == before[u] # Blank

Owner(i)      == CHOOSE u \in Units : Owns(u, i)
OwnerBegun(i) == \E u \in Units : Owns(u, i) /\ Begun(u)

Carried(i) == {u \in Units : Begun(u) /\ before[u].id = i}

WorkflowsThen ==
  [u \in Units |-> IF Begun(u) THEN before[u].snapshot ELSE Snapshot(u)]
TimersThen ==
  [u \in Units |-> IF Begun(u) THEN before[u].timers ELSE timers[u]]
HistoryThen ==
  [u \in Units |-> IF Begun(u) THEN before[u].history ELSE history[u]]
OpenIncidentThen ==
  [u \in Units |-> IF Begun(u) THEN before[u].open ELSE openIncident[u]]
UnitViewsThen ==
  [u \in Units |-> IF Begun(u) THEN before[u].view ELSE unitViews[u]]
IncidentsThen ==
  [i \in IncidentIDs |-> IF OwnerBegun(i) THEN before[Owner(i)].incidents[i]
                                          ELSE incidents[i]]
IncidentViewsThen ==
  [i \in IncidentIDs |-> IF OwnerBegun(i) THEN before[Owner(i)].dashboard[i]
                                          ELSE incidentViews[i]]
SignalsThen ==
  [i \in SignalIDs |-> IF Carried(i) = {} THEN signals[i]
                       ELSE before[CHOOSE u \in Carried(i) : TRUE].status]

Whole == INSTANCE UnitService WITH
  stored <- Units, workflows <- WorkflowsThen, timers <- TimersThen,
  signals <- SignalsThen, history <- HistoryThen, incidents <- IncidentsThen,
  openIncident <- OpenIncidentThen, unitViews <- UnitViewsThen,
  incidentViews <- IncidentViewsThen

(* Every step of a request but its last is invisible, and the last does    *)
(* all that UnitService does in one step: what the serial service keeps    *)
(* true between requests holds here of every unit without a request, as    *)
(* long as clients keep the discipline.                                    *)
RequestsAreAtomic == [][Whole!Next]_(Whole!vars)

-----------------------------------------------------------------------------
(* internal/triage, which may be asked at any moment                       *)

(* summarizeIncident: what to do, by the category of the incident.         *)
Recommendation(incident) ==
  CASE incident.category = "test_flake"        -> "retry_test"
    [] incident.category = "repeated_failure"  -> "route_to_rework"
    [] incident.category = "heartbeat_timeout" -> "investigate_station"

(* SummarizeUnit *)
Advice(u) ==
  LET found == GetOpenIncident(u)
  IN  IF found = Nothing THEN "continue workflow"
      ELSE Recommendation(found.record)

(* Triage looks at the incident alone, and yet its advice goes with the    *)
(* snapshot: at rest it is the one for the unit's state and hold reason,   *)
(* and even in the middle of a request a unit that is stored as held is    *)
(* never told to go on, because its incident is opened before the hold is  *)
(* put and closed only after it was lifted (app.go:243-261).               *)
AdviceFits ==
  \A u \in Units :
    LET wf == workflows[u] IN
    /\ wf.state = "on_hold" => Advice(u) \in {"route_to_rework", "investigate_station"}
    /\ Quiet(u) =>
         /\ wf.state \in Store!CleanStates => Advice(u) = "continue workflow"
         /\ wf.state = "retry_pending" => Advice(u) = "retry_test"
         /\ wf.hold \in ReasonCodes => Advice(u) = "route_to_rework"
         /\ wf.hold \in TimerTypes => Advice(u) = "investigate_station"
=============================================================================
