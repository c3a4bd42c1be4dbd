---------------------------- MODULE UnitService -----------------------------
(***************************************************************************)
(* internal/app.Service over internal/store.Memory, one request at a time: *)
(* what a client sees that waits for each answer before it sends the next  *)
(* request.  An action is a whole call of HandleSignal or HandleTimer.     *)
(*                                                                         *)
(* Of the decision log of a unit its fold is kept: the state its           *)
(* transition decisions replay to, and the type of its last decision.      *)
(***************************************************************************)
EXTENDS WorkflowEngine

CONSTANTS
  Units,
  SignalIDs,    \* signal ids whose reuse is followed
  Fresh,        \* stands for any id that no other signal carries
  Inputs,       \* the signals clients may send
  TimerInputs,  \* the timers clients may fire
  MaxAttempts   \* bound: tests a unit may fail

Signal == [id : SignalIDs \cup {Fresh}, type : SignalTypes, unit : Units,
           station : StationIDs, payload : Payloads]

(* Timers the engine can arm: all but heartbeats are armed for "test".     *)
Armable == {k \in TimerKey :
              k[1] = "station_heartbeat_timeout" \/ k[2] = "test"}

ASSUME InputsAssumption ==
  /\ Inputs \subseteq Signal
  /\ TimerInputs \subseteq Armable
  /\ MaxAttempts \in Nat
  /\ Fresh \notin SignalIDs

VARIABLES
  workflows,      \* workflowsByUnit; New for a unit not in stored
  stored,         \* the keys of workflowsByUnit
  timers,         \* timersByKey, by unit
  signals,        \* what became of each followed signal id
  history,        \* the fold of decisionsByWorkflow, by unit
  incidents,      \* incidentsByID
  openIncident,   \* openIncidentByUnit
  unitViews, incidentViews, stationViews

store == <<stored, timers, signals, history, incidents, openIncident>>
views == <<unitViews, incidentViews, stationViews>>
vars  == <<workflows, store, views>>

NoRecord == [unit |-> "", status |-> "", category |-> ""]
NoView   == [unit |-> "", status |-> ""]

Incident == [unit : Units, status : {"open", "resolved"},
             category : Categories] \cup {NoRecord}

(* UnitStatusView: a copy of the snapshot and the last decision.           *)
UnitView(wf, last) ==
  [state |-> wf.state, station |-> wf.station, hold |-> wf.hold,
   incident |-> wf.incident, retries |-> wf.attempts, last |-> last]

UnitViewType == [state : States, station : StationIDs, hold : HoldReasons,
                 incident : IncidentIDs \cup {NoIncident}, retries : Nat,
                 last : DecisionTypes \cup {""}]

TypeOK ==
  /\ workflows \in [Units -> Workflow]
  /\ stored \subseteq Units
  /\ timers \in [Units -> SUBSET TimerKey]
  /\ signals \in [SignalIDs -> {"unseen", "recorded", "decided"}]
  /\ history \in [Units -> [state : States, last : DecisionTypes \cup {""}]]
  /\ incidents \in [IncidentIDs -> Incident]
  /\ openIncident \in [Units -> IncidentIDs \cup {NoIncident}]
  /\ unitViews \in [Units -> UnitViewType]
  /\ incidentViews \in [IncidentIDs -> Categories \cup {NoAction}]
  /\ stationViews \in [StationIDs ->
                         [unit : Units, status : {"active", "blocked"}]
                           \cup {NoView}]

Init ==
  /\ workflows     = [u \in Units |-> New]
  /\ stored        = {}
  /\ timers        = [u \in Units |-> {}]
  /\ signals       = [i \in SignalIDs |-> "unseen"]
  /\ history       = [u \in Units |-> [state |-> "pending", last |-> ""]]
  /\ incidents     = [i \in IncidentIDs |-> NoRecord]
  /\ openIncident  = [u \in Units |-> NoIncident]
  /\ unitViews     = [u \in Units |-> UnitView(New, "")]
  /\ incidentViews = [i \in IncidentIDs |-> NoAction]
  /\ stationViews  = [s \in StationIDs |-> NoView]

-----------------------------------------------------------------------------
(* commitTransition                                                        *)

(* AppendDecision, once for each decision of the result, of which at most  *)
(* one is a transition.                                                    *)
Replay(past, decisions) ==
  LET moves == {i \in DOMAIN decisions :
                  decisions[i].type = "transition_state"}
  IN  [state |-> IF moves = {} THEN past.state
                 ELSE decisions[CHOOSE i \in moves : TRUE].to,
       last  |-> decisions[Len(decisions)].type]

(* Mutant: the index keeps an incident that was resolved.                  *)
PutIncidentKeepsIndex(i, record) ==
  /\ incidents' = [incidents EXCEPT ![i] = record]
  /\ openIncident' = [openIncident EXCEPT ![record.unit] = i]

(* PutIncident: the index follows the status of the incident.              *)
PutIncident(i, record) ==
  /\ incidents' = [incidents EXCEPT ![i] = record]
  /\ openIncident' = [openIncident EXCEPT ![record.unit] =
                        IF record.status = "resolved" THEN NoIncident ELSE i]

Opened(u, category) == [unit |-> u, status |-> "open", category |-> category]

(* Mutant: an upsert reuses whatever incident is open.                     *)
UpsertAny(u, category) ==
  \E i \in IncidentIDs :
    /\ IF \E j \in IncidentIDs : incidents[j].status = "open"
       THEN incidents[i].status = "open" ELSE incidents[i] = NoRecord
    /\ PutIncident(i, Opened(u, category))

(* applyIncidentAction: an upsert reuses the unit's open incident or takes *)
(* an identifier of its own (from the clock in the code).                  *)
Upsert(u, category) ==
  \E i \in IncidentIDs :
    /\ IF openIncident[u] # NoIncident THEN i = openIncident[u]
                                       ELSE incidents[i] = NoRecord
    /\ PutIncident(i, Opened(u, category))

Resolve(u) ==
  /\ openIncident[u] # NoIncident
  /\ PutIncident(openIncident[u],
                 [incidents[openIncident[u]] EXCEPT !.status = "resolved"])

ApplyIncidentAction(u, action) ==
  \/ action \in Categories /\ Upsert(u, action)
  \/ action = CloseAction /\ Resolve(u)
  \/ /\ \/ action = NoAction
        \/ action = CloseAction /\ openIncident[u] = NoIncident
     /\ UNCHANGED <<incidents, openIncident>>

(* Mutants: a view is never deleted; a view shows the incident as it was.  *)
PutIncidentViewOnly(u, previous) ==
  LET i == openIncident'[u]
  IN  incidentViews' =
        IF i # NoIncident
        THEN [incidentViews EXCEPT ![i] = incidents'[i].category]
        ELSE incidentViews

PutStaleIncidentView(u, previous) ==
  LET i == openIncident'[u]
  IN  incidentViews' =
        IF i # NoIncident
        THEN [incidentViews EXCEPT ![i] =
                IF incidents[i] = NoRecord THEN incidents'[i].category
                                           ELSE incidents[i].category]
        ELSE IF previous # NoIncident
             THEN [incidentViews EXCEPT ![previous] = NoAction]
             ELSE incidentViews

(* The incident dashboard follows the unit's open incident; without one,   *)
(* the entry of the incident the snapshot had is deleted.                  *)
PutIncidentView(u, previous) ==
  LET i == openIncident'[u]
  IN  incidentViews' =
        IF i # NoIncident
        THEN [incidentViews EXCEPT ![i] = incidents'[i].category]
        ELSE IF previous # NoIncident
             THEN [incidentViews EXCEPT ![previous] = NoAction]
             ELSE incidentViews

(* Mutant: the station's view is refreshed only while work goes on.        *)
PutStationHealthIfActive(u, wf) ==
  stationViews' =
    IF wf.station = "" \/ wf.state = "on_hold" THEN stationViews
    ELSE [stationViews EXCEPT ![wf.station] = [unit |-> u, status |-> "active"]]

PutStationHealth(u, wf) ==
  stationViews' =
    IF wf.station = "" THEN stationViews
    ELSE [stationViews EXCEPT ![wf.station] =
           [unit |-> u,
            status |-> IF wf.state = "on_hold" THEN "blocked" ELSE "active"]]

RebuildProjections(u, wf, previous) ==
  /\ unitViews' = [unitViews EXCEPT ![u] = UnitView(wf, history'[u].last)]
  /\ PutIncidentView(u, previous)
  /\ PutStationHealth(u, wf)

(* Mutant: the views are built from the snapshot the engine returned.      *)
CommitTransitionStaleView(u, result) ==
  /\ history' = [history EXCEPT ![u] = Replay(@, result.decisions)]
  /\ timers' = [timers EXCEPT ![u] = (@ \ result.cancel) \cup result.start]
  /\ ApplyIncidentAction(u, result.incident)
  /\ workflows' = [workflows EXCEPT ![u] =
                     [result.next EXCEPT !.incident = openIncident'[u]]]
  /\ stored' = stored \cup {u}
  /\ RebuildProjections(u, result.next, result.next.incident)

CommitTransition(u, result) ==
  LET next == [result.next EXCEPT !.incident = openIncident'[u]]
  IN  /\ history' = [history EXCEPT ![u] = Replay(@, result.decisions)]
      /\ timers' = [timers EXCEPT ![u] = (@ \ result.cancel) \cup result.start]
      /\ ApplyIncidentAction(u, result.incident)
      /\ workflows' = [workflows EXCEPT ![u] = next]
      /\ stored' = stored \cup {u}
      /\ RebuildProjections(u, next, result.next.incident)

-----------------------------------------------------------------------------
(* Requests                                                                *)

(* SignalExists is false for an id that no other signal carries.           *)
Unseen(sig) == sig.id \in SignalIDs => signals[sig.id] = "unseen"

Record(sig, status) ==
  signals' = IF sig.id = Fresh THEN signals
             ELSE [signals EXCEPT ![sig.id] = status]

HandleSignal(sig) ==
  LET wf == workflows[sig.unit]
  IN  /\ Unseen(sig)
      /\ ~ DecodeFails(wf, sig)
      /\ sig.type = "test.failed" => wf.attempts < MaxAttempts
      /\ Record(sig, "decided")
      /\ CommitTransition(sig.unit, ApplySignal(wf, sig))

(* The signal is on record, the engine returns an error, nothing follows.  *)
FailSignal(sig) ==
  /\ Unseen(sig)
  /\ DecodeFails(workflows[sig.unit], sig)
  /\ Record(sig, "recorded")
  /\ UNCHANGED <<workflows, stored, timers, history, incidents, openIncident,
                 views>>

IgnoreDuplicate(sig) == ~ Unseen(sig) /\ UNCHANGED vars

(* The timer stays in the store after it has fired.                        *)
HandleTimer(u, key) ==
  /\ u \in stored
  /\ CommitTransition(u, ApplyTimer(workflows[u], key))
  /\ UNCHANGED signals

SignalNext ==
  \E sig \in Inputs : HandleSignal(sig) \/ FailSignal(sig) \/ IgnoreDuplicate(sig)

(* A client may fire any timer, whether it is armed or not ...             *)
Next == SignalNext \/ \E u \in Units, key \in TimerInputs : HandleTimer(u, key)

Spec == Init /\ [][Next]_vars

(* ... a scheduler only those that the store lists.                        *)
ScheduledNext ==
  SignalNext \/ \E u \in Units, key \in TimerInputs :
                  key \in timers[u] /\ HandleTimer(u, key)

ScheduledSpec == Init /\ [][ScheduledNext]_vars

-----------------------------------------------------------------------------
(* What must hold between requests                                         *)

Open(i)     == incidents[i].status = "open"
Trouble(u)  == IF openIncident[u] = NoIncident THEN NoAction
               ELSE incidents[openIncident[u]].category

(* A unit has at most one open incident, the index, the incident records   *)
(* and the snapshots agree on which one it is (PutIncident, memory.go, and *)
(* the reload after applyIncidentAction, app.go).                          *)
IncidentsIndexed ==
  /\ \A u \in Units : openIncident[u] # NoIncident
       => Open(openIncident[u]) /\ incidents[openIncident[u]].unit = u
  /\ \A i \in IncidentIDs : Open(i) => openIncident[incidents[i].unit] = i
  /\ \A u \in Units : workflows[u].incident = openIncident[u]

(* A unit is on hold exactly while it has a hold reason, and its open      *)
(* incident has the category that goes with that reason, also when a       *)
(* second cause arrives during the hold.                                   *)
HoldsExplained ==
  \A u \in Units :
    LET wf == workflows[u] IN
    /\ wf.state = "on_hold" <=> wf.hold # ""
    /\ wf.hold \in ReasonCodes => Trouble(u) = "repeated_failure"
    /\ wf.hold \in TimerTypes  => Trouble(u) = "heartbeat_timeout"

(* A unit waiting for a retry failed exactly one test in its life and has  *)
(* the incident of that flake open (retry.go, engine.go:127-149).          *)
RetriesAreFirstFailures ==
  \A u \in Units : workflows[u].state = "retry_pending"
    => workflows[u].attempts = 1 /\ Trouble(u) = "test_flake"

CleanStates == {"pending", "ready_for_assembly", "in_assembly",
                "ready_for_inspection", "in_inspection", "completed"}

(* No unit reaches inspection or completion with an incident open, nor has *)
(* one before its first hold: only a passed test leads there, and it       *)
(* closes the incident (engine.go:174-192).                                *)
CleanAtInspection ==
  \A u \in Units :
    workflows[u].state \in CleanStates => openIncident[u] = NoIncident

(* The incident dashboard shows the open incidents, with the category they *)
(* have now, and nothing else (app.go:247-259, 336-354).                   *)
DashboardIsOpenIncidents ==
  \A i \in IncidentIDs :
    incidentViews[i] = IF Open(i) THEN incidents[i].category ELSE NoAction

(* Wherever the workflow waits for a station, a test or a retry, the timer *)
(* that ends the wait is armed, in the snapshot and in the store, and so   *)
(* is the review timer while a hold names a failed test (engine.go:166).   *)
Armed(u, key) == key \in timers[u] \cap workflows[u].timers

WaitsAreTimed ==
  \A u \in Units :
    LET wf == workflows[u] IN
    /\ wf.state \in {"in_assembly", "in_inspection"}
         => Armed(u, Heartbeat(wf.station))
    /\ wf.state = "awaiting_test_result" => Armed(u, TestResult("test"))
    /\ wf.state = "retry_pending" => Armed(u, RetryBackoff("test"))
    /\ wf.hold \in ReasonCodes => Armed(u, ReviewSLA("test"))

(* ActiveTimerKeys never names a timer the store does not list.            *)
SnapshotTimersListed == \A u \in Units : workflows[u].timers \subseteq timers[u]

(* The transition decisions of a unit replay to its state, so each change  *)
(* of state left a decision behind and each transition decision was done.  *)
HistoryReplays == \A u \in Units : history[u].state = workflows[u].state

(* The unit's status view is the snapshot, and a station view that names a *)
(* unit now at that station shows whether that unit is on hold.            *)
ViewsCurrent ==
  /\ \A u \in Units : unitViews[u] = UnitView(workflows[u], history[u].last)
  /\ \A u \in Units :
       LET wf == workflows[u] IN
       wf.station # "" /\ stationViews[wf.station].unit = u
         => (stationViews[wf.station].status = "blocked" <=> wf.state = "on_hold")

(* Every request moves a unit along one edge of the lifecycle or not at    *)
(* all, and counts failures and names the trouble as the lifecycle does.   *)
Lifecycle == INSTANCE UnitLifecycle WITH
  Interruptible <- States,
  phase    <- [u \in Units |-> workflows[u].state],
  failures <- [u \in Units |-> workflows[u].attempts],
  trouble  <- [u \in Units |-> Trouble(u)]

ImplementsLifecycle == Lifecycle!Spec

-----------------------------------------------------------------------------
(* What the documents say and the program does not do                      *)

(* SPEC.md:516: completed and scrapped are terminal.                       *)
TerminalIsFinal ==
  [][\A u \in Units : workflows[u].state \in Terminal
       => workflows'[u].state = workflows[u].state]_vars

(* SPEC.md:598: acceptance and rejection both produce decisions.           *)
RecordedMeansDecided == \A i \in SignalIDs : signals[i] # "recorded"
=============================================================================
