------------------------- MODULE ConcurrentService --------------------------
(***************************************************************************)
(* internal/app.Service as the HTTP server runs it: every request has a    *)
(* goroutine of its own, and only the single calls of the store exclude    *)
(* each other.  A step is one call of the store or of the engine.          *)
(*                                                                         *)
(* A run of store calls of one kind (decisions appended, timers cancelled, *)
(* timers scheduled) is one step.  The attempt counter is a Go map that    *)
(* the snapshots of a unit share, and no lock protects it: it is kept      *)
(* apart from them, and read and written in steps of its own.              *)
(***************************************************************************)
EXTENDS WorkflowEngine, FiniteSets

CONSTANTS
  Units, SignalIDs, Fresh, Inputs, TimerInputs, MaxAttempts,  \* as in UnitService
  Handlers,  \* goroutines; bound: requests in progress at once
  Starts,    \* snapshots a unit may have at first, with their timers armed
  Passed     \* stations all units have been at by then, one unit after another

VARIABLES
  workflows,   \* workflowsByUnit, without the attempt counter
  attempts,    \* AttemptCountByStation["test"], the map shared by a unit's snapshots
  timers, signals, history, incidents, openIncident,          \* as in UnitService
  unitViews, incidentViews, stationViews,
  task         \* what each goroutine does

memory == <<workflows, attempts, timers, signals, history, incidents,
            openIncident, unitViews, incidentViews, stationViews>>
vars == <<memory, task>>

(* The store as clients see it, for the operators of UnitService.          *)
Snapshot(u) == [workflows[u] EXCEPT !.attempts = attempts[u]]

Store == INSTANCE UnitService WITH
  workflows <- [u \in Units |-> Snapshot(u)], stored <- Units

ASSUME ConcurrentAssumption ==
  /\ Inputs \subseteq Store!Signal /\ TimerInputs \subseteq Store!Armable
  /\ Starts \subseteq {wf \in Workflow :
                       /\ wf.attempts = 0 /\ wf.incident = NoIncident
                       /\ wf.state = "on_hold" <=> wf.hold # ""}
  /\ Passed \subseteq StationIDs /\ (Passed # {} => Units # {})

(* A goroutine: where it is, its request, the snapshot it works on, what   *)
(* the engine answered and the incident it read last.                      *)
Idle == [at |-> "idle"]

Busy(h) == task[h] # Idle

Places == {"exists", "append", "load", "apply", "count", "log", "cancel",
           "schedule", "find", "upsert", "reload", "unlist", "put", "status",
           "look", "show", "station"}

TypeOK ==
  /\ Store!TypeOK
  /\ \A h \in Handlers :
       Busy(h) => /\ task[h].at \in Places
                  /\ task[h].unit \in Units
                  /\ task[h].next \in Workflow
                  /\ task[h].found.id \in IncidentIDs \cup {NoIncident}

(* Units that serial requests have taken to where they start.              *)
LastUnit == CHOOSE u \in Units : TRUE   \* the last to pass those stations

Init ==
  \E start \in [Units -> Starts] :
    /\ workflows = start
    /\ attempts = [u \in Units |-> 0]
    /\ timers = [u \in Units |-> start[u].timers]
    /\ signals = [i \in SignalIDs |-> "unseen"]
    /\ history = [u \in Units |->
                    [state |-> start[u].state, last |-> "transition_state"]]
    /\ incidents = [i \in IncidentIDs |-> Store!NoRecord]
    /\ openIncident = [u \in Units |-> NoIncident]
    /\ unitViews = [u \in Units |->
                      Store!UnitView(start[u], "transition_state")]
    /\ incidentViews = [i \in IncidentIDs |-> NoAction]
    /\ stationViews = [s \in StationIDs |->
                         IF s \in Passed THEN [unit |-> LastUnit, status |-> "active"]
                                        ELSE Store!NoView]
    /\ task = [h \in Handlers |-> Idle]

-----------------------------------------------------------------------------
(* Requests arrive                                                         *)

InHand(u) == {h \in Handlers : Busy(h) /\ task[h].unit = u}

(* The bound on failures counts those on their way to the counter.         *)
Sendable(sig) ==
  sig.type = "test.failed" =>
    attempts[sig.unit]
      + Cardinality({h \in InHand(sig.unit) :
                       /\ task[h].at \in {"exists", "append", "load", "apply", "count"}
                       /\ ~ task[h].timer /\ task[h].event.type = "test.failed"})
      < MaxAttempts

(* What a request has no use for, not yet or not any more, is blank.       *)
NoEvent == [id |-> Fresh, type |-> ""]
Nothing == [id |-> NoIncident, record |-> Store!NoRecord]

Take(h, u, isTimer, event, place) ==
  /\ ~ Busy(h)
  /\ task' = [task EXCEPT ![h] =
       [at |-> place, unit |-> u, timer |-> isTimer, event |-> event,
        next |-> New, result |-> Rejected(New), found |-> Nothing]]
  /\ UNCHANGED memory

TakeSignal(h, sig) == Sendable(sig) /\ Take(h, sig.unit, FALSE, sig, "exists")

TakeTimer(h, u, key) == Take(h, u, TRUE, key, "load")

-----------------------------------------------------------------------------
(* HandleSignal and HandleTimer                                            *)

At(h, place) == Busy(h) /\ task[h].at = place

Goto(h, place) == task' = [task EXCEPT ![h].at = place]
Finish(h)      == task' = [task EXCEPT ![h] = Idle]

Views == <<unitViews, incidentViews, stationViews>>

SignalExists(h) ==
  /\ At(h, "exists")
  /\ IF Store!Unseen(task[h].event) THEN Goto(h, "append") ELSE Finish(h)
  /\ UNCHANGED memory

AppendSignal(h) ==
  /\ At(h, "append")
  /\ Store!Record(task[h].event, "recorded")
  /\ Goto(h, "load")
  /\ UNCHANGED <<workflows, attempts, timers, history, incidents, openIncident, Views>>

GetWorkflow(h) ==
  /\ At(h, "load")
  /\ task' = [task EXCEPT ![h].at = "apply", ![h].next = workflows[task[h].unit]]
  /\ UNCHANGED memory

(* The engine: it reads the counter, whatever snapshot it works on.        *)
Apply(h) ==
  /\ At(h, "apply")
  /\ LET t  == task[h]
         wf == [t.next EXCEPT !.attempts = attempts[t.unit]]
         Answer(result) ==
           task' = [task EXCEPT ![h].result = result, ![h].next = result.next,
                      ![h].at = IF result.next.attempts = wf.attempts
                                THEN "log" ELSE "count"]
     IN  \/ t.timer /\ Answer(ApplyTimer(wf, t.event))
         \/ ~ t.timer /\ ~ DecodeFails(wf, t.event) /\ Answer(ApplySignal(wf, t.event))
         \/ ~ t.timer /\ DecodeFails(wf, t.event) /\ Finish(h)
  /\ UNCHANGED memory

Count(h) ==
  /\ At(h, "count")
  /\ attempts' = [attempts EXCEPT ![task[h].unit] = task[h].next.attempts]
  /\ Goto(h, "log")
  /\ UNCHANGED <<workflows, timers, signals, history, incidents, openIncident, Views>>

-----------------------------------------------------------------------------
(* commitTransition                                                        *)

AppendDecisions(h) ==
  /\ At(h, "log")
  /\ history' = [history EXCEPT ![task[h].unit] =
                   Store!Replay(@, task[h].result.decisions)]
  /\ IF task[h].timer THEN UNCHANGED signals
     ELSE Store!Record(task[h].event, "decided")
  /\ task' = [task EXCEPT ![h].at = "cancel", ![h].timer = FALSE, ![h].event = NoEvent]
  /\ UNCHANGED <<workflows, attempts, timers, incidents, openIncident, Views>>

CancelTimers(h) ==
  /\ At(h, "cancel")
  /\ timers' = [timers EXCEPT ![task[h].unit] = @ \ task[h].result.cancel]
  /\ Goto(h, "schedule")
  /\ UNCHANGED <<workflows, attempts, signals, history, incidents, openIncident, Views>>

ScheduleTimers(h) ==
  /\ At(h, "schedule")
  /\ timers' = [timers EXCEPT ![task[h].unit] = @ \cup task[h].result.start]
  /\ Goto(h, IF task[h].result.incident = NoAction THEN "reload" ELSE "find")
  /\ UNCHANGED <<workflows, attempts, signals, history, incidents, openIncident, Views>>

(* GetOpenIncidentByUnit returns a copy of the record.                     *)
GetOpenIncident(u) ==
  IF openIncident[u] = NoIncident THEN Nothing
  ELSE [id |-> openIncident[u], record |-> incidents[openIncident[u]]]

(* applyIncidentAction: nothing is put to close an incident that is not.   *)
FindIncident(h) ==
  /\ At(h, "find")
  /\ LET found == GetOpenIncident(task[h].unit)
         idle  == task[h].result.incident = CloseAction /\ found = Nothing
     IN  task' = [task EXCEPT ![h].found = found,
                              ![h].at = IF idle THEN "reload" ELSE "upsert"]
  /\ UNCHANGED memory

PutIncident(h) ==
  /\ At(h, "upsert")
  /\ LET t == task[h]
     IN  \/ /\ t.result.incident = CloseAction
            /\ Store!PutIncident(t.found.id,
                                 [t.found.record EXCEPT !.status = "resolved"])
         \/ /\ t.result.incident \in Categories
            /\ \E i \in IncidentIDs :
                 /\ IF t.found # Nothing THEN i = t.found.id
                    ELSE incidents[i] = Store!NoRecord
                 /\ Store!PutIncident(i, Store!Opened(t.unit, t.result.incident))
  /\ task' = [task EXCEPT ![h].at = "reload", ![h].found = Nothing]
  /\ UNCHANGED <<workflows, attempts, timers, signals, history, Views>>

(* Mutant: the snapshot keeps the incident it had.                         *)
ReloadNothing(h) ==
  /\ At(h, "reload")
  /\ task' = [task EXCEPT ![h].at = "put", ![h].result = Rejected(New)]
  /\ UNCHANGED memory

(* The snapshot takes over the unit's open incident; if there is none, the *)
(* one it had is taken off the dashboard.                                  *)
Reload(h) ==
  /\ At(h, "reload")
  /\ LET found == GetOpenIncident(task[h].unit)
         lost  == found = Nothing /\ task[h].next.incident # NoIncident
     IN  task' = [task EXCEPT ![h].at = IF lost THEN "unlist" ELSE "put",
                              ![h].result = Rejected(New),
                              ![h].found = [found EXCEPT !.id =
                                 IF lost THEN task[h].next.incident ELSE @],
                              ![h].next.incident = found.id]
  /\ UNCHANGED memory

DeleteIncidentView(h) ==
  /\ At(h, "unlist")
  /\ incidentViews' = [incidentViews EXCEPT ![task[h].found.id] = NoAction]
  /\ Goto(h, "put")
  /\ UNCHANGED <<workflows, attempts, timers, signals, history, incidents,
                 openIncident, unitViews, stationViews>>

PutWorkflow(h) ==
  /\ At(h, "put")
  /\ workflows' = [workflows EXCEPT ![task[h].unit] =
                     [task[h].next EXCEPT !.attempts = 0]]
  /\ Goto(h, "status")
  /\ UNCHANGED <<attempts, timers, signals, history, incidents, openIncident, Views>>

-----------------------------------------------------------------------------
(* rebuildProjections                                                      *)

PutUnitStatus(h) ==
  /\ At(h, "status")
  /\ LET u == task[h].unit
     IN  unitViews' = [unitViews EXCEPT ![u] =
           Store!UnitView([task[h].next EXCEPT !.attempts = attempts[u]],
                          history[u].last)]
  /\ Goto(h, "look")
  /\ UNCHANGED <<workflows, attempts, timers, signals, history, incidents,
                 openIncident, incidentViews, stationViews>>

LookUpIncident(h) ==
  /\ At(h, "look")
  /\ task' = [task EXCEPT ![h].at = "show",
                          ![h].found = GetOpenIncident(task[h].unit)]
  /\ UNCHANGED memory

(* The view of an incident that was there a moment ago, or the deletion of *)
(* one that the snapshot still names and that is gone by now.              *)
ShowIncident(h) ==
  /\ At(h, "show")
  /\ LET found == task[h].found
         had   == task[h].next.incident
     IN  incidentViews' =
           IF found # Nothing
           THEN [incidentViews EXCEPT ![found.id] = found.record.category]
           ELSE IF had # NoIncident
                THEN [incidentViews EXCEPT ![had] = NoAction]
                ELSE incidentViews
  /\ task' = [task EXCEPT ![h].at = "station", ![h].found = Nothing]
  /\ UNCHANGED <<workflows, attempts, timers, signals, history, incidents,
                 openIncident, unitViews, stationViews>>

PutStationHealth(h) ==
  /\ At(h, "station")
  /\ Store!PutStationHealth(task[h].unit, task[h].next)
  /\ Finish(h)
  /\ UNCHANGED <<workflows, attempts, timers, signals, history, incidents,
                 openIncident, unitViews, incidentViews>>

Step(h) ==
  \/ SignalExists(h) \/ AppendSignal(h) \/ GetWorkflow(h) \/ Apply(h) \/ Count(h)
  \/ AppendDecisions(h) \/ CancelTimers(h) \/ ScheduleTimers(h)
  \/ FindIncident(h) \/ PutIncident(h) \/ Reload(h) \/ DeleteIncidentView(h)
  \/ PutWorkflow(h) \/ PutUnitStatus(h) \/ LookUpIncident(h) \/ ShowIncident(h)
  \/ PutStationHealth(h)

Next == \E h \in Handlers :
  \/ \E sig \in Inputs : TakeSignal(h, sig)
  \/ \E u \in Units, key \in TimerInputs : TakeTimer(h, u, key)
  \/ Step(h)

Spec == Init /\ [][Next]_vars

-----------------------------------------------------------------------------
(* Properties                                                              *)

Quiet(u) == InHand(u) = {}

(* However requests overlap, the index only names open incidents of the    *)
(* unit it is asked for: incident and index change under one lock.         *)
IndexedIncidentsOpen ==
  \A u \in Units : openIncident[u] # NoIncident =>
    /\ incidents[openIncident[u]].status = "open"
    /\ incidents[openIncident[u]].unit = u

(* However requests overlap, the stored snapshot is the whole answer to    *)
(* one request: on hold exactly with a hold reason.                        *)
SnapshotsWhole ==
  \A u \in Units : workflows[u].state = "on_hold" <=> workflows[u].hold # ""

(* SPEC.md:309: a unit has at most one open incident at a time.            *)
OneOpenIncident ==
  \A u \in Units :
    Cardinality({i \in IncidentIDs :
      incidents[i] \in {Store!Opened(u, c) : c \in Categories}}) <= 1

(* SPEC.md:791: every hold opens or updates an incident.                   *)
HoldsHaveIncidents ==
  \A u \in Units : Quiet(u) /\ workflows[u].state = "on_hold"
                     => openIncident[u] # NoIncident

(* SPEC.md:492: the allowed transitions, and holds from anywhere.          *)
AllowedMoves == Edges
  \cup {<<"awaiting_test_result", "retry_pending">>,
        <<"awaiting_test_result", "ready_for_inspection">>,
        <<"in_rework", "ready_for_inspection">>}
  \cup {move \in States \X States : move[2] \in {move[1], "on_hold"}}

MovesAreAllowed ==
  [][\A u \in Units :
       <<workflows[u].state, workflows'[u].state>> \in AllowedMoves]_vars
=============================================================================
