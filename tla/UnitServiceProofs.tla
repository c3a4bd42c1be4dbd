------------------------- MODULE UnitServiceProofs --------------------------
(***************************************************************************)
(* Theorems about the service, for any sets of units, signals, stations    *)
(* and incidents.  The contract of the engine (WorkflowEngineProofs) and   *)
(* what an incident action does to a unit's trouble are all that the       *)
(* inductive step of CommitTransition needs.                               *)
(***************************************************************************)
EXTENDS UnitService, WorkflowEngineProofs

(* The first two parts of IncidentsIndexed, which the incident actions     *)
(* keep whatever the snapshots say.                                        *)
Index ==
  /\ \A u \in Units : openIncident[u] # NoIncident
       => Open(openIncident[u]) /\ incidents[openIncident[u]].unit = u
  /\ \A i \in IncidentIDs : Open(i) => openIncident[incidents[i].unit] = i

IncidentTypes ==
  /\ incidents \in [IncidentIDs -> Incident]
  /\ openIncident \in [Units -> IncidentIDs \cup {NoIncident}]

(* An open incident is one that was put, for some unit, in some category.  *)
LEMMA OpenRecord ==
  ASSUME NEW r \in Incident, r.status = "open"
  PROVE  r # NoRecord /\ r.unit \in Units /\ r.category \in Categories
<1>1. NoRecord.status = ""
  BY DEF NoRecord
<1>2. r # NoRecord
  BY <1>1
<1>. QED  BY <1>2 DEF Incident

(* A unit is in trouble exactly if an incident is open.                    *)
LEMMA TroubleIsOpen ==
  ASSUME IncidentTypes, Index, NEW u \in Units
  PROVE  /\ Trouble(u) = NoAction <=> openIncident[u] = NoIncident
         /\ Trouble(u) \in Categories \cup {NoAction}
<1>1. CASE openIncident[u] = NoIncident
  BY <1>1 DEF Trouble
<1>2. CASE openIncident[u] # NoIncident
  <2>1. /\ openIncident[u] \in IncidentIDs
        /\ incidents[openIncident[u]] \in Incident
        /\ incidents[openIncident[u]].status = "open"
    BY <1>2 DEF IncidentTypes, Index, Open
  <2>2. incidents[openIncident[u]].category \in Categories
    BY <2>1, OpenRecord
  <2>. QED  BY <1>2, <2>2 DEF Trouble, Categories, NoAction
<1>. QED  BY <1>1, <1>2

(* What an action makes of the trouble a unit is in.                       *)
After(trouble, action) ==
  IF action = NoAction THEN trouble
  ELSE IF action = CloseAction THEN NoAction ELSE action

IncidentStepOK(u, action) ==
  /\ IncidentTypes' /\ Index'
  /\ \A v \in Units \ {u} : openIncident'[v] = openIncident[v]
                            /\ Trouble(v)' = Trouble(v)
  /\ Trouble(u)' = After(Trouble(u), action)
  /\ \A j \in IncidentIDs \ {openIncident[u], openIncident'[u]} :
       incidents'[j] = incidents[j]
  /\ openIncident[u] # NoIncident
       => IF openIncident'[u] = NoIncident
          THEN incidents'[openIncident[u]].status # "open"
          ELSE openIncident'[u] = openIncident[u]

(* An upsert keeps incidents and index in step and changes no other unit's *)
(* trouble.                                                                *)
LEMMA UpsertStep ==
  ASSUME IncidentTypes, Index, NEW u \in Units, NEW c \in Categories,
         Upsert(u, c)
  PROVE  IncidentStepOK(u, c)
<1>1. PICK i \in IncidentIDs :
        /\ IF openIncident[u] # NoIncident THEN i = openIncident[u]
                                           ELSE incidents[i] = NoRecord
        /\ PutIncident(i, Opened(u, c))
  BY DEF Upsert
<1>. DEFINE rec == Opened(u, c)
<1>2. rec \in Incident /\ rec.status = "open" /\ rec.unit = u /\ rec.category = c
  BY DEF Incident, Opened
<1>3. i # NoIncident
  BY IncidentsAssumption
<1>. HIDE DEF rec
<1>4. /\ incidents' = [incidents EXCEPT ![i] = rec]
      /\ openIncident' = [openIncident EXCEPT ![u] = i]
  BY <1>1, <1>2 DEF rec, PutIncident
<1>5. IncidentTypes'
  BY <1>2, <1>4 DEF IncidentTypes
<1>6. incidents'[i] = rec /\ openIncident'[u] = i
  BY <1>4 DEF IncidentTypes
<1>7. ASSUME NEW v \in Units, v # u
      PROVE  openIncident'[v] = openIncident[v] /\ openIncident[v] # i
  <2>1. openIncident'[v] = openIncident[v]
    BY <1>4, <1>7 DEF IncidentTypes
  <2>2. ASSUME openIncident[v] = i  PROVE FALSE
    <3>1. incidents[i].status = "open" /\ incidents[i].unit = v
      BY <1>3, <2>2, <1>7 DEF Index, Open
    <3>2. incidents[i] # NoRecord
      BY <3>1, OpenRecord DEF IncidentTypes
    <3>3. openIncident[u] = i
      BY <1>1, <3>2
    <3>. QED  BY <1>3, <1>7, <3>1, <3>3 DEF Index
  <2>. QED  BY <2>1, <2>2
<1>8. ASSUME NEW j \in IncidentIDs, j # i
      PROVE  incidents'[j] = incidents[j]
  BY <1>4, <1>8 DEF IncidentTypes
<1>9. ASSUME NEW v \in Units, openIncident'[v] # NoIncident
      PROVE  /\ incidents'[openIncident'[v]].status = "open"
             /\ incidents'[openIncident'[v]].unit = v
  <2>1. CASE v = u
    BY <1>2, <1>6, <2>1
  <2>2. CASE v # u
    <3>1. openIncident'[v] = openIncident[v] /\ openIncident[v] \in IncidentIDs
          /\ openIncident[v] # i
      BY <1>7, <1>9, <2>2 DEF IncidentTypes
    <3>2. incidents'[openIncident[v]] = incidents[openIncident[v]]
      BY <1>8, <3>1
    <3>. QED  BY <1>9, <3>1, <3>2 DEF Index, Open
  <2>. QED  BY <2>1, <2>2
<1>10. ASSUME NEW j \in IncidentIDs, incidents'[j].status = "open"
       PROVE  openIncident'[incidents'[j].unit] = j
  <2>1. CASE j = i
    BY <1>2, <1>6, <2>1
  <2>2. CASE j # i
    <3>1. incidents'[j] = incidents[j]
      BY <1>8, <2>2
    <3>2. incidents[j].status = "open" /\ incidents[j] \in Incident
      BY <1>10, <3>1 DEF IncidentTypes
    <3>3. incidents[j].unit \in Units /\ openIncident[incidents[j].unit] = j
      BY <3>2, OpenRecord DEF Index, Open
    <3>4. incidents[j].unit # u
      <4>1. SUFFICES ASSUME openIncident[u] = j  PROVE FALSE
        BY <3>3
      <4>. QED  BY <1>1, <2>2, <4>1, IncidentsAssumption
    <3>. QED  BY <1>7, <3>1, <3>3, <3>4
  <2>. QED  BY <2>1, <2>2
<1>11. Index'
  BY <1>9, <1>10 DEF Index, Open
<1>12. ASSUME NEW v \in Units, v # u
       PROVE  Trouble(v)' = Trouble(v)
  BY <1>7, <1>8, <1>12 DEF Trouble, IncidentTypes
<1>13. Trouble(u)' = c
  BY <1>2, <1>3, <1>6 DEF Trouble
<1>14. openIncident[u] # NoIncident => i = openIncident[u]
  BY <1>1
<1>. QED  BY <1>3, <1>5, <1>6, <1>7, <1>8, <1>11, <1>12, <1>13, <1>14
          DEF IncidentStepOK, After, Categories, NoAction, CloseAction
(* So does the resolution of an incident.                                  *)
LEMMA ResolveStep ==
  ASSUME IncidentTypes, Index, NEW u \in Units, Resolve(u)
  PROVE  IncidentStepOK(u, CloseAction)
<1>. DEFINE i   == openIncident[u]
            rec == [incidents[i] EXCEPT !.status = "resolved"]
<1>1. /\ i \in IncidentIDs /\ i # NoIncident
      /\ incidents[i] \in Incident /\ incidents[i].status = "open"
      /\ incidents[i].unit = u
  BY DEF Resolve, IncidentTypes, Index, Open
<1>2. incidents[i].category \in Categories /\ incidents[i] # NoRecord
  BY <1>1, OpenRecord
<1>3. /\ rec \in Incident /\ rec.status # "open"
      /\ rec.status = "resolved" /\ rec.unit = u
  BY <1>1, <1>2 DEF Incident
<1>4. /\ incidents' = [incidents EXCEPT ![i] = rec]
      /\ openIncident' = [openIncident EXCEPT ![u] = NoIncident]
  BY <1>3 DEF Resolve, PutIncident
<1>. HIDE DEF rec
<1>5. IncidentTypes'
  BY <1>3, <1>4 DEF IncidentTypes
<1>6. incidents'[i] = rec /\ openIncident'[u] = NoIncident
  BY <1>1, <1>4 DEF IncidentTypes
<1>7. \A j \in IncidentIDs : j # i => incidents'[j] = incidents[j]
  BY <1>4 DEF IncidentTypes
<1>8. ASSUME NEW v \in Units, v # u
      PROVE  openIncident'[v] = openIncident[v] /\ openIncident[v] # i
  <2>1. openIncident'[v] = openIncident[v]
    BY <1>4, <1>8 DEF IncidentTypes
  <2>2. openIncident[v] # i
    BY <1>1, <1>8 DEF Index
  <2>. QED  BY <2>1, <2>2
<1>. HIDE DEF i
<1>9. ASSUME NEW v \in Units, openIncident'[v] # NoIncident
      PROVE  /\ incidents'[openIncident'[v]].status = "open"
             /\ incidents'[openIncident'[v]].unit = v
  <2>1. v # u
    BY <1>6, <1>9
  <2>2. /\ openIncident'[v] = openIncident[v] /\ openIncident[v] # i
        /\ openIncident[v] \in IncidentIDs
    BY <1>8, <1>9, <2>1 DEF IncidentTypes
  <2>3. incidents'[openIncident[v]] = incidents[openIncident[v]]
    BY <1>7, <2>2
  <2>. QED  BY <1>9, <2>2, <2>3 DEF Index, Open
<1>10. ASSUME NEW j \in IncidentIDs, incidents'[j].status = "open"
       PROVE  openIncident'[incidents'[j].unit] = j
  <2>1. j # i
    BY <1>3, <1>6, <1>10
  <2>2. incidents'[j] = incidents[j] /\ incidents[j] \in Incident
    BY <1>7, <2>1 DEF IncidentTypes
  <2>3. incidents[j].unit \in Units /\ openIncident[incidents[j].unit] = j
    BY <1>10, <2>2, OpenRecord DEF Index, Open
  <2>. QED  BY <1>8, <2>1, <2>2, <2>3 DEF i
<1>11. Index'
  BY <1>9, <1>10 DEF Index, Open
<1>12. ASSUME NEW v \in Units, v # u
       PROVE  Trouble(v)' = Trouble(v)
  BY <1>7, <1>8, <1>12 DEF Trouble, IncidentTypes
<1>13. Trouble(u)' = NoAction
  BY <1>6 DEF Trouble
<1>. QED  BY <1>1, <1>3, <1>5, <1>6, <1>7, <1>8, <1>11, <1>12, <1>13
          DEF IncidentStepOK, After, NoAction, CloseAction, i

(* Hence every incident action does.                                       *)
LEMMA IncidentStep ==
  ASSUME IncidentTypes, Index, NEW u \in Units, NEW action \in IncidentActions,
         ApplyIncidentAction(u, action)
  PROVE  IncidentStepOK(u, action)
<1>1. CASE action \in Categories /\ Upsert(u, action)
  BY <1>1, UpsertStep
<1>2. CASE action = CloseAction /\ Resolve(u)
  BY <1>2, ResolveStep
<1>3. CASE /\ \/ action = NoAction
              \/ action = CloseAction /\ openIncident[u] = NoIncident
           /\ UNCHANGED <<incidents, openIncident>>
  <2>1. \A v \in Units : Trouble(v)' = Trouble(v)
    BY <1>3 DEF Trouble
  <2>2. After(Trouble(u), action) = Trouble(u)
    BY <1>3 DEF After, Trouble, NoAction, CloseAction
  <2>3. Index' /\ IncidentTypes'
    BY <1>3 DEF Index, IncidentTypes, Open
  <2>. QED  BY <1>3, <2>1, <2>2, <2>3 DEF IncidentStepOK
<1>. QED  BY <1>1, <1>2, <1>3 DEF ApplyIncidentAction

-----------------------------------------------------------------------------
(* The inductive invariant: the index, and for each unit what its own      *)
(* snapshot, trouble, timers and history have to do with each other.       *)

(* The open incident is the one the state and the hold reason ask for.     *)
Explained(wf, trouble) ==
  /\ wf.hold \in ReasonCodes => trouble = "repeated_failure"
  /\ wf.hold \in TimerTypes  => trouble = "heartbeat_timeout"
  /\ wf.state = "retry_pending" => trouble = "test_flake"
  /\ wf.state \in CleanStates => trouble = NoAction

PerUnit(u) ==
  /\ Coherent(workflows[u])
  /\ workflows[u].incident = openIncident[u]
  /\ Explained(workflows[u], Trouble(u))
  /\ workflows[u].timers \subseteq timers[u]
  /\ history[u].state = workflows[u].state

IInv ==
  /\ TypeOK
  /\ Index
  /\ \A u \in Units : PerUnit(u)
  /\ DashboardIsOpenIncidents
  /\ ViewsCurrent

(* The incident action of a step leaves the trouble the new snapshot asks  *)
(* for.                                                                    *)
LEMMA StepExplained ==
  ASSUME NEW wf \in Workflow, NEW n \in Workflow, Coherent(wf), Coherent(n),
         NEW trouble, NEW action, Explained(wf, trouble), SomeStep(wf, n, action)
  PROVE  Explained(n, After(trouble, action))
<1>1. CASE QuietStep(wf, n, action)
  <2>1. After(trouble, action) = trouble
    BY <1>1 DEF QuietStep, After
  <2>2. CASE n.state = wf.state /\ n.hold = wf.hold
    BY <2>1, <2>2 DEF Explained
  <2>3. CASE <<wf.state, n.state>> \in Edges /\ n.hold = ""
    <3>1. n.state # "retry_pending"
      BY <2>3 DEF Edges
    <3>2. n.state \in CleanStates => wf.state \in CleanStates
      BY <2>3 DEF Edges, CleanStates
    <3>3. n.hold \notin ReasonCodes /\ n.hold \notin TimerTypes
      BY <2>3 DEF ReasonCodes, TimerTypes
    <3>. QED  BY <2>1, <3>1, <3>2, <3>3 DEF Explained
  <2>. QED  BY <1>1, <2>2, <2>3 DEF QuietStep
<1>2. CASE RetryStep(wf, n, action)
  BY <1>2 DEF RetryStep, Explained, After, ReasonCodes, TimerTypes, CleanStates,
              NoAction, CloseAction
<1>3. CASE HoldStep(wf, n, action)
  BY <1>3 DEF HoldStep, Explained, After, ReasonCodes, TimerTypes, CleanStates,
              NoAction, CloseAction
<1>4. CASE PassStep(wf, n, action)
  BY <1>4 DEF PassStep, Explained, After, ReasonCodes, TimerTypes, CleanStates,
              NoAction, CloseAction
<1>5. CASE TimeOutStep(wf, n, action)
  BY <1>5 DEF TimeOutStep, Explained, After, ReasonCodes, TimerTypes,
              CleanStates, NoAction, CloseAction
<1>. QED  BY <1>1, <1>2, <1>3, <1>4, <1>5 DEF SomeStep

Past == [state : States, last : DecisionTypes \cup {""}]

(* The fold of the history stays well typed and follows the snapshot.      *)
LEMMA Replayed ==
  ASSUME NEW past \in Past, NEW ds \in Seq(DecisionRecord) \ {<<>>},
         NEW to, Tells(ds, past.state, to)
  PROVE  Replay(past, ds).state = to
         /\ Replay(past, ds).last \in DecisionTypes
<1>. DEFINE moves == {i \in DOMAIN ds : ds[i].type = "transition_state"}
            k     == CHOOSE i \in moves : TRUE
            final == ds[Len(ds)]
<1>1. Replay(past, ds) = [state |-> IF moves = {} THEN past.state ELSE ds[k].to,
                          last  |-> final.type]
  BY DEF Replay
<1>2. final \in DecisionRecord
  OBVIOUS
<1>3. final.type \in DecisionTypes
  <2>1. \A d \in DecisionRecord : d.type \in DecisionTypes
    <3>1. \A t : Decision(t).type = t
      BY DEF Decision
    <3>2. \A t : Transition(t).type = "transition_state"
      BY DEF Transition
    <3>3. "transition_state" \in DecisionTypes
      BY DEF DecisionTypes
    <3>. QED  BY <3>1, <3>2, <3>3 DEF DecisionRecord
  <2>. QED  BY <1>2, <2>1
<1>4. CASE moves = {}
  <2>1. past.state = to
    BY <1>4 DEF Tells
  <2>. QED  BY <1>1, <1>3, <1>4, <2>1
<1>5. CASE moves # {}
  <2>1. k \in moves
    BY <1>5
  <2>2. ds[k].to = to
    BY <2>1 DEF Tells
  <2>. HIDE DEF moves, k, final
  <2>. QED  BY <1>1, <1>3, <1>5, <2>2
<1>. QED  BY <1>4, <1>5

(* What a transition leaves of the unit's own part of the invariant: all   *)
(* that PerUnit says, after the reload of the open incident.               *)
LEMMA CommitUnit ==
  ASSUME IInv, NEW u \in Units, NEW r, Contract(workflows[u], r),
         CommitTransition(u, r)
  PROVE  /\ workflows' \in [Units -> Workflow]
         /\ timers' \in [Units -> SUBSET TimerKey]
         /\ history' \in [Units -> Past]
         /\ history'[u].last \in DecisionTypes
         /\ IncidentStepOK(u, r.incident)
         /\ \A v \in Units : PerUnit(v)'
         /\ \A v \in Units \ {u} : /\ workflows'[v] = workflows[v]
                                   /\ history'[v] = history[v]
         /\ workflows'[u] = [r.next EXCEPT !.incident = openIncident'[u]]
<1>. DEFINE i    == openIncident'[u]
            next == [r.next EXCEPT !.incident = i]
            past == Replay(history[u], r.decisions)
<1>1. /\ r.next \in Workflow /\ Coherent(r.next)
      /\ r.decisions \in Seq(DecisionRecord) \ {<<>>}
      /\ r.start \subseteq TimerKey /\ r.cancel \subseteq TimerKey
      /\ r.incident \in IncidentActions
      /\ Tells(r.decisions, workflows[u].state, r.next.state)
      /\ SomeStep(workflows[u], r.next, r.incident)
      /\ r.next.timers \subseteq (workflows[u].timers \ r.cancel) \cup r.start
  BY DEF Contract, Result
<1>2. /\ workflows \in [Units -> Workflow] /\ timers \in [Units -> SUBSET TimerKey]
      /\ history \in [Units -> Past] /\ IncidentTypes /\ Index
      /\ \A v \in Units : PerUnit(v)
  BY DEF IInv, TypeOK, Past, IncidentTypes
<1>3. IncidentStepOK(u, r.incident)
  BY <1>1, <1>2, IncidentStep DEF CommitTransition
<1>4. i \in IncidentIDs \cup {NoIncident}
  BY <1>3 DEF IncidentStepOK, IncidentTypes
<1>5. past.state = r.next.state /\ past.last \in DecisionTypes
  BY <1>1, <1>2, Replayed DEF PerUnit
<1>6. past \in Past
  <2>1. r.next.state \in States
    BY <1>1 DEF Workflow
  <2>2. past = [state |-> past.state, last |-> past.last]
    BY DEF Replay
  <2>. HIDE DEF past
  <2>3. past.state \in States /\ past.last \in DecisionTypes
    BY <1>5, <2>1
  <2>. QED  BY <2>2, <2>3 DEF Past
<1>7. /\ next \in Workflow /\ next.incident = i /\ next.timers = r.next.timers
      /\ next.state = r.next.state /\ next.hold = r.next.hold
      /\ next.attempts = r.next.attempts /\ next.station = r.next.station
  <2>. HIDE DEF i
  <2>. QED  BY <1>1, <1>4 DEF Workflow
<1>8. /\ workflows' = [workflows EXCEPT ![u] = next]
      /\ timers' = [timers EXCEPT ![u] = (@ \ r.cancel) \cup r.start]
      /\ history' = [history EXCEPT ![u] = past]
  BY <1>2 DEF CommitTransition
<1>. HIDE DEF next, past
<1>9. /\ workflows' \in [Units -> Workflow] /\ workflows'[u] = next
      /\ \A v \in Units \ {u} : workflows'[v] = workflows[v]
  BY <1>2, <1>7, <1>8
<1>10. /\ timers' \in [Units -> SUBSET TimerKey]
       /\ timers'[u] = (timers[u] \ r.cancel) \cup r.start
       /\ \A v \in Units \ {u} : timers'[v] = timers[v]
  BY <1>1, <1>2, <1>8
<1>11. /\ history' \in [Units -> Past] /\ history'[u] = past
       /\ \A v \in Units \ {u} : history'[v] = history[v]
  BY <1>2, <1>6, <1>8
<1>12. ASSUME NEW v \in Units, v # u
       PROVE  PerUnit(v)'
  <2>1. openIncident'[v] = openIncident[v] /\ Trouble(v)' = Trouble(v)
    BY <1>3, <1>12 DEF IncidentStepOK
  <2>2. /\ workflows'[v] = workflows[v] /\ timers'[v] = timers[v]
        /\ history'[v] = history[v]
    BY <1>9, <1>10, <1>11, <1>12
  <2>. QED  BY <1>2, <2>1, <2>2 DEF PerUnit
<1>13. PerUnit(u)'
  <2>1. Coherent(next)
    BY <1>1, <1>7 DEF Coherent, Timed
  <2>2. SomeStep(workflows[u], next, r.incident)
    BY <1>1, <1>7 DEF SomeStep, QuietStep, RetryStep, HoldStep, PassStep,
                      TimeOutStep
  <2>3. Explained(next, After(Trouble(u), r.incident))
    BY <1>2, <1>7, <2>1, <2>2, StepExplained DEF PerUnit
  <2>4. Trouble(u)' = After(Trouble(u), r.incident)
    BY <1>3 DEF IncidentStepOK
  <2>5. next.timers \subseteq timers'[u]
    BY <1>1, <1>2, <1>7, <1>10 DEF PerUnit
  <2>6. history'[u].state = next.state
    BY <1>5, <1>7, <1>11
  <2>. QED  BY <1>7, <1>9, <2>1, <2>3, <2>4, <2>5, <2>6 DEF PerUnit
<1>. QED  BY <1>3, <1>5, <1>9, <1>10, <1>11, <1>12, <1>13 DEF next

(* The views follow.                                                       *)
LEMMA CommitViews ==
  ASSUME IInv, NEW u \in Units, NEW r, Contract(workflows[u], r),
         CommitTransition(u, r)
  PROVE  /\ unitViews' \in [Units -> UnitViewType]
         /\ incidentViews' \in [IncidentIDs -> Categories \cup {NoAction}]
         /\ stationViews' \in [StationIDs ->
                [unit : Units, status : {"active", "blocked"}] \cup {NoView}]
         /\ DashboardIsOpenIncidents'
         /\ ViewsCurrent'
<1>. DEFINE old  == openIncident[u]
            new  == openIncident'[u]
            next == workflows'[u]
<1>1. /\ workflows' \in [Units -> Workflow] /\ history' \in [Units -> Past]
      /\ IncidentStepOK(u, r.incident)
      /\ \A v \in Units \ {u} : workflows'[v] = workflows[v] /\ history'[v] = history[v]
      /\ next = [r.next EXCEPT !.incident = new]
      /\ r.next.incident = old
  <2>1. r.next.incident = workflows[u].incident /\ workflows[u].incident = old
    BY DEF Contract, IInv, PerUnit
  <2>. QED  BY CommitUnit, <2>1
<1>2. /\ unitViews' = [unitViews EXCEPT ![u] = UnitView(next, history'[u].last)]
      /\ PutIncidentView(u, old)
      /\ PutStationHealth(u, next)
  BY <1>1 DEF CommitTransition, RebuildProjections
<1>3. /\ unitViews \in [Units -> UnitViewType]
      /\ incidentViews \in [IncidentIDs -> Categories \cup {NoAction}]
      /\ stationViews \in [StationIDs ->
                [unit : Units, status : {"active", "blocked"}] \cup {NoView}]
      /\ openIncident \in [Units -> IncidentIDs \cup {NoIncident}]
      /\ incidents \in [IncidentIDs -> Incident]
  BY DEF IInv, TypeOK
<1>. HIDE DEF next
<1>4. next \in Workflow /\ history'[u].last \in DecisionTypes \cup {""}
  BY <1>1 DEF next, Past
<1>5. UnitView(next, history'[u].last) \in UnitViewType
  BY <1>4 DEF UnitView, UnitViewType, Workflow
<1>6. /\ IncidentTypes' /\ Index'
      /\ \A j \in IncidentIDs \ {old, new} : incidents'[j] = incidents[j]
      /\ old # NoIncident =>
           IF new = NoIncident THEN incidents'[old].status # "open" ELSE new = old
  BY <1>1 DEF IncidentStepOK
<1>7. unitViews' \in [Units -> UnitViewType]
  BY <1>2, <1>3, <1>5
<1>8. new # NoIncident =>
        /\ new \in IncidentIDs /\ incidents'[new].status = "open"
        /\ incidents'[new].category \in Categories
  <2>. SUFFICES ASSUME new # NoIncident
                PROVE  /\ new \in IncidentIDs /\ incidents'[new].status = "open"
                       /\ incidents'[new].category \in Categories
    OBVIOUS
  <2>1. new \in IncidentIDs /\ incidents'[new] \in Incident
    BY <1>6 DEF IncidentTypes
  <2>2. incidents'[new].status = "open"
    BY <1>6 DEF Index, Open
  <2>. QED  BY <2>1, <2>2, OpenRecord
<1>. HIDE DEF new, old
<1>9. incidentViews' =
        IF new # NoIncident
        THEN [incidentViews EXCEPT ![new] = incidents'[new].category]
        ELSE IF old # NoIncident
             THEN [incidentViews EXCEPT ![old] = NoAction]
             ELSE incidentViews
  BY <1>2 DEF PutIncidentView, new
<1>10. incidentViews' \in [IncidentIDs -> Categories \cup {NoAction}]
  BY <1>3, <1>8, <1>9
<1>11. ASSUME NEW j \in IncidentIDs
       PROVE  incidentViews'[j] = IF incidents'[j].status = "open"
                                  THEN incidents'[j].category ELSE NoAction
  <2>1. CASE j = new
    BY <1>3, <1>8, <1>9, <2>1, IncidentsAssumption
  <2>2. CASE j # new /\ j = old
    BY <1>3, <1>6, <1>9, <2>2, IncidentsAssumption
  <2>3. CASE j # new /\ j # old
    <3>1. incidents'[j] = incidents[j] /\ incidentViews'[j] = incidentViews[j]
      BY <1>3, <1>6, <1>9, <2>3
    <3>. QED  BY <3>1 DEF IInv, DashboardIsOpenIncidents, Open
  <2>. QED  BY <2>1, <2>2, <2>3
<1>12. DashboardIsOpenIncidents'
  BY <1>11 DEF DashboardIsOpenIncidents, Open
<1>. DEFINE health == [unit   |-> u,
                       status |-> IF next.state = "on_hold" THEN "blocked"
                                  ELSE "active"]
<1>13. /\ health \in [unit : Units, status : {"active", "blocked"}]
       /\ health.unit = u
       /\ health.status = "blocked" <=> next.state = "on_hold"
  OBVIOUS
<1>14. stationViews' = IF next.station = "" THEN stationViews
                       ELSE [stationViews EXCEPT ![next.station] = health]
  BY <1>2 DEF PutStationHealth
<1>15. next.station \in StationIDs
  BY <1>4 DEF Workflow
<1>. HIDE DEF health
<1>16. stationViews' \in [StationIDs ->
           [unit : Units, status : {"active", "blocked"}] \cup {NoView}]
  BY <1>3, <1>13, <1>14, <1>15
<1>17. ASSUME NEW v \in Units
       PROVE  unitViews'[v] = UnitView(workflows'[v], history'[v].last)
  <2>1. CASE v = u
    BY <1>2, <1>3, <2>1 DEF next
  <2>2. CASE v # u
    <3>1. /\ unitViews'[v] = unitViews[v] /\ workflows'[v] = workflows[v]
          /\ history'[v] = history[v]
      BY <1>1, <1>2, <1>3, <2>2
    <3>. QED  BY <3>1 DEF IInv, ViewsCurrent
  <2>. QED  BY <2>1, <2>2
<1>18. ASSUME NEW v \in Units, workflows'[v].station # "",
              stationViews'[workflows'[v].station].unit = v
       PROVE  stationViews'[workflows'[v].station].status = "blocked"
                <=> workflows'[v].state = "on_hold"
  <2>1. CASE v = u
    BY <1>3, <1>13, <1>14, <1>15, <1>18, <2>1 DEF next
  <2>2. CASE v # u
    <3>1. workflows'[v] = workflows[v] /\ workflows[v].station \in StationIDs
      BY <1>1, <2>2 DEF IInv, TypeOK, Workflow
    <3>2. stationViews'[workflows[v].station] = stationViews[workflows[v].station]
      <4>1. stationViews'[workflows[v].station].unit # u
        BY <1>18, <2>2, <3>1
      <4>2. CASE next.station = ""
        BY <1>14, <4>2
      <4>3. CASE next.station # ""
        <5>1. stationViews' = [stationViews EXCEPT ![next.station] = health]
          BY <1>14, <4>3
        <5>2. workflows[v].station # next.station
          BY <1>3, <1>13, <1>15, <4>1, <5>1
        <5>. QED  BY <1>3, <1>15, <3>1, <5>1, <5>2
      <4>. QED  BY <4>2, <4>3
    <3>. QED  BY <1>18, <3>1, <3>2 DEF IInv, ViewsCurrent
  <2>. QED  BY <2>1, <2>2
<1>19. ViewsCurrent'
  BY <1>17, <1>18 DEF ViewsCurrent
<1>. QED  BY <1>7, <1>10, <1>12, <1>16, <1>19

(* Hence a transition keeps the invariant.                                 *)
LEMMA CommitInvariant ==
  ASSUME IInv, NEW u \in Units, NEW r, Contract(workflows[u], r),
         CommitTransition(u, r),
         signals' \in [SignalIDs -> {"unseen", "recorded", "decided"}]
  PROVE  IInv'
<1>1. stored' \subseteq Units
  BY DEF CommitTransition, IInv, TypeOK
<1>2. IncidentTypes' /\ Index'
  BY CommitUnit DEF IncidentStepOK
<1>3. TypeOK'
  BY <1>1, <1>2, CommitUnit, CommitViews DEF TypeOK, IncidentTypes, Past
<1>. QED  BY <1>2, <1>3, CommitUnit, CommitViews DEF IInv

(* The invariant holds at the start.                                       *)
LEMMA InitInvariant == Init => IInv
<1>. SUFFICES ASSUME Init  PROVE IInv
  OBVIOUS
<1>1. New \in Workflow /\ Coherent(New)
  BY StationsAssumption, ReviewTimer DEF New, Workflow, States, HoldReasons, Coherent, Timed
<1>2. UnitView(New, "") \in UnitViewType
  BY <1>1 DEF UnitView, UnitViewType, Workflow
<1>3. NoRecord \in Incident /\ NoRecord.status # "open"
  BY DEF NoRecord, Incident
<1>4. TypeOK
  BY <1>1, <1>2, <1>3 DEF Init, TypeOK, States
<1>5. Index
  BY <1>3 DEF Init, Index, Open
<1>6. ASSUME NEW u \in Units  PROVE PerUnit(u)
  <2>1. Trouble(u) = NoAction /\ openIncident[u] = NoIncident
    BY DEF Init, Trouble
  <2>2. /\ workflows[u] = New /\ timers[u] = {} /\ history[u].state = "pending"
    BY DEF Init
  <2>3. /\ New.state = "pending" /\ New.hold = "" /\ New.timers = {}
        /\ New.incident = NoIncident
    BY DEF New
  <2>4. Explained(New, NoAction)
    BY <2>3 DEF Explained, ReasonCodes, TimerTypes
  <2>. QED  BY <1>1, <2>1, <2>2, <2>3, <2>4 DEF PerUnit
<1>7. DashboardIsOpenIncidents
  BY <1>3 DEF Init, DashboardIsOpenIncidents, Open
<1>8. ViewsCurrent
  BY DEF Init, ViewsCurrent, New
<1>. QED  BY <1>4, <1>5, <1>6, <1>7, <1>8 DEF IInv

(* Signals and timers reach the engine with what its contract asks for.    *)
LEMMA InputTypes ==
  /\ \A sig \in Inputs : /\ sig.unit \in Units /\ sig.station \in StationIDs
                          /\ sig.id \in SignalIDs \cup {Fresh}
  /\ \A key \in TimerInputs :
       /\ key \in TimerKey
       /\ key[1] = "station_heartbeat_timeout" \/ key[2] = "test"
  BY InputsAssumption DEF Signal, Armable

(* The two kinds of step: the commit of a result that keeps the contract,  *)
(* and a step that leaves all but the record of signals alone.             *)
Commit(u) == \E r : Contract(workflows[u], r) /\ CommitTransition(u, r)

Steady == UNCHANGED <<workflows, stored, timers, history, incidents,
                      openIncident, unitViews, incidentViews, stationViews>>

SignalsOK == signals \in [SignalIDs -> {"unseen", "recorded", "decided"}]

(* Every step commits a transition of some unit that keeps the contract,   *)
(* or changes nothing but the record of signals.                           *)
LEMMA StepKinds ==
  ASSUME IInv, [Next]_vars
  PROVE  SignalsOK' /\ (Steady \/ \E u \in Units : Commit(u))
<1>1. /\ SignalsOK
      /\ \A u \in Units : workflows[u] \in Workflow /\ Coherent(workflows[u])
  BY DEF IInv, TypeOK, PerUnit, SignalsOK
<1>2. ASSUME NEW sig \in Inputs, NEW status \in {"recorded", "decided"},
             Record(sig, status)
      PROVE  SignalsOK'
  BY <1>1, <1>2, InputTypes DEF Record, SignalsOK
<1>3. ASSUME NEW sig \in Inputs, HandleSignal(sig)
      PROVE  SignalsOK' /\ \E u \in Units : Commit(u)
  <2>1. Contract(workflows[sig.unit], ApplySignal(workflows[sig.unit], sig))
    BY <1>1, InputTypes, ApplySignalContract
  <2>2. Commit(sig.unit)
    BY <1>3, <2>1 DEF HandleSignal, Commit
  <2>3. Record(sig, "decided")
    BY <1>3 DEF HandleSignal
  <2>. QED  BY <1>2, <2>2, <2>3, InputTypes
<1>4. ASSUME NEW u \in Units, NEW key \in TimerInputs, HandleTimer(u, key)
      PROVE  SignalsOK' /\ \E v \in Units : Commit(v)
  <2>1. Contract(workflows[u], ApplyTimer(workflows[u], key))
    BY <1>1, InputTypes, ApplyTimerContract
  <2>2. Commit(u)
    BY <1>4, <2>1 DEF HandleTimer, Commit
  <2>. QED  BY <1>1, <1>4, <2>2 DEF HandleTimer, SignalsOK
<1>5. ASSUME NEW sig \in Inputs, FailSignal(sig)
      PROVE  SignalsOK' /\ Steady
  BY <1>2, <1>5 DEF FailSignal, Steady, views
<1>6. ASSUME UNCHANGED vars
      PROVE  SignalsOK' /\ Steady
  BY <1>1, <1>6 DEF vars, store, views, Steady, SignalsOK
<1>7. CASE SignalNext
  <2>1. PICK sig \in Inputs :
          HandleSignal(sig) \/ FailSignal(sig) \/ IgnoreDuplicate(sig)
    BY <1>7 DEF SignalNext
  <2>. QED  BY <1>3, <1>5, <1>6, <2>1 DEF IgnoreDuplicate
<1>8. CASE \E u \in Units, key \in TimerInputs : HandleTimer(u, key)
  BY <1>4, <1>8
<1>. QED  BY <1>6, <1>7, <1>8 DEF Next

(* Every step keeps the invariant.                                         *)
LEMMA StepInvariant == IInv /\ [Next]_vars => IInv'
<1>. SUFFICES ASSUME IInv, [Next]_vars  PROVE IInv'
  OBVIOUS
<1>1. SignalsOK'
  BY StepKinds
<1>2. CASE Steady
  <2>1. TypeOK'
    BY <1>1, <1>2 DEF Steady, SignalsOK, IInv, TypeOK
  <2>2. Index' /\ DashboardIsOpenIncidents' /\ ViewsCurrent'
    BY <1>2 DEF Steady, IInv, Index, Open, DashboardIsOpenIncidents,
                ViewsCurrent, UnitView
  <2>3. \A u \in Units : PerUnit(u)'
    BY <1>2 DEF Steady, IInv, PerUnit, Trouble
  <2>. QED  BY <2>1, <2>2, <2>3 DEF IInv
<1>3. CASE \E u \in Units : Commit(u)
  BY <1>1, <1>3, CommitInvariant DEF Commit, SignalsOK
<1>. QED  BY <1>2, <1>3, StepKinds

(* The invariant holds in every state the service reaches.                 *)
THEOREM Invariance == Spec => []IInv
<1>. QED  BY InitInvariant, StepInvariant, PTL DEF Spec

-----------------------------------------------------------------------------
(* What follows from the invariant                                         *)

(* The store never holds a value its Go types do not allow.                *)
THEOREM TypeCorrect == Spec => []TypeOK
<1>1. IInv => TypeOK
  BY DEF IInv
<1>. QED  BY <1>1, Invariance, PTL

(* Index, records and snapshots agree on the unit's only open incident.    *)
THEOREM OneIncidentPerUnit == Spec => []IncidentsIndexed
<1>1. IInv => IncidentsIndexed
  BY DEF IInv, Index, PerUnit, IncidentsIndexed
<1>. QED  BY <1>1, Invariance, PTL

(* A hold has a reason and the open incident that goes with it.            *)
THEOREM HoldsAreExplained == Spec => []HoldsExplained
<1>1. IInv => HoldsExplained
  BY DEF IInv, PerUnit, Coherent, Explained, HoldsExplained
<1>. QED  BY <1>1, Invariance, PTL

(* Only the first failure of a unit is ever retried.                       *)
THEOREM RetryOnce == Spec => []RetriesAreFirstFailures
<1>1. IInv => RetriesAreFirstFailures
  BY DEF IInv, PerUnit, Coherent, Explained, RetriesAreFirstFailures
<1>. QED  BY <1>1, Invariance, PTL

(* No unit is inspected, completed or before its first hold with an        *)
(* incident open.                                                          *)
THEOREM InspectedClean == Spec => []CleanAtInspection
<1>1. ASSUME IInv, NEW u \in Units, workflows[u].state \in CleanStates
      PROVE  openIncident[u] = NoIncident
  <2>1. IncidentTypes /\ Index /\ Trouble(u) = NoAction
    BY <1>1 DEF IInv, TypeOK, IncidentTypes, PerUnit, Explained
  <2>. QED  BY <2>1, TroubleIsOpen
<1>2. IInv => CleanAtInspection
  BY <1>1 DEF CleanAtInspection
<1>. QED  BY <1>2, Invariance, PTL

(* The dashboard lists exactly the open incidents.                         *)
THEOREM DashboardExact == Spec => []DashboardIsOpenIncidents
<1>1. IInv => DashboardIsOpenIncidents
  BY DEF IInv
<1>. QED  BY <1>1, Invariance, PTL

(* No wait for a station, a test or a retry is without its timer.          *)
THEOREM NoUntimedWait == Spec => []WaitsAreTimed
<1>1. ASSUME IInv, NEW u \in Units
      PROVE  /\ Timed(workflows[u])
             /\ \A key : key \in workflows[u].timers => Armed(u, key)
  BY <1>1 DEF IInv, PerUnit, Coherent, Armed
<1>2. IInv => WaitsAreTimed
  BY <1>1 DEF WaitsAreTimed, Timed
<1>. QED  BY <1>2, Invariance, PTL

(* The snapshot's timers are in the store.                                 *)
THEOREM TimersListed == Spec => []SnapshotTimersListed
<1>1. IInv => SnapshotTimersListed
  BY DEF IInv, PerUnit, SnapshotTimersListed
<1>. QED  BY <1>1, Invariance, PTL

(* The decision log replays to the snapshot's state.                       *)
THEOREM DecisionsReplay == Spec => []HistoryReplays
<1>1. IInv => HistoryReplays
  BY DEF IInv, PerUnit, HistoryReplays
<1>. QED  BY <1>1, Invariance, PTL

(* The unit and station views show the snapshots.                          *)
THEOREM ViewsFollow == Spec => []ViewsCurrent
<1>1. IInv => ViewsCurrent
  BY DEF IInv
<1>. QED  BY <1>1, Invariance, PTL

-----------------------------------------------------------------------------
(* The service implements the lifecycle of UnitLifecycle.                  *)

(* A service without units is one whose units are all pending.             *)
LEMMA InitImplements == Init => Lifecycle!Init
<1>. SUFFICES ASSUME Init  PROVE Lifecycle!Init
  OBVIOUS
<1>1. \A u \in Units : Trouble(u) = NoAction
  BY DEF Init, Trouble
<1>2. \A u \in Units : workflows[u].state = "pending" /\ workflows[u].attempts = 0
  BY DEF Init, New
<1>. QED  BY <1>1, <1>2 DEF Lifecycle!Init, Lifecycle!NoTrouble, NoAction

(* A commit is a step of the lifecycle, or leaves it alone.                *)
LEMMA CommitImplements ==
  ASSUME IInv, NEW u \in Units, Commit(u)
  PROVE  [Lifecycle!Next]_Lifecycle!vars
<1>1. PICK r : Contract(workflows[u], r) /\ CommitTransition(u, r)
  BY DEF Commit
<1>. DEFINE wf == workflows[u]
            n  == workflows'[u]
            phase    == [v \in Units |-> workflows[v].state]
            failures == [v \in Units |-> workflows[v].attempts]
            trouble  == [v \in Units |-> Trouble(v)]
            phaseN    == [v \in Units |-> workflows'[v].state]
            failuresN == [v \in Units |-> workflows'[v].attempts]
            troubleN  == [v \in Units |-> Trouble(v)']
<1>2. /\ IncidentStepOK(u, r.incident)
      /\ \A v \in Units \ {u} : workflows'[v] = workflows[v]
      /\ n = [r.next EXCEPT !.incident = openIncident'[u]]
      /\ r.next \in Workflow /\ SomeStep(wf, r.next, r.incident)
      /\ wf \in Workflow
  BY <1>1, CommitUnit DEF Contract, Result, IInv, TypeOK
<1>3. n.state = r.next.state /\ n.attempts = r.next.attempts /\ n.hold = r.next.hold
  BY <1>2 DEF Workflow
<1>4. SomeStep(wf, n, r.incident)
  BY <1>2, <1>3 DEF SomeStep, QuietStep, RetryStep, HoldStep, PassStep, TimeOutStep
<1>5. /\ Trouble(u)' = After(Trouble(u), r.incident)
      /\ \A v \in Units \ {u} : Trouble(v)' = Trouble(v)
  BY <1>2 DEF IncidentStepOK
<1>6. /\ n.attempts = wf.attempts => failuresN = failures
      /\ Trouble(u)' = Trouble(u) => troubleN = trouble
      /\ n.state = wf.state => phaseN = phase
  BY <1>2, <1>5
<1>7. /\ wf.state \in States /\ wf.attempts \in Nat
      /\ phase[u] = wf.state /\ failures[u] = wf.attempts
  BY <1>2 DEF Workflow
<1>8. /\ \A p : n.state = p => Lifecycle!Enter(u, p)
      /\ n.attempts = wf.attempts + 1 => Lifecycle!Fail(u)
      /\ \A c : Trouble(u)' = c => Lifecycle!Raise(u, c)
  <2>1. ASSUME NEW p, n.state = p  PROVE Lifecycle!Enter(u, p)
    BY <1>2, <2>1 DEF Lifecycle!Enter
  <2>2. n.attempts = wf.attempts + 1 => Lifecycle!Fail(u)
    BY <1>2 DEF Lifecycle!Fail
  <2>3. ASSUME NEW c, Trouble(u)' = c  PROVE Lifecycle!Raise(u, c)
    BY <1>5, <2>3 DEF Lifecycle!Raise
  <2>. QED  BY <2>1, <2>2, <2>3
<1>9. CASE QuietStep(wf, n, r.incident)
  <2>1. n.attempts = wf.attempts /\ Trouble(u)' = Trouble(u)
    BY <1>5, <1>9 DEF QuietStep, After
  <2>2. CASE n.state = wf.state
    BY <1>6, <2>1, <2>2 DEF Lifecycle!vars
  <2>3. CASE <<wf.state, n.state>> \in Edges
    <3>1. PICK e \in Lifecycle!Edges : wf.state = e[1] /\ n.state = e[2]
      <4>1. Lifecycle!Edges = Edges
        BY DEF Lifecycle!Edges, Edges
      <4>2. /\ <<wf.state, n.state>>[1] = wf.state
            /\ <<wf.state, n.state>>[2] = n.state
        OBVIOUS
      <4>. QED  BY <2>3, <4>1, <4>2
    <3>2. phase[u] = e[1] /\ Lifecycle!Enter(u, e[2])
      <4>1. n.state = e[2] => Lifecycle!Enter(u, e[2])
        BY <1>8
      <4>. QED  BY <1>7, <3>1, <4>1
    <3>3. Lifecycle!Advance(u)
      BY <1>6, <2>1, <3>2, Zenon DEF Lifecycle!Advance
    <3>. QED  BY <3>3 DEF Lifecycle!Next
  <2>. QED  BY <1>9, <2>2, <2>3 DEF QuietStep
<1>10. CASE RetryStep(wf, n, r.incident)
  <2>1. Trouble(u)' = "test_flake"
    BY <1>5, <1>10 DEF RetryStep, After, NoAction, CloseAction
  <2>2. /\ phase[u] = "awaiting_test_result" /\ failures[u] = 0
        /\ n.state = "retry_pending" /\ n.attempts = wf.attempts + 1
    <3>1. wf.attempts = 0 /\ n.attempts = 1 => n.attempts = wf.attempts + 1
      OBVIOUS
    <3>. QED  BY <1>7, <1>10, <3>1, Zenon DEF RetryStep
  <2>3. Lifecycle!Retry(u)
    BY <1>8, <2>1, <2>2, Zenon DEF Lifecycle!Retry
  <2>. QED  BY <2>3 DEF Lifecycle!Next
<1>11. CASE HoldStep(wf, n, r.incident)
  <2>1. Trouble(u)' = "repeated_failure"
    BY <1>5, <1>11 DEF HoldStep, After, NoAction, CloseAction
  <2>2. /\ phase[u] = "awaiting_test_result"
        /\ n.state = "on_hold" /\ n.attempts = wf.attempts + 1
    BY <1>7, <1>11 DEF HoldStep
  <2>3. Lifecycle!Hold(u)
    BY <1>8, <2>1, <2>2, Zenon DEF Lifecycle!Hold
  <2>. QED  BY <2>3 DEF Lifecycle!Next
<1>12. CASE PassStep(wf, n, r.incident)
  <2>1. Trouble(u)' = Lifecycle!NoTrouble
    BY <1>5, <1>12 DEF PassStep, After, NoAction, CloseAction, Lifecycle!NoTrouble
  <2>2. /\ phase[u] = "awaiting_test_result"
        /\ n.state = "ready_for_inspection" /\ failuresN = failures
    BY <1>6, <1>7, <1>12 DEF PassStep
  <2>3. Lifecycle!Pass(u)
    BY <1>8, <2>1, <2>2, Zenon DEF Lifecycle!Pass
  <2>. QED  BY <2>3 DEF Lifecycle!Next
<1>13. CASE TimeOutStep(wf, n, r.incident)
  <2>1. Trouble(u)' = "heartbeat_timeout"
    BY <1>5, <1>13 DEF TimeOutStep, After, NoAction, CloseAction
  <2>2. /\ phase[u] \in States
        /\ n.state = "on_hold" /\ failuresN = failures
    BY <1>6, <1>7, <1>13 DEF TimeOutStep
  <2>3. Lifecycle!TimeOut(u)
    BY <1>8, <2>1, <2>2, Zenon DEF Lifecycle!TimeOut
  <2>. QED  BY <2>3 DEF Lifecycle!Next
<1>. QED  BY <1>4, <1>9, <1>10, <1>11, <1>12, <1>13 DEF SomeStep

(* Every step of the service is a step of the lifecycle or none.           *)
LEMMA StepImplements == IInv /\ [Next]_vars => [Lifecycle!Next]_Lifecycle!vars
<1>. SUFFICES ASSUME IInv, [Next]_vars  PROVE [Lifecycle!Next]_Lifecycle!vars
  OBVIOUS
<1>1. CASE Steady
  BY <1>1 DEF Steady, Trouble, Lifecycle!vars
<1>. QED  BY <1>1, StepKinds, CommitImplements

(* The service implements the lifecycle of its units (app.go:215-274).     *)
THEOREM Implementation == Spec => ImplementsLifecycle
<1>. QED  BY InitImplements, StepImplements, Invariance, PTL
          DEF Spec, ImplementsLifecycle, Lifecycle!Spec
=============================================================================
