---------------------- MODULE ConcurrentServiceProofs -----------------------
(***************************************************************************)
(* What the locks of the store are enough for, with any number of          *)
(* goroutines and units, however their requests overlap.                   *)
(***************************************************************************)
EXTENDS ConcurrentService, WorkflowEngineProofs

Answers == {ApplySignal(wf, sig) : wf \in Workflow, sig \in Inputs}
             \cup {ApplyTimer(wf, key) : wf \in Workflow, key \in TimerInputs}
             \cup {Rejected(New)}

Tasks == [at : Places, unit : Units, timer : BOOLEAN,
          event : Inputs \cup TimerInputs \cup {NoEvent},
          next : Workflow, result : Answers,
          found : [id : IncidentIDs \cup {NoIncident}, record : Store!Incident]]

(* A request that has not been answered yet is one a client may send.      *)
Asks(t) ==
  t.at \in {"exists", "append", "load", "apply"}
    => IF t.timer THEN t.event \in TimerInputs ELSE t.event \in Inputs

(* Between its two calls of the store, the incident a goroutine found may  *)
(* have been resolved or given another category, but never another unit.   *)
(* What it is about to show is an incident.                                *)
Finds(t) ==
  /\ t.at = "upsert" =>
       /\ t.found # Nothing =>
            /\ t.found.id \in IncidentIDs
            /\ incidents[t.found.id] # Store!NoRecord
            /\ incidents[t.found.id].unit = t.unit
            /\ t.found.record # Store!NoRecord /\ t.found.record.unit = t.unit
       /\ t.result.incident = CloseAction => t.found # Nothing
  /\ t.at = "show" /\ t.found # Nothing => t.found.record # Store!NoRecord

Fine(t) == t \in Tasks /\ HoldNamed(t.next) /\ Asks(t) /\ Finds(t)

Records ==
  /\ workflows \in [Units -> Workflow] /\ attempts \in [Units -> Nat]
  /\ \A u \in Units : HoldNamed(workflows[u])

Index ==
  /\ incidents \in [IncidentIDs -> Store!Incident]
  /\ openIncident \in [Units -> IncidentIDs \cup {NoIncident}]
  /\ IndexedIncidentsOpen

CInv ==
  /\ Records /\ Index
  /\ task \in [Handlers -> Tasks \cup {Idle}]
  /\ \A h \in Handlers : Busy(h) => Fine(task[h])

(* The store and the idle goroutines that serial requests leave.           *)
LEMMA InitInvariant == Init => CInv
<1>. SUFFICES ASSUME Init  PROVE CInv
  OBVIOUS
<1>1. PICK start \in [Units -> Starts] : workflows = start
  BY DEF Init
<1>2. Records
  <2>1. \A wf \in Starts : wf \in Workflow /\ HoldNamed(wf)
    BY ConcurrentAssumption DEF HoldNamed
  <2>2. attempts \in [Units -> Nat]
    BY DEF Init
  <2>. QED  BY <1>1, <2>1, <2>2 DEF Records
<1>3. Store!NoRecord \in Store!Incident
  BY DEF Store!Incident
<1>4. Index
  BY <1>3 DEF Init, Index, IndexedIncidentsOpen
<1>5. \A h \in Handlers : task[h] = Idle /\ ~ Busy(h)
  BY DEF Init, Busy
<1>6. task \in [Handlers -> Tasks \cup {Idle}]
  BY DEF Init
<1>. QED  BY <1>2, <1>4, <1>5, <1>6 DEF CInv

(* A step that leaves incidents alone, or writes to one without changing   *)
(* its unit, and goes on with a task that is fine.                         *)
LEMMA GoesOn ==
  ASSUME CInv, NEW h \in Handlers, NEW t, task' = [task EXCEPT ![h] = t],
         t = Idle \/ Fine(t)', Records', Index',
         \A i \in IncidentIDs : incidents[i] # Store!NoRecord
            => incidents'[i] # Store!NoRecord /\ incidents'[i].unit = incidents[i].unit
  PROVE  CInv'
<1>1. task' \in [Handlers -> Tasks \cup {Idle}]
  BY DEF CInv, Fine
<1>2. ASSUME NEW g \in Handlers \ {h}, Busy(g)'  PROVE Fine(task[g])'
  <2>1. task'[g] = task[g] /\ Busy(g) /\ Fine(task[g])
    BY <1>2 DEF CInv, Busy
  <2>. QED  BY <2>1 DEF Fine, Asks, Finds, HoldNamed
<1>3. Busy(h)' => Fine(task[h])'
  BY DEF CInv, Busy
<1>. QED  BY <1>1, <1>2, <1>3 DEF CInv

(* A step that leaves the records alone.                                   *)
LEMMA OnlyTheTask ==
  ASSUME CInv, NEW h \in Handlers, NEW t, task' = [task EXCEPT ![h] = t],
         t = Idle \/ Fine(t),
         UNCHANGED <<workflows, attempts, incidents, openIncident>>
  PROVE  CInv'
<1>1. Records' /\ Index'
  BY DEF CInv, Records, Index, IndexedIncidentsOpen, HoldNamed
<1>2. t = Idle \/ Fine(t)'
  BY DEF Fine, Asks, Finds, HoldNamed
<1>. QED  BY <1>1, <1>2, GoesOn

(* Whoever looks up the open incident of a unit finds one of that unit.    *)
LEMMA FoundType ==
  ASSUME Index, NEW u \in Units
  PROVE  LET found == GetOpenIncident(u)
         IN  /\ found \in [id : IncidentIDs \cup {NoIncident},
                         record : Store!Incident]
             /\ found # Nothing =>
                  /\ found.id \in IncidentIDs
                  /\ incidents[found.id] # Store!NoRecord
                  /\ found.record = incidents[found.id]
                  /\ found.record.unit = u
<1>1. Store!NoRecord \in Store!Incident /\ Store!NoRecord.status = ""
  BY DEF Store!Incident, Store!NoRecord
<1>2. CASE openIncident[u] = NoIncident
  BY <1>1, <1>2 DEF GetOpenIncident, Nothing
<1>3. CASE openIncident[u] # NoIncident
  <2>1. /\ openIncident[u] \in IncidentIDs
        /\ incidents[openIncident[u]] \in Store!Incident
        /\ incidents[openIncident[u]].status = "open"
        /\ incidents[openIncident[u]].unit = u
    BY <1>3 DEF Index, IndexedIncidentsOpen
  <2>2. incidents[openIncident[u]] # Store!NoRecord
    BY <1>1, <2>1
  <2>. QED  BY <1>3, <2>1, <2>2 DEF GetOpenIncident
<1>. QED  BY <1>2, <1>3

(* A busy goroutine has a task that is fine.                               *)
LEMMA BusyTask ==
  ASSUME CInv, NEW h \in Handlers, NEW place, At(h, place)
  PROVE  Fine(task[h]) /\ task[h] \in Tasks /\ task[h].at = place
  BY DEF At, CInv, Fine

(* The steps that only take the goroutine to its next place.               *)
LEMMA GotoKeeps ==
  ASSUME CInv, NEW h \in Handlers, NEW place \in Places,
         place \notin {"upsert", "show"}, Busy(h), Goto(h, place),
         place \in {"exists", "append", "load", "apply"} =>
           task[h].at \in {"exists", "append", "load", "apply"},
         UNCHANGED <<workflows, attempts, incidents, openIncident>>
  PROVE  CInv'
<1>. DEFINE t == [task[h] EXCEPT !.at = place]
<1>1. Fine(task[h])
  BY DEF CInv
<1>2. /\ t \in Tasks /\ t.at = place /\ t.next = task[h].next
      /\ t.timer = task[h].timer /\ t.event = task[h].event
  BY <1>1 DEF Fine, Tasks
<1>3. task' = [task EXCEPT ![h] = t]
  BY DEF Goto
<1>. HIDE DEF t
<1>4. Fine(t)
  BY <1>1, <1>2 DEF Fine, Asks, Finds
<1>. QED  BY <1>3, <1>4, OnlyTheTask

(* A goroutine takes a request.                                            *)
LEMMA TakeKeeps ==
  ASSUME CInv, NEW h \in Handlers, NEW u \in Units, NEW isTimer \in BOOLEAN,
         NEW event \in Inputs \cup TimerInputs, NEW place \in {"exists", "load"},
         IF isTimer THEN event \in TimerInputs ELSE event \in Inputs,
         Take(h, u, isTimer, event, place)
  PROVE  CInv'
<1>. DEFINE t == [at |-> place, unit |-> u, timer |-> isTimer, event |-> event,
                  next |-> New, result |-> Rejected(New), found |-> Nothing]
<1>1. New \in Workflow /\ HoldNamed(New)
  BY StationsAssumption DEF New, Workflow, States, HoldReasons, HoldNamed
<1>2. Nothing \in [id : IncidentIDs \cup {NoIncident}, record : Store!Incident]
  BY DEF Nothing, Store!Incident
<1>3. Rejected(New) \in Answers
  BY DEF Answers
<1>4. t \in Tasks
  BY <1>1, <1>2, <1>3 DEF Tasks, Places
<1>5. Fine(t)
  BY <1>1, <1>4 DEF Fine, Asks, Finds
<1>6. /\ task' = [task EXCEPT ![h] = t]
      /\ UNCHANGED <<workflows, attempts, incidents, openIncident>>
  BY DEF Take, memory
<1>. HIDE DEF t
<1>. QED  BY <1>5, <1>6, OnlyTheTask

(* A goroutine is done.                                                    *)
LEMMA FinishKeeps ==
  ASSUME CInv, NEW h \in Handlers, Finish(h),
         UNCHANGED <<workflows, attempts, incidents, openIncident>>
  PROVE  CInv'
  BY OnlyTheTask DEF Finish

-----------------------------------------------------------------------------
(* The steps that do more.                                                 *)

(* The stored snapshot is whole, and so is the one a goroutine loads.      *)
LEMMA GetWorkflowKeeps ==
  ASSUME CInv, NEW h \in Handlers, GetWorkflow(h)  PROVE CInv'
<1>. DEFINE t == [task[h] EXCEPT !.at = "apply", !.next = workflows[task[h].unit]]
<1>1. Fine(task[h]) /\ task[h] \in Tasks /\ task[h].at = "load"
  BY BusyTask DEF GetWorkflow
<1>2. workflows[task[h].unit] \in Workflow /\ HoldNamed(workflows[task[h].unit])
  BY <1>1 DEF CInv, Records, Tasks
<1>3. /\ t \in Tasks /\ t.at = "apply" /\ t.next = workflows[task[h].unit]
      /\ t.timer = task[h].timer /\ t.event = task[h].event
  BY <1>1, <1>2 DEF Tasks, Places
<1>4. /\ task' = [task EXCEPT ![h] = t]
      /\ UNCHANGED <<workflows, attempts, incidents, openIncident>>
  BY DEF GetWorkflow, memory
<1>. HIDE DEF t
<1>5. Fine(t)
  BY <1>1, <1>2, <1>3 DEF Fine, Asks, Finds
<1>. QED  BY <1>4, <1>5, OnlyTheTask

(* The engine answers a whole snapshot with a whole one, although the      *)
(* counter it reads may be ahead of the snapshot.                          *)
LEMMA ApplyKeeps ==
  ASSUME CInv, NEW h \in Handlers, Apply(h)  PROVE CInv'
<1>. DEFINE t  == task[h]
            wf == [t.next EXCEPT !.attempts = attempts[t.unit]]
            place(result) == IF result.next.attempts = wf.attempts THEN "log" ELSE "count"
            done(result)  == [t EXCEPT !.result = result, !.next = result.next,
                                       !.at = place(result)]
<1>1. Fine(t) /\ t \in Tasks /\ t.at = "apply"
  BY BusyTask DEF Apply
<1>2. attempts[t.unit] \in Nat /\ t.next \in Workflow /\ HoldNamed(t.next)
  BY <1>1 DEF Fine, CInv, Records, Tasks
<1>3. wf \in Workflow /\ HoldNamed(wf)
  <2>1. wf \in Workflow /\ wf.state = t.next.state /\ wf.hold = t.next.hold
    BY <1>2 DEF Workflow
  <2>. HIDE DEF wf
  <2>. QED  BY <1>2, <2>1 DEF HoldNamed
<1>4. UNCHANGED <<workflows, attempts, incidents, openIncident>>
  BY DEF Apply, memory
<1>5. ASSUME NEW r \in Answers, r.next \in Workflow, HoldNamed(r.next),
             task' = [task EXCEPT ![h] = done(r)]
      PROVE  CInv'
  <2>. DEFINE d == done(r)
  <2>1. /\ d \in Tasks /\ d.at \in {"log", "count"} /\ d.next = r.next
    <3>1. place(r) \in {"log", "count"} /\ place(r) \in Places
      BY DEF Places
    <3>. HIDE DEF place
    <3>. QED  BY <1>1, <1>5, <3>1 DEF Tasks
  <2>. HIDE DEF done
  <2>2. Fine(d)
    BY <1>5, <2>1 DEF Fine, Asks, Finds
  <2>. QED  BY <1>4, <1>5, <2>2, OnlyTheTask
<1>6. CASE t.timer /\ task' = [task EXCEPT ![h] = done(ApplyTimer(wf, t.event))]
  <2>1. t.event \in TimerInputs /\ t.event \in TimerKey
    BY <1>1, <1>6, ConcurrentAssumption DEF Fine, Asks, Store!Armable, Store!TimerKey,
       Store!TimerTypes, TimerKey, TimerTypes
  <2>. HIDE DEF done, wf, t
  <2>2. ApplyTimer(wf, t.event) \in Answers
    BY <1>3, <2>1 DEF Answers
  <2>3. /\ ApplyTimer(wf, t.event).next \in Workflow
        /\ HoldNamed(ApplyTimer(wf, t.event).next)
    BY <1>3, <2>1, TimerKeepsWhole
  <2>. QED  BY <1>5, <1>6, <2>2, <2>3
<1>7. CASE ~ t.timer /\ task' = [task EXCEPT ![h] = done(ApplySignal(wf, t.event))]
  <2>1. t.event \in Inputs /\ t.event.station \in StationIDs
    BY <1>1, <1>7, ConcurrentAssumption DEF Fine, Asks, Store!Signal
  <2>. HIDE DEF done, wf, t
  <2>2. ApplySignal(wf, t.event) \in Answers
    BY <1>3, <2>1 DEF Answers
  <2>3. /\ ApplySignal(wf, t.event).next \in Workflow
        /\ HoldNamed(ApplySignal(wf, t.event).next)
    BY <1>3, <2>1, SignalKeepsWhole
  <2>. QED  BY <1>5, <1>7, <2>2, <2>3
<1>8. CASE Finish(h)
  BY <1>4, <1>8, FinishKeeps
<1>. QED  BY <1>6, <1>7, <1>8 DEF Apply

(* The shared counter belongs to no snapshot.                              *)
LEMMA CountKeeps ==
  ASSUME CInv, NEW h \in Handlers, Count(h)  PROVE CInv'
<1>0. PICK t : t = [task[h] EXCEPT !.at = "log"]
  OBVIOUS
<1>1. Fine(task[h]) /\ task[h] \in Tasks
  BY BusyTask DEF Count
<1>2. attempts' \in [Units -> Nat]
  BY <1>1 DEF Count, CInv, Records, Tasks, Workflow
<1>3. /\ t \in Tasks /\ t.at = "log" /\ t.next = task[h].next
      /\ task' = [task EXCEPT ![h] = t]
  BY <1>0, <1>1 DEF Tasks, Places, Count, Goto
<1>4. Fine(t)'
  BY <1>1, <1>3 DEF Fine, Asks, Finds, HoldNamed
<1>5. /\ workflows' = workflows /\ incidents' = incidents /\ openIncident' = openIncident
  BY DEF Count
<1>6. Records' /\ Index'
  BY <1>2, <1>5 DEF CInv, Records, Index, IndexedIncidentsOpen, HoldNamed
<1>. QED  BY <1>3, <1>4, <1>5, <1>6, GoesOn

(* What is found under the lock is an incident of the unit                 *)
(* (app.go:276-284).                                                       *)
LEMMA FindIncidentKeeps ==
  ASSUME CInv, NEW h \in Handlers, FindIncident(h)  PROVE CInv'
<1>. DEFINE found == GetOpenIncident(task[h].unit)
            idle  == task[h].result.incident = CloseAction /\ found = Nothing
            place == IF idle THEN "reload" ELSE "upsert"
            t     == [task[h] EXCEPT !.found = found, !.at = place]
<1>1. Fine(task[h]) /\ task[h] \in Tasks
  BY BusyTask DEF FindIncident
<1>2. /\ task' = [task EXCEPT ![h] = t]
      /\ UNCHANGED <<workflows, attempts, incidents, openIncident>>
  BY DEF FindIncident, memory
<1>3. task[h].unit \in Units
  BY <1>1 DEF Tasks
<1>4. /\ found \in [id : IncidentIDs \cup {NoIncident}, record : Store!Incident]
      /\ found # Nothing =>
           /\ found.id \in IncidentIDs
           /\ incidents[found.id] # Store!NoRecord
           /\ found.record = incidents[found.id]
           /\ found.record.unit = task[h].unit
  BY <1>3, FoundType DEF CInv
<1>5. place \in {"reload", "upsert"} /\ place \in Places
  BY DEF Places
<1>6. place = "upsert" /\ task[h].result.incident = CloseAction => found # Nothing
  OBVIOUS
<1>. HIDE DEF found, place
<1>7. /\ t \in Tasks /\ t.at = place /\ t.next = task[h].next /\ t.found = found
      /\ t.unit = task[h].unit /\ t.result = task[h].result
  BY <1>1, <1>4, <1>5 DEF Tasks
<1>. HIDE DEF t
<1>8. Fine(t)
  BY <1>1, <1>4, <1>5, <1>6, <1>7 DEF Fine, Asks, Finds
<1>. QED  BY <1>2, <1>8, OnlyTheTask
(* Putting an incident under an id that has been of the same unit, or of   *)
(* none, leaves the index with open incidents of its units.                *)
LEMMA PutIncidentIndex ==
  ASSUME Index, NEW i \in IncidentIDs, NEW u \in Units,
         NEW record \in Store!Incident \ {Store!NoRecord}, record.unit = u,
         incidents[i] = Store!NoRecord \/ incidents[i].unit = u,
         Store!PutIncident(i, record)
  PROVE  /\ Index'
         /\ \A j \in IncidentIDs : incidents[j] # Store!NoRecord
              => incidents'[j] # Store!NoRecord /\ incidents'[j].unit = incidents[j].unit
<1>1. /\ incidents' = [incidents EXCEPT ![i] = record]
      /\ openIncident' = [openIncident EXCEPT ![u] =
                            IF record.status = "resolved" THEN NoIncident ELSE i]
  BY DEF Store!PutIncident, Store!NoIncident, NoIncident
<1>2. record.status \in {"open", "resolved"}
  BY DEF Store!Incident
<1>3. /\ incidents' \in [IncidentIDs -> Store!Incident]
      /\ openIncident' \in [Units -> IncidentIDs \cup {NoIncident}]
  BY <1>1 DEF Index
<1>4. ASSUME NEW v \in Units, openIncident'[v] # NoIncident
      PROVE  /\ incidents'[openIncident'[v]].status = "open"
             /\ incidents'[openIncident'[v]].unit = v
  <2>1. CASE v = u
    <3>1. openIncident'[v] = i /\ record.status = "open"
      BY <1>1, <1>2, <1>4, <2>1 DEF Index
    <3>2. incidents'[i] = record
      BY <1>1 DEF Index
    <3>. QED  BY <2>1, <3>1, <3>2
  <2>2. CASE v # u
    <3>. DEFINE j == openIncident[v]
    <3>1. /\ openIncident'[v] = j /\ j \in IncidentIDs
          /\ incidents[j].status = "open" /\ incidents[j].unit = v
      BY <1>1, <1>4, <2>2 DEF Index, IndexedIncidentsOpen
    <3>2. Store!NoRecord.status = ""
      BY DEF Store!NoRecord
    <3>3. j # i
      BY <2>2, <3>1, <3>2
    <3>4. incidents'[j] = incidents[j]
      BY <1>1, <3>1, <3>3 DEF Index
    <3>. QED  BY <3>1, <3>4
  <2>. QED  BY <2>1, <2>2
<1>5. ASSUME NEW j \in IncidentIDs, incidents[j] # Store!NoRecord
      PROVE  incidents'[j] # Store!NoRecord /\ incidents'[j].unit = incidents[j].unit
  BY <1>1, <1>5 DEF Index
<1>. QED  BY <1>3, <1>4, <1>5 DEF Index, IndexedIncidentsOpen

(* applyIncidentAction puts what it found, or an incident of its own       *)
(* (app.go:276-309).                                                       *)
LEMMA PutIncidentKeeps ==
  ASSUME CInv, NEW h \in Handlers, PutIncident(h)  PROVE CInv'
<1>. DEFINE t == task[h]
<1>0. Store!NoRecord.status = ""
  BY DEF Store!NoRecord
<1>1. Fine(t) /\ t \in Tasks /\ t.at = "upsert" /\ t.unit \in Units
  BY BusyTask DEF PutIncident, Tasks
<1>2. /\ t.found # Nothing =>
           /\ t.found.id \in IncidentIDs
           /\ incidents[t.found.id] # Store!NoRecord
           /\ incidents[t.found.id].unit = t.unit
           /\ t.found.record # Store!NoRecord /\ t.found.record.unit = t.unit
      /\ t.result.incident = CloseAction => t.found # Nothing
      /\ t.found.record \in Store!Incident
  BY <1>1 DEF Fine, Finds, Tasks
<1>3. PICK i \in IncidentIDs, record \in Store!Incident \ {Store!NoRecord} :
        /\ record.unit = t.unit
        /\ incidents[i] = Store!NoRecord \/ incidents[i].unit = t.unit
        /\ Store!PutIncident(i, record)
  <2>1. CASE t.result.incident = CloseAction
             /\ Store!PutIncident(t.found.id, [t.found.record EXCEPT !.status = "resolved"])
    <3>. DEFINE record == [t.found.record EXCEPT !.status = "resolved"]
    <3>1. /\ t.found.record \in [unit : Units, status : {"open", "resolved"},
                                category : Store!Categories]
      BY <1>2, <2>1 DEF Store!Incident
    <3>2. record \in Store!Incident /\ record.status = "resolved" /\ record.unit = t.unit
      BY <1>2, <2>1, <3>1 DEF Store!Incident
    <3>3. record # Store!NoRecord
      BY <3>2 DEF Store!NoRecord
    <3>. HIDE DEF record, t
    <3>. QED  BY <1>2, <2>1, <3>2, <3>3 DEF record
  <2>2. CASE t.result.incident \in Categories
             /\ \E i \in IncidentIDs :
                  /\ IF t.found # Nothing THEN i = t.found.id
                     ELSE incidents[i] = Store!NoRecord
                  /\ Store!PutIncident(i, Store!Opened(t.unit, t.result.incident))
    <3>. DEFINE record == Store!Opened(t.unit, t.result.incident)
    <3>1. record \in Store!Incident /\ record.unit = t.unit /\ record.status = "open"
      BY <1>1, <2>2 DEF Store!Incident, Store!Opened, Categories, Store!Categories
    <3>. HIDE DEF record, t
    <3>2. record # Store!NoRecord
      BY <1>0, <3>1
    <3>. QED  BY <1>2, <2>2, <3>1, <3>2 DEF record
  <2>. QED  BY <2>1, <2>2 DEF PutIncident
<1>4. PICK d : d = [t EXCEPT !.at = "reload", !.found = Nothing]
  OBVIOUS
<1>5. /\ d \in Tasks /\ d.at = "reload" /\ d.next = t.next
      /\ task' = [task EXCEPT ![h] = d]
      /\ workflows' = workflows /\ attempts' = attempts
  <2>1. Nothing \in [id : IncidentIDs \cup {NoIncident}, record : Store!Incident]
    BY DEF Nothing, Store!Incident
  <2>. QED  BY <1>1, <1>4, <2>1 DEF Tasks, Places, PutIncident
<1>6. Fine(d)'
  BY <1>1, <1>5 DEF Fine, Asks, Finds, HoldNamed
<1>7. /\ Index'
      /\ \A j \in IncidentIDs : incidents[j] # Store!NoRecord
           => incidents'[j] # Store!NoRecord /\ incidents'[j].unit = incidents[j].unit
  BY <1>1, <1>3, PutIncidentIndex DEF CInv
<1>8. Records'
  BY <1>5 DEF CInv, Records, HoldNamed
<1>. QED  BY <1>5, <1>6, <1>7, <1>8, GoesOn

(* Taking over the open incident changes no state and no hold reason.      *)
LEMMA ReloadKeeps ==
  ASSUME CInv, NEW h \in Handlers, Reload(h)  PROVE CInv'
<1>. DEFINE t     == task[h]
            found == GetOpenIncident(t.unit)
            lost  == found = Nothing /\ t.next.incident # NoIncident
            place == IF lost THEN "unlist" ELSE "put"
            id    == IF lost THEN t.next.incident ELSE found.id
            note  == [found EXCEPT !.id = id]
            next  == [t.next EXCEPT !.incident = found.id]
            d     == [t EXCEPT !.at = place, !.result = Rejected(New),
                               !.found = note, !.next = next]
<1>1. Fine(t) /\ t \in Tasks /\ t.unit \in Units /\ t.next \in Workflow /\ HoldNamed(t.next)
  BY BusyTask DEF Reload, Tasks, Fine
<1>2. found \in [id : IncidentIDs \cup {NoIncident}, record : Store!Incident]
  BY <1>1, FoundType DEF CInv
<1>3. task' = [task EXCEPT ![h].at = place, ![h].result = Rejected(New),
                           ![h].found = note, ![h].next.incident = found.id]
  BY DEF Reload
<1>4. UNCHANGED <<workflows, attempts, incidents, openIncident>>
  BY DEF Reload, memory
<1>5. place \in {"unlist", "put"} /\ place \in Places
  BY DEF Places
<1>6. id \in IncidentIDs \cup {NoIncident}
  BY <1>1, <1>2 DEF Workflow
<1>. HIDE DEF found, lost, place, id
<1>7. /\ note \in [id : IncidentIDs \cup {NoIncident}, record : Store!Incident]
      /\ next \in Workflow /\ next.state = t.next.state /\ next.hold = t.next.hold
  BY <1>1, <1>2, <1>6 DEF Workflow
<1>8. Rejected(New) \in Answers
  BY DEF Answers
<1>9. task' = [task EXCEPT ![h] = d]
  <2>. HIDE DEF note
  <2>. QED  BY <1>1, <1>3 DEF Tasks, CInv
<1>. HIDE DEF note, next
<1>10. d \in Tasks /\ d.at = place /\ d.next = next
  BY <1>1, <1>5, <1>7, <1>8 DEF Tasks
<1>. HIDE DEF d
<1>11. Fine(d)
  BY <1>1, <1>5, <1>7, <1>10 DEF Fine, Asks, Finds, HoldNamed
<1>. QED  BY <1>4, <1>9, <1>11, OnlyTheTask
(* A snapshot is stored in one piece (memory.go:99-105).                   *)
LEMMA PutWorkflowKeeps ==
  ASSUME CInv, NEW h \in Handlers, PutWorkflow(h)  PROVE CInv'
<1>1. /\ Fine(task[h]) /\ task[h] \in Tasks /\ task[h].unit \in Units
      /\ task[h].next \in Workflow /\ HoldNamed(task[h].next)
  BY BusyTask DEF PutWorkflow, Tasks, Fine
<1>2. PICK d : d = [task[h] EXCEPT !.at = "status"]
  OBVIOUS
<1>3. /\ d \in Tasks /\ d.at = "status" /\ d.next = task[h].next
      /\ task' = [task EXCEPT ![h] = d]
      /\ attempts' = attempts /\ incidents' = incidents /\ openIncident' = openIncident
  BY <1>1, <1>2 DEF Tasks, Places, PutWorkflow, Goto
<1>4. Fine(d)'
  BY <1>1, <1>3 DEF Fine, Asks, Finds, HoldNamed
<1>5. PICK wf : wf = [task[h].next EXCEPT !.attempts = 0]
  OBVIOUS
<1>6. /\ wf \in Workflow /\ HoldNamed(wf)
      /\ workflows' = [workflows EXCEPT ![task[h].unit] = wf]
  BY <1>1, <1>5 DEF Workflow, HoldNamed, PutWorkflow
<1>7. Records'
  BY <1>1, <1>3, <1>6 DEF CInv, Records, HoldNamed
<1>8. Index'
  BY <1>3 DEF CInv, Index, IndexedIncidentsOpen
<1>. QED  BY <1>3, <1>4, <1>7, <1>8, GoesOn

(* The projections only read the index and the incidents.                  *)
LEMMA LooksKeep ==
  ASSUME CInv, NEW h \in Handlers, LookUpIncident(h) \/ ShowIncident(h)
  PROVE  CInv'
<1>1. Fine(task[h]) /\ task[h] \in Tasks /\ task[h].unit \in Units
  BY BusyTask DEF LookUpIncident, ShowIncident, Tasks
<1>2. UNCHANGED <<workflows, attempts, incidents, openIncident>>
  BY DEF LookUpIncident, ShowIncident, memory
<1>3. ASSUME NEW place \in {"show", "station"},
             NEW found \in [id : IncidentIDs \cup {NoIncident},
                           record : Store!Incident],
             place = "show" /\ found # Nothing => found.record # Store!NoRecord,
             task' = [task EXCEPT ![h].at = place, ![h].found = found]
      PROVE  CInv'
  <2>. DEFINE d == [task[h] EXCEPT !.at = place, !.found = found]
  <2>1. d \in Tasks /\ d.at = place /\ d.next = task[h].next /\ d.found = found
    BY <1>1 DEF Tasks, Places
  <2>2. task' = [task EXCEPT ![h] = d]
    BY <1>3
  <2>. HIDE DEF d
  <2>3. Fine(d)
    BY <1>1, <1>3, <2>1 DEF Fine, Asks, Finds
  <2>. QED  BY <1>2, <2>2, <2>3, OnlyTheTask
<1>4. CASE LookUpIncident(h)
  <2>. DEFINE found == GetOpenIncident(task[h].unit)
  <2>1. /\ found \in [id : IncidentIDs \cup {NoIncident}, record : Store!Incident]
        /\ found # Nothing => found.record # Store!NoRecord
        /\ task' = [task EXCEPT ![h].at = "show", ![h].found = found]
    BY <1>1, <1>4, FoundType DEF LookUpIncident, CInv
  <2>. HIDE DEF found
  <2>. QED  BY <1>3, <2>1
<1>5. CASE ShowIncident(h)
  <2>1. /\ Nothing \in [id : IncidentIDs \cup {NoIncident}, record : Store!Incident]
        /\ task' = [task EXCEPT ![h].at = "station", ![h].found = Nothing]
    BY <1>5 DEF ShowIncident, Nothing, Store!Incident
  <2>. QED  BY <1>3, <2>1
<1>. QED  BY <1>4, <1>5

(* Each step of a goroutine keeps the invariant.                           *)
LEMMA StepInvariant ==
  ASSUME CInv, NEW h \in Handlers, Step(h)  PROVE CInv'
<1>1. CASE SignalExists(h)
  <2>1. CASE Goto(h, "append")
    BY <1>1, <2>1, GotoKeeps DEF SignalExists, At, memory, Places
  <2>2. CASE Finish(h)
    BY <1>1, <2>2, FinishKeeps DEF SignalExists, memory
  <2>. QED  BY <1>1, <2>1, <2>2 DEF SignalExists
<1>2. CASE AppendSignal(h)
  BY <1>2, GotoKeeps DEF AppendSignal, At, Places
<1>3. CASE AppendDecisions(h)
  <2>1. Fine(task[h]) /\ task[h] \in Tasks
    BY <1>3, BusyTask DEF AppendDecisions
  <2>. DEFINE d == [task[h] EXCEPT !.at = "cancel", !.timer = FALSE, !.event = NoEvent]
  <2>2. /\ d \in Tasks /\ d.at = "cancel" /\ d.next = task[h].next
        /\ task' = [task EXCEPT ![h] = d]
        /\ UNCHANGED <<workflows, attempts, incidents, openIncident>>
    BY <1>3, <2>1 DEF Tasks, Places, AppendDecisions
  <2>. HIDE DEF d
  <2>3. Fine(d)
    BY <2>1, <2>2 DEF Fine, Asks, Finds
  <2>. QED  BY <2>2, <2>3, OnlyTheTask
<1>4. CASE CancelTimers(h)
  BY <1>4, GotoKeeps DEF CancelTimers, At, Places
<1>5. CASE ScheduleTimers(h)
  <2>1. PICK place \in {"reload", "find"} : Goto(h, place)
    BY <1>5 DEF ScheduleTimers
  <2>. QED  BY <1>5, <2>1, GotoKeeps DEF ScheduleTimers, At, Places
<1>6. CASE DeleteIncidentView(h)
  BY <1>6, GotoKeeps DEF DeleteIncidentView, At, Places
<1>7. CASE PutUnitStatus(h)
  BY <1>7, GotoKeeps DEF PutUnitStatus, At, Places
<1>8. CASE PutStationHealth(h)
  BY <1>8, FinishKeeps DEF PutStationHealth
<1>. QED  BY <1>1, <1>2, <1>3, <1>4, <1>5, <1>6, <1>7, <1>8, GetWorkflowKeeps,
             ApplyKeeps, CountKeeps, FindIncidentKeeps, PutIncidentKeeps,
             ReloadKeeps, PutWorkflowKeeps, LooksKeep DEF Step

(* Each request and each step keeps the invariant.                         *)
LEMMA NextInvariant == CInv /\ [Next]_vars => CInv'
<1>. SUFFICES ASSUME CInv, [Next]_vars  PROVE CInv'
  OBVIOUS
<1>1. CASE UNCHANGED vars
  BY <1>1 DEF vars, memory, CInv, Records, Index, IndexedIncidentsOpen, Busy, Fine,
              Asks, Finds, HoldNamed
<1>2. ASSUME NEW h \in Handlers, NEW sig \in Inputs, TakeSignal(h, sig)  PROVE CInv'
  <2>1. sig.unit \in Units
    BY ConcurrentAssumption DEF Store!Signal
  <2>. QED  BY <1>2, <2>1, TakeKeeps DEF TakeSignal
<1>3. ASSUME NEW h \in Handlers, NEW u \in Units, NEW key \in TimerInputs,
             TakeTimer(h, u, key)
      PROVE  CInv'
  BY <1>3, TakeKeeps DEF TakeTimer
<1>. QED  BY <1>1, <1>2, <1>3, StepInvariant DEF Next

(* The invariant holds, however requests overlap.                          *)
LEMMA Invariance == Spec => []CInv
<1>. QED  BY InitInvariant, NextInvariant, PTL DEF Spec

-----------------------------------------------------------------------------
(* However many requests overlap, the index only names open incidents of   *)
(* the unit it is asked for: both maps change under one lock               *)
(* (memory.go:130-141).                                                    *)
THEOREM IndexNamesOpen == Spec => []IndexedIncidentsOpen
<1>1. CInv => IndexedIncidentsOpen
  BY DEF CInv, Index
<1>. QED  BY <1>1, Invariance, PTL

(* However many requests overlap, a stored snapshot is on hold exactly     *)
(* with a hold reason: it is one answer of the engine, stored whole.       *)
THEOREM WholeSnapshots == Spec => []SnapshotsWhole
<1>1. CInv => SnapshotsWhole
  BY DEF CInv, Records, HoldNamed, SnapshotsWhole
<1>. QED  BY <1>1, Invariance, PTL
-----------------------------------------------------------------------------
(* The types of what no step reads back but to write it again.             *)

(* The operators of the store speak of the same types as the goroutines.   *)
LEMMA StoreTypes ==
  /\ Store!States = States /\ Store!DecisionTypes = DecisionTypes
  /\ Store!Categories = Categories /\ Store!NoAction = NoAction
  /\ Store!NoIncident = NoIncident /\ Store!TimerKey = TimerKey
  /\ Store!HoldReasons = HoldReasons /\ Store!Workflow = Workflow
<1>1. /\ Store!States = States /\ Store!DecisionTypes = DecisionTypes
      /\ Store!Categories = Categories /\ Store!NoAction = NoAction
  BY DEF Store!States, States, Store!DecisionTypes, DecisionTypes,
         Store!Categories, Categories, Store!NoAction, NoAction
<1>2. Store!NoIncident = NoIncident
  BY Zenon DEF Store!NoIncident, NoIncident
<1>3. Store!TimerKey = TimerKey
  BY DEF Store!TimerKey, TimerKey, Store!TimerTypes, TimerTypes
<1>4. Store!HoldReasons = HoldReasons
  BY DEF Store!HoldReasons, HoldReasons, Store!ReasonCodes, ReasonCodes,
         Store!TimerTypes, TimerTypes
<1>5. Store!Workflow = Workflow
  BY <1>1, <1>2, <1>3, <1>4, Zenon DEF Store!Workflow, Workflow
<1>. QED  BY <1>1, <1>2, <1>3, <1>4, <1>5

Past == [state : States, last : DecisionTypes \cup {""}]

Types ==
  /\ timers \in [Units -> SUBSET TimerKey]
  /\ signals \in [SignalIDs -> {"unseen", "recorded", "decided"}]
  /\ history \in [Units -> Past]
  /\ unitViews \in [Units -> Store!UnitViewType]
  /\ incidentViews \in [IncidentIDs -> Categories \cup {NoAction}]
  /\ stationViews \in [StationIDs ->
                         [unit : Units, status : {"active", "blocked"}]
                           \cup {Store!NoView}]

(* The answers of the engine are results.                                  *)
LEMMA AnswersType == Answers \subseteq Result
<1>1. \A wf \in Workflow, sig \in Inputs : ApplySignal(wf, sig) \in Result
  BY ApplySignalType, ConcurrentAssumption DEF Store!Signal
<1>2. TimerInputs \subseteq TimerKey
  BY ConcurrentAssumption, StoreTypes DEF Store!Armable
<1>3. \A wf \in Workflow, key \in TimerInputs : ApplyTimer(wf, key) \in Result
  BY <1>2, ApplyTimerType
<1>4. Rejected(New) \in Result
  <2>1. New \in Workflow
    BY StationsAssumption DEF New, Workflow, States, HoldReasons
  <2>. QED  BY <2>1, RejectedType
<1>. QED  BY <1>1, <1>3, <1>4 DEF Answers

(* The fold of a unit's decisions is a state and a type of decision.       *)
LEMMA ReplayType ==
  ASSUME NEW past \in Past, NEW ds \in Seq(DecisionRecord) \ {<<>>}
  PROVE  Store!Replay(past, ds) \in Past
<1>. DEFINE moves == {i \in DOMAIN ds : ds[i].type = "transition_state"}
            k     == CHOOSE i \in moves : TRUE
            final == ds[Len(ds)]
<1>1. Store!Replay(past, ds) = [state |-> IF moves = {} THEN past.state ELSE ds[k].to,
                                last  |-> final.type]
  BY DEF Store!Replay
<1>2. \A d \in DecisionRecord :
        d.type \in DecisionTypes /\ (d.type = "transition_state" => d.to \in States)
  <2>1. \A t : Decision(t).type = t
    BY DEF Decision
  <2>2. \A s : Transition(s).type = "transition_state" /\ Transition(s).to = s
    BY DEF Transition
  <2>3. "transition_state" \in DecisionTypes
    BY DEF DecisionTypes
  <2>. QED  BY <2>1, <2>2, <2>3 DEF DecisionRecord
<1>3. final.type \in DecisionTypes
  BY <1>2
<1>4. moves # {} => ds[k].to \in States
  <2>1. moves # {} => k \in moves
    OBVIOUS
  <2>. HIDE DEF k
  <2>. QED  BY <1>2, <2>1
<1>. HIDE DEF moves, k, final
<1>5. (IF moves = {} THEN past.state ELSE ds[k].to) \in States
  BY <1>4 DEF Past
<1>6. \A s \in States, t \in DecisionTypes : [state |-> s, last |-> t] \in Past
  BY DEF Past
<1>. QED  BY <1>1, <1>3, <1>5, <1>6, Zenon

(* The store that serial requests leave is typed.                          *)
LEMMA InitTypes == Init => Types
<1>. SUFFICES ASSUME Init  PROVE Types
  OBVIOUS
<1>1. PICK start \in [Units -> Starts] :
        /\ timers = [u \in Units |-> start[u].timers]
        /\ history = [u \in Units |->
                        [state |-> start[u].state, last |-> "transition_state"]]
        /\ unitViews = [u \in Units |-> Store!UnitView(start[u], "transition_state")]
  BY Zenon DEF Init
<1>2. \A u \in Units : start[u] \in Workflow
  BY ConcurrentAssumption
<1>3. timers \in [Units -> SUBSET TimerKey]
  BY <1>1, <1>2 DEF Workflow
<1>4. history \in [Units -> Past]
  BY <1>1, <1>2 DEF Workflow, Past, DecisionTypes
<1>5. \A wf \in Workflow : Store!UnitView(wf, "transition_state") \in Store!UnitViewType
  BY StoreTypes DEF Store!UnitView, Store!UnitViewType, Workflow, DecisionTypes
<1>6. unitViews \in [Units -> Store!UnitViewType]
  BY <1>1, <1>2, <1>5
<1>7. signals \in [SignalIDs -> {"unseen", "recorded", "decided"}]
  BY DEF Init
<1>8. incidentViews \in [IncidentIDs -> Categories \cup {NoAction}]
  BY DEF Init
<1>9. stationViews \in [StationIDs -> [unit : Units, status : {"active", "blocked"}]
                                        \cup {Store!NoView}]
  <2>1. stationViews = [s \in StationIDs |->
          IF s \in Passed THEN [unit |-> LastUnit, status |-> "active"] ELSE Store!NoView]
    BY Zenon DEF Init
  <2>2. Passed # {} => LastUnit \in Units
    BY ConcurrentAssumption DEF LastUnit
  <2>. QED  BY <2>1, <2>2
<1>. QED  BY <1>3, <1>4, <1>6, <1>7, <1>8, <1>9 DEF Types

(* A signal is put on record under an id that is followed or under none.   *)
LEMMA RecordType ==
  ASSUME signals \in [SignalIDs -> {"unseen", "recorded", "decided"}],
         NEW sig, NEW status \in {"recorded", "decided"}, Store!Record(sig, status)
  PROVE  signals' \in [SignalIDs -> {"unseen", "recorded", "decided"}]
  BY DEF Store!Record

(* Each step of a goroutine writes what it should, where it should.        *)
LEMMA StepTypes ==
  ASSUME CInv, Types, NEW h \in Handlers, Step(h)  PROVE Types'
<1>. DEFINE t == task[h]
            Kept == <<timers, signals, history, unitViews, incidentViews, stationViews>>
<1>1. ASSUME NEW place, At(h, place)
      PROVE  /\ t.at = place /\ t.unit \in Units /\ t.next \in Workflow
             /\ t.result \in Result /\ Finds(t)
             /\ t.found \in [id : IncidentIDs \cup {NoIncident}, record : Store!Incident]
  BY <1>1, BusyTask, AnswersType DEF Fine, Tasks
<1>2. CASE UNCHANGED Kept
  BY <1>2 DEF Types
<1>3. CASE \/ SignalExists(h) \/ GetWorkflow(h) \/ Apply(h) \/ FindIncident(h)
           \/ Reload(h) \/ LookUpIncident(h)
  BY <1>2, <1>3 DEF SignalExists, GetWorkflow, Apply, FindIncident, Reload,
     LookUpIncident, memory
<1>4. CASE Count(h) \/ PutIncident(h) \/ PutWorkflow(h)
  BY <1>2, <1>4 DEF Count, PutIncident, PutWorkflow, Views
<1>5. CASE AppendSignal(h)
  BY <1>5, RecordType DEF AppendSignal, Views, Types
<1>6. CASE AppendDecisions(h)
  <2>1. t.result.decisions \in Seq(DecisionRecord) \ {<<>>}
    BY <1>1, <1>6 DEF AppendDecisions, Result
  <2>2. \A past \in Past : Store!Replay(past, t.result.decisions) \in Past
    BY <2>1, ReplayType
  <2>3. history' \in [Units -> Past]
    BY <1>6, <2>2 DEF AppendDecisions, Types
  <2>4. signals' \in [SignalIDs -> {"unseen", "recorded", "decided"}]
    BY <1>6, RecordType DEF AppendDecisions, Types
  <2>. QED  BY <1>6, <2>3, <2>4 DEF AppendDecisions, Views, Types
<1>7. CASE CancelTimers(h)
  BY <1>7 DEF CancelTimers, Views, Types
<1>8. CASE ScheduleTimers(h)
  <2>1. t.result.start \in SUBSET TimerKey
    BY <1>1, <1>8 DEF ScheduleTimers, Result
  <2>. QED  BY <1>8, <2>1 DEF ScheduleTimers, Views, Types
<1>9. CASE DeleteIncidentView(h)
  BY <1>9 DEF DeleteIncidentView, Types
<1>10. CASE PutUnitStatus(h)
  <2>. DEFINE u  == t.unit
              wf == [t.next EXCEPT !.attempts = attempts[u]]
  <2>1. t.next \in Workflow /\ u \in Units /\ attempts[u] \in Nat
    BY <1>1, <1>10 DEF PutUnitStatus, CInv, Records
  <2>2. wf \in Workflow
    BY <2>1 DEF Workflow
  <2>3. history[u].last \in DecisionTypes \cup {""}
    BY <2>1 DEF Types, Past
  <2>4. \A w \in Workflow, l \in DecisionTypes \cup {""} :
          Store!UnitView(w, l) \in Store!UnitViewType
    BY StoreTypes DEF Store!UnitView, Store!UnitViewType, Workflow
  <2>5. /\ unitViews' = [unitViews EXCEPT ![u] = Store!UnitView(wf, history[u].last)]
        /\ UNCHANGED <<timers, signals, history, incidentViews, stationViews>>
    BY <1>10 DEF PutUnitStatus
  <2>. HIDE DEF wf, u
  <2>. QED  BY <2>2, <2>3, <2>4, <2>5 DEF Types
<1>11. CASE ShowIncident(h)
  <2>1. t.found # Nothing => t.found.record.category \in Categories
    BY <1>1, <1>11, StoreTypes DEF ShowIncident, Finds, Store!Incident
  <2>2. incidentViews' \in [IncidentIDs -> Categories \cup {NoAction}]
    BY <1>11, <2>1 DEF ShowIncident, Types
  <2>. QED  BY <1>11, <2>2 DEF ShowIncident, Types
<1>12. CASE PutStationHealth(h)
  <2>1. t.unit \in Units
    BY <1>1, <1>12 DEF PutStationHealth
  <2>2. stationViews' \in [StationIDs -> [unit : Units, status : {"active", "blocked"}]
                                         \cup {Store!NoView}]
    BY <1>12, <2>1 DEF PutStationHealth, Store!PutStationHealth, Types
  <2>. QED  BY <1>12, <2>2 DEF PutStationHealth, Types
<1>. QED  BY <1>3, <1>4, <1>5, <1>6, <1>7, <1>8, <1>9, <1>10, <1>11, <1>12 DEF Step

(* Each request and each step keeps the types.                             *)
LEMMA TypesInvariant == CInv /\ Types /\ [Next]_vars => Types'
<1>. SUFFICES ASSUME CInv, Types, [Next]_vars  PROVE Types'
  OBVIOUS
<1>1. CASE UNCHANGED <<timers, signals, history, unitViews, incidentViews, stationViews>>
  BY <1>1 DEF Types
<1>2. CASE UNCHANGED vars
  BY <1>1, <1>2 DEF vars, memory
<1>3. ASSUME NEW h \in Handlers, NEW sig, TakeSignal(h, sig)  PROVE Types'
  BY <1>1, <1>3 DEF TakeSignal, Take, memory
<1>4. ASSUME NEW h \in Handlers, NEW u, NEW key, TakeTimer(h, u, key)  PROVE Types'
  BY <1>1, <1>4 DEF TakeTimer, Take, memory
<1>. QED  BY <1>2, <1>3, <1>4, StepTypes DEF Next

(* What the invariants say of the types is all there is to say.            *)
LEMMA WellTyped == CInv /\ Types => TypeOK
<1>. SUFFICES ASSUME CInv, Types  PROVE TypeOK
  OBVIOUS
<1>1. \A u \in Units : Snapshot(u) \in Workflow
  BY DEF CInv, Records, Snapshot, Workflow
<1>2. [u \in Units |-> Snapshot(u)] \in [Units -> Store!Workflow]
  BY <1>1, StoreTypes
<1>3. Store!TypeOK
  <2>1. /\ timers \in [Units -> SUBSET Store!TimerKey]
        /\ history \in [Units -> [state : Store!States,
                                  last : Store!DecisionTypes \cup {""}]]
        /\ incidents \in [IncidentIDs -> Store!Incident]
        /\ openIncident \in [Units -> IncidentIDs \cup {Store!NoIncident}]
        /\ incidentViews \in [IncidentIDs -> Store!Categories \cup {Store!NoAction}]
    BY StoreTypes, Zenon DEF Types, Past, CInv, Index
  <2>. QED  BY <1>2, <2>1, Zenon DEF Store!TypeOK, Types
<1>4. \A h \in Handlers :
        Busy(h) => /\ task[h].at \in Places /\ task[h].unit \in Units
                   /\ task[h].next \in Workflow
                   /\ task[h].found.id \in IncidentIDs \cup {NoIncident}
  BY DEF CInv, Fine, Tasks
<1>. QED  BY <1>3, <1>4 DEF TypeOK

(* However requests overlap, all the store holds and all the goroutines    *)
(* work on stays of its type: no incident without a category is shown,     *)
(* though it may have been resolved since it was looked up.                *)
THEOREM TypesKept == Spec => []TypeOK
<1>. QED  BY WellTyped, InitTypes, TypesInvariant, Invariance, PTL DEF Spec
=============================================================================
