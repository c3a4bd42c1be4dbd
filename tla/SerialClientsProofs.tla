------------------------ MODULE SerialClientsProofs -------------------------
(***************************************************************************)
(* That clients who wait for their answers see a service that does one     *)
(* request at a time, with any number of units and goroutines.             *)
(***************************************************************************)
EXTENDS SerialClients, ConcurrentServiceProofs, FiniteSetTheorems

(***************************************************************************)
(* How far a goroutine with the task t has taken a request of a unit: b is *)
(* what the store held for the unit before, p what it holds now.           *)
(***************************************************************************)

(* The request: a signal, or a timer to fire.                              *)
Asked(u, isTimer, event) ==
  IF isTimer THEN <<u, event>> \in TimerRequests
             ELSE event \in Inputs /\ event.unit = u

Answer(wf, isTimer, event) ==
  IF isTimer THEN ApplyTimer(wf, event) ELSE ApplySignal(wf, event)

(* Places in the order in which a goroutine gets to them.                  *)
Asking      == {"exists", "append", "load", "apply"}
Unlogged    == Asking \cup {"count", "log"}
Uncancelled == Unlogged \cup {"cancel"}
Unacted     == Uncancelled \cup {"schedule", "find", "upsert"}
Viewed      == {"look", "show", "station"}
Stored      == {"status"} \cup Viewed
Reloaded    == {"unlist", "put"} \cup Stored

FoundIn(p) == IF p.open = NoIncident THEN Nothing
              ELSE [id |-> p.open, record |-> p.incidents[p.open]]

(* What an incident action makes of the incidents of a unit.               *)
Acts(u, b, p, action) ==
  \/ /\ action \in Categories
     /\ \E i \in IncidentIDs :
          /\ IF b.open # NoIncident THEN i = b.open
                                    ELSE b.incidents[i] = Store!NoRecord
          /\ p.incidents = [b.incidents EXCEPT ![i] = Store!Opened(u, action)]
          /\ p.open = i
  \/ /\ action = CloseAction /\ b.open # NoIncident
     /\ p.incidents = [b.incidents EXCEPT ![b.open] =
                         [b.incidents[b.open] EXCEPT !.status = "resolved"]]
     /\ p.open = NoIncident
  \/ /\ \/ action = NoAction
        \/ action = CloseAction /\ b.open = NoIncident
     /\ p.incidents = b.incidents /\ p.open = b.open

RequestKept(u, b, t, isTimer, event) ==
  /\ t.unit = u /\ Asked(u, isTimer, event)
  /\ b.id = IF isTimer THEN Fresh ELSE event.id
  /\ t.at \in Unlogged => t.timer = isTimer /\ t.event = event
  /\ isTimer => t.at \notin {"exists", "append"}
  /\ ~ isTimer =>
       /\ event.type = "test.failed" => b.snapshot.attempts < MaxAttempts
       /\ t.at \notin Asking => ~ DecodeFails(b.snapshot, event)

SignalKept(b, p, t) ==
  b.id \in SignalIDs =>
    /\ t.at # "exists" => b.status = "unseen"
    /\ p.status = IF t.at \in {"exists", "append"} THEN b.status
                  ELSE IF t.at \in Unlogged THEN "recorded" ELSE "decided"

SnapshotKept(b, p, t, r) ==
  p.snapshot =
    IF t.at \in Stored THEN [r.next EXCEPT !.incident = p.open]
    ELSE IF t.at \in Asking \cup {"count"} THEN b.snapshot
    ELSE [b.snapshot EXCEPT !.attempts = r.next.attempts]

RecordsKept(b, p, t, r) ==
  /\ p.history = IF t.at \in Unlogged THEN b.history
                 ELSE Store!Replay(b.history, r.decisions)
  /\ p.timers = IF t.at \in Uncancelled THEN b.timers
                ELSE IF t.at = "schedule" THEN b.timers \ r.cancel
                ELSE (b.timers \ r.cancel) \cup r.start

IncidentsKept(u, b, p, t, r) ==
  IF t.at \in Unacted THEN p.incidents = b.incidents /\ p.open = b.open
  ELSE Acts(u, b, p, r.incident)

ViewsKept(b, p, t, r) ==
  /\ p.view = IF t.at \in Viewed
              THEN Store!UnitView(p.snapshot, p.history.last) ELSE b.view
  /\ p.dashboard =
       IF t.at \in Reloaded \ {"unlist"} /\ p.open = NoIncident
            /\ r.next.incident # NoIncident
       THEN [b.dashboard EXCEPT ![r.next.incident] = NoAction]
       ELSE IF t.at = "station" /\ p.open # NoIncident
       THEN [b.dashboard EXCEPT ![p.open] = p.incidents[p.open].category]
       ELSE b.dashboard

TaskKept(b, p, t, r) ==
  /\ t.at = "apply" => t.next = [b.snapshot EXCEPT !.attempts = 0]
  /\ t.at \notin Asking \cup Reloaded => t.next = r.next /\ t.result = r
  /\ t.at \in Reloaded => t.next = [r.next EXCEPT !.incident = p.open]
  /\ t.at \in {"find", "upsert"} => r.incident # NoAction
  /\ t.at = "upsert" =>
       t.found = FoundIn(b) /\ (r.incident = CloseAction => b.open # NoIncident)
  /\ t.at = "unlist" =>
       t.found.id = r.next.incident /\ t.found.id # NoIncident /\ p.open = NoIncident
  /\ t.at = "show" => t.found = FoundIn(p)

Advanced(u, b, p, t, isTimer, event) ==
  LET r == Answer(b.snapshot, isTimer, event)
  IN  /\ RequestKept(u, b, t, isTimer, event) /\ SignalKept(b, p, t)
      /\ SnapshotKept(b, p, t, r) /\ RecordsKept(b, p, t, r)
      /\ IncidentsKept(u, b, p, t, r) /\ ViewsKept(b, p, t, r)
      /\ TaskKept(b, p, t, r)

-----------------------------------------------------------------------------
(* One goroutine works on a unit with a request; the unit held no incident *)
(* before that it does not hold now.                                       *)
PartType ==
  [snapshot : Workflow, timers : SUBSET TimerKey,
   history : [state : States, last : DecisionTypes \cup {""}],
   incidents : [IncidentIDs -> Store!Incident],
   open : IncidentIDs \cup {NoIncident}, view : Store!UnitViewType,
   dashboard : [IncidentIDs -> Categories \cup {NoAction}],
   id : SignalIDs \cup {Fresh}, status : {"unseen", "recorded", "decided"}]

Holder(u, h) == Busy(h) /\ task[h].unit = u

Held(u, b) ==
  /\ b \in PartType
  /\ \A i \in IncidentIDs :
       /\ ~ Owns(u, i) => /\ b.incidents[i] = Store!NoRecord
                          /\ b.dashboard[i] = NoAction
       /\ b.incidents[i] # Store!NoRecord => b.incidents[i].unit = u

UnderWay(u, h) ==
  /\ \A g \in Handlers : Holder(u, g) => g = h
  /\ Held(u, before[u])
  /\ LET Reached(isTimer, event) ==
           Advanced(u, before[u], Part(u, before[u].id), task[h], isTimer, event)
     IN  \/ \E sig \in Inputs : Reached(FALSE, sig)
         \/ \E key \in TimerInputs : Reached(TRUE, key)

(* The snapshots proper hold no counter; an incident no one has opened is  *)
(* not on the dashboard.                                                   *)
Still ==
  /\ \A u \in Units : workflows[u].attempts = 0
  /\ \A i \in IncidentIDs :
       incidents[i] = Store!NoRecord => incidentViews[i] = NoAction

Discipline ==
  /\ before \in [Units -> PartType \cup {Blank}]
  /\ \A u \in Units : Begun(u) <=> ~ Quiet(u)
  /\ Still
  /\ \A u \in Units, h \in Handlers : Holder(u, h) => UnderWay(u, h)

-----------------------------------------------------------------------------
(* Each step of a goroutine takes its request one place further.           *)

(* A goroutine that works on a request of a unit.                          *)
Serving(u, h, b, isTimer, event) ==
  /\ CInv /\ Types /\ Still /\ u \in Units
  /\ Holder(u, h) /\ Held(u, b)
  /\ Contract(b.snapshot, Answer(b.snapshot, isTimer, event))
  /\ b.snapshot.incident = b.open
  /\ b.open # NoIncident => b.incidents[b.open] # Store!NoRecord
  /\ Advanced(u, b, Part(u, b.id), task[h], isTimer, event)

(* A step for one unit leaves what the store holds for the others alone,   *)
(* and of the incidents without a unit at most makes one its own.          *)
Local(u, id) ==
  /\ \A v \in Units \ {u} :
       /\ Snapshot(v)' = Snapshot(v) /\ timers'[v] = timers[v]
       /\ history'[v] = history[v] /\ openIncident'[v] = openIncident[v]
       /\ unitViews'[v] = unitViews[v]
  /\ \A i \in IncidentIDs :
       \/ Owns(u, i)' /\ (Owns(u, i) \/ incidents[i] = Store!NoRecord)
       \/ incidents'[i] = incidents[i] /\ incidentViews'[i] = incidentViews[i]
  /\ \A i \in SignalIDs : i # id => signals'[i] = signals[i]

(* The goroutine goes on at a place; the rest of its task stays.           *)
Moved(t, s, place) ==
  /\ s.at = place /\ s.unit = t.unit /\ s.timer = t.timer /\ s.event = t.event
  /\ s.next = t.next /\ s.result = t.result /\ s.found = t.found

(* That is what Goto does.                                                 *)
LEMMA GotoMoves ==
  ASSUME CInv, NEW h \in Handlers, NEW place, Busy(h), Goto(h, place)
  PROVE  Moved(task[h], task'[h], place)
BY DEF CInv, Goto, Moved, Fine, Tasks

(* A counter put back as it was changes nothing.                           *)
LEMMA SameAttempts ==
  ASSUME NEW wf \in Workflow
  PROVE  [wf EXCEPT !.attempts = wf.attempts] = wf
BY DEF Workflow

(* Where the store stays as it is nothing of a unit changes.               *)
LEMMA PartStays ==
  ASSUME NEW u, NEW id, UNCHANGED memory
  PROVE  Part(u, id)' = Part(u, id) /\ Local(u, id)
BY DEF Part, Snapshot, Owns, memory, Local

(* A signal that is new goes on to be put on record.                       *)
LEMMA ExistsAdvances ==
  ASSUME NEW u \in Units, NEW h \in Handlers, NEW b, NEW k, NEW e, Serving(u, h, b, k, e),
         SignalExists(h), Busy(h)'
  PROVE  Advanced(u, b, Part(u, b.id), task[h], k, e)' /\ Local(u, b.id)
<1>. DEFINE p == Part(u, b.id)
            q == Part(u, b.id)'
            t == task[h]
            s == task'[h]
<1>1. q = p /\ Local(u, b.id)
  BY PartStays DEF SignalExists
<1>2. t.at = "exists" /\ Moved(t, s, "append")
  BY GotoMoves DEF Serving, SignalExists, Finish, Busy, CInv, At
<1>3. b.id \in SignalIDs => p.status = "unseen"
  <2>1. Store!Unseen(t.event)
    BY DEF SignalExists, Serving, CInv, Finish, Busy
  <2>2. b.id = t.event.id
    BY <1>2 DEF Serving, Advanced, RequestKept, Unlogged, Asking
  <2>. QED  BY <2>1, <2>2 DEF Store!Unseen, Part
<1>4. Advanced(u, b, p, t, k, e)
  BY DEF Serving
<1>. HIDE DEF p, q, t, s
<1>5. Advanced(u, b, p, s, k, e)
  BY <1>2, <1>3, <1>4 DEF Advanced, Moved, RequestKept, SignalKept, SnapshotKept,
     RecordsKept, IncidentsKept, ViewsKept, TaskKept, Asking, Unlogged,
     Uncancelled, Unacted, Stored, Reloaded, Viewed
<1>. QED BY <1>1, <1>5 DEF p, q, s

(* A signal that was not seen before.                                      *)
LEMMA AppendAdvances ==
  ASSUME NEW u \in Units, NEW h \in Handlers, NEW b, NEW k, NEW e,
         Serving(u, h, b, k, e), AppendSignal(h)
  PROVE  Advanced(u, b, Part(u, b.id), task[h], k, e)' /\ Local(u, b.id)
<1>. DEFINE p == Part(u, b.id)   q == Part(u, b.id)'
            t == task[h]         s == task'[h]
<1>1. /\ q.snapshot = p.snapshot /\ q.timers = p.timers /\ q.history = p.history
        /\ q.incidents = p.incidents /\ q.open = p.open /\ q.view = p.view
        /\ q.dashboard = p.dashboard
      /\ Local(u, b.id) /\ (b.id \in SignalIDs => q.status = "recorded")
  <2>1. t.event.id = b.id
    BY DEF Serving, Holder, AppendSignal, At, Advanced, RequestKept, Unlogged,
       Asking
  <2>2. b.id \in SignalIDs => signals'[b.id] = "recorded"
    BY <2>1, RequestsAssumption DEF AppendSignal, Store!Record, Serving, Types
  <2>3. \A i \in SignalIDs : i # b.id => signals'[i] = signals[i]
    BY <2>1 DEF AppendSignal, Store!Record, Serving, Types
  <2>. QED  BY <2>2, <2>3 DEF AppendSignal, Part, Snapshot, Owns, Views, Local
<1>2. t.at = "append" /\ Moved(t, s, "load")
  BY GotoMoves DEF Serving, AppendSignal, At
<1>3. Advanced(u, b, p, t, k, e)
  BY DEF Serving
<1>. HIDE DEF p, q, t, s
<1>4. Advanced(u, b, q, s, k, e)
  BY <1>1, <1>2, <1>3
  DEF Advanced, Moved, RequestKept, SignalKept, SnapshotKept, RecordsKept,
      IncidentsKept, ViewsKept, TaskKept, Asking, Unlogged, Uncancelled,
      Unacted, Stored, Reloaded, Viewed
<1>. QED  BY <1>1, <1>4 DEF q, s

(* The snapshot it loads is the one it started from.                       *)
LEMMA LoadAdvances ==
  ASSUME NEW u \in Units, NEW h \in Handlers, NEW b, NEW k, NEW e,
         Serving(u, h, b, k, e), GetWorkflow(h)
  PROVE  Advanced(u, b, Part(u, b.id), task[h], k, e)' /\ Local(u, b.id)
<1>. DEFINE p == Part(u, b.id)   q == Part(u, b.id)'
            t == task[h]         s == task'[h]
<1>1. q = p /\ Local(u, b.id)
  BY PartStays DEF GetWorkflow
<1>2. /\ t.at = "load" /\ s.at = "apply" /\ s.unit = t.unit /\ s.timer = t.timer
      /\ s.event = t.event /\ s.next = workflows[u]
  BY DEF GetWorkflow, At, Serving, Holder, CInv, Fine, Tasks
<1>3. Advanced(u, b, p, t, k, e)
  BY DEF Serving
<1>4. workflows[u] = [b.snapshot EXCEPT !.attempts = 0]
  <2>1. b.snapshot = Snapshot(u)
    BY <1>2, <1>3 DEF Advanced, SnapshotKept, Part, Asking, Stored, Viewed
  <2>2. workflows[u] \in Workflow /\ workflows[u].attempts = 0
    BY DEF Serving, CInv, Records, Still
  <2>. QED  BY <2>1, <2>2 DEF Snapshot, Workflow
<1>. HIDE DEF p, q, t, s
<1>5. Advanced(u, b, q, s, k, e)
  BY <1>1, <1>2, <1>4, <1>3
  DEF Advanced, Moved, RequestKept, SignalKept, SnapshotKept, RecordsKept,
      IncidentsKept, ViewsKept, TaskKept, Asking, Unlogged, Uncancelled,
      Unacted, Stored, Reloaded, Viewed
<1>. QED  BY <1>1, <1>5 DEF q, s

(* The counter catches up.                                                 *)
LEMMA CountAdvances ==
  ASSUME NEW u \in Units, NEW h \in Handlers, NEW b, NEW k, NEW e,
         Serving(u, h, b, k, e), Count(h)
  PROVE  Advanced(u, b, Part(u, b.id), task[h], k, e)' /\ Local(u, b.id)
<1>. DEFINE p == Part(u, b.id)   q == Part(u, b.id)'
            t == task[h]         s == task'[h]
<1>1. /\ q.timers = p.timers /\ q.history = p.history /\ q.incidents = p.incidents
        /\ q.open = p.open /\ q.view = p.view /\ q.dashboard = p.dashboard
        /\ q.status = p.status
      /\ Local(u, b.id) /\ q.snapshot = [p.snapshot EXCEPT !.attempts = t.next.attempts]
  BY DEF Count, Part, Snapshot, Owns, Views, Local, Serving, Holder, CInv,
     Records, Workflow
<1>2. t.at = "count" /\ Moved(t, s, "log")
  BY GotoMoves DEF Serving, Count, At
<1>3. Advanced(u, b, p, t, k, e)
  BY DEF Serving
<1>. HIDE DEF p, q, t, s
<1>4. Advanced(u, b, q, s, k, e)
  BY <1>1, <1>2, <1>3
  DEF Advanced, Moved, RequestKept, SignalKept, SnapshotKept, RecordsKept,
      IncidentsKept, ViewsKept, TaskKept, Asking, Unlogged, Uncancelled,
      Unacted, Stored, Reloaded, Viewed
<1>. QED  BY <1>1, <1>4 DEF q, s

(* The decisions are on record, and what became of the signal.             *)
LEMMA LogAdvances ==
  ASSUME NEW u \in Units, NEW h \in Handlers, NEW b, NEW k, NEW e,
         Serving(u, h, b, k, e), AppendDecisions(h)
  PROVE  Advanced(u, b, Part(u, b.id), task[h], k, e)' /\ Local(u, b.id)
<1>. DEFINE p == Part(u, b.id)   q == Part(u, b.id)'
            t == task[h]         s == task'[h]
<1>1. /\ q.snapshot = p.snapshot /\ q.timers = p.timers /\ q.incidents = p.incidents
        /\ q.open = p.open /\ q.view = p.view /\ q.dashboard = p.dashboard
      /\ Local(u, b.id) /\ (b.id \in SignalIDs => q.status = "decided")
      /\ q.history = Store!Replay(p.history, t.result.decisions)
  <2>1. t.timer = k /\ (k => b.id = Fresh) /\ (~ k => b.id = t.event.id)
    BY DEF Serving, Holder, AppendDecisions, At, Advanced, RequestKept, Unlogged,
       Asking
  <2>2. b.id \in SignalIDs => signals'[b.id] = "decided"
    BY <2>1, RequestsAssumption DEF AppendDecisions, Store!Record, Serving, Types
  <2>3. \A i \in SignalIDs : i # b.id => signals'[i] = signals[i]
    BY <2>1 DEF AppendDecisions, Store!Record, Serving, Types
  <2>4. /\ history'[u] = Store!Replay(history[u], t.result.decisions)
        /\ \A v \in Units \ {u} : history'[v] = history[v]
    BY DEF AppendDecisions, Serving, Holder, Types
  <2>. QED  BY <2>2, <2>3, <2>4 DEF AppendDecisions, Part, Snapshot, Owns, Views,
               Local
<1>2. /\ t.at = "log" /\ s.at = "cancel" /\ s.unit = t.unit
      /\ s.next = t.next /\ s.result = t.result
  BY DEF AppendDecisions, At, Serving, Holder, CInv, Fine, Tasks
<1>3. Advanced(u, b, p, t, k, e)
  BY DEF Serving
<1>. HIDE DEF p, q, t, s
<1>4. Advanced(u, b, q, s, k, e)
  BY <1>1, <1>2, <1>3
  DEF Advanced, Moved, RequestKept, SignalKept, SnapshotKept, RecordsKept,
      IncidentsKept, ViewsKept, TaskKept, Asking, Unlogged, Uncancelled,
      Unacted, Stored, Reloaded, Viewed
<1>. QED  BY <1>1, <1>4 DEF q, s

(* Timers are cancelled ...                                                *)
LEMMA CancelAdvances ==
  ASSUME NEW u \in Units, NEW h \in Handlers, NEW b, NEW k, NEW e,
         Serving(u, h, b, k, e), CancelTimers(h)
  PROVE  Advanced(u, b, Part(u, b.id), task[h], k, e)' /\ Local(u, b.id)
<1>. DEFINE p == Part(u, b.id)   q == Part(u, b.id)'
            t == task[h]         s == task'[h]
<1>1. /\ q.snapshot = p.snapshot /\ q.history = p.history /\ q.incidents = p.incidents
        /\ q.open = p.open /\ q.view = p.view /\ q.dashboard = p.dashboard
        /\ q.status = p.status
      /\ Local(u, b.id) /\ q.timers = p.timers \ t.result.cancel
  BY DEF CancelTimers, Part, Snapshot, Owns, Views, Local, Serving, Holder, Types
<1>2. t.at = "cancel" /\ Moved(t, s, "schedule")
  BY GotoMoves DEF Serving, CancelTimers, At
<1>3. Advanced(u, b, p, t, k, e)
  BY DEF Serving
<1>. HIDE DEF p, q, t, s
<1>4. Advanced(u, b, q, s, k, e)
  BY <1>1, <1>2, <1>3
  DEF Advanced, Moved, RequestKept, SignalKept, SnapshotKept, RecordsKept,
      IncidentsKept, ViewsKept, TaskKept, Asking, Unlogged, Uncancelled,
      Unacted, Stored, Reloaded, Viewed
<1>. QED  BY <1>1, <1>4 DEF q, s

(* ... and others scheduled.                                               *)
LEMMA ScheduleAdvances ==
  ASSUME NEW u \in Units, NEW h \in Handlers, NEW b, NEW k, NEW e,
         Serving(u, h, b, k, e), ScheduleTimers(h)
  PROVE  Advanced(u, b, Part(u, b.id), task[h], k, e)' /\ Local(u, b.id)
<1>. DEFINE p == Part(u, b.id)   q == Part(u, b.id)'
            t == task[h]         s == task'[h]
<1>1. /\ q.snapshot = p.snapshot /\ q.history = p.history /\ q.incidents = p.incidents
        /\ q.open = p.open /\ q.view = p.view /\ q.dashboard = p.dashboard
        /\ q.status = p.status
      /\ Local(u, b.id) /\ q.timers = p.timers \cup t.result.start
  BY DEF ScheduleTimers, Part, Snapshot, Owns, Views, Local, Serving, Holder,
     Types
<1>2. /\ t.at = "schedule"
      /\ Moved(t, s, IF t.result.incident = NoAction THEN "reload" ELSE "find")
  BY GotoMoves DEF Serving, ScheduleTimers, At
<1>3. Advanced(u, b, p, t, k, e)
  BY DEF Serving
<1>. HIDE DEF p, q, t, s
<1>4. Advanced(u, b, q, s, k, e)
  BY <1>1, <1>2, <1>3
  DEF Advanced, Moved, RequestKept, SignalKept, SnapshotKept, RecordsKept,
      IncidentsKept, ViewsKept, TaskKept, Asking, Unlogged, Uncancelled,
      Unacted, Stored, Reloaded, Viewed, Acts
<1>. QED  BY <1>1, <1>4 DEF q, s

(* The engine works on the snapshot as it was when the request came: the   *)
(* counter it reads is the one that belongs to it.                         *)
LEMMA ApplyWorksOn ==
  ASSUME NEW u \in Units, NEW h \in Handlers, NEW b, NEW k, NEW e,
         Serving(u, h, b, k, e), Apply(h)
  PROVE  /\ task[h].timer = k /\ task[h].event = e /\ task[h].unit = u
         /\ [task[h].next EXCEPT !.attempts = attempts[task[h].unit]] = b.snapshot
<1>1. task[h].at = "apply" /\ task[h].unit = u
  BY DEF Apply, At, Serving, Holder
<1>2. Advanced(u, b, Part(u, b.id), task[h], k, e)
  BY DEF Serving
<1>3. task[h].timer = k /\ task[h].event = e
  BY <1>1, <1>2 DEF Advanced, RequestKept, Asking, Unlogged
<1>4. b.snapshot = Snapshot(u) /\ task[h].next = [b.snapshot EXCEPT !.attempts = 0]
  BY <1>1, <1>2 DEF Advanced, SnapshotKept, TaskKept, Part, Asking, Stored, Viewed
<1>5. workflows[u] \in Workflow /\ attempts[u] \in Nat
  BY DEF Serving, CInv, Records
<1>6. [task[h].next EXCEPT !.attempts = attempts[u]] = b.snapshot
  BY <1>4, <1>5 DEF Snapshot, Workflow
<1>. QED  BY <1>1, <1>3, <1>6

(* The engine answers.                                                     *)
LEMMA ApplyAdvances ==
  ASSUME NEW u \in Units, NEW h \in Handlers, NEW b, NEW k, NEW e,
         Serving(u, h, b, k, e), Apply(h), Busy(h)'
  PROVE  Advanced(u, b, Part(u, b.id), task[h], k, e)' /\ Local(u, b.id)
<1>. DEFINE p == Part(u, b.id)   q == Part(u, b.id)'
            t == task[h]         s == task'[h]
<1>. DEFINE r == Answer(b.snapshot, k, e)
<1>1. q = p /\ Local(u, b.id)
  BY PartStays DEF Apply
<1>2. /\ t.at = "apply" /\ s.unit = t.unit /\ s.timer = t.timer /\ s.event = t.event
      /\ s.at = IF r.next.attempts = b.snapshot.attempts THEN "log" ELSE "count"
      /\ s.next = r.next /\ s.result = r /\ (~ k => ~ DecodeFails(b.snapshot, e))
  <2>. DEFINE answer(result) ==
         task' = [task EXCEPT ![h].result = result, ![h].next = result.next,
                    ![h].at = IF result.next.attempts = b.snapshot.attempts
                              THEN "log" ELSE "count"]
  <2>1. /\ t.at = "apply"
        /\ \/ k /\ answer(ApplyTimer(b.snapshot, e))
           \/ ~ k /\ ~ DecodeFails(b.snapshot, e) /\ answer(ApplySignal(b.snapshot, e))
           \/ Finish(h)
    <3>. DEFINE wf == [task[h].next EXCEPT !.attempts = attempts[task[h].unit]]
                given(result) ==
                  task' = [task EXCEPT ![h].result = result, ![h].next = result.next,
                             ![h].at = IF result.next.attempts = wf.attempts
                                       THEN "log" ELSE "count"]
    <3>1. /\ t.at = "apply"
          /\ \/ t.timer /\ given(ApplyTimer(wf, t.event))
             \/ ~ t.timer /\ ~ DecodeFails(wf, t.event) /\ given(ApplySignal(wf, t.event))
             \/ ~ t.timer /\ DecodeFails(wf, t.event) /\ Finish(h)
      BY Zenon DEF Apply, At
    <3>2. wf = b.snapshot /\ t.timer = k /\ t.event = e
      BY ApplyWorksOn
    <3>. HIDE DEF wf, t
    <3>. QED  BY <3>1, <3>2, Zenon
  <2>2. ~ Finish(h)
    BY DEF Finish, Busy, Serving, CInv
  <2>3. answer(r) /\ (~ k => ~ DecodeFails(b.snapshot, e))
    BY <2>1, <2>2, Zenon DEF Answer
  <2>4. t \in Tasks /\ task \in [Handlers -> Tasks \cup {Idle}]
    BY DEF Serving, Holder, CInv, Fine
  <2>. QED  BY <2>1, <2>3, <2>4 DEF Tasks
<1>3. Advanced(u, b, p, t, k, e)
  BY DEF Serving
<1>4. r.next \in Workflow /\ b.snapshot \in Workflow
  BY DEF Serving, Contract, Result, Held, PartType
<1>5. [b.snapshot EXCEPT !.attempts = b.snapshot.attempts] = b.snapshot
  BY <1>4, SameAttempts
<1>. HIDE DEF p, q, t, s
<1>6. Advanced(u, b, q, s, k, e)
  BY <1>1, <1>2, <1>4, <1>3, <1>5
  DEF Advanced, Moved, RequestKept, SignalKept, SnapshotKept, RecordsKept,
      IncidentsKept, ViewsKept, TaskKept, Asking, Unlogged, Uncancelled,
      Unacted, Stored, Reloaded, Viewed
<1>. QED  BY <1>1, <1>6 DEF q, s

(* The incident the index names for a unit is the unit's own.              *)
LEMMA OpenIsOwn ==
  ASSUME CInv, NEW u \in Units, NEW id
  PROVE  /\ openIncident[u] # NoIncident =>
              /\ openIncident[u] \in IncidentIDs
              /\ Owns(u, openIncident[u])
              /\ incidents[openIncident[u]] = Part(u, id).incidents[openIncident[u]]
         /\ GetOpenIncident(u) = FoundIn(Part(u, id))
<1>1. CASE openIncident[u] = NoIncident
  BY <1>1 DEF GetOpenIncident, FoundIn, Part
<1>2. CASE openIncident[u] # NoIncident
  <2>1. /\ openIncident[u] \in IncidentIDs
        /\ incidents[openIncident[u]].status = "open"
        /\ incidents[openIncident[u]].unit = u
    BY <1>2 DEF CInv, Index, IndexedIncidentsOpen
  <2>2. Store!NoRecord.status = ""
    BY DEF Store!NoRecord
  <2>3. Owns(u, openIncident[u])
    BY <2>1, <2>2 DEF Owns
  <2>4. /\ Part(u, id).open = openIncident[u]
        /\ Part(u, id).incidents[openIncident[u]] = incidents[openIncident[u]]
    BY <2>1, <2>3 DEF Part
  <2>. QED  BY <1>2, <2>1, <2>3, <2>4, Zenon DEF GetOpenIncident, FoundIn
<1>. QED  BY <1>1, <1>2

(* What is found is nothing exactly if there is no open incident.          *)
LEMMA FoundNothing ==
  ASSUME NEW p
  PROVE  /\ FoundIn(p) = Nothing <=> p.open = NoIncident
         /\ FoundIn(p).id = p.open
BY DEF FoundIn, Nothing

(* The incident it finds is the one the unit had when the request came.    *)
LEMMA FindAdvances ==
  ASSUME NEW u \in Units, NEW h \in Handlers, NEW b, NEW k, NEW e,
         Serving(u, h, b, k, e), FindIncident(h)
  PROVE  Advanced(u, b, Part(u, b.id), task[h], k, e)' /\ Local(u, b.id)
<1>. DEFINE p == Part(u, b.id)   q == Part(u, b.id)'
            t == task[h]         s == task'[h]
<1>. DEFINE idle == t.result.incident = CloseAction /\ FoundIn(p) = Nothing
<1>1. q = p /\ Local(u, b.id)
  BY PartStays DEF FindIncident
<1>2. /\ t.at = "find" /\ s.unit = t.unit /\ s.timer = t.timer /\ s.event = t.event
      /\ s.at = IF idle THEN "reload" ELSE "upsert"
      /\ s.next = t.next /\ s.result = t.result /\ s.found = FoundIn(p)
  <2>1. GetOpenIncident(u) = FoundIn(p) /\ t.unit = u /\ t \in Tasks
    BY OpenIsOwn DEF Serving, Holder, CInv, Fine
  <2>. QED  BY <2>1 DEF FindIncident, At, Serving, CInv, Tasks
<1>3. Advanced(u, b, p, t, k, e)
  BY DEF Serving
<1>4. FoundIn(p) = FoundIn(b)
  BY <1>2, <1>3 DEF Advanced, IncidentsKept, Unacted, FoundIn
<1>5. FoundIn(b) = Nothing <=> b.open = NoIncident
  BY FoundNothing
<1>. HIDE DEF p, q, t, s
<1>6. Advanced(u, b, q, s, k, e)
  BY <1>1, <1>2, <1>4, <1>3, <1>5
  DEF Advanced, Moved, RequestKept, SignalKept, SnapshotKept, RecordsKept,
      IncidentsKept, ViewsKept, TaskKept, Asking, Unlogged, Uncancelled,
      Unacted, Stored, Reloaded, Viewed, Acts
<1>. QED  BY <1>1, <1>6 DEF q, s

(* The snapshot takes over the incident the unit has by now.               *)
LEMMA ReloadAdvances ==
  ASSUME NEW u \in Units, NEW h \in Handlers, NEW b, NEW k, NEW e,
         Serving(u, h, b, k, e), Reload(h)
  PROVE  Advanced(u, b, Part(u, b.id), task[h], k, e)' /\ Local(u, b.id)
<1>. DEFINE p == Part(u, b.id)   q == Part(u, b.id)'
            t == task[h]         s == task'[h]
<1>. DEFINE lost == FoundIn(p) = Nothing /\ t.next.incident # NoIncident
<1>1. q = p /\ Local(u, b.id)
  BY PartStays DEF Reload
<1>2. /\ t.at = "reload" /\ s.unit = t.unit /\ s.timer = t.timer /\ s.event = t.event
      /\ s.at = IF lost THEN "unlist" ELSE "put"
      /\ s.next = [t.next EXCEPT !.incident = FoundIn(p).id]
      /\ lost => s.found.id = t.next.incident
  <2>1. GetOpenIncident(u) = FoundIn(p) /\ t.unit = u /\ t \in Tasks
    BY OpenIsOwn DEF Serving, Holder, CInv, Fine
  <2>2. FoundIn(p) \in [id : IncidentIDs \cup {NoIncident}, record : Store!Incident]
    BY <2>1, FoundType DEF Serving, CInv
  <2>. QED  BY <2>1, <2>2 DEF Reload, At, Serving, CInv, Tasks
<1>3. Advanced(u, b, p, t, k, e)
  BY DEF Serving
<1>4. (FoundIn(p) = Nothing <=> p.open = NoIncident) /\ FoundIn(p).id = p.open
  BY FoundNothing
<1>. HIDE DEF p, q, t, s
<1>5. Advanced(u, b, q, s, k, e)
  BY <1>1, <1>2, <1>4, <1>3
  DEF Advanced, Moved, RequestKept, SignalKept, SnapshotKept, RecordsKept,
      IncidentsKept, ViewsKept, TaskKept, Asking, Unlogged, Uncancelled,
      Unacted, Stored, Reloaded, Viewed, Acts
<1>. QED  BY <1>1, <1>5 DEF q, s

(* The dashboard drops the incident the unit has no more.                  *)
LEMMA UnlistAdvances ==
  ASSUME NEW u \in Units, NEW h \in Handlers, NEW b, NEW k, NEW e,
         Serving(u, h, b, k, e), DeleteIncidentView(h)
  PROVE  Advanced(u, b, Part(u, b.id), task[h], k, e)' /\ Local(u, b.id)
<1>. DEFINE p == Part(u, b.id)   q == Part(u, b.id)'
            t == task[h]         s == task'[h]
<1>1. t.at = "unlist" /\ Moved(t, s, "put")
  BY GotoMoves DEF Serving, DeleteIncidentView, At
<1>2. Advanced(u, b, p, t, k, e)
  BY DEF Serving
<1>3. /\ q.snapshot = p.snapshot /\ q.timers = p.timers /\ q.history = p.history
        /\ q.incidents = p.incidents /\ q.open = p.open /\ q.view = p.view
        /\ q.status = p.status
      /\ Local(u, b.id) /\ q.dashboard = [p.dashboard EXCEPT ![t.found.id] = NoAction]
  <2>1. t.found.id = b.open /\ b.open # NoIncident /\ b.open \in IncidentIDs
    BY <1>1, <1>2 DEF Advanced, TaskKept, Reloaded, Serving, Contract, Held,
       PartType
  <2>2. Owns(u, t.found.id)
    BY <2>1 DEF Serving, Held
  <2>3. incidentViews' = [incidentViews EXCEPT ![t.found.id] = NoAction]
    BY DEF DeleteIncidentView
  <2>4. UNCHANGED <<workflows, attempts, timers, signals, history, incidents,
                    openIncident, unitViews>>
    BY DEF DeleteIncidentView
  <2>5. \A v, i : Owns(v, i)' <=> Owns(v, i)
    BY <2>4 DEF Owns
  <2>6. q.dashboard = [p.dashboard EXCEPT ![t.found.id] = NoAction]
    BY <2>1, <2>2, <2>3, <2>5 DEF Part, Serving, Types
  <2>7. Local(u, b.id)
    BY <2>1, <2>2, <2>3, <2>4, <2>5 DEF Local, Snapshot, Serving, Types
  <2>. HIDE DEF t
  <2>. QED  BY <2>4, <2>5, <2>6, <2>7 DEF Part, Snapshot
<1>. HIDE DEF p, q, t, s
<1>4. Advanced(u, b, q, s, k, e)
  BY <1>3, <1>1, <1>2
  DEF Advanced, Moved, RequestKept, SignalKept, SnapshotKept, RecordsKept,
      IncidentsKept, ViewsKept, TaskKept, Asking, Unlogged, Uncancelled,
      Unacted, Stored, Reloaded, Viewed, Acts
<1>. QED  BY <1>3, <1>4 DEF q, s

(* The snapshot is stored whole.                                           *)
LEMMA PutAdvances ==
  ASSUME NEW u \in Units, NEW h \in Handlers, NEW b, NEW k, NEW e,
         Serving(u, h, b, k, e), PutWorkflow(h)
  PROVE  Advanced(u, b, Part(u, b.id), task[h], k, e)' /\ Local(u, b.id)
<1>. DEFINE p == Part(u, b.id)   q == Part(u, b.id)'
            t == task[h]         s == task'[h]
<1>1. /\ q.timers = p.timers /\ q.history = p.history /\ q.incidents = p.incidents
        /\ q.open = p.open /\ q.view = p.view /\ q.dashboard = p.dashboard
        /\ q.status = p.status
      /\ Local(u, b.id) /\ q.snapshot = [t.next EXCEPT !.attempts = attempts[u]]
  <2>1. t.next \in Workflow /\ t.unit = u
    BY DEF Serving, Holder, CInv, Fine, Tasks
  <2>2. workflows' = [workflows EXCEPT ![u] = [t.next EXCEPT !.attempts = 0]]
    BY <2>1 DEF PutWorkflow
  <2>3. Snapshot(u)' = [t.next EXCEPT !.attempts = attempts[u]]
    BY <2>1, <2>2 DEF PutWorkflow, Snapshot, Workflow, Serving, CInv, Records
  <2>4. \A v \in Units \ {u} : Snapshot(v)' = Snapshot(v)
    BY <2>2 DEF PutWorkflow, Snapshot, Serving, CInv, Records
  <2>. HIDE DEF t
  <2>. QED  BY <2>3, <2>4 DEF PutWorkflow, Part, Owns, Views, Local
<1>2. t.at = "put" /\ Moved(t, s, "status")
  BY GotoMoves DEF Serving, PutWorkflow, At
<1>3. Advanced(u, b, p, t, k, e)
  BY DEF Serving
<1>4. t.next = [Answer(b.snapshot, k, e).next EXCEPT !.incident = p.open] /\ t.next \in Workflow
  BY <1>2, <1>3 DEF Advanced, TaskKept, Reloaded, Serving, Holder, CInv, Fine,
     Tasks
<1>5. attempts[u] = Answer(b.snapshot, k, e).next.attempts
  <2>1. p.snapshot = [b.snapshot EXCEPT !.attempts = Answer(b.snapshot, k, e).next.attempts]
    BY <1>2, <1>3 DEF Advanced, SnapshotKept, Stored, Viewed, Asking
  <2>2. p.snapshot.attempts = attempts[u]
    BY DEF Part, Snapshot, Serving, CInv, Records, Workflow
  <2>. QED  BY <2>1, <2>2 DEF Serving, Held, PartType, Workflow
<1>6. q.snapshot = t.next
  <2>1. t.next.attempts = attempts[u]
    BY <1>4, <1>5 DEF Serving, Contract, Result, Workflow
  <2>2. [t.next EXCEPT !.attempts = t.next.attempts] = t.next
    BY <1>4, SameAttempts
  <2>. HIDE DEF t, p, q
  <2>. QED  BY <1>1, <2>1, <2>2
<1>. HIDE DEF p, q, t, s
<1>7. Advanced(u, b, q, s, k, e)
  BY <1>1, <1>2, <1>4, <1>3, <1>6
  DEF Advanced, Moved, RequestKept, SignalKept, SnapshotKept, RecordsKept,
      IncidentsKept, ViewsKept, TaskKept, Asking, Unlogged, Uncancelled,
      Unacted, Stored, Reloaded, Viewed, Acts
<1>. QED  BY <1>1, <1>7 DEF q, s

(* The view is made of the stored snapshot and the last decision.          *)
LEMMA StatusAdvances ==
  ASSUME NEW u \in Units, NEW h \in Handlers, NEW b, NEW k, NEW e,
         Serving(u, h, b, k, e), PutUnitStatus(h)
  PROVE  Advanced(u, b, Part(u, b.id), task[h], k, e)' /\ Local(u, b.id)
<1>. DEFINE p == Part(u, b.id)   q == Part(u, b.id)'
            t == task[h]         s == task'[h]
<1>1. Advanced(u, b, p, t, k, e)
  BY DEF Serving
<1>2. t.at = "status" /\ Moved(t, s, "look")
  BY GotoMoves DEF Serving, PutUnitStatus, At
<1>3. [t.next EXCEPT !.attempts = attempts[u]] = p.snapshot
  <2>1. p.snapshot = t.next
    BY <1>2, <1>1 DEF Advanced, SnapshotKept, TaskKept, Stored, Reloaded
  <2>2. t.next \in Workflow
    BY DEF Serving, Holder, CInv, Fine, Tasks
  <2>3. p.snapshot.attempts = attempts[u]
    BY DEF Part, Snapshot, Serving, CInv, Records, Workflow
  <2>4. [t.next EXCEPT !.attempts = t.next.attempts] = t.next
    BY <2>2, SameAttempts
  <2>. HIDE DEF t, p
  <2>. QED  BY <2>1, <2>3, <2>4
<1>4. /\ q.snapshot = p.snapshot /\ q.timers = p.timers /\ q.history = p.history
        /\ q.incidents = p.incidents /\ q.open = p.open /\ q.dashboard = p.dashboard
        /\ q.status = p.status
      /\ Local(u, b.id) /\ q.view = Store!UnitView(p.snapshot, p.history.last)
  <2>1. /\ unitViews' = [unitViews EXCEPT ![u] = Store!UnitView(p.snapshot, history[u].last)]
        /\ UNCHANGED <<workflows, attempts, timers, signals, history, incidents,
                       openIncident, incidentViews>>
    BY <1>3 DEF PutUnitStatus, Serving, Holder
  <2>2. history[u] = p.history
    BY DEF Part
  <2>3. unitViews'[u] = Store!UnitView(p.snapshot, p.history.last)
        /\ \A v \in Units \ {u} : unitViews'[v] = unitViews[v]
    BY <2>1, <2>2 DEF Serving, Types
  <2>. QED  BY <2>1, <2>3 DEF Part, Snapshot, Owns, Local
<1>. HIDE DEF p, q, t, s
<1>5. Advanced(u, b, q, s, k, e)
  BY <1>4, <1>2, <1>1
  DEF Advanced, Moved, RequestKept, SignalKept, SnapshotKept, RecordsKept,
      IncidentsKept, ViewsKept, TaskKept, Asking, Unlogged, Uncancelled,
      Unacted, Stored, Reloaded, Viewed, Acts
<1>. QED  BY <1>4, <1>5 DEF q, s

(* It looks up the incident once more ...                                  *)
LEMMA LookAdvances ==
  ASSUME NEW u \in Units, NEW h \in Handlers, NEW b, NEW k, NEW e,
         Serving(u, h, b, k, e), LookUpIncident(h)
  PROVE  Advanced(u, b, Part(u, b.id), task[h], k, e)' /\ Local(u, b.id)
<1>. DEFINE p == Part(u, b.id)   q == Part(u, b.id)'
            t == task[h]         s == task'[h]
<1>1. q = p /\ Local(u, b.id)
  BY PartStays DEF LookUpIncident
<1>2. /\ t.at = "look" /\ s.unit = t.unit /\ s.timer = t.timer /\ s.event = t.event
      /\ s.at = "show" /\ s.next = t.next /\ s.found = FoundIn(p)
  <2>1. GetOpenIncident(u) = FoundIn(p) /\ t.unit = u /\ t \in Tasks
    BY OpenIsOwn DEF Serving, Holder, CInv, Fine
  <2>. QED  BY <2>1 DEF LookUpIncident, At, Serving, CInv, Tasks
<1>3. Advanced(u, b, p, t, k, e)
  BY DEF Serving
<1>. HIDE DEF p, q, t, s
<1>4. Advanced(u, b, q, s, k, e)
  BY <1>1, <1>2, <1>3
  DEF Advanced, Moved, RequestKept, SignalKept, SnapshotKept, RecordsKept,
      IncidentsKept, ViewsKept, TaskKept, Asking, Unlogged, Uncancelled,
      Unacted, Stored, Reloaded, Viewed, Acts
<1>. QED  BY <1>1, <1>4 DEF q, s

(* ... to show it.                                                         *)
LEMMA ShowAdvances ==
  ASSUME NEW u \in Units, NEW h \in Handlers, NEW b, NEW k, NEW e,
         Serving(u, h, b, k, e), ShowIncident(h)
  PROVE  Advanced(u, b, Part(u, b.id), task[h], k, e)' /\ Local(u, b.id)
<1>. DEFINE p == Part(u, b.id)   q == Part(u, b.id)'
            t == task[h]         s == task'[h]
<1>1. Advanced(u, b, p, t, k, e)
  BY DEF Serving
<1>2. /\ t.at = "show" /\ s.at = "station" /\ s.unit = t.unit /\ s.timer = t.timer
      /\ s.event = t.event /\ s.next = t.next
  BY DEF ShowIncident, At, Serving, Holder, CInv, Fine, Tasks
<1>3. t.found = FoundIn(p) /\ t.next.incident = p.open
  BY <1>2, <1>1 DEF Advanced, TaskKept, Reloaded, Stored, Viewed, Serving,
     Contract, Result, Workflow
<1>4. UNCHANGED <<workflows, attempts, timers, signals, history, incidents,
                  openIncident, unitViews>>
  BY DEF ShowIncident
<1>5. /\ q.snapshot = p.snapshot /\ q.timers = p.timers /\ q.history = p.history
        /\ q.incidents = p.incidents /\ q.open = p.open /\ q.view = p.view
        /\ q.status = p.status
  BY <1>4 DEF Part, Snapshot, Owns
<1>6. CASE p.open = NoIncident
  <2>1. incidentViews' = incidentViews
    BY <1>3, <1>6, FoundNothing DEF ShowIncident
  <2>2. q.dashboard = p.dashboard /\ Local(u, b.id)
    BY <1>4, <2>1 DEF Part, Snapshot, Owns, Local
  <2>. HIDE DEF p, q, t, s
  <2>3. Advanced(u, b, q, s, k, e)
    BY <1>2, <1>1, <1>5, <1>6, <2>2
    DEF Advanced, RequestKept, SignalKept, SnapshotKept, RecordsKept,
        IncidentsKept, ViewsKept, TaskKept, Asking, Unlogged, Uncancelled,
        Unacted, Stored, Reloaded, Viewed, Acts
  <2>. QED  BY <2>2, <2>3 DEF q, s
<1>7. CASE p.open # NoIncident
  <2>1. incidentViews' = [incidentViews EXCEPT ![p.open] = p.incidents[p.open].category]
    BY <1>3, <1>7, FoundNothing DEF ShowIncident, FoundIn
  <2>2. p.open = openIncident[u] /\ p.open \in IncidentIDs /\ Owns(u, p.open)
    BY <1>7, OpenIsOwn DEF Serving, Part
  <2>3. \A v, i : Owns(v, i)' <=> Owns(v, i)
    BY <1>4 DEF Owns
  <2>4. q.dashboard = [p.dashboard EXCEPT ![p.open] = p.incidents[p.open].category]
    <3>. HIDE DEF p
    <3>1. p.dashboard = [i \in IncidentIDs |-> IF Owns(u, i) THEN incidentViews[i] ELSE NoAction]
      BY DEF Part, p
    <3>2. q.dashboard = [i \in IncidentIDs |-> IF Owns(u, i) THEN incidentViews'[i] ELSE NoAction]
      BY <2>3 DEF Part
    <3>. HIDE DEF q
    <3>. QED  BY <2>1, <2>2, <3>1, <3>2 DEF Serving, Types
  <2>5. Local(u, b.id)
    BY <1>4, <2>1, <2>2, <2>3 DEF Local, Snapshot, Serving, Types
  <2>. HIDE DEF p, q, t, s
  <2>6. Advanced(u, b, q, s, k, e)
    BY <1>2, <1>1, <1>5, <1>7, <2>4
    DEF Advanced, RequestKept, SignalKept, SnapshotKept, RecordsKept,
        IncidentsKept, ViewsKept, TaskKept, Asking, Unlogged, Uncancelled,
        Unacted, Stored, Reloaded, Viewed, Acts
  <2>. QED  BY <2>5, <2>6 DEF q, s
<1>. QED  BY <1>6, <1>7

(* A write of an incident of the unit, or of one no one has, as the unit's *)
(* own: what it makes of the part of the unit, and of no other.            *)
LEMMA PutOwn ==
  ASSUME CInv, Types, Still, NEW u \in Units, NEW id, NEW i \in IncidentIDs,
         Owns(u, i) \/ incidents[i] = Store!NoRecord,
         NEW record, record # Store!NoRecord, record.unit = u,
         Store!PutIncident(i, record),
         UNCHANGED <<workflows, attempts, timers, signals, history, Views>>
  PROVE  LET p == Part(u, id)
             q == Part(u, id)'
         IN  /\ q.snapshot = p.snapshot /\ q.timers = p.timers /\ q.history = p.history
             /\ q.view = p.view /\ q.dashboard = p.dashboard /\ q.status = p.status
             /\ q.incidents = [p.incidents EXCEPT ![i] = record]
             /\ q.open = IF record.status = "resolved" THEN NoIncident ELSE i
             /\ Local(u, id)
<1>. DEFINE p == Part(u, id)
            q == Part(u, id)'
<1>1. /\ incidents \in [IncidentIDs -> Store!Incident]
      /\ incidents' = [incidents EXCEPT ![i] = record]
      /\ openIncident \in [Units -> IncidentIDs \cup {NoIncident}]
      /\ openIncident' = [openIncident EXCEPT ![u] =
                            IF record.status = "resolved" THEN NoIncident ELSE i]
  BY StoreTypes, Zenon DEF Store!PutIncident, CInv, Index
<1>2. /\ Owns(u, i)' /\ \A v \in Units \ {u} : ~ Owns(v, i) /\ ~ Owns(v, i)'
      /\ \A v : \A j \in IncidentIDs \ {i} : Owns(v, j)' <=> Owns(v, j)
  BY <1>1 DEF Owns
<1>3. q.incidents = [p.incidents EXCEPT ![i] = record]
  <2>1. p.incidents = [j \in IncidentIDs |-> IF Owns(u, j) THEN incidents[j]
                                             ELSE Store!NoRecord]
    BY DEF Part
  <2>2. q.incidents = [j \in IncidentIDs |-> IF Owns(u, j)' THEN incidents'[j]
                                             ELSE Store!NoRecord]
    BY DEF Part
  <2>. HIDE DEF p, q
  <2>. QED  BY <1>1, <1>2, <2>1, <2>2
<1>4. q.dashboard = p.dashboard
  <2>1. p.dashboard = [j \in IncidentIDs |-> IF Owns(u, j) THEN incidentViews[j]
                                             ELSE NoAction]
    BY DEF Part
  <2>2. q.dashboard = [j \in IncidentIDs |-> IF Owns(u, j)' THEN incidentViews[j]
                                             ELSE NoAction]
    BY DEF Part, Views
  <2>3. ~ Owns(u, i) => incidentViews[i] = NoAction
    BY DEF Still
  <2>. HIDE DEF p, q
  <2>. QED  BY <1>2, <2>1, <2>2, <2>3
<1>5. q.open = IF record.status = "resolved" THEN NoIncident ELSE i
  BY <1>1 DEF Part
<1>6. /\ q.snapshot = p.snapshot /\ q.timers = p.timers /\ q.history = p.history
      /\ q.view = p.view /\ q.status = p.status
  BY DEF Part, Snapshot, Views
<1>7. Local(u, id)
  BY <1>1, <1>2 DEF Local, Snapshot, Views
<1>. QED  BY <1>3, <1>4, <1>5, <1>6, <1>7

(* The incident is opened, updated or resolved.                            *)
LEMMA UpsertAdvances ==
  ASSUME NEW u \in Units, NEW h \in Handlers, NEW b, NEW k, NEW e,
         Serving(u, h, b, k, e), PutIncident(h)
  PROVE  Advanced(u, b, Part(u, b.id), task[h], k, e)' /\ Local(u, b.id)
<1>. DEFINE p == Part(u, b.id)   q == Part(u, b.id)'
            t == task[h]         s == task'[h]
            r == Answer(b.snapshot, k, e)
<1>1. Advanced(u, b, p, t, k, e)
  BY DEF Serving
<1>2. /\ t.at = "upsert" /\ s.at = "reload" /\ s.unit = t.unit /\ s.timer = t.timer
      /\ s.event = t.event /\ s.next = t.next /\ s.result = t.result
  BY DEF PutIncident, At, Serving, Holder, CInv, Fine, Tasks
<1>3. /\ t.result = r /\ t.found = FoundIn(b) /\ t.unit = u
      /\ p.incidents = b.incidents /\ p.open = b.open
      /\ r.incident = CloseAction => b.open # NoIncident
  BY <1>1, <1>2 DEF Advanced, TaskKept, IncidentsKept, Asking, Reloaded, Stored,
     Viewed, Unacted, RequestKept
<1>4. b.open # NoIncident =>
        /\ b.open \in IncidentIDs /\ Owns(u, b.open)
        /\ b.incidents[b.open] \in Store!Incident
        /\ b.incidents[b.open] # Store!NoRecord /\ b.incidents[b.open].unit = u
  BY DEF Serving, Held, PartType
<1>5. UNCHANGED <<workflows, attempts, timers, signals, history, Views>>
  BY DEF PutIncident
<1>. DEFINE Kept == /\ q.snapshot = p.snapshot /\ q.timers = p.timers
                    /\ q.history = p.history /\ q.view = p.view
                    /\ q.dashboard = p.dashboard /\ q.status = p.status
<1>6. Acts(u, b, q, r.incident) /\ Kept /\ Local(u, b.id)
  <2>1. CASE r.incident = CloseAction
    <3>. DEFINE record == [b.incidents[b.open] EXCEPT !.status = "resolved"]
    <3>1. Store!PutIncident(b.open, record)
      <4>1. t.result.incident = CloseAction /\ t.result.incident \notin Categories
        BY <1>3, <2>1 DEF CloseAction, Categories
      <4>2. t.found.id = b.open /\ t.found.record = b.incidents[b.open]
        BY <1>3, <2>1 DEF FoundIn
      <4>3. Store!PutIncident(t.found.id, [t.found.record EXCEPT !.status = "resolved"])
        BY <4>1, Zenon DEF PutIncident
      <4>. QED  BY <4>2, <4>3
    <3>2. record.unit = u /\ record.status = "resolved" /\ record # Store!NoRecord
      BY <1>3, <1>4, <2>1 DEF Store!Incident, Store!NoRecord
    <3>. HIDE DEF record
    <3>3. Kept /\ Local(u, b.id) /\ q.incidents = [p.incidents EXCEPT ![b.open] = record]
          /\ q.open = NoIncident
      BY <1>3, <1>4, <1>5, <2>1, <3>1, <3>2, PutOwn DEF Serving
    <3>. QED  BY <1>3, <2>1, <3>3 DEF Acts, record
  <2>2. CASE r.incident \in Categories
    <3>1. PICK i \in IncidentIDs :
            /\ IF t.found # Nothing THEN i = t.found.id
               ELSE incidents[i] = Store!NoRecord
            /\ Store!PutIncident(i, Store!Opened(u, r.incident))
      <4>1. t.result.incident # CloseAction
        BY <1>3, <2>2 DEF CloseAction, Categories
      <4>. QED  BY <1>3, <4>1, Zenon DEF PutIncident
    <3>2. IF b.open # NoIncident THEN i = b.open ELSE incidents[i] = Store!NoRecord
      BY <1>3, <3>1, FoundNothing
    <3>. DEFINE record == Store!Opened(u, r.incident)
    <3>3. record.unit = u /\ record.status = "open" /\ record # Store!NoRecord
      BY DEF Store!Opened, Store!NoRecord
    <3>. HIDE DEF record
    <3>4. Store!PutIncident(i, record) /\ (Owns(u, i) \/ incidents[i] = Store!NoRecord)
      BY <1>4, <3>1, <3>2 DEF record
    <3>5. Kept /\ Local(u, b.id) /\ q.incidents = [p.incidents EXCEPT ![i] = record]
          /\ q.open = i
      BY <1>5, <3>3, <3>4, PutOwn DEF Serving
    <3>6. incidents[i] = Store!NoRecord => b.incidents[i] = Store!NoRecord
      BY DEF Serving, Held, Owns
    <3>. QED  BY <1>3, <2>2, <3>2, <3>5, <3>6 DEF Acts, record
  <2>3. r.incident = CloseAction \/ r.incident \in Categories
    BY <1>3 DEF PutIncident
  <2>. QED  BY <2>1, <2>2, <2>3
<1>. HIDE DEF p, q, t, s
<1>7. Advanced(u, b, q, s, k, e)
  BY <1>1, <1>2, <1>6
  DEF Advanced, RequestKept, SignalKept, SnapshotKept, RecordsKept,
      IncidentsKept, ViewsKept, TaskKept, Asking, Unlogged, Uncancelled,
      Unacted, Stored, Reloaded, Viewed
<1>. QED  BY <1>6, <1>7 DEF q, s

-----------------------------------------------------------------------------
(* What UnitServiceProofs proves of a service with one request at a time,  *)
(* said of the store in which requests in progress have not begun.         *)
W == INSTANCE UnitServiceProofs WITH
  stored <- Units, workflows <- WorkflowsThen, timers <- TimersThen,
  signals <- SignalsThen, history <- HistoryThen, incidents <- IncidentsThen,
  openIncident <- OpenIncidentThen, unitViews <- UnitViewsThen,
  incidentViews <- IncidentViewsThen

(* The assumptions it is proved from are met.                              *)
LEMMA AssumptionsMet ==
  W!StationsAssumption /\ W!IncidentsAssumption /\ W!InputsAssumption
<1>1. Store!Signal = W!Signal
  BY Zenon DEF Store!Signal, W!Signal, Store!SignalTypes, W!SignalTypes,
     Store!Payloads, W!Payloads, Store!FlakyInfra, W!FlakyInfra,
     Store!Malformed, W!Malformed
<1>2. Store!Armable = W!Armable
  BY Zenon DEF Store!Armable, W!Armable, Store!TimerKey, W!TimerKey,
     Store!TimerTypes, W!TimerTypes
<1>3. W!InputsAssumption
  BY <1>1, <1>2, ConcurrentAssumption, RequestsAssumption, Zenon
  DEF W!InputsAssumption
<1>4. W!StationsAssumption /\ W!IncidentsAssumption
  BY StationsAssumption, IncidentsAssumption, Zenon
  DEF NoIncident, W!NoIncident, W!StationsAssumption, W!IncidentsAssumption
<1>. QED  BY <1>3, <1>4

(* A step of that service keeps its invariant.                             *)
LEMMA SerialInvariant == W!IInv /\ [W!Next]_(W!vars) => W!IInv'
BY W!StepInvariant, AssumptionsMet, Zenon
   DEF W!StationsAssumption, W!IncidentsAssumption, W!InputsAssumption

(* The copies of the engine and of the service speak of the same.          *)
LEMMA SameEngine ==
  ASSUME NEW wf, NEW e
  PROVE  /\ W!ApplySignal(wf, e) = ApplySignal(wf, e)
         /\ W!ApplyTimer(wf, e) = ApplyTimer(wf, e)
         /\ W!DecodeFails(wf, e) <=> DecodeFails(wf, e)
BY Zenon DEF TestFailed, W!TestFailed, RetryTest, W!RetryTest, HoldTest,
   W!HoldTest,
   Evaluate, W!Evaluate, Accepted, W!Accepted, Decision, W!Decision, Transition,
   W!Transition, TestTimers, W!TestTimers, TestResult, W!TestResult, Heartbeat,
   W!Heartbeat, ReviewSLA, W!ReviewSLA, RetryBackoff, W!RetryBackoff, FlakyInfra,
   W!FlakyInfra, ApplySignal, W!ApplySignal, Accepts, W!Accepts, Expected,
   W!Expected,
   HeartbeatStates, W!HeartbeatStates, Effect, W!Effect, Rearm, W!Rearm, Rejected,
   W!Rejected, UnitAdmitted, W!UnitAdmitted, StationEntered, W!StationEntered,
   AssemblyCompleted, W!AssemblyCompleted, TestStarted, W!TestStarted, TestPassed,
   W!TestPassed, HeartbeatReceived, W!HeartbeatReceived, QualityDisposition,
   W!QualityDisposition, ReworkStarted, W!ReworkStarted, ReworkCompleted,
   W!ReworkCompleted, InspectionCompleted, W!InspectionCompleted, Move, W!Move,
   NoAction, W!NoAction, CloseAction, W!CloseAction, ApplyTimer, W!ApplyTimer,
   RetryWindowOpens, W!RetryWindowOpens, TimedOut, W!TimedOut, DecodeFails,
   W!DecodeFails, Malformed, W!Malformed

(* So do the engines of the service with one request at a time.            *)
LEMMA SameWhole ==
  ASSUME NEW wf, NEW e
  PROVE  /\ Whole!ApplySignal(wf, e) = ApplySignal(wf, e)
         /\ Whole!ApplyTimer(wf, e) = ApplyTimer(wf, e)
         /\ Whole!DecodeFails(wf, e) <=> DecodeFails(wf, e)
BY Zenon DEF TestFailed, Whole!TestFailed, RetryTest, Whole!RetryTest, HoldTest,
   Whole!HoldTest,
   Evaluate, Whole!Evaluate, Accepted, Whole!Accepted, Decision, Whole!Decision,
   Transition,
   Whole!Transition, TestTimers, Whole!TestTimers, TestResult, Whole!TestResult,
   Heartbeat,
   Whole!Heartbeat, ReviewSLA, Whole!ReviewSLA, RetryBackoff, Whole!RetryBackoff,
   FlakyInfra,
   Whole!FlakyInfra, ApplySignal, Whole!ApplySignal, Accepts, Whole!Accepts,
   Expected, Whole!Expected,
   HeartbeatStates, Whole!HeartbeatStates, Effect, Whole!Effect, Rearm,
   Whole!Rearm, Rejected,
   Whole!Rejected, UnitAdmitted, Whole!UnitAdmitted, StationEntered,
   Whole!StationEntered,
   AssemblyCompleted, Whole!AssemblyCompleted, TestStarted, Whole!TestStarted,
   TestPassed,
   Whole!TestPassed, HeartbeatReceived, Whole!HeartbeatReceived,
   QualityDisposition,
   Whole!QualityDisposition, ReworkStarted, Whole!ReworkStarted, ReworkCompleted,
   Whole!ReworkCompleted, InspectionCompleted, Whole!InspectionCompleted, Move,
   Whole!Move,
   NoAction, Whole!NoAction, CloseAction, Whole!CloseAction, ApplyTimer,
   Whole!ApplyTimer,
   RetryWindowOpens, Whole!RetryWindowOpens, TimedOut, Whole!TimedOut,
   DecodeFails,
   Whole!DecodeFails, Malformed, Whole!Malformed

(* A request of a unit takes effect at once.                               *)
Took(u, action) ==
  \/ /\ action \in Categories
     /\ \E i \in IncidentIDs :
          /\ IF OpenIncidentThen[u] # NoIncident THEN i = OpenIncidentThen[u]
             ELSE IncidentsThen[i] = Store!NoRecord
          /\ IncidentsThen' = [IncidentsThen EXCEPT ![i] = Store!Opened(u, action)]
          /\ OpenIncidentThen' = [OpenIncidentThen EXCEPT ![u] = i]
  \/ /\ action = CloseAction /\ OpenIncidentThen[u] # NoIncident
     /\ IncidentsThen' = [IncidentsThen EXCEPT ![OpenIncidentThen[u]] =
                            [IncidentsThen[OpenIncidentThen[u]] EXCEPT !.status = "resolved"]]
     /\ OpenIncidentThen' = [OpenIncidentThen EXCEPT ![u] = NoIncident]
  \/ /\ \/ action = NoAction
        \/ action = CloseAction /\ OpenIncidentThen[u] = NoIncident
     /\ IncidentsThen' = IncidentsThen /\ OpenIncidentThen' = OpenIncidentThen

(* That is what the service with one request at a time does to incidents.  *)
LEMMA TookWhole ==
  ASSUME NEW u, NEW action, Took(u, action),
         OpenIncidentThen[u] # NoIncident => IncidentsThen[OpenIncidentThen[u]].unit = u,
         OpenIncidentThen[u] # NoIncident =>
           IncidentsThen[OpenIncidentThen[u]] \in Store!Incident \ {Store!NoRecord}
  PROVE  Whole!ApplyIncidentAction(u, action)
<1>1. /\ Whole!NoIncident = NoIncident /\ Whole!NoRecord = Store!NoRecord
      /\ Whole!NoAction = NoAction /\ Whole!CloseAction = CloseAction
      /\ Whole!Categories = Categories
  BY Zenon DEF Whole!NoIncident, NoIncident, Whole!NoRecord, Store!NoRecord,
     Whole!NoAction, NoAction, Whole!CloseAction, CloseAction, Whole!Categories,
     Categories
<1>2. CASE action \in Categories
  <2>1. PICK i \in IncidentIDs :
          /\ IF OpenIncidentThen[u] # NoIncident THEN i = OpenIncidentThen[u]
             ELSE IncidentsThen[i] = Store!NoRecord
          /\ IncidentsThen' = [IncidentsThen EXCEPT ![i] = Store!Opened(u, action)]
          /\ OpenIncidentThen' = [OpenIncidentThen EXCEPT ![u] = i]
    BY <1>2, Zenon DEF Took, Categories, CloseAction, NoAction
  <2>2. Whole!Opened(u, action) = Store!Opened(u, action)
    BY Zenon DEF Whole!Opened, Store!Opened
  <2>3. Store!Opened(u, action).unit = u /\ Store!Opened(u, action).status # "resolved"
    BY DEF Store!Opened
  <2>4. Whole!PutIncident(i, Whole!Opened(u, action))
    BY <2>1, <2>2, <2>3, Zenon DEF Whole!PutIncident
  <2>5. Whole!Upsert(u, action)
    BY <1>1, <2>1, <2>4, Zenon DEF Whole!Upsert
  <2>. QED  BY <1>1, <1>2, <2>5, Zenon DEF Whole!ApplyIncidentAction
<1>3. CASE action = CloseAction /\ OpenIncidentThen[u] # NoIncident
  <2>. DEFINE i == OpenIncidentThen[u]
              record == [IncidentsThen[i] EXCEPT !.status = "resolved"]
  <2>1. record.unit = u /\ record.status = "resolved"
    BY <1>3 DEF Store!Incident
  <2>2. /\ IncidentsThen' = [IncidentsThen EXCEPT ![i] = record]
        /\ OpenIncidentThen' = [OpenIncidentThen EXCEPT ![u] = NoIncident]
    BY <1>3, Zenon DEF Took, CloseAction, NoAction, Categories
  <2>3. Whole!PutIncident(i, record)
    <3>. HIDE DEF record, i
    <3>. QED  BY <1>1, <2>1, <2>2, Zenon DEF Whole!PutIncident
  <2>4. Whole!Resolve(u)
    BY <1>1, <1>3, <2>3, Zenon DEF Whole!Resolve
  <2>. QED  BY <1>1, <1>3, <2>4, Zenon DEF Whole!ApplyIncidentAction
<1>4. CASE action = NoAction \/ (action = CloseAction /\ OpenIncidentThen[u] = NoIncident)
  <2>1. IncidentsThen' = IncidentsThen /\ OpenIncidentThen' = OpenIncidentThen
    BY <1>4 DEF Took, CloseAction, NoAction, Categories
  <2>. QED  BY <1>1, <1>4, <2>1, Zenon DEF Whole!ApplyIncidentAction
<1>. QED  BY <1>2, <1>3, <1>4 DEF Took

(* Both copies of the service take the same steps.                         *)
LEMMA SameIncidentAction ==
  ASSUME NEW u, NEW a, Whole!ApplyIncidentAction(u, a)
  PROVE  W!ApplyIncidentAction(u, a)
<1>1. \A i, r : Whole!PutIncident(i, r) => W!PutIncident(i, r)
  BY Zenon DEF Whole!PutIncident, W!PutIncident, Whole!NoIncident, W!NoIncident
<1>2. /\ Whole!NoIncident = W!NoIncident /\ Whole!NoRecord = W!NoRecord
      /\ Whole!NoAction = W!NoAction /\ Whole!CloseAction = W!CloseAction
      /\ Whole!Categories = W!Categories /\ Whole!Opened(u, a) = W!Opened(u, a)
  BY Zenon DEF Whole!NoIncident, W!NoIncident, Whole!NoRecord, W!NoRecord,
     Whole!NoAction, W!NoAction, Whole!CloseAction, W!CloseAction,
     Whole!Categories, W!Categories, Whole!Opened, W!Opened
<1>3. Whole!Upsert(u, a) => W!Upsert(u, a)
  <2>. SUFFICES ASSUME Whole!Upsert(u, a)  PROVE W!Upsert(u, a)
    OBVIOUS
  <2>1. PICK i \in IncidentIDs :
          /\ IF OpenIncidentThen[u] # Whole!NoIncident THEN i = OpenIncidentThen[u]
             ELSE IncidentsThen[i] = Whole!NoRecord
          /\ Whole!PutIncident(i, Whole!Opened(u, a))
    BY Zenon DEF Whole!Upsert
  <2>2. W!PutIncident(i, W!Opened(u, a))
    BY <1>1, <1>2, <2>1, Zenon
  <2>. QED  BY <1>2, <2>1, <2>2, Zenon DEF W!Upsert
<1>4. Whole!Resolve(u) => W!Resolve(u)
  BY <1>1, <1>2, Zenon DEF Whole!Resolve, W!Resolve
<1>. QED  BY <1>2, <1>3, <1>4, Zenon DEF Whole!ApplyIncidentAction,
             W!ApplyIncidentAction

(* They commit the same ...                                                *)
LEMMA SameCommit ==
  ASSUME NEW u, NEW r, Whole!CommitTransition(u, r)
  PROVE  W!CommitTransition(u, r)
<1>1. \A w, i : Whole!RebuildProjections(u, w, i) => W!RebuildProjections(u, w, i)
  BY Zenon DEF Whole!RebuildProjections, W!RebuildProjections, Whole!UnitView,
     W!UnitView, Whole!PutIncidentView, W!PutIncidentView, Whole!PutStationHealth,
     W!PutStationHealth, Whole!NoIncident, W!NoIncident, Whole!NoAction,
     W!NoAction
<1>2. \A l, d : Whole!Replay(l, d) = W!Replay(l, d)
  BY Zenon DEF Whole!Replay, W!Replay
<1>. QED  BY <1>1, <1>2, SameIncidentAction, Zenon
          DEF Whole!CommitTransition, W!CommitTransition

(* ... and so do the same.                                                 *)
LEMMA SameNext == [Whole!Next]_(Whole!vars) => [W!Next]_(W!vars)
<1>1. \A sig, status : /\ Whole!Record(sig, status) => W!Record(sig, status)
                       /\ Whole!Unseen(sig) <=> W!Unseen(sig)
  BY Zenon DEF Whole!Record, W!Record, Whole!Unseen, W!Unseen
<1>2. /\ \A sig : Whole!HandleSignal(sig) => W!HandleSignal(sig)
  BY <1>1, SameCommit, SameEngine, SameWhole, Zenon DEF Whole!HandleSignal,
     W!HandleSignal
<1>3. /\ \A sig : Whole!FailSignal(sig) => W!FailSignal(sig)
  BY <1>1, SameEngine, SameWhole, Zenon DEF Whole!FailSignal, W!FailSignal,
     Whole!views, W!views
<1>4. UNCHANGED Whole!vars => UNCHANGED W!vars
  BY Zenon DEF Whole!vars, W!vars, Whole!store, W!store, Whole!views, W!views
<1>5. /\ \A sig : Whole!IgnoreDuplicate(sig) => W!IgnoreDuplicate(sig)
  BY <1>1, <1>4, Zenon DEF Whole!IgnoreDuplicate, W!IgnoreDuplicate
<1>6. /\ \A u, key : Whole!HandleTimer(u, key) => W!HandleTimer(u, key)
  BY SameCommit, SameEngine, SameWhole, Zenon DEF Whole!HandleTimer, W!HandleTimer
<1>. QED  BY <1>2, <1>3, <1>4, <1>5, <1>6, Zenon
          DEF Whole!Next, W!Next, Whole!SignalNext, W!SignalNext

-----------------------------------------------------------------------------
(* What a step makes of the store in which requests have not begun         *)

(* An incident has at most one owner.                                      *)
LEMMA OwnerIs ==
  ASSUME NEW u \in Units, NEW i
  PROVE  /\ Owns(u, i) => /\ Owner(i) = u
                          /\ OwnerBegun(i) <=> Begun(u)
         /\ Owns(u, i)' => /\ Owner(i)' = u
                           /\ OwnerBegun(i)' <=> Begun(u)'
BY DEF Owns, Owner, OwnerBegun

(* What the mapped store holds of the incidents of a unit.                 *)
LEMMA OwnThen ==
  ASSUME NEW u \in Units, NEW i \in IncidentIDs
  PROVE  /\ Owns(u, i) =>
              /\ IncidentsThen[i] = IF Begun(u) THEN before[u].incidents[i] ELSE incidents[i]
              /\ IncidentViewsThen[i] = IF Begun(u) THEN before[u].dashboard[i]
                                                    ELSE incidentViews[i]
         /\ Owns(u, i)' =>
              /\ IncidentsThen'[i] = IF Begun(u)' THEN before'[u].incidents[i] ELSE incidents'[i]
              /\ IncidentViewsThen'[i] = IF Begun(u)' THEN before'[u].dashboard[i]
                                                      ELSE incidentViews'[i]
<1>1. Owns(u, i) => /\ Owner(i) = u
                    /\ OwnerBegun(i) <=> Begun(u)
  BY OwnerIs
<1>2. Owns(u, i)' => /\ Owner(i)' = u
                     /\ OwnerBegun(i)' <=> Begun(u)'
  BY OwnerIs
<1>. QED  BY <1>1, <1>2 DEF IncidentsThen, IncidentViewsThen

(* Nothing of the other units changes, whatever becomes of the request.    *)
LEMMA OthersThen ==
  ASSUME before \in [Units -> PartType \cup {Blank}], NEW u \in Units, NEW id, NEW x,
         before' = [before EXCEPT ![u] = x], Local(u, id),
         before[u].id \in {id, Fresh}, x.id \in {id, Fresh}
  PROVE  /\ \A v \in Units \ {u} :
              /\ WorkflowsThen'[v] = WorkflowsThen[v] /\ TimersThen'[v] = TimersThen[v]
              /\ HistoryThen'[v] = HistoryThen[v] /\ UnitViewsThen'[v] = UnitViewsThen[v]
              /\ OpenIncidentThen'[v] = OpenIncidentThen[v]
         /\ \A i \in IncidentIDs : ~ Owns(u, i)' =>
              /\ ~ Owns(u, i)
              /\ IncidentsThen'[i] = IncidentsThen[i]
              /\ IncidentViewsThen'[i] = IncidentViewsThen[i]
         /\ \A i \in SignalIDs \ {id} : SignalsThen'[i] = SignalsThen[i]
<1>1. \A v \in Units \ {u} : before'[v] = before[v] /\ (Begun(v)' <=> Begun(v))
  BY DEF Begun
<1>2. ASSUME NEW v \in Units \ {u}
      PROVE  /\ WorkflowsThen'[v] = WorkflowsThen[v] /\ TimersThen'[v] = TimersThen[v]
             /\ HistoryThen'[v] = HistoryThen[v] /\ UnitViewsThen'[v] = UnitViewsThen[v]
             /\ OpenIncidentThen'[v] = OpenIncidentThen[v]
  BY <1>1 DEF Local, WorkflowsThen, TimersThen, HistoryThen, UnitViewsThen,
     OpenIncidentThen
<1>3. ASSUME NEW i \in IncidentIDs, ~ Owns(u, i)'
      PROVE  /\ ~ Owns(u, i)
             /\ IncidentsThen'[i] = IncidentsThen[i]
             /\ IncidentViewsThen'[i] = IncidentViewsThen[i]
  <2>1. incidents'[i] = incidents[i] /\ incidentViews'[i] = incidentViews[i]
    BY <1>3 DEF Local
  <2>2. \A v : Owns(v, i)' <=> Owns(v, i)
    BY <2>1 DEF Owns
  <2>3. CASE \E v \in Units : Owns(v, i)
    <3>1. PICK v \in Units \ {u} : Owns(v, i) /\ Owns(v, i)'
      BY <1>3, <2>2, <2>3
    <3>. QED  BY <1>1, <1>3, <2>1, <2>2, <3>1, OwnThen
  <2>4. CASE ~ \E v \in Units : Owns(v, i)
    <3>1. ~ OwnerBegun(i) /\ ~ OwnerBegun(i)'
      BY <2>2, <2>4 DEF OwnerBegun
    <3>. QED  BY <1>3, <2>1, <2>2, <3>1 DEF IncidentsThen, IncidentViewsThen
  <2>. QED  BY <2>3, <2>4
<1>4. ASSUME NEW i \in SignalIDs \ {id}  PROVE SignalsThen'[i] = SignalsThen[i]
  <2>1. signals'[i] = signals[i] /\ i # Fresh
    BY <1>4, RequestsAssumption DEF Local
  <2>2. before'[u] = x
    OBVIOUS
  <2>3. Carried(i)' = Carried(i) /\ u \notin Carried(i)
    BY <1>1, <1>4, <2>1, <2>2 DEF Carried
  <2>. DEFINE w == CHOOSE v \in Carried(i) : TRUE
  <2>4. Carried(i) # {} => w \in Units \ {u}
    BY <2>3 DEF Carried
  <2>5. SignalsThen[i] = IF Carried(i) = {} THEN signals[i] ELSE before[w].status
    BY DEF SignalsThen
  <2>6. SignalsThen'[i] = IF Carried(i) = {} THEN signals'[i] ELSE before'[w].status
    BY <2>3 DEF SignalsThen
  <2>. HIDE DEF w
  <2>. QED  BY <1>1, <2>1, <2>4, <2>5, <2>6
<1>. QED  BY <1>2, <1>3, <1>4

(* A signal carries the id of the one request it is of.                    *)
LEMMA CarrierThen ==
  ASSUME NEW u \in Units, NEW id \in SignalIDs
  PROVE  /\ (\A v \in Units \ {u} : Begun(v) => before[v].id # id) =>
              /\ Begun(u) /\ before[u].id = id => SignalsThen[id] = before[u].status
              /\ ~ Begun(u) => SignalsThen[id] = signals[id]
         /\ (\A v \in Units \ {u} : Begun(v)' => before'[v].id # id) =>
              /\ Begun(u)' /\ before'[u].id = id => SignalsThen'[id] = before'[u].status
              /\ ~ Begun(u)' => SignalsThen'[id] = signals'[id]
<1>1. ASSUME \A v \in Units \ {u} : Begun(v) => before[v].id # id
      PROVE  /\ Begun(u) /\ before[u].id = id => SignalsThen[id] = before[u].status
             /\ ~ Begun(u) => SignalsThen[id] = signals[id]
  <2>1. /\ Begun(u) /\ before[u].id = id => Carried(id) = {u}
        /\ ~ Begun(u) => Carried(id) = {}
    BY <1>1 DEF Carried
  <2>2. Carried(id) = {u} => (CHOOSE v \in Carried(id) : TRUE) = u
    OBVIOUS
  <2>3. SignalsThen[id] = IF Carried(id) = {} THEN signals[id]
                          ELSE before[CHOOSE v \in Carried(id) : TRUE].status
    BY DEF SignalsThen
  <2>. QED  BY <2>1, <2>2, <2>3
<1>2. ASSUME \A v \in Units \ {u} : Begun(v)' => before'[v].id # id
      PROVE  /\ Begun(u)' /\ before'[u].id = id => SignalsThen'[id] = before'[u].status
             /\ ~ Begun(u)' => SignalsThen'[id] = signals'[id]
  <2>1. /\ Begun(u)' /\ before'[u].id = id => Carried(id)' = {u}
        /\ ~ Begun(u)' => Carried(id)' = {}
    BY <1>2 DEF Carried
  <2>2. Carried(id)' = {u} => (CHOOSE v \in Carried(id)' : TRUE) = u
    OBVIOUS
  <2>3. SignalsThen'[id] = IF Carried(id)' = {} THEN signals'[id]
                           ELSE before'[CHOOSE v \in Carried(id)' : TRUE].status
    BY DEF SignalsThen
  <2>. QED  BY <2>1, <2>2, <2>3
<1>. QED  BY <1>1, <1>2

(* A step that changes nothing of the unit it is for is invisible.         *)
LEMMA Invisible ==
  ASSUME before \in [Units -> PartType \cup {Blank}], NEW u \in Units, NEW id, NEW x,
         before' = [before EXCEPT ![u] = x], Local(u, id),
         before[u].id \in {id, Fresh}, x.id \in {id, Fresh},
         WorkflowsThen'[u] = WorkflowsThen[u], TimersThen'[u] = TimersThen[u],
         HistoryThen'[u] = HistoryThen[u], UnitViewsThen'[u] = UnitViewsThen[u],
         OpenIncidentThen'[u] = OpenIncidentThen[u],
         \A i \in IncidentIDs : Owns(u, i)' =>
           /\ IncidentsThen'[i] = IncidentsThen[i]
           /\ IncidentViewsThen'[i] = IncidentViewsThen[i],
         id \in SignalIDs => SignalsThen'[id] = SignalsThen[id],
         stationViews' = stationViews
  PROVE  UNCHANGED Whole!vars
<1>1. /\ \A v \in Units :
           /\ WorkflowsThen'[v] = WorkflowsThen[v] /\ TimersThen'[v] = TimersThen[v]
           /\ HistoryThen'[v] = HistoryThen[v] /\ UnitViewsThen'[v] = UnitViewsThen[v]
           /\ OpenIncidentThen'[v] = OpenIncidentThen[v]
      /\ \A i \in IncidentIDs : IncidentsThen'[i] = IncidentsThen[i]
                                /\ IncidentViewsThen'[i] = IncidentViewsThen[i]
      /\ \A i \in SignalIDs \ {id} : SignalsThen'[i] = SignalsThen[i]
  BY OthersThen
<1>2. WorkflowsThen' = WorkflowsThen
  BY <1>1 DEF WorkflowsThen
<1>3. TimersThen' = TimersThen
  BY <1>1 DEF TimersThen
<1>4. HistoryThen' = HistoryThen
  BY <1>1 DEF HistoryThen
<1>5. OpenIncidentThen' = OpenIncidentThen
  BY <1>1 DEF OpenIncidentThen
<1>6. UnitViewsThen' = UnitViewsThen
  BY <1>1 DEF UnitViewsThen
<1>7. IncidentsThen' = IncidentsThen
  BY <1>1 DEF IncidentsThen
<1>8. IncidentViewsThen' = IncidentViewsThen
  BY <1>1 DEF IncidentViewsThen
<1>9. SignalsThen' = SignalsThen
  <2>1. \A i \in SignalIDs : SignalsThen'[i] = SignalsThen[i]
    BY <1>1
  <2>. QED  BY <2>1 DEF SignalsThen
<1>. QED  BY <1>2, <1>3, <1>4, <1>5, <1>6, <1>7, <1>8, <1>9, Zenon
          DEF Whole!vars, Whole!store, Whole!views

-----------------------------------------------------------------------------
(* What holds between requests holds of the store in which the requests in *)
(* progress have not begun.                                                *)

(* Its copies of the constant definitions are the same.                    *)
LEMMA SameTerms ==
  /\ W!NoIncident = NoIncident /\ W!NoRecord = Store!NoRecord /\ W!NoAction = NoAction
  /\ W!ReasonCodes = ReasonCodes /\ W!TimerTypes = TimerTypes
  /\ W!CleanStates = Store!CleanStates
  /\ \A wf : W!Coherent(wf) <=> Coherent(wf)
BY Zenon DEF W!NoIncident, NoIncident, W!NoRecord, Store!NoRecord, W!NoAction,
   NoAction,
   W!ReasonCodes, ReasonCodes, W!TimerTypes, TimerTypes, W!CleanStates,
   Store!CleanStates,
   W!Coherent, Coherent, W!Timed, Timed, W!Heartbeat, Heartbeat, W!TestResult,
   TestResult,
   W!RetryBackoff, RetryBackoff, W!ReviewSLA, ReviewSLA

(* The snapshot of a unit, its incident and the trouble the unit is in.    *)
LEMMA SerialUnit ==
  ASSUME W!IInv, NEW u \in Units
  PROVE  LET wf == WorkflowsThen[u]   i == OpenIncidentThen[u]
         IN  /\ Coherent(wf) /\ wf.incident = i
             /\ i # NoIncident => IncidentsThen[i].status = "open" /\ IncidentsThen[i].unit = u
             /\ LET trouble == IF i = NoIncident THEN NoAction
                               ELSE IncidentsThen[i].category
                IN  /\ wf.hold \in ReasonCodes => trouble = "repeated_failure"
                    /\ wf.hold \in TimerTypes  => trouble = "heartbeat_timeout"
                    /\ wf.state = "retry_pending" => trouble = "test_flake"
                    /\ wf.state \in Store!CleanStates => trouble = NoAction
<1>1. W!PerUnit(u) /\ W!Index
  BY Zenon DEF W!IInv
<1>2. /\ W!Coherent(WorkflowsThen[u])
      /\ WorkflowsThen[u].incident = OpenIncidentThen[u]
      /\ W!Explained(WorkflowsThen[u], W!Trouble(u))
  BY <1>1, Zenon DEF W!PerUnit
<1>3. OpenIncidentThen[u] # NoIncident =>
        /\ IncidentsThen[OpenIncidentThen[u]].status = "open"
        /\ IncidentsThen[OpenIncidentThen[u]].unit = u
  BY <1>1, SameTerms, Zenon DEF W!Index, W!Open
<1>4. W!Trouble(u) = IF OpenIncidentThen[u] = NoIncident THEN NoAction
                     ELSE IncidentsThen[OpenIncidentThen[u]].category
  BY SameTerms, Zenon DEF W!Trouble
<1>. QED  BY <1>2, <1>3, <1>4, SameTerms, Zenon DEF W!Explained

(* What a request finds that comes to a unit at rest.                      *)
LEMMA SerialHeld ==
  ASSUME W!IInv, NEW u \in Units, Begun(u),
         \A v \in Units : Begun(v) => Held(v, before[v])
  PROVE  /\ Coherent(before[u].snapshot) /\ before[u].snapshot.incident = before[u].open
         /\ before[u].open # NoIncident => before[u].incidents[before[u].open] # Store!NoRecord
<1>1. WorkflowsThen[u] = before[u].snapshot /\ OpenIncidentThen[u] = before[u].open
  BY DEF WorkflowsThen, OpenIncidentThen
<1>2. /\ Coherent(before[u].snapshot) /\ before[u].snapshot.incident = before[u].open
      /\ before[u].open # NoIncident => IncidentsThen[before[u].open].status = "open"
                                        /\ IncidentsThen[before[u].open].unit = u
  BY <1>1, SerialUnit
<1>3. CASE before[u].open # NoIncident
  <2>. DEFINE i == before[u].open
  <2>1. i \in IncidentIDs /\ Store!NoRecord.status # "open"
    BY <1>3 DEF Held, PartType, Store!NoRecord
  <2>2. CASE Owns(u, i)
    <3>1. IncidentsThen[i] = before[u].incidents[i]
      BY <2>1, <2>2, OwnThen
    <3>. QED  BY <1>2, <1>3, <2>1, <3>1
  <2>3. CASE ~ Owns(u, i)
    <3>1. IncidentsThen[i].status = "open" /\ IncidentsThen[i].unit = u
      BY <1>2, <1>3
    <3>2. CASE \E v \in Units : Owns(v, i)
      <4>1. PICK v \in Units \ {u} : Owns(v, i)
        BY <2>3, <3>2
      <4>2. IncidentsThen[i] = IF Begun(v) THEN before[v].incidents[i] ELSE incidents[i]
        BY <2>1, <4>1, OwnThen
      <4>. QED  BY <2>1, <3>1, <4>1, <4>2 DEF Held, Owns
    <3>3. CASE ~ \E v \in Units : Owns(v, i)
      <4>1. IncidentsThen[i] = incidents[i]
        BY <2>1, <3>3 DEF IncidentsThen, OwnerBegun
      <4>. QED  BY <2>1, <3>1, <3>3, <4>1 DEF Owns
    <3>. QED  BY <3>2, <3>3
  <2>. QED  BY <2>2, <2>3
<1>. QED  BY <1>2, <1>3

(* Of a unit with a request, one goroutine works on it.                    *)
LEMMA BegunIsHeld ==
  ASSUME Discipline, NEW u \in Units, Begun(u)
  PROVE  /\ \E h \in Handlers : Holder(u, h) /\ UnderWay(u, h)
         /\ Held(u, before[u])
         /\ before[u].id \in SignalIDs =>
              \E sig \in Inputs : sig.id = before[u].id /\ sig.unit = u
<1>1. PICK h \in Handlers : Holder(u, h)
  BY DEF Discipline, Quiet, InHand, Holder
<1>2. UnderWay(u, h)
  BY <1>1 DEF Discipline
<1>3. before[u].id \in SignalIDs => \E sig \in Inputs : sig.id = before[u].id /\ sig.unit = u
  BY <1>2, RequestsAssumption DEF UnderWay, Advanced, RequestKept, Asked
<1>. QED  BY <1>1, <1>2, <1>3 DEF UnderWay

(* Two units never have requests with the same id.                         *)
LEMMA CarriersDiffer ==
  ASSUME Discipline, NEW u \in Units, NEW id \in SignalIDs,
         \E sig \in Inputs : sig.id = id /\ sig.unit = u
  PROVE  \A v \in Units \ {u} : Begun(v) => before[v].id # id
<1>. SUFFICES ASSUME NEW v \in Units \ {u}, Begun(v), before[v].id = id  PROVE FALSE
  OBVIOUS
<1>1. PICK s1 \in Inputs : s1.id = id /\ s1.unit = u
  OBVIOUS
<1>2. PICK s2 \in Inputs : s2.id = id /\ s2.unit = v
  BY BegunIsHeld
<1>. QED  BY <1>1, <1>2, RequestsAssumption

-----------------------------------------------------------------------------
(* Each step keeps the discipline                                          *)

(* A step for one unit leaves the parts of the others.                     *)
LEMMA OthersPart ==
  ASSUME NEW u \in Units, NEW id, Local(u, id), NEW v \in Units \ {u}, NEW j,
         j \in SignalIDs => j # id
  PROVE  /\ Part(v, j)' = Part(v, j)
         /\ \A i \in IncidentIDs : Owns(v, i)' <=> Owns(v, i)
<1>1. ASSUME NEW i \in IncidentIDs
      PROVE  /\ Owns(v, i)' <=> Owns(v, i)
             /\ Owns(v, i) => /\ incidents'[i] = incidents[i]
                              /\ incidentViews'[i] = incidentViews[i]
  BY DEF Local, Owns
<1>2. [i \in IncidentIDs |-> IF Owns(v, i) THEN incidents[i] ELSE Store!NoRecord]'
        = [i \in IncidentIDs |-> IF Owns(v, i) THEN incidents[i] ELSE Store!NoRecord]
  BY <1>1
<1>3. [i \in IncidentIDs |-> IF Owns(v, i) THEN incidentViews[i] ELSE NoAction]'
        = [i \in IncidentIDs |-> IF Owns(v, i) THEN incidentViews[i] ELSE NoAction]
  BY <1>1
<1>4. (IF j \in SignalIDs THEN signals[j] ELSE "unseen")'
        = (IF j \in SignalIDs THEN signals[j] ELSE "unseen")
  BY DEF Local
<1>5. /\ Snapshot(v)' = Snapshot(v) /\ timers'[v] = timers[v]
      /\ history'[v] = history[v] /\ openIncident'[v] = openIncident[v]
      /\ unitViews'[v] = unitViews[v]
  BY DEF Local
<1>. QED  BY <1>1, <1>2, <1>3, <1>4, <1>5 DEF Part

(* What is under way for other units stays so.                             *)
LEMMA OthersUnderWay ==
  ASSUME Discipline, NEW u \in Units, NEW h \in Handlers, NEW id, Local(u, id),
         \A v \in Units \ {u} : before'[v] = before[v],
         \A g \in Handlers \ {h} : task'[g] = task[g],
         Busy(h)' => task'[h].unit = u,
         id \in SignalIDs => \E sig \in Inputs : sig.id = id /\ sig.unit = u,
         NEW v \in Units \ {u}, NEW g \in Handlers, Holder(v, g)'
  PROVE  UnderWay(v, g)'
<1>1. g # h /\ task'[g] = task[g] /\ before'[v] = before[v]
  BY DEF Holder
<1>2. Holder(v, g) /\ UnderWay(v, g)
  BY <1>1 DEF Holder, Busy, Discipline
<1>3. Begun(v)
  BY <1>2 DEF Holder, Discipline, Quiet, InHand
<1>4. before[v].id \in SignalIDs => before[v].id # id
  BY <1>3, CarriersDiffer
<1>5. PICK b : b = before[v]
  OBVIOUS
<1>6. Part(v, b.id)' = Part(v, b.id) /\ \A i \in IncidentIDs : Owns(v, i)' <=> Owns(v, i)
  BY <1>4, <1>5, OthersPart
<1>7. \A f \in Handlers : Holder(v, f)' => f = g
  BY <1>2 DEF UnderWay, Holder, Busy
<1>8. Held(v, b)'
  BY <1>2, <1>5, <1>6 DEF UnderWay, Held
<1>9. PICK k, e : /\ Advanced(v, b, Part(v, b.id), task[g], k, e)
                  /\ \/ k = FALSE /\ e \in Inputs
                     \/ k = TRUE /\ e \in TimerInputs
  BY <1>2, <1>5 DEF UnderWay
<1>10. Advanced(v, b, Part(v, b.id)', task'[g], k, e)
  BY <1>1, <1>6, <1>9
<1>. QED  BY <1>1, <1>5, <1>7, <1>8, <1>9, <1>10 DEF UnderWay

(* So a step keeps the discipline that keeps it for the unit it is for.    *)
LEMMA KeepsDiscipline ==
  ASSUME Discipline, NEW u \in Units, NEW h \in Handlers, NEW id, Local(u, id),
         NEW x \in PartType \cup {Blank}, before' = [before EXCEPT ![u] = x],
         \A g \in Handlers \ {h} : task'[g] = task[g] /\ ~ Holder(u, g),
         Busy(h) => task[h].unit = u,
         id \in SignalIDs => \E sig \in Inputs : sig.id = id /\ sig.unit = u,
         x # Blank <=> Busy(h)', Busy(h)' => task'[h].unit = u /\ UnderWay(u, h)',
         \A v \in Units : workflows'[v].attempts = 0
  PROVE  Discipline'
<1>1. before' \in [Units -> PartType \cup {Blank}] /\ before'[u] = x
      /\ \A v \in Units \ {u} : before'[v] = before[v]
  BY DEF Discipline
<1>2. Still'
  <2>1. \A i \in IncidentIDs : incidents'[i] = Store!NoRecord => incidentViews'[i] = NoAction
    BY DEF Discipline, Still, Local, Owns
  <2>. QED  BY <2>1 DEF Still
<1>3. \A v \in Units : Begun(v)' <=> ~ Quiet(v)'
  <2>1. \A v \in Units : ~ Quiet(v)' <=> \E g \in Handlers : Holder(v, g)'
    BY DEF Quiet, InHand, Holder
  <2>2. \A v \in Units : ~ Quiet(v) <=> \E g \in Handlers : Holder(v, g)
    BY DEF Quiet, InHand, Holder
  <2>3. \A v \in Units, g \in Handlers \ {h} : Holder(v, g)' <=> Holder(v, g)
    BY DEF Holder, Busy
  <2>4. \A v \in Units \ {u} : ~ Holder(v, h) /\ ~ Holder(v, h)'
    BY DEF Holder
  <2>5. Holder(u, h)' <=> Busy(h)'
    BY DEF Holder
  <2>6. \A v \in Units : Begun(v) <=> ~ Quiet(v)
    BY DEF Discipline
  <2>7. \A v \in Units \ {u} : Begun(v)' <=> Begun(v)
    BY <1>1 DEF Begun
  <2>8. Begun(u)' <=> Busy(h)'
    BY <1>1 DEF Begun
  <2>. QED  BY <2>1, <2>2, <2>3, <2>4, <2>5, <2>6, <2>7, <2>8
<1>4. ASSUME NEW v \in Units, NEW g \in Handlers, Holder(v, g)'  PROVE UnderWay(v, g)'
  <2>1. CASE v = u
    <3>1. g = h
      BY <1>4, <2>1 DEF Holder, Busy
    <3>. QED  BY <1>4, <2>1, <3>1 DEF Holder
  <2>2. CASE v # u
    BY <1>1, <1>4, <2>2, OthersUnderWay
  <2>. QED  BY <2>1, <2>2
<1>. QED  BY <1>1, <1>2, <1>3, <1>4 DEF Discipline

-----------------------------------------------------------------------------
(* Requests come one at a time for each unit                               *)

SInv == CInv /\ Types /\ Discipline /\ W!IInv

(* What the store holds for a unit is of its type.                         *)
LEMMA PartIsTyped ==
  ASSUME CInv, Types, NEW u \in Units, NEW id \in SignalIDs \cup {Fresh}
  PROVE  Part(u, id) \in PartType /\ Part(u, id) # Blank
<1>1. Snapshot(u) \in Workflow
  BY DEF CInv, Records, Snapshot, Workflow
<1>2. [i \in IncidentIDs |-> IF Owns(u, i) THEN incidents[i] ELSE Store!NoRecord]
        \in [IncidentIDs -> Store!Incident]
  <2>1. Store!NoRecord \in Store!Incident
    BY DEF Store!Incident
  <2>. QED  BY <2>1 DEF CInv, Index
<1>3. [i \in IncidentIDs |-> IF Owns(u, i) THEN incidentViews[i] ELSE NoAction]
        \in [IncidentIDs -> Categories \cup {NoAction}]
  BY DEF Types
<1>4. (IF id \in SignalIDs THEN signals[id] ELSE "unseen") \in {"unseen", "recorded", "decided"}
  BY DEF Types
<1>5. /\ timers[u] \in SUBSET TimerKey /\ history[u] \in Past
      /\ openIncident[u] \in IncidentIDs \cup {NoIncident}
      /\ unitViews[u] \in Store!UnitViewType
  BY DEF Types, CInv, Index
<1>6. Part(u, id) \in PartType
  BY <1>1, <1>2, <1>3, <1>4, <1>5, Zenon DEF Part, PartType, Past
<1>7. Part(u, id) # Blank
  <2>1. DOMAIN Part(u, id) # DOMAIN Blank
    BY DEF Part, Blank
  <2>. QED  BY <2>1
<1>. QED  BY <1>6, <1>7

(* A unit without a request is told from one that has one.                 *)
LEMMA BlankIsNone == Blank \notin PartType
  BY DEF Blank, PartType

(* A request that comes to a quiet unit begins, and nothing shows.         *)
LEMMA TakeBegins ==
  ASSUME SInv, NEW u \in Units, Quiet(u), NEW h \in Handlers, NEW k \in BOOLEAN, NEW e,
         Asked(u, k, e), NEW id \in SignalIDs \cup {Fresh}, id = IF k THEN Fresh ELSE e.id,
         IF k THEN e \in TimerInputs ELSE Sendable(e),
         Take(h, u, k, e, IF k THEN "load" ELSE "exists"), Remember(u, id)
  PROVE  Discipline' /\ UNCHANGED Whole!vars
<1>1. PICK b : b = Part(u, id)
  OBVIOUS
<1>2. b \in PartType /\ b # Blank /\ b.id = id
  BY <1>1, PartIsTyped DEF SInv, Part
<1>3. before' = [before EXCEPT ![u] = b] /\ before \in [Units -> PartType \cup {Blank}]
  BY <1>1 DEF Remember, SInv, Discipline
<1>4. ~ Begun(u) /\ before[u] = Blank /\ before[u].id = Fresh
  BY DEF SInv, Discipline, Begun, Blank
<1>5. /\ UNCHANGED memory /\ ~ Busy(h)
      /\ task'[h] = [at |-> IF k THEN "load" ELSE "exists", unit |-> u, timer |-> k,
                     event |-> e, next |-> New, result |-> Rejected(New), found |-> Nothing]
      /\ \A g \in Handlers \ {h} : task'[g] = task[g]
  BY DEF Take, SInv, CInv
<1>6. Busy(h)' /\ task'[h].unit = u
  <2>1. DOMAIN task'[h] # DOMAIN Idle
    BY <1>5 DEF Idle
  <2>. QED  BY <1>5, <2>1 DEF Busy
<1>7. Part(u, id)' = b /\ Local(u, id) /\ \A i : Owns(u, i)' <=> Owns(u, i)
  BY <1>1, <1>5, PartStays DEF Owns, memory
<1>8. id \in SignalIDs => \E sig \in Inputs : sig.id = id /\ sig.unit = u
  BY RequestsAssumption DEF Asked
<1>9. Held(u, b)'
  BY <1>1, <1>2, <1>7 DEF Held, Part, Owns
<1>10. Advanced(u, b, b, task'[h], k, e)
  <2>1. ~ k /\ e.type = "test.failed" => b.snapshot.attempts < MaxAttempts
    <3>1. b.snapshot.attempts = attempts[u]
      BY <1>1 DEF Part, Snapshot, SInv, CInv, Records, Workflow
    <3>. SUFFICES ASSUME ~ k, e.type = "test.failed"  PROVE attempts[u] < MaxAttempts
      BY <3>1
    <3>2. e.unit = u
      BY DEF Asked
    <3>. DEFINE coming == {g \in InHand(u) :
                   /\ task[g].at \in {"exists", "append", "load", "apply", "count"}
                   /\ ~ task[g].timer /\ task[g].event.type = "test.failed"}
    <3>3. coming = {}
      BY DEF Quiet
    <3>4. attempts[u] + Cardinality(coming) < MaxAttempts
      BY <3>2 DEF Sendable
    <3>. HIDE DEF coming
    <3>5. attempts[u] \in Nat
      BY DEF SInv, CInv, Records
    <3>. QED  BY <3>3, <3>4, <3>5, FS_EmptySet
  <2>2. b.id = Fresh => b.id \notin SignalIDs
    BY RequestsAssumption
  <2>. QED  BY <1>2, <1>5, <2>1, <2>2
       DEF Advanced, RequestKept, SignalKept, SnapshotKept, RecordsKept,
           IncidentsKept, ViewsKept, TaskKept, Asking, Unlogged, Uncancelled,
           Unacted, Stored, Reloaded, Viewed
<1>11. \A g \in Handlers \ {h} : ~ Holder(u, g) /\ ~ Holder(u, g)'
  BY <1>5 DEF Holder, Quiet, InHand, Busy
<1>12. UnderWay(u, h)'
  <2>1. \A g \in Handlers : Holder(u, g)' => g = h
    BY <1>11
  <2>2. before'[u] = b
    BY <1>3
  <2>3. \/ k = FALSE /\ e \in Inputs
        \/ k = TRUE /\ e \in TimerInputs
    BY DEF Asked
  <2>. QED  BY <1>2, <1>7, <1>9, <1>10, <2>1, <2>2, <2>3 DEF UnderWay
<1>13. Discipline'
  <2>1. \A v \in Units : workflows'[v].attempts = 0
    BY <1>5 DEF memory, SInv, Discipline, Still
  <2>. QED  BY <1>2, <1>3, <1>5, <1>6, <1>7, <1>8, <1>11, <1>12, <2>1,
               KeepsDiscipline
            DEF SInv
<1>14. UNCHANGED Whole!vars
  <2>1. before'[u] = b /\ Begun(u)' /\ \A v \in Units \ {u} : before'[v] = before[v]
    BY <1>2, <1>3 DEF Begun
  <2>2. /\ WorkflowsThen'[u] = WorkflowsThen[u] /\ TimersThen'[u] = TimersThen[u]
        /\ HistoryThen'[u] = HistoryThen[u] /\ UnitViewsThen'[u] = UnitViewsThen[u]
        /\ OpenIncidentThen'[u] = OpenIncidentThen[u]
    BY <1>1, <1>4, <2>1 DEF Part, WorkflowsThen, TimersThen, HistoryThen,
       UnitViewsThen,
       OpenIncidentThen
  <2>3. ASSUME NEW i \in IncidentIDs, Owns(u, i)'
        PROVE  /\ IncidentsThen'[i] = IncidentsThen[i]
               /\ IncidentViewsThen'[i] = IncidentViewsThen[i]
    <3>1. Owns(u, i)
      BY <1>7, <2>3
    <3>2. IncidentsThen'[i] = b.incidents[i] /\ IncidentViewsThen'[i] = b.dashboard[i]
      BY <2>1, <2>3, OwnThen
    <3>3. IncidentsThen[i] = incidents[i] /\ IncidentViewsThen[i] = incidentViews[i]
      BY <1>4, <3>1, OwnThen
    <3>. QED  BY <1>1, <3>1, <3>2, <3>3 DEF Part
  <2>4. ASSUME id \in SignalIDs  PROVE SignalsThen'[id] = SignalsThen[id]
    <3>1. \A v \in Units \ {u} : Begun(v) => before[v].id # id
      BY <1>8, <2>4, CarriersDiffer DEF SInv
    <3>2. \A v \in Units \ {u} : Begun(v)' => before'[v].id # id
      BY <2>1, <3>1 DEF Begun
    <3>3. SignalsThen[id] = signals[id] /\ SignalsThen'[id] = b.status
      BY <1>2, <1>4, <2>1, <2>4, <3>1, <3>2, CarrierThen
    <3>. QED  BY <1>1, <2>4, <3>3 DEF Part
  <2>. QED  BY <1>2, <1>3, <1>4, <1>5, <1>7, <2>2, <2>3, <2>4, Invisible DEF
               memory
<1>. QED  BY <1>13, <1>14

(* A step of a goroutine changes its own task only.                        *)
LEMMA OwnTask ==
  ASSUME CInv, NEW h \in Handlers, Step(h)
  PROVE  Busy(h) /\ \A g \in Handlers \ {h} : task'[g] = task[g]
<1>1. Busy(h)
  BY DEF Step, SignalExists, AppendSignal, GetWorkflow, Apply, Count,
     AppendDecisions,
     CancelTimers, ScheduleTimers, FindIncident, PutIncident, Reload,
     DeleteIncidentView, PutWorkflow, PutUnitStatus, LookUpIncident, ShowIncident,
     PutStationHealth, At
<1>2. \E t : task' = [task EXCEPT ![h] = t]
  BY Zenon DEF Step, SignalExists, AppendSignal, GetWorkflow, Apply, Count,
     AppendDecisions,
     CancelTimers, ScheduleTimers, FindIncident, PutIncident, Reload,
     DeleteIncidentView, PutWorkflow, PutUnitStatus, LookUpIncident, ShowIncident,
     PutStationHealth, Goto, Finish
<1>. QED  BY <1>1, <1>2 DEF CInv

(* A goroutine at work serves a request of its unit.                       *)
LEMMA BusyServes ==
  ASSUME SInv, NEW u \in Units, NEW h \in Handlers, Holder(u, h)
  PROVE  /\ Begun(u) /\ before[u] \in PartType
         /\ \A g \in Handlers \ {h} : ~ Holder(u, g)
         /\ before[u].id \in SignalIDs =>
              \E sig \in Inputs : sig.id = before[u].id /\ sig.unit = u
         /\ \E k \in BOOLEAN : \E e, b :
              /\ b = before[u] /\ Serving(u, h, b, k, e)
              /\ IF k THEN e \in TimerInputs ELSE e \in Inputs
<1>1. UnderWay(u, h) /\ Begun(u)
  BY DEF SInv, Discipline, Quiet, InHand, Holder
<1>2. PICK b : b = before[u]
  OBVIOUS
<1>3. PICK k, e : /\ Advanced(u, b, Part(u, b.id), task[h], k, e)
                  /\ \/ k = FALSE /\ e \in Inputs
                     \/ k = TRUE /\ e \in TimerInputs
  BY <1>1, <1>2 DEF UnderWay
<1>4. /\ Coherent(b.snapshot) /\ b.snapshot.incident = b.open
      /\ b.open # NoIncident => b.incidents[b.open] # Store!NoRecord
  BY <1>1, <1>2, SerialHeld, BegunIsHeld DEF SInv
<1>5. Held(u, b) /\ b \in PartType /\ b.snapshot \in Workflow
  BY <1>1, <1>2 DEF UnderWay, Held, PartType
<1>6. Contract(b.snapshot, Answer(b.snapshot, k, e))
  <2>1. CASE k
    <3>1. /\ e \in TimerKey
          /\ e[1] = "station_heartbeat_timeout" \/ e[2] = "test"
      BY <1>3, <2>1, ConcurrentAssumption, StoreTypes DEF Store!Armable
    <3>2. Contract(b.snapshot, ApplyTimer(b.snapshot, e))
      BY <1>4, <1>5, <3>1, ApplyTimerContract
    <3>. QED  BY <2>1, <3>2 DEF Answer
  <2>2. CASE ~ k
    <3>1. e.station \in StationIDs
      BY <1>3, <2>2, ConcurrentAssumption DEF Store!Signal
    <3>2. Contract(b.snapshot, ApplySignal(b.snapshot, e))
      BY <1>4, <1>5, <3>1, ApplySignalContract
    <3>. QED  BY <2>2, <3>2 DEF Answer
  <2>. QED  BY <2>1, <2>2
<1>7. Serving(u, h, b, k, e)
  BY <1>3, <1>4, <1>5, <1>6 DEF Serving, SInv, Discipline
<1>8. \A g \in Handlers \ {h} : ~ Holder(u, g)
  BY <1>1 DEF UnderWay
<1>. QED  BY <1>1, <1>2, <1>3, <1>5, <1>7, <1>8, BegunIsHeld DEF SInv

(* As long as the goroutine is not done, a step takes it one place further *)
(* and nothing shows.                                                      *)
LEMMA StepAdvances ==
  ASSUME NEW u \in Units, NEW h \in Handlers, NEW b, NEW k, NEW e,
         Serving(u, h, b, k, e), Step(h), Busy(h)'
  PROVE  Advanced(u, b, Part(u, b.id), task[h], k, e)' /\ Local(u, b.id)
<1>1. ~ PutStationHealth(h)
  BY DEF PutStationHealth, Finish, Busy, Serving, CInv
<1>. QED  BY <1>1, ExistsAdvances, AppendAdvances, LoadAdvances, ApplyAdvances,
             CountAdvances, LogAdvances, CancelAdvances, ScheduleAdvances,
             FindAdvances,
             UpsertAdvances, ReloadAdvances, UnlistAdvances, PutAdvances,
             StatusAdvances,
             LookAdvances, ShowAdvances DEF Step

(* What the mapped store holds of the incidents a request has or opens.    *)
LEMMA HadThen ==
  ASSUME Still, NEW u \in Units, Begun(u), Held(u, before[u]), NEW id, Local(u, id),
         NEW i \in IncidentIDs, Owns(u, i)'
  PROVE  /\ IncidentsThen[i] = before[u].incidents[i]
         /\ IncidentViewsThen[i] = before[u].dashboard[i]
<1>1. CASE Owns(u, i)
  BY <1>1, OwnThen
<1>2. CASE ~ Owns(u, i)
  <2>1. incidents[i] = Store!NoRecord
    BY <1>2 DEF Local, Owns
  <2>2. ~ OwnerBegun(i)
    BY <2>1 DEF OwnerBegun, Owns
  <2>3. IncidentsThen[i] = Store!NoRecord /\ IncidentViewsThen[i] = NoAction
    BY <2>1, <2>2 DEF IncidentsThen, IncidentViewsThen, Still
  <2>. QED  BY <1>2, <2>3 DEF Held
<1>. QED  BY <1>1, <1>2

(* Such a step keeps the discipline and changes nothing of the mapped      *)
(* store.                                                                  *)
LEMMA StepIsInvisible ==
  ASSUME SInv, NEW h \in Handlers, Step(h), Busy(h)', before' = before
  PROVE  Discipline' /\ UNCHANGED Whole!vars
<1>1. PICK u \in Units : Holder(u, h)
  BY OwnTask DEF SInv, CInv, Fine, Tasks, Holder
<1>2. /\ Begun(u) /\ before[u] \in PartType
      /\ \A g \in Handlers \ {h} : ~ Holder(u, g)
      /\ before[u].id \in SignalIDs =>
           \E sig \in Inputs : sig.id = before[u].id /\ sig.unit = u
  BY <1>1, BusyServes
<1>3. PICK k, e, b : /\ k \in BOOLEAN /\ b = before[u] /\ Serving(u, h, b, k, e)
                     /\ IF k THEN e \in TimerInputs ELSE e \in Inputs
  BY <1>1, BusyServes
<1>4. Advanced(u, b, Part(u, b.id)', task'[h], k, e) /\ Local(u, b.id)
  BY <1>3, StepAdvances
<1>5. task'[h].unit = u
  BY <1>4 DEF Advanced, RequestKept
<1>6. \A g \in Handlers \ {h} : task'[g] = task[g]
  BY OwnTask DEF SInv
<1>7. before \in [Units -> PartType \cup {Blank}]
  BY DEF SInv, Discipline
<1>8. before' = [before EXCEPT ![u] = b]
  BY <1>3, <1>7
<1>9. UnderWay(u, h)'
  <2>1. Held(u, b)'
    <3>1. \A i \in IncidentIDs : Owns(u, i) => Owns(u, i)'
      BY <1>4 DEF Local, Owns
    <3>2. Held(u, b)
      BY <1>3 DEF Serving
    <3>. QED  BY <3>1, <3>2 DEF Held
  <2>2. \A g \in Handlers : Holder(u, g)' => g = h
    BY <1>2, <1>6 DEF Holder, Busy
  <2>3. before'[u] = b
    BY <1>3
  <2>. QED  BY <1>3, <1>4, <2>1, <2>2, <2>3 DEF UnderWay
<1>10. \A v \in Units : workflows'[v].attempts = 0
  <2>1. CASE PutWorkflow(h)
    <3>1. task[h].next \in Workflow
      BY <1>1 DEF SInv, CInv, Fine, Tasks, Holder
    <3>2. workflows' = [workflows EXCEPT ![task[h].unit] = [task[h].next EXCEPT !.attempts = 0]]
      BY <2>1 DEF PutWorkflow
    <3>3. [task[h].next EXCEPT !.attempts = 0].attempts = 0
      BY <3>1 DEF Workflow
    <3>. QED  BY <3>2, <3>3 DEF SInv, CInv, Records, Discipline, Still
  <2>2. CASE workflows' = workflows
    BY <2>2 DEF SInv, Discipline, Still
  <2>. QED  BY <2>1, <2>2 DEF Step, SignalExists, AppendSignal, GetWorkflow,
               Apply, Count,
            AppendDecisions, CancelTimers, ScheduleTimers, FindIncident,
            PutIncident, Reload,
            DeleteIncidentView, PutUnitStatus, LookUpIncident, ShowIncident,
            PutStationHealth, memory
<1>11. Discipline'
  <2>1. b # Blank
    BY <1>2, <1>3 DEF Begun
  <2>2. Busy(h) => task[h].unit = u
    BY <1>1 DEF Holder
  <2>. QED  BY <1>2, <1>3, <1>4, <1>5, <1>6, <1>8, <1>9, <1>10, <2>1, <2>2,
               KeepsDiscipline DEF SInv
<1>12. UNCHANGED Whole!vars
  <2>1. before'[u] = b /\ before[u] = b /\ Begun(u) /\ Begun(u)'
    BY <1>2, <1>3 DEF Begun
  <2>2. /\ WorkflowsThen'[u] = WorkflowsThen[u] /\ TimersThen'[u] = TimersThen[u]
        /\ HistoryThen'[u] = HistoryThen[u] /\ UnitViewsThen'[u] = UnitViewsThen[u]
        /\ OpenIncidentThen'[u] = OpenIncidentThen[u]
    BY <2>1 DEF WorkflowsThen, TimersThen, HistoryThen, UnitViewsThen,
       OpenIncidentThen
  <2>3. ASSUME NEW i \in IncidentIDs, Owns(u, i)'
        PROVE  /\ IncidentsThen'[i] = IncidentsThen[i]
               /\ IncidentViewsThen'[i] = IncidentViewsThen[i]
    <3>1. IncidentsThen'[i] = b.incidents[i] /\ IncidentViewsThen'[i] = b.dashboard[i]
      BY <2>1, <2>3, OwnThen
    <3>2. IncidentsThen[i] = b.incidents[i] /\ IncidentViewsThen[i] = b.dashboard[i]
      BY <1>3, <1>4, <2>1, <2>3, HadThen DEF Serving
    <3>. QED  BY <3>1, <3>2
  <2>4. ASSUME b.id \in SignalIDs  PROVE SignalsThen'[b.id] = SignalsThen[b.id]
    <3>1. \A v \in Units \ {u} : Begun(v) => before[v].id # b.id
      BY <1>2, <2>1, <2>4, CarriersDiffer DEF SInv
    <3>2. \A v \in Units \ {u} : Begun(v)' => before'[v].id # b.id
      BY <3>1 DEF Begun
    <3>. QED  BY <2>1, <2>4, <3>1, <3>2, CarrierThen
  <2>5. stationViews' = stationViews
    <3>1. ~ PutStationHealth(h)
      BY DEF PutStationHealth, Finish, Busy, SInv, CInv
    <3>. QED  BY <3>1 DEF Step, SignalExists, AppendSignal, GetWorkflow, Apply,
                 Count,
         AppendDecisions, CancelTimers, ScheduleTimers, FindIncident, PutIncident,
         Reload,
         DeleteIncidentView, PutWorkflow, PutUnitStatus, LookUpIncident,
         ShowIncident,
         memory, Views
  <2>. QED  BY <1>4, <1>7, <1>8, <2>1, <2>2, <2>3, <2>4, <2>5, Invisible
<1>. QED  BY <1>11, <1>12

-----------------------------------------------------------------------------
(* The last step of a request                                              *)

(* A step that ends the request of a unit: b is what was there before it,  *)
(* q what it leaves.                                                       *)
Ends(u, h, b, q) ==
  /\ u \in Units /\ Begun(u) /\ b = before[u] /\ Held(u, b)
  /\ before' = [before EXCEPT ![u] = Blank]
  /\ Local(u, b.id) /\ q = Part(u, b.id)'

(* From then on the mapped store holds for the unit what the store does.   *)
LEMMA EndThen ==
  ASSUME SInv, NEW u, NEW h, NEW b, NEW q, Ends(u, h, b, q)
  PROVE  /\ WorkflowsThen[u] = b.snapshot /\ TimersThen[u] = b.timers
         /\ HistoryThen[u] = b.history /\ UnitViewsThen[u] = b.view
         /\ OpenIncidentThen[u] = b.open
         /\ WorkflowsThen' = [WorkflowsThen EXCEPT ![u] = q.snapshot]
         /\ TimersThen' = [TimersThen EXCEPT ![u] = q.timers]
         /\ HistoryThen' = [HistoryThen EXCEPT ![u] = q.history]
         /\ UnitViewsThen' = [UnitViewsThen EXCEPT ![u] = q.view]
         /\ OpenIncidentThen' = [OpenIncidentThen EXCEPT ![u] = q.open]
         /\ OpenIncidentThen'[u] = q.open /\ HistoryThen'[u] = q.history
<1>1. ~ Begun(u)' /\ b.id \in {b.id, Fresh} /\ Blank.id \in {b.id, Fresh} /\ u \in Units
  BY DEF Ends, Begun, SInv, Discipline, Blank
<1>2. \A v \in Units \ {u} :
        /\ WorkflowsThen'[v] = WorkflowsThen[v] /\ TimersThen'[v] = TimersThen[v]
        /\ HistoryThen'[v] = HistoryThen[v] /\ UnitViewsThen'[v] = UnitViewsThen[v]
        /\ OpenIncidentThen'[v] = OpenIncidentThen[v]
  BY <1>1, OthersThen DEF Ends, SInv, Discipline
<1>3. /\ WorkflowsThen[u] = b.snapshot /\ TimersThen[u] = b.timers
      /\ HistoryThen[u] = b.history /\ UnitViewsThen[u] = b.view
      /\ OpenIncidentThen[u] = b.open
  BY DEF Ends, WorkflowsThen, TimersThen, HistoryThen, UnitViewsThen,
     OpenIncidentThen
<1>4. /\ WorkflowsThen'[u] = q.snapshot /\ TimersThen'[u] = q.timers
      /\ HistoryThen'[u] = q.history /\ UnitViewsThen'[u] = q.view
      /\ OpenIncidentThen'[u] = q.open
  BY <1>1 DEF Ends, Part, WorkflowsThen, TimersThen, HistoryThen, UnitViewsThen,
     OpenIncidentThen
<1>5. WorkflowsThen' = [WorkflowsThen EXCEPT ![u] = q.snapshot]
  BY <1>2, <1>4 DEF WorkflowsThen
<1>6. TimersThen' = [TimersThen EXCEPT ![u] = q.timers]
  BY <1>2, <1>4 DEF TimersThen
<1>7. HistoryThen' = [HistoryThen EXCEPT ![u] = q.history]
  BY <1>2, <1>4 DEF HistoryThen
<1>8. UnitViewsThen' = [UnitViewsThen EXCEPT ![u] = q.view]
  BY <1>2, <1>4 DEF UnitViewsThen
<1>9. OpenIncidentThen' = [OpenIncidentThen EXCEPT ![u] = q.open]
  BY <1>2, <1>4 DEF OpenIncidentThen
<1>. QED  BY <1>3, <1>4, <1>5, <1>6, <1>7, <1>8, <1>9

(* Of the incidents, only those the unit has by then can have changed.     *)
LEMMA EndIncidents ==
  ASSUME SInv, NEW u, NEW h, NEW b, NEW q, Ends(u, h, b, q), NEW i \in IncidentIDs
  PROVE  IF Owns(u, i)'
         THEN /\ IncidentsThen[i] = b.incidents[i] /\ IncidentViewsThen[i] = b.dashboard[i]
              /\ IncidentsThen'[i] = q.incidents[i] /\ IncidentViewsThen'[i] = q.dashboard[i]
         ELSE /\ IncidentsThen'[i] = IncidentsThen[i]
              /\ IncidentViewsThen'[i] = IncidentViewsThen[i]
<1>1. /\ ~ Begun(u)' /\ Begun(u) /\ u \in Units
      /\ b.id \in {b.id, Fresh} /\ Blank.id \in {b.id, Fresh}
  BY DEF Ends, Begun, SInv, Discipline, Blank
<1>2. CASE Owns(u, i)'
  <2>1. IncidentsThen[i] = b.incidents[i] /\ IncidentViewsThen[i] = b.dashboard[i]
    BY <1>1, <1>2, HadThen DEF Ends, SInv, Discipline
  <2>2. IncidentsThen'[i] = incidents'[i] /\ IncidentViewsThen'[i] = incidentViews'[i]
    BY <1>1, <1>2, OwnThen
  <2>. QED  BY <1>2, <2>1, <2>2 DEF Ends, Part
<1>3. CASE ~ Owns(u, i)'
  <2>1. /\ before \in [Units -> PartType \cup {Blank}] /\ before[u].id \in {b.id, Fresh}
        /\ before' = [before EXCEPT ![u] = Blank] /\ Local(u, b.id)
    BY DEF Ends, SInv, Discipline
  <2>2. \A j \in IncidentIDs : ~ Owns(u, j)' =>
          IncidentsThen'[j] = IncidentsThen[j] /\ IncidentViewsThen'[j] = IncidentViewsThen[j]
    BY <1>1, <2>1, OthersThen
  <2>. QED  BY <1>3, <2>2
<1>. QED  BY <1>2, <1>3

(* If one of them changed, so did the mapped store, and likewise for what  *)
(* is shown of one.                                                        *)
LEMMA EndIncident ==
  ASSUME SInv, NEW u, NEW h, NEW b, NEW q, Ends(u, h, b, q)
  PROVE  /\ q.incidents = b.incidents => IncidentsThen' = IncidentsThen
         /\ \A i \in IncidentIDs : \A record :
              Owns(u, i)' /\ q.incidents = [b.incidents EXCEPT ![i] = record]
                => IncidentsThen' = [IncidentsThen EXCEPT ![i] = record]
<1>1. DOMAIN b.incidents = IncidentIDs
  BY DEF Ends, Held, PartType
<1>2. \A j \in IncidentIDs :
        IF Owns(u, j)' THEN /\ IncidentsThen[j] = b.incidents[j]
                            /\ IncidentsThen'[j] = q.incidents[j]
                       ELSE IncidentsThen'[j] = IncidentsThen[j]
  BY EndIncidents
<1>3. /\ IncidentsThen = [j \in IncidentIDs |-> IncidentsThen[j]]
      /\ IncidentsThen' = [j \in IncidentIDs |-> IncidentsThen'[j]]
  BY DEF IncidentsThen
<1>4. q.incidents = b.incidents => IncidentsThen' = IncidentsThen
  BY <1>2, <1>3
<1>5. ASSUME NEW i \in IncidentIDs, NEW record, Owns(u, i)',
             q.incidents = [b.incidents EXCEPT ![i] = record]
      PROVE  IncidentsThen' = [IncidentsThen EXCEPT ![i] = record]
  <2>1. \A j \in IncidentIDs : IncidentsThen'[j] = IF j = i THEN record ELSE IncidentsThen[j]
    BY <1>1, <1>2, <1>5
  <2>. QED  BY <1>3, <2>1
<1>. QED  BY <1>4, <1>5

(* The dashboard follows the open incident of the unit.                    *)
LEMMA EndView ==
  ASSUME SInv, NEW u, NEW h, NEW b, NEW q, Ends(u, h, b, q)
  PROVE  /\ q.dashboard = b.dashboard => IncidentViewsThen' = IncidentViewsThen
         /\ \A i \in IncidentIDs : \A category :
              Owns(u, i)' /\ q.dashboard = [b.dashboard EXCEPT ![i] = category]
                => IncidentViewsThen' = [IncidentViewsThen EXCEPT ![i] = category]
<1>1. DOMAIN b.dashboard = IncidentIDs
  BY DEF Ends, Held, PartType
<1>2. \A j \in IncidentIDs :
        IF Owns(u, j)'
        THEN IncidentViewsThen[j] = b.dashboard[j] /\ IncidentViewsThen'[j] = q.dashboard[j]
        ELSE IncidentViewsThen'[j] = IncidentViewsThen[j]
  BY EndIncidents
<1>3. /\ IncidentViewsThen = [j \in IncidentIDs |-> IncidentViewsThen[j]]
      /\ IncidentViewsThen' = [j \in IncidentIDs |-> IncidentViewsThen'[j]]
  BY DEF IncidentViewsThen
<1>4. q.dashboard = b.dashboard => IncidentViewsThen' = IncidentViewsThen
  BY <1>2, <1>3
<1>5. ASSUME NEW i \in IncidentIDs, NEW category, Owns(u, i)',
             q.dashboard = [b.dashboard EXCEPT ![i] = category]
      PROVE  IncidentViewsThen' = [IncidentViewsThen EXCEPT ![i] = category]
  <2>1. \A j \in IncidentIDs : IncidentViewsThen'[j] = IF j = i THEN category
                                                        ELSE IncidentViewsThen[j]
    BY <1>1, <1>2, <1>5
  <2>. QED  BY <1>3, <2>1
<1>. QED  BY <1>4, <1>5

(* Of the signals, only the one of the request.                            *)
LEMMA EndSignals ==
  ASSUME SInv, NEW u, NEW h, NEW b, NEW q, Ends(u, h, b, q)
  PROVE  /\ b.id \notin SignalIDs \/ q.status = b.status => SignalsThen' = SignalsThen
         /\ b.id \in SignalIDs => SignalsThen' = [SignalsThen EXCEPT ![b.id] = q.status]
         /\ (b.id \in SignalIDs => SignalsThen[b.id] = b.status)
<1>1. /\ ~ Begun(u)' /\ Begun(u) /\ u \in Units
      /\ b.id \in {b.id, Fresh} /\ Blank.id \in {b.id, Fresh}
  BY DEF Ends, Begun, SInv, Discipline, Blank
<1>2. \A i \in SignalIDs \ {b.id} : SignalsThen'[i] = SignalsThen[i]
  <2>1. PICK id : id = b.id
    OBVIOUS
  <2>2. /\ before \in [Units -> PartType \cup {Blank}] /\ before[u].id \in {id, Fresh}
        /\ before' = [before EXCEPT ![u] = Blank] /\ Local(u, id)
    BY <2>1 DEF Ends, SInv, Discipline
  <2>3. Blank.id \in {id, Fresh} /\ u \in Units
    BY <1>1, <2>1
  <2>4. \A i \in SignalIDs \ {id} : SignalsThen'[i] = SignalsThen[i]
    BY <2>2, <2>3, OthersThen
  <2>. QED  BY <2>1, <2>4
<1>3. ASSUME b.id \in SignalIDs
      PROVE  SignalsThen[b.id] = b.status /\ SignalsThen'[b.id] = q.status
  <2>1. \E sig \in Inputs : sig.id = b.id /\ sig.unit = u
    BY <1>1, <1>3, BegunIsHeld DEF Ends, SInv
  <2>2. \A v \in Units \ {u} : Begun(v) => before[v].id # b.id
    BY <1>1, <1>3, <2>1, CarriersDiffer DEF SInv
  <2>3. \A v \in Units \ {u} : Begun(v)' => before'[v].id # b.id
    BY <2>2 DEF Begun, Ends, SInv, Discipline
  <2>4. SignalsThen[b.id] = b.status /\ SignalsThen'[b.id] = signals'[b.id]
    BY <1>1, <1>3, <2>2, <2>3, CarrierThen DEF Ends
  <2>. QED  BY <1>3, <2>4 DEF Ends, Part
<1>4. /\ SignalsThen = [i \in SignalIDs |-> SignalsThen[i]]
      /\ SignalsThen' = [i \in SignalIDs |-> SignalsThen'[i]]
  BY DEF SignalsThen
<1>5. CASE b.id \notin SignalIDs
  BY <1>2, <1>4, <1>5
<1>6. CASE b.id \in SignalIDs
  <2>1. \A i \in SignalIDs : SignalsThen'[i] = IF i = b.id THEN q.status ELSE SignalsThen[i]
    BY <1>2, <1>3, <1>6
  <2>2. SignalsThen' = [SignalsThen EXCEPT ![b.id] = q.status]
    BY <1>4, <2>1
  <2>3. q.status = b.status => SignalsThen' = SignalsThen
    BY <1>3, <1>4, <1>6, <2>1
  <2>. QED  BY <1>3, <1>6, <2>2, <2>3
<1>. QED  BY <1>5, <1>6

(* The incident action of a request takes effect.                          *)
LEMMA EndTook ==
  ASSUME SInv, NEW u, NEW h, NEW b, NEW q, Ends(u, h, b, q), NEW action, Acts(u, b, q, action),
         b.open # NoIncident => b.incidents[b.open] # Store!NoRecord
  PROVE  Whole!ApplyIncidentAction(u, action)
<1>1. /\ OpenIncidentThen[u] = b.open
      /\ OpenIncidentThen' = [OpenIncidentThen EXCEPT ![u] = q.open]
  BY EndThen
<1>2. /\ \A i \in IncidentIDs : Owns(u, i)' => IncidentsThen[i] = b.incidents[i]
      /\ \A i \in IncidentIDs : ~ Owns(u, i)' => q.incidents[i] = Store!NoRecord
  <2>1. \A i \in IncidentIDs : Owns(u, i)' => IncidentsThen[i] = b.incidents[i]
    BY EndIncidents
  <2>2. \A i \in IncidentIDs : ~ Owns(u, i)' => q.incidents[i] = Store!NoRecord
    BY DEF Ends, Part
  <2>. QED  BY <2>1, <2>2
<1>3. q.incidents = b.incidents => IncidentsThen' = IncidentsThen
  BY EndIncident
<1>4. /\ b.incidents \in [IncidentIDs -> Store!Incident] /\ b.open \in IncidentIDs \cup {NoIncident}
      /\ \A i \in IncidentIDs :
           /\ ~ Owns(u, i) => b.incidents[i] = Store!NoRecord
           /\ b.incidents[i] # Store!NoRecord => b.incidents[i].unit = u
      /\ u \in Units /\ before \in [Units -> PartType \cup {Blank}]
  BY DEF Ends, Held, PartType, SInv, Discipline
<1>5. Store!NoRecord.status = ""
  BY DEF Store!NoRecord
<1>6. b.open # NoIncident => IncidentsThen[b.open] = b.incidents[b.open]
  <2>. SUFFICES ASSUME b.open # NoIncident  PROVE IncidentsThen[b.open] = b.incidents[b.open]
    OBVIOUS
  <2>1. b.open \in IncidentIDs /\ Owns(u, b.open)
    BY <1>4
  <2>. QED  BY <2>1, OwnThen DEF Ends
<1>7. Took(u, action)
  <2>1. CASE action \in Categories
    <3>1. PICK i \in IncidentIDs :
            /\ IF b.open # NoIncident THEN i = b.open ELSE b.incidents[i] = Store!NoRecord
            /\ q.incidents = [b.incidents EXCEPT ![i] = Store!Opened(u, action)]
            /\ q.open = i
      BY <2>1 DEF Acts, Categories, CloseAction, NoAction
    <3>2. Store!Opened(u, action).status = "open"
      BY DEF Store!Opened
    <3>3. q.incidents[i] # Store!NoRecord
      BY <1>4, <1>5, <3>1, <3>2
    <3>4. Owns(u, i)' /\ IncidentsThen[i] = b.incidents[i]
      BY <1>2, <3>3
    <3>5. IncidentsThen' = [IncidentsThen EXCEPT ![i] = Store!Opened(u, action)]
      BY <3>1, <3>4, EndIncident
    <3>. QED  BY <1>1, <2>1, <3>1, <3>4, <3>5 DEF Took
  <2>2. CASE action = CloseAction /\ b.open # NoIncident
    <3>. DEFINE i == b.open
                record == [b.incidents[i] EXCEPT !.status = "resolved"]
    <3>1. q.incidents = [b.incidents EXCEPT ![i] = record] /\ q.open = NoIncident
      BY <2>2 DEF Acts, Categories, CloseAction, NoAction
    <3>2. record.status = "resolved" /\ i \in IncidentIDs
      BY <1>4, <2>2 DEF Store!Incident
    <3>3. q.incidents[i] # Store!NoRecord
      <4>. HIDE DEF record
      <4>. QED  BY <1>4, <1>5, <3>1, <3>2
    <3>4. Owns(u, i)'
      BY <1>2, <3>2, <3>3
    <3>5. IncidentsThen' = [IncidentsThen EXCEPT ![i] = record]
      <4>. HIDE DEF record
      <4>. QED  BY <3>1, <3>2, <3>4, EndIncident
    <3>. QED  BY <1>1, <1>6, <2>2, <3>1, <3>5 DEF Took
  <2>3. CASE action = NoAction \/ (action = CloseAction /\ b.open = NoIncident)
    <3>1. q.incidents = b.incidents /\ q.open = b.open
      BY <2>3 DEF Acts, Categories, CloseAction, NoAction
    <3>2. [OpenIncidentThen EXCEPT ![u] = b.open] = OpenIncidentThen
      BY <1>1 DEF OpenIncidentThen
    <3>. QED  BY <1>1, <1>3, <2>3, <3>1, <3>2 DEF Took
  <2>. QED  BY <2>1, <2>2, <2>3 DEF Acts
<1>8. OpenIncidentThen[u] # NoIncident =>
        /\ IncidentsThen[OpenIncidentThen[u]].unit = u
        /\ IncidentsThen[OpenIncidentThen[u]] \in Store!Incident \ {Store!NoRecord}
  BY <1>1, <1>4, <1>6
<1>. QED  BY <1>7, <1>8, TookWhole

(* The dashboard is that of the open incident.                             *)
LEMMA EndShown ==
  ASSUME SInv, CInv', NEW u, NEW h, NEW b, NEW q, Ends(u, h, b, q), incidents' = incidents,
         b.open # NoIncident => b.incidents[b.open] # Store!NoRecord,
         q.dashboard =
           IF q.open = NoIncident /\ b.open # NoIncident
           THEN [b.dashboard EXCEPT ![b.open] = NoAction]
           ELSE IF q.open # NoIncident
           THEN [b.dashboard EXCEPT ![q.open] = q.incidents[q.open].category]
           ELSE b.dashboard
  PROVE  Whole!PutIncidentView(u, b.open)
<1>1. u \in Units
  BY DEF Ends
<1>2. OpenIncidentThen'[u] = q.open
  BY EndThen
<1>3. /\ Whole!NoIncident = NoIncident /\ Whole!NoAction = NoAction
  BY Zenon DEF Whole!NoIncident, NoIncident, Whole!NoAction, NoAction
<1>4. /\ q.dashboard = b.dashboard => IncidentViewsThen' = IncidentViewsThen
      /\ \A i \in IncidentIDs : Owns(u, i)' => IncidentsThen'[i] = q.incidents[i]
  BY EndIncidents, EndView
<1>5. /\ b.open \in IncidentIDs \cup {NoIncident}
      /\ \A i \in IncidentIDs : ~ Owns(u, i) => b.incidents[i] = Store!NoRecord
  BY DEF Ends, Held, PartType
<1>6. CASE q.open # NoIncident
  <2>1. q.open \in IncidentIDs /\ Owns(u, q.open)'
    <3>1. q.open = openIncident'[u]
      BY DEF Ends, Part
    <3>2. Store!NoRecord.status # "open"
      BY DEF Store!NoRecord
    <3>. QED  BY <1>1, <1>2, <1>6, <3>1, <3>2 DEF CInv, Index,
                 IndexedIncidentsOpen, Owns
  <2>2. IncidentViewsThen' = [IncidentViewsThen EXCEPT ![q.open] = IncidentsThen'[q.open].category]
    BY <1>4, <1>6, <2>1, EndView
  <2>. QED  BY <1>2, <1>3, <1>6, <2>2, Zenon DEF Whole!PutIncidentView
<1>7. CASE q.open = NoIncident /\ b.open # NoIncident
  <2>1. b.open \in IncidentIDs /\ Owns(u, b.open)'
    BY <1>5, <1>7 DEF Owns
  <2>2. IncidentViewsThen' = [IncidentViewsThen EXCEPT ![b.open] = NoAction]
    BY <1>7, <2>1, EndView
  <2>. QED  BY <1>2, <1>3, <1>7, <2>2, Zenon DEF Whole!PutIncidentView
<1>8. CASE q.open = NoIncident /\ b.open = NoIncident
  <2>1. q.dashboard = b.dashboard
    BY <1>8
  <2>. QED  BY <1>2, <1>3, <1>4, <1>8, <2>1, Zenon DEF Whole!PutIncidentView
<1>. QED  BY <1>6, <1>7, <1>8

(* The three ways in which a request ends.                                 *)
LEMMA WaysToEnd ==
  ASSUME CInv, NEW h \in Handlers, Step(h), ~ Busy(h)'
  PROVE  \/ SignalExists(h) /\ Finish(h)
         \/ Apply(h) /\ Finish(h)
         \/ PutStationHealth(h)
<1>1. Busy(h) /\ task[h] \in Tasks /\ task'[h] = Idle
  BY OwnTask DEF CInv, Fine, Busy
<1>2. task \in [Handlers -> Tasks \cup {Idle}] /\ Idle.at \notin Places
  BY DEF CInv, Idle, Places
<1>3. \A place \in Places : ~ Goto(h, place)
  BY <1>1, <1>2 DEF Goto, Tasks
<1>4. ~ AppendSignal(h) /\ ~ Count(h) /\ ~ CancelTimers(h) /\ ~ DeleteIncidentView(h)
      /\ ~ PutWorkflow(h) /\ ~ PutUnitStatus(h)
  BY <1>3 DEF AppendSignal, Count, CancelTimers, DeleteIncidentView, PutWorkflow,
     PutUnitStatus, Places
<1>5. ~ ScheduleTimers(h) /\ (SignalExists(h) => Finish(h))
  BY <1>3 DEF ScheduleTimers, SignalExists, Places
<1>6. ~ GetWorkflow(h) /\ ~ AppendDecisions(h) /\ ~ PutIncident(h) /\ ~ LookUpIncident(h)
      /\ ~ ShowIncident(h)
  BY <1>1, <1>2 DEF GetWorkflow, AppendDecisions, PutIncident, LookUpIncident,
     ShowIncident,
     Places, Tasks
<1>7. ~ FindIncident(h) /\ ~ Reload(h)
  BY <1>1, <1>2 DEF FindIncident, Reload, Places, Tasks
<1>8. Apply(h) => Finish(h)
  BY <1>1, <1>2 DEF Apply, Places, Tasks
<1>. QED  BY <1>4, <1>5, <1>6, <1>7, <1>8 DEF Step

(* A request that leaves a unit's part as it was leaves the mapped store.  *)
LEMMA EndSame ==
  ASSUME SInv, NEW u, NEW h, NEW b, NEW q, Ends(u, h, b, q),
         q.snapshot = b.snapshot, q.timers = b.timers, q.history = b.history,
         q.view = b.view, q.open = b.open,
         q.incidents = b.incidents, q.dashboard = b.dashboard
  PROVE  /\ WorkflowsThen' = WorkflowsThen /\ TimersThen' = TimersThen
         /\ HistoryThen' = HistoryThen /\ OpenIncidentThen' = OpenIncidentThen
         /\ UnitViewsThen' = UnitViewsThen
         /\ IncidentsThen' = IncidentsThen /\ IncidentViewsThen' = IncidentViewsThen
<1>1. /\ WorkflowsThen[u] = b.snapshot /\ TimersThen[u] = b.timers
      /\ HistoryThen[u] = b.history /\ UnitViewsThen[u] = b.view
      /\ OpenIncidentThen[u] = b.open
      /\ WorkflowsThen' = [WorkflowsThen EXCEPT ![u] = q.snapshot]
      /\ TimersThen' = [TimersThen EXCEPT ![u] = q.timers]
      /\ HistoryThen' = [HistoryThen EXCEPT ![u] = q.history]
      /\ UnitViewsThen' = [UnitViewsThen EXCEPT ![u] = q.view]
      /\ OpenIncidentThen' = [OpenIncidentThen EXCEPT ![u] = q.open]
  BY EndThen
<1>2. WorkflowsThen' = WorkflowsThen
  BY <1>1 DEF WorkflowsThen
<1>3. TimersThen' = TimersThen
  BY <1>1 DEF TimersThen
<1>4. HistoryThen' = HistoryThen
  BY <1>1 DEF HistoryThen
<1>5. OpenIncidentThen' = OpenIncidentThen
  BY <1>1 DEF OpenIncidentThen
<1>6. UnitViewsThen' = UnitViewsThen
  BY <1>1 DEF UnitViewsThen
<1>. QED  BY <1>2, <1>3, <1>4, <1>5, <1>6, EndIncident, EndView

(* A signal that was seen before changes nothing.                          *)
LEMMA DuplicateEnds ==
  ASSUME SInv, NEW u, NEW h \in Handlers, NEW b, NEW q, NEW k \in BOOLEAN, NEW e,
         Ends(u, h, b, q), Serving(u, h, b, k, e), SignalExists(h)
  PROVE  UNCHANGED Whole!vars
<1>. DEFINE p == Part(u, b.id)
<1>1. q = p /\ stationViews' = stationViews
  BY PartStays DEF Ends, SignalExists, memory
<1>2. task[h].at = "exists" /\ Advanced(u, b, p, task[h], k, e)
  BY DEF SignalExists, At, Serving
<1>. HIDE DEF p
<1>3. /\ p.snapshot = b.snapshot /\ p.timers = b.timers /\ p.history = b.history
      /\ p.incidents = b.incidents /\ p.open = b.open /\ p.view = b.view
      /\ p.dashboard = b.dashboard /\ (b.id \in SignalIDs => p.status = b.status)
  BY <1>2 DEF Advanced, SignalKept, SnapshotKept, RecordsKept, IncidentsKept,
     ViewsKept,
     Asking, Unlogged, Uncancelled, Unacted, Stored, Reloaded, Viewed
<1>4. SignalsThen' = SignalsThen
  BY <1>1, <1>3, EndSignals
<1>5. /\ WorkflowsThen' = WorkflowsThen /\ TimersThen' = TimersThen
      /\ HistoryThen' = HistoryThen /\ OpenIncidentThen' = OpenIncidentThen
      /\ UnitViewsThen' = UnitViewsThen
      /\ IncidentsThen' = IncidentsThen /\ IncidentViewsThen' = IncidentViewsThen
  BY <1>1, <1>3, EndSame
<1>. QED  BY <1>1, <1>4, <1>5, Zenon DEF Whole!vars, Whole!store, Whole!views

(* A signal that cannot be decoded is on record, and nothing follows.      *)
LEMMA FailureEnds ==
  ASSUME SInv, NEW u, NEW h \in Handlers, NEW b, NEW q, NEW k \in BOOLEAN, NEW e,
         Ends(u, h, b, q), Serving(u, h, b, k, e), Apply(h), Finish(h)
  PROVE  ~ k /\ Whole!FailSignal(e)
<1>. DEFINE p == Part(u, b.id)
<1>1. q = p /\ stationViews' = stationViews
  BY PartStays DEF Ends, Apply, memory
<1>2. task[h].at = "apply" /\ Advanced(u, b, p, task[h], k, e)
  BY DEF Apply, At, Serving
<1>3. ~ k /\ DecodeFails(b.snapshot, e)
  <2>. DEFINE t == task[h]
              wf == [t.next EXCEPT !.attempts = attempts[t.unit]]
  <2>1. \/ \E r : task' = [task EXCEPT ![h].result = r, ![h].next = r.next,
                             ![h].at = IF r.next.attempts = wf.attempts
                                       THEN "log" ELSE "count"]
        \/ ~ t.timer /\ DecodeFails(wf, t.event)
    BY Zenon DEF Apply
  <2>2. wf = b.snapshot /\ t.timer = k /\ t.event = e
    BY ApplyWorksOn DEF Ends
  <2>3. task'[h] = Idle
    BY DEF Finish, Serving, CInv
  <2>4. \A r : task' # [task EXCEPT ![h].result = r, ![h].next = r.next,
                             ![h].at = IF r.next.attempts = wf.attempts
                                       THEN "log" ELSE "count"]
    <3>. HIDE DEF wf
    <3>1. task \in [Handlers -> Tasks \cup {Idle}] /\ task[h] \in Tasks
      BY DEF Serving, Holder, CInv, Fine
    <3>. QED  BY <2>3, <3>1 DEF Idle, Tasks
  <2>. HIDE DEF wf, t
  <2>. QED  BY <2>1, <2>2, <2>4
<1>. HIDE DEF p
<1>4. /\ p.snapshot = b.snapshot /\ p.timers = b.timers /\ p.history = b.history
      /\ p.incidents = b.incidents /\ p.open = b.open /\ p.view = b.view
      /\ p.dashboard = b.dashboard
      /\ (b.id \in SignalIDs => p.status = "recorded" /\ b.status = "unseen")
  BY <1>2 DEF Advanced, SignalKept, SnapshotKept, RecordsKept, IncidentsKept,
     ViewsKept,
     Asking, Unlogged, Uncancelled, Unacted, Stored, Reloaded, Viewed
<1>5. b.id = e.id /\ e.unit = u /\ e.id \in SignalIDs \cup {Fresh}
  BY <1>2, <1>3, ConcurrentAssumption DEF Advanced, RequestKept, Asked,
     Store!Signal
<1>6. /\ e.id \in SignalIDs => SignalsThen[e.id] = "unseen"
      /\ SignalsThen' = IF e.id = Fresh THEN SignalsThen
                        ELSE [SignalsThen EXCEPT ![e.id] = "recorded"]
  BY <1>1, <1>4, <1>5, EndSignals, RequestsAssumption
<1>7. /\ WorkflowsThen' = WorkflowsThen /\ TimersThen' = TimersThen
      /\ HistoryThen' = HistoryThen /\ OpenIncidentThen' = OpenIncidentThen
      /\ UnitViewsThen' = UnitViewsThen
      /\ IncidentsThen' = IncidentsThen /\ IncidentViewsThen' = IncidentViewsThen
  BY <1>1, <1>4, EndSame
<1>8. WorkflowsThen[e.unit] = b.snapshot
  BY <1>5, EndThen
<1>9. Whole!DecodeFails(WorkflowsThen[e.unit], e)
  BY <1>3, <1>8, SameWhole
<1>10. Whole!Unseen(e)
  BY <1>6, Zenon DEF Whole!Unseen
<1>11. Whole!Record(e, "recorded")
  BY <1>6, Zenon DEF Whole!Record
<1>. QED  BY <1>1, <1>3, <1>7, <1>9, <1>10, <1>11, Zenon DEF Whole!FailSignal,
             Whole!views

(* A request that the engine answered takes effect as a whole.             *)
LEMMA CommitEnds ==
  ASSUME SInv, CInv', NEW u, NEW h \in Handlers, NEW b, NEW q, NEW k \in BOOLEAN, NEW e,
         Ends(u, h, b, q), Serving(u, h, b, k, e), PutStationHealth(h)
  PROVE  /\ Whole!CommitTransition(u, Answer(b.snapshot, k, e))
         /\ k => <<u, e>> \in TimerRequests /\ SignalsThen' = SignalsThen
         /\ ~ k => Whole!HandleSignal(e)
<1>. DEFINE p == Part(u, b.id)
            r == Answer(b.snapshot, k, e)
            next == [r.next EXCEPT !.incident = q.open]
<1>1. q = p /\ incidents' = incidents
  BY DEF Ends, PutStationHealth, Part, Snapshot, Owns
<1>2. task[h].at = "station" /\ Advanced(u, b, p, task[h], k, e) /\ task[h].unit = u
  BY DEF PutStationHealth, At, Serving, Holder
<1>3. Contract(b.snapshot, r) /\ b.snapshot.incident = b.open
      /\ (b.open # NoIncident => b.incidents[b.open] # Store!NoRecord)
  BY DEF Serving
<1>4. r.next.incident = b.open
  BY <1>3 DEF Contract
<1>. HIDE DEF p, r
<1>5. /\ q.snapshot = next /\ task[h].next = next
      /\ q.timers = (b.timers \ r.cancel) \cup r.start
      /\ q.history = Store!Replay(b.history, r.decisions)
      /\ Acts(u, b, q, r.incident)
      /\ q.view = Store!UnitView(q.snapshot, q.history.last)
      /\ q.dashboard =
           IF q.open = NoIncident /\ b.open # NoIncident
           THEN [b.dashboard EXCEPT ![b.open] = NoAction]
           ELSE IF q.open # NoIncident
           THEN [b.dashboard EXCEPT ![q.open] = q.incidents[q.open].category]
           ELSE b.dashboard
  BY <1>1, <1>2, <1>4 DEF Advanced, SnapshotKept, RecordsKept, IncidentsKept,
     ViewsKept, TaskKept, Asking, Unlogged, Uncancelled, Unacted, Stored,
     Reloaded, Viewed, r
<1>6. /\ Asked(u, k, e) /\ b.id = IF k THEN Fresh ELSE e.id
      /\ ~ k /\ e.type = "test.failed" => b.snapshot.attempts < MaxAttempts
      /\ ~ k => ~ DecodeFails(b.snapshot, e)
      /\ b.id \in SignalIDs => b.status = "unseen" /\ q.status = "decided"
  BY <1>1, <1>2 DEF Advanced, RequestKept, SignalKept, Asking, Unlogged
<1>. HIDE DEF next
<1>7. /\ WorkflowsThen[u] = b.snapshot /\ TimersThen[u] = b.timers
      /\ HistoryThen[u] = b.history /\ UnitViewsThen[u] = b.view
      /\ OpenIncidentThen[u] = b.open
      /\ WorkflowsThen' = [WorkflowsThen EXCEPT ![u] = q.snapshot]
      /\ TimersThen' = [TimersThen EXCEPT ![u] = q.timers]
      /\ HistoryThen' = [HistoryThen EXCEPT ![u] = q.history]
      /\ UnitViewsThen' = [UnitViewsThen EXCEPT ![u] = q.view]
      /\ OpenIncidentThen'[u] = q.open /\ HistoryThen'[u] = q.history
  BY EndThen
<1>8. Whole!ApplyIncidentAction(u, r.incident)
  BY <1>3, <1>5, EndTook
<1>9. Whole!PutIncidentView(u, b.open)
  BY <1>1, <1>3, <1>5, EndShown
<1>10. Whole!PutStationHealth(u, next)
  <2>1. Store!PutStationHealth(u, next)
    BY <1>2, <1>5 DEF PutStationHealth
  <2>. QED  BY <2>1, Zenon DEF Store!PutStationHealth, Whole!PutStationHealth
<1>11. /\ \A l, d : Store!Replay(l, d) = Whole!Replay(l, d)
       /\ \A w, l : Store!UnitView(w, l) = Whole!UnitView(w, l)
  BY Zenon DEF Store!Replay, Whole!Replay, Store!UnitView, Whole!UnitView
<1>12. Whole!RebuildProjections(u, next, b.open)
  <2>1. UnitViewsThen' = [UnitViewsThen EXCEPT ![u] = Whole!UnitView(next, HistoryThen'[u].last)]
    BY <1>5, <1>7, <1>11, Zenon
  <2>. QED  BY <1>9, <1>10, <2>1, Zenon DEF Whole!RebuildProjections
<1>13. Whole!CommitTransition(u, r)
  <2>1. HistoryThen' = [HistoryThen EXCEPT ![u] = Whole!Replay(HistoryThen[u], r.decisions)]
    BY <1>5, <1>7, <1>11, Zenon
  <2>2. TimersThen' = [TimersThen EXCEPT ![u] = (TimersThen[u] \ r.cancel) \cup r.start]
    BY <1>5, <1>7, Zenon
  <2>3. WorkflowsThen' = [WorkflowsThen EXCEPT ![u] = next]
    BY <1>5, <1>7, Zenon
  <2>4. Units = Units \cup {u}
    BY DEF Ends
  <2>5. next = [r.next EXCEPT !.incident = OpenIncidentThen'[u]]
    BY <1>7, Zenon DEF next
  <2>. QED  BY <1>4, <1>8, <1>12, <2>1, <2>2, <2>3, <2>4, <2>5, Zenon
            DEF Whole!CommitTransition
<1>14. CASE k
  <2>1. b.id \notin SignalIDs
    BY <1>6, <1>14, RequestsAssumption
  <2>. QED  BY <1>6, <1>13, <1>14, <2>1, EndSignals DEF r, Asked
<1>15. CASE ~ k
  <2>1. e.unit = u /\ e.id = b.id /\ e.id \in SignalIDs \cup {Fresh}
    BY <1>6, <1>15, ConcurrentAssumption DEF Asked, Store!Signal
  <2>2. /\ e.id \in SignalIDs => SignalsThen[e.id] = "unseen"
        /\ SignalsThen' = IF e.id = Fresh THEN SignalsThen
                          ELSE [SignalsThen EXCEPT ![e.id] = "decided"]
    BY <1>6, <2>1, EndSignals, RequestsAssumption
  <2>3. Whole!Unseen(e)
    BY <2>2, Zenon DEF Whole!Unseen
  <2>4. Whole!Record(e, "decided")
    BY <2>2, Zenon DEF Whole!Record
  <2>5. ~ Whole!DecodeFails(WorkflowsThen[u], e)
    BY <1>6, <1>7, <1>15, SameWhole
  <2>6. r = Whole!ApplySignal(WorkflowsThen[u], e)
    BY <1>7, <1>15, SameWhole DEF r, Answer
  <2>7. e.type = "test.failed" => WorkflowsThen[u].attempts < MaxAttempts
    BY <1>6, <1>7, <1>15
  <2>8. Whole!HandleSignal(e)
    BY <1>13, <2>1, <2>3, <2>4, <2>5, <2>6, <2>7, Zenon DEF Whole!HandleSignal
  <2>. QED  BY <1>13, <1>15, <2>8 DEF r
<1>. QED  BY <1>14, <1>15

-----------------------------------------------------------------------------
(* The invariant of the waiting clients                                    *)

(* The last step of a request takes effect like a step of the service that *)
(* does one request at a time, and leaves the unit without a request.      *)
LEMMA LastStep ==
  ASSUME SInv, CInv', NEW h \in Handlers, Step(h), ~ Busy(h)',
         before' = [before EXCEPT ![task[h].unit] = Blank]
  PROVE  Discipline' /\ [Whole!Next]_(Whole!vars)
<1>1. PICK u \in Units : Holder(u, h) /\ task[h].unit = u
  BY OwnTask DEF SInv, CInv, Fine, Tasks, Holder
<1>2. /\ Begun(u) /\ before[u] \in PartType
      /\ \A g \in Handlers \ {h} : ~ Holder(u, g)
      /\ before[u].id \in SignalIDs =>
           \E sig \in Inputs : sig.id = before[u].id /\ sig.unit = u
  BY <1>1, BusyServes
<1>3. PICK k, e, b : /\ k \in BOOLEAN /\ b = before[u] /\ Serving(u, h, b, k, e)
                     /\ IF k THEN e \in TimerInputs ELSE e \in Inputs
  BY <1>1, BusyServes
<1>4. \/ SignalExists(h) /\ Finish(h)
      \/ Apply(h) /\ Finish(h)
      \/ PutStationHealth(h)
  BY WaysToEnd DEF SInv
<1>5. Local(u, b.id) /\ workflows' = workflows
  <2>1. CASE SignalExists(h) \/ Apply(h)
    BY <2>1, PartStays DEF SignalExists, Apply, memory
  <2>2. CASE PutStationHealth(h)
    BY <2>2 DEF PutStationHealth, Local, Snapshot, Owns
  <2>. QED  BY <1>4, <2>1, <2>2
<1>6. PICK q : q = Part(u, b.id)'
  OBVIOUS
<1>7. Ends(u, h, b, q)
  BY <1>1, <1>2, <1>3, <1>5, <1>6 DEF Ends, Serving
<1>8. Discipline'
  <2>1. \A g \in Handlers \ {h} : task'[g] = task[g] /\ ~ Holder(u, g)
    BY <1>2, OwnTask DEF SInv
  <2>2. \A v \in Units : workflows'[v].attempts = 0
    BY <1>5 DEF SInv, Discipline, Still
  <2>3. before' = [before EXCEPT ![u] = Blank] /\ Blank \in PartType \cup {Blank}
    BY <1>1
  <2>. QED  BY <1>1, <1>2, <1>3, <1>5, <2>1, <2>2, <2>3, KeepsDiscipline DEF SInv
<1>9. CASE SignalExists(h)
  BY <1>3, <1>7, <1>8, <1>9, DuplicateEnds
<1>10. CASE Apply(h) /\ Finish(h)
  <2>1. ~ k /\ Whole!FailSignal(e)
    BY <1>3, <1>7, <1>10, FailureEnds
  <2>2. Whole!Next
    BY <1>3, <2>1, Zenon DEF Whole!Next, Whole!SignalNext
  <2>. QED  BY <1>8, <2>2
<1>11. CASE PutStationHealth(h)
  <2>1. /\ Whole!CommitTransition(u, Answer(b.snapshot, k, e))
        /\ k => <<u, e>> \in TimerRequests /\ SignalsThen' = SignalsThen
        /\ ~ k => Whole!HandleSignal(e)
    BY <1>3, <1>7, <1>11, CommitEnds
  <2>2. CASE k
    <3>1. Answer(b.snapshot, k, e) = Whole!ApplyTimer(WorkflowsThen[u], e)
      <4>1. WorkflowsThen[u] = b.snapshot
        BY <1>7, EndThen
      <4>. QED  BY <2>2, <4>1, SameWhole DEF Answer
    <3>2. Whole!HandleTimer(u, e)
      BY <2>1, <2>2, <3>1, Zenon DEF Whole!HandleTimer
    <3>3. Whole!Next
      BY <1>3, <2>2, <3>2, Zenon DEF Whole!Next
    <3>. QED  BY <1>8, <3>3
  <2>3. CASE ~ k
    <3>1. Whole!Next
      BY <1>3, <2>1, <2>3, Zenon DEF Whole!Next, Whole!SignalNext
    <3>. QED  BY <1>8, <3>1
  <2>. QED  BY <2>2, <2>3
<1>. QED  BY <1>4, <1>9, <1>10, <1>11

(* Every step is one that clients may take who do not wait.                *)
LEMMA SerialIsNext == [SerialNext]_<<vars, before>> => [Next]_vars
<1>1. TimerRequests \subseteq Units \X TimerInputs
  BY RequestsAssumption
<1>. QED  BY <1>1, Zenon DEF SerialNext, Next

(* Where nothing happens nothing does in the mapped store.                 *)
LEMMA Stutters ==
  ASSUME SInv, UNCHANGED <<vars, before>>
  PROVE  Discipline' /\ UNCHANGED Whole!vars
<1>1. /\ UNCHANGED memory /\ task' = task /\ before' = before
      /\ UNCHANGED <<workflows, attempts, timers, signals, history, incidents, openIncident,
                     unitViews, incidentViews, stationViews>>
  BY DEF vars, memory
<1>2. /\ \A u \in Units : Begun(u)' <=> Begun(u)
      /\ \A u, i : Owns(u, i)' <=> Owns(u, i)
      /\ \A u \in Units, h \in Handlers : Holder(u, h)' <=> Holder(u, h)
      /\ \A u \in Units : Snapshot(u)' = Snapshot(u)
  BY <1>1 DEF Begun, Owns, Holder, Busy, Snapshot
<1>3. WorkflowsThen' = WorkflowsThen
  BY <1>1, <1>2 DEF WorkflowsThen
<1>4. TimersThen' = TimersThen
  BY <1>1, <1>2 DEF TimersThen
<1>5. HistoryThen' = HistoryThen
  BY <1>1, <1>2 DEF HistoryThen
<1>6. OpenIncidentThen' = OpenIncidentThen
  BY <1>1, <1>2 DEF OpenIncidentThen
<1>7. UnitViewsThen' = UnitViewsThen
  BY <1>1, <1>2 DEF UnitViewsThen
<1>8. IncidentsThen' = IncidentsThen /\ IncidentViewsThen' = IncidentViewsThen
  <2>1. \A i : (OwnerBegun(i)' <=> OwnerBegun(i)) /\ Owner(i)' = Owner(i)
    BY <1>2 DEF OwnerBegun, Owner
  <2>. QED  BY <1>1, <2>1 DEF IncidentsThen, IncidentViewsThen
<1>9. SignalsThen' = SignalsThen
  <2>1. ASSUME NEW i \in SignalIDs  PROVE SignalsThen'[i] = SignalsThen[i]
    <3>1. Carried(i)' = Carried(i)
      BY <1>1, <1>2 DEF Carried
    <3>2. /\ SignalsThen[i] = IF Carried(i) = {} THEN signals[i]
                              ELSE before[CHOOSE u \in Carried(i) : TRUE].status
          /\ SignalsThen'[i] = IF Carried(i)' = {} THEN signals'[i]
                               ELSE before'[CHOOSE u \in Carried(i)' : TRUE].status
      BY <2>1 DEF SignalsThen
    <3>. QED  BY <1>1, <3>1, <3>2
  <2>. QED  BY <2>1 DEF SignalsThen
<1>10. Discipline'
  <2>1. ASSUME NEW u \in Units, NEW h \in Handlers, Holder(u, h)'  PROVE UnderWay(u, h)'
    <3>1. Holder(u, h) /\ UnderWay(u, h)
      BY <1>2, <2>1 DEF SInv, Discipline
    <3>2. PICK b : b = before[u]
      OBVIOUS
    <3>3. PICK k, e : /\ Advanced(u, b, Part(u, b.id), task[h], k, e)
                      /\ \/ k = FALSE /\ e \in Inputs
                         \/ k = TRUE /\ e \in TimerInputs
      BY <3>1, <3>2 DEF UnderWay
    <3>4. Advanced(u, b, Part(u, b.id)', task'[h], k, e)
      BY <1>1, <3>3, PartStays
    <3>5. Held(u, b)'
      BY <1>2, <3>1, <3>2 DEF UnderWay, Held
    <3>6. \A g \in Handlers : Holder(u, g)' => g = h
      BY <1>2, <3>1 DEF UnderWay
    <3>7. before'[u] = b
      BY <1>1, <3>2
    <3>. QED  BY <3>3, <3>4, <3>5, <3>6, <3>7 DEF UnderWay
  <2>2. \A u \in Units : Begun(u)' <=> ~ Quiet(u)'
    <3>1. \A u \in Units : Quiet(u)' <=> Quiet(u)
      BY <1>1 DEF Quiet, InHand, Busy
    <3>. QED  BY <1>2, <3>1 DEF SInv, Discipline
  <2>. QED  BY <1>1, <2>1, <2>2 DEF SInv, Discipline, Still
<1>. QED  BY <1>3, <1>4, <1>5, <1>6, <1>7, <1>8, <1>9, <1>10, <1>1, Zenon
          DEF Whole!vars, Whole!store, Whole!views

(* A step of a request keeps the invariant and is one of the service that  *)
(* does one request at a time, or invisible.                               *)
LEMMA SerialStep ==
  ASSUME SInv, [SerialNext]_<<vars, before>>
  PROVE  SInv' /\ [Whole!Next]_(Whole!vars)
<1>1. CInv' /\ Types'
  BY SerialIsNext, NextInvariant, TypesInvariant DEF SInv
<1>2. ASSUME NEW h \in Handlers, NEW sig \in Inputs,
             Quiet(sig.unit), TakeSignal(h, sig), Remember(sig.unit, sig.id)
      PROVE  Discipline' /\ UNCHANGED Whole!vars
  <2>1. sig.unit \in Units /\ sig.id \in SignalIDs \cup {Fresh}
    BY ConcurrentAssumption DEF Store!Signal
  <2>2. Asked(sig.unit, FALSE, sig)
    BY DEF Asked
  <2>. QED  BY <1>2, <2>1, <2>2, TakeBegins DEF TakeSignal
<1>3. ASSUME NEW h \in Handlers, NEW u \in Units, NEW key \in TimerInputs,
             <<u, key>> \in TimerRequests, Quiet(u), TakeTimer(h, u, key), Remember(u, Fresh)
      PROVE  Discipline' /\ UNCHANGED Whole!vars
  <2>1. Asked(u, TRUE, key)
    BY <1>3 DEF Asked
  <2>. QED  BY <1>3, <2>1, TakeBegins DEF TakeTimer
<1>4. ASSUME NEW h \in Handlers, Step(h),
             before' = IF Busy(h)' THEN before ELSE [before EXCEPT ![task[h].unit] = Blank]
      PROVE  Discipline' /\ [Whole!Next]_(Whole!vars)
  BY <1>1, <1>4, StepIsInvisible, LastStep
<1>5. ASSUME UNCHANGED <<vars, before>>  PROVE Discipline' /\ UNCHANGED Whole!vars
  BY <1>5, Stutters
<1>6. Discipline' /\ [Whole!Next]_(Whole!vars)
  <2>1. CASE UNCHANGED <<vars, before>>
    BY <1>5, <2>1, Zenon
  <2>2. CASE SerialNext
    <3>1. PICK h \in Handlers :
            \/ \E sig \in Inputs :
                 Quiet(sig.unit) /\ TakeSignal(h, sig) /\ Remember(sig.unit, sig.id)
            \/ \E u \in Units, key \in TimerInputs :
                 /\ <<u, key>> \in TimerRequests /\ Quiet(u)
                 /\ TakeTimer(h, u, key) /\ Remember(u, Fresh)
            \/ /\ Step(h)
               /\ before' = IF Busy(h)' THEN before
                            ELSE [before EXCEPT ![task[h].unit] = Blank]
      BY <2>2, Zenon DEF SerialNext
    <3>. QED  BY <1>2, <1>3, <1>4, <3>1, Zenon
  <2>. QED  BY <2>1, <2>2, Zenon
<1>7. W!IInv'
  BY <1>6, SameNext, SerialInvariant, Zenon DEF SInv
<1>. QED  BY <1>1, <1>6, <1>7, Zenon DEF SInv

(* The copies of the service have the same types.                          *)
LEMMA SameTypes ==
  /\ W!States = States /\ W!DecisionTypes = DecisionTypes /\ W!Categories = Categories
  /\ W!TimerKey = TimerKey /\ W!Workflow = Workflow /\ W!Incident = Store!Incident
  /\ W!UnitViewType = Store!UnitViewType /\ W!NoView = Store!NoView
  /\ \A wf, last : W!UnitView(wf, last) = Store!UnitView(wf, last)
<1>1. /\ W!States = States /\ W!DecisionTypes = DecisionTypes /\ W!Categories = Categories
      /\ W!NoView = Store!NoView
  BY Zenon DEF W!States, States, W!DecisionTypes, DecisionTypes, W!Categories,
     Categories,
     W!NoView, Store!NoView
<1>2. W!TimerKey = TimerKey
  BY Zenon DEF W!TimerKey, TimerKey, W!TimerTypes, TimerTypes
<1>3. W!HoldReasons = HoldReasons
  BY Zenon DEF W!HoldReasons, HoldReasons, W!ReasonCodes, ReasonCodes,
     W!TimerTypes, TimerTypes
<1>4. W!Workflow = Workflow
  BY <1>1, <1>2, <1>3, SameTerms, Zenon DEF W!Workflow, Workflow
<1>5. W!Incident = Store!Incident
  BY <1>1, StoreTypes, SameTerms, Zenon DEF W!Incident, Store!Incident
<1>6. W!UnitViewType = Store!UnitViewType
  BY <1>1, <1>3, StoreTypes, SameTerms, Zenon DEF W!UnitViewType,
     Store!UnitViewType
<1>7. \A wf, last : W!UnitView(wf, last) = Store!UnitView(wf, last)
  BY Zenon DEF W!UnitView, Store!UnitView
<1>. QED  BY <1>1, <1>2, <1>4, <1>5, <1>6, <1>7

(* Units at rest and no goroutine at work: the invariant holds.            *)
LEMMA SerialStart == SerialInit => SInv
<1>. SUFFICES ASSUME SerialInit  PROVE SInv
  OBVIOUS
<1>1. CInv /\ Types
  BY InitInvariant, InitTypes DEF SerialInit
<1>2. PICK start \in [Units -> Starts] :
        /\ workflows = start /\ attempts = [u \in Units |-> 0]
        /\ timers = [u \in Units |-> start[u].timers]
        /\ history = [u \in Units |->
                        [state |-> start[u].state, last |-> "transition_state"]]
        /\ unitViews = [u \in Units |-> Store!UnitView(start[u], "transition_state")]
  BY Zenon DEF SerialInit, Init
<1>3. /\ signals = [i \in SignalIDs |-> "unseen"]
      /\ incidents = [i \in IncidentIDs |-> Store!NoRecord]
      /\ openIncident = [u \in Units |-> NoIncident]
      /\ incidentViews = [i \in IncidentIDs |-> NoAction]
      /\ stationViews = [s \in StationIDs |->
                           IF s \in Passed THEN [unit |-> LastUnit, status |-> "active"]
                                          ELSE Store!NoView]
      /\ \A h \in Handlers : ~ Busy(h)
      /\ before = [u \in Units |-> Blank]
  BY DEF SerialInit, Init, Busy
<1>4. ASSUME NEW u \in Units
      PROVE  /\ start[u] \in Workflow /\ start[u].attempts = 0
             /\ start[u].incident = NoIncident /\ start[u].hold = "" /\ AtRest(start[u])
  BY ConcurrentAssumption, RequestsAssumption DEF AtRest
<1>5. \A u \in Units : ~ Begun(u)
  BY <1>3 DEF Begun
<1>6. Discipline
  <2>1. \A u \in Units : Quiet(u) /\ \A h \in Handlers : ~ Holder(u, h)
    BY <1>3 DEF Quiet, InHand, Holder
  <2>2. Still
    BY <1>2, <1>3, <1>4 DEF Still
  <2>. QED  BY <1>3, <1>5, <2>1, <2>2 DEF Discipline
<1>7. WorkflowsThen = start
  <2>1. \A u \in Units : Snapshot(u) = start[u]
    BY <1>2, <1>4, SameAttempts DEF Snapshot
  <2>2. \A u \in Units : WorkflowsThen[u] = start[u]
    BY <1>5, <2>1 DEF WorkflowsThen
  <2>. QED  BY <2>2 DEF WorkflowsThen
<1>8. /\ TimersThen = timers /\ HistoryThen = history /\ OpenIncidentThen = openIncident
      /\ UnitViewsThen = unitViews
  BY <1>2, <1>3, <1>5 DEF TimersThen, HistoryThen, OpenIncidentThen, UnitViewsThen
<1>9. IncidentsThen = incidents /\ IncidentViewsThen = incidentViews
  <2>1. \A i \in IncidentIDs : ~ OwnerBegun(i)
    BY <1>5 DEF OwnerBegun
  <2>. QED  BY <1>3, <2>1 DEF IncidentsThen, IncidentViewsThen
<1>10. SignalsThen = signals
  <2>1. \A i \in SignalIDs : Carried(i) = {}
    BY <1>5 DEF Carried
  <2>. QED  BY <1>3, <2>1 DEF SignalsThen
<1>11. W!TypeOK
  <2>1. start \in [Units -> W!Workflow]
    BY <1>4, SameTypes
  <2>2. /\ timers \in [Units -> SUBSET W!TimerKey]
        /\ history \in [Units -> [state : W!States, last : W!DecisionTypes \cup {""}]]
        /\ unitViews \in [Units -> W!UnitViewType]
        /\ incidents \in [IncidentIDs -> W!Incident]
        /\ openIncident \in [Units -> IncidentIDs \cup {W!NoIncident}]
        /\ incidentViews \in [IncidentIDs -> W!Categories \cup {W!NoAction}]
        /\ stationViews \in [StationIDs -> [unit : Units, status : {"active", "blocked"}]
                                             \cup {W!NoView}]
    BY <1>1, SameTypes, SameTerms, Zenon DEF Types, Past, CInv, Index
  <2>3. Units \subseteq Units
    OBVIOUS
  <2>. QED  BY <1>1, <1>7, <1>8, <1>9, <1>10, <2>1, <2>2, <2>3, Zenon DEF
               W!TypeOK, Types
<1>12. /\ \A u \in Units : OpenIncidentThen[u] = W!NoIncident
       /\ \A i \in IncidentIDs : /\ IncidentsThen[i].status # "open"
                                 /\ IncidentViewsThen[i] = W!NoAction
  <2>1. Store!NoRecord.status # "open"
    BY DEF Store!NoRecord
  <2>2. \A u \in Units : openIncident[u] = NoIncident
    BY <1>3
  <2>3. \A i \in IncidentIDs : incidents[i] = Store!NoRecord /\ incidentViews[i] = NoAction
    BY <1>3
  <2>. QED  BY <1>8, <1>9, <2>1, <2>2, <2>3, SameTerms, Zenon
<1>13. W!Index
  BY <1>12, Zenon DEF W!Index, W!Open
<1>14. W!DashboardIsOpenIncidents
  BY <1>12, Zenon DEF W!DashboardIsOpenIncidents, W!Open
<1>15. ASSUME NEW u \in Units  PROVE W!PerUnit(u)
  <2>1. /\ WorkflowsThen[u] = start[u] /\ TimersThen[u] = start[u].timers
        /\ HistoryThen[u].state = start[u].state
    BY <1>2, <1>7, <1>8
  <2>2. Coherent(start[u])
    BY <1>4 DEF AtRest, Coherent, Timed, ReasonCodes
  <2>3. /\ start[u].hold \notin ReasonCodes /\ start[u].hold \notin TimerTypes
        /\ start[u].state # "retry_pending"
    BY <1>4 DEF AtRest, ReasonCodes, TimerTypes
  <2>4. W!Trouble(u) = W!NoAction
    BY <1>12, Zenon DEF W!Trouble
  <2>5. W!Explained(start[u], W!NoAction)
    BY <2>3, SameTerms, Zenon DEF W!Explained
  <2>6. start[u].incident = NoIncident /\ OpenIncidentThen[u] = NoIncident
    BY <1>4, <1>12, SameTerms
  <2>7. start[u].timers \subseteq start[u].timers
    OBVIOUS
  <2>. QED  BY <2>1, <2>2, <2>4, <2>5, <2>6, <2>7, SameTerms, Zenon DEF W!PerUnit
<1>16. W!ViewsCurrent
  <2>1. \A u \in Units : UnitViewsThen[u] = W!UnitView(WorkflowsThen[u], HistoryThen[u].last)
    BY <1>2, <1>7, <1>8, SameTypes
  <2>2. \A u \in Units : WorkflowsThen[u].state # "on_hold"
                         /\ WorkflowsThen[u].station \in StationIDs
    BY <1>4, <1>7 DEF AtRest, Workflow
  <2>3. \A s \in StationIDs : stationViews[s].status # "blocked"
    BY <1>3 DEF Store!NoView
  <2>. QED  BY <2>1, <2>2, <2>3, Zenon DEF W!ViewsCurrent
<1>17. W!IInv
  BY <1>11, <1>13, <1>14, <1>15, <1>16, Zenon DEF W!IInv
<1>. QED  BY <1>1, <1>6, <1>17 DEF SInv

(* The invariant between and during requests, and what a step of a request *)
(* is to the service that does one at a time.                              *)
THEOREM SerialInvariance == SerialSpec => []SInv
<1>1. SInv /\ [SerialNext]_<<vars, before>> => SInv'
  BY SerialStep
<1>. QED  BY <1>1, SerialStart, PTL DEF SerialSpec

(* Under clients who wait, too, the store and the goroutines keep their    *)
(* types.                                                                  *)
THEOREM TypesKeptWaiting == SerialSpec => []TypeOK
<1>1. SInv => TypeOK
  BY WellTyped DEF SInv
<1>. QED  BY <1>1, SerialInvariance, PTL

(* Clients who wait for their answers see a service that does each request *)
(* at once, when it ends, however requests for different units overlap.    *)
THEOREM Atomic == SerialSpec => RequestsAreAtomic
<1>1. SInv /\ [SerialNext]_<<vars, before>> => [Whole!Next]_(Whole!vars)
  BY SerialStep
<1>. QED  BY <1>1, SerialInvariance, PTL DEF SerialSpec, RequestsAreAtomic

-----------------------------------------------------------------------------
(* Triage                                                                  *)

(* What triage says of a unit depends on its open incident alone.          *)
LEMMA AdviceIs ==
  ASSUME CInv, NEW u \in Units
  PROVE  LET i == openIncident[u]
         IN  /\ i = NoIncident => Advice(u) = "continue workflow"
             /\ i # NoIncident =>
                  /\ i \in IncidentIDs /\ Owns(u, i)
                  /\ incidents[i].category = "test_flake" => Advice(u) = "retry_test"
                  /\ incidents[i].category = "repeated_failure" => Advice(u) = "route_to_rework"
                  /\ incidents[i].category = "heartbeat_timeout" => Advice(u) = "investigate_station"
<1>1. CASE openIncident[u] = NoIncident
  BY <1>1 DEF Advice, GetOpenIncident
<1>2. CASE openIncident[u] # NoIncident
  <2>. DEFINE i == openIncident[u]
  <2>1. /\ i \in IncidentIDs /\ incidents[i].status = "open" /\ incidents[i].unit = u
    BY <1>2 DEF CInv, Index, IndexedIncidentsOpen
  <2>2. Store!NoRecord.status = ""
    BY DEF Store!NoRecord
  <2>3. Owns(u, i)
    BY <2>1, <2>2 DEF Owns
  <2>4. Advice(u) = Recommendation(incidents[i])
    BY <1>2 DEF Advice, GetOpenIncident, Nothing
  <2>. HIDE DEF i
  <2>5. /\ incidents[i].category = "test_flake" => Advice(u) = "retry_test"
        /\ incidents[i].category = "repeated_failure" => Advice(u) = "route_to_rework"
        /\ incidents[i].category = "heartbeat_timeout" => Advice(u) = "investigate_station"
    BY <2>4 DEF Recommendation
  <2>. QED  BY <1>2, <2>1, <2>3, <2>5 DEF i
<1>. QED  BY <1>1, <1>2

(* At rest it goes with the snapshot.                                      *)
LEMMA AdviceAtRest ==
  ASSUME SInv, NEW u \in Units, Quiet(u)
  PROVE  LET wf == workflows[u]
         IN  /\ wf.state \in Store!CleanStates => Advice(u) = "continue workflow"
             /\ wf.state = "retry_pending" => Advice(u) = "retry_test"
             /\ wf.hold \in ReasonCodes => Advice(u) = "route_to_rework"
             /\ wf.hold \in TimerTypes => Advice(u) = "investigate_station"
             /\ wf.state = "on_hold" => wf.hold \in ReasonCodes \cup TimerTypes
<1>. DEFINE i == openIncident[u]
            n == WorkflowsThen[u]
<1>1. ~ Begun(u)
  BY DEF SInv, Discipline
<1>2. n = Snapshot(u) /\ OpenIncidentThen[u] = i
  BY <1>1 DEF WorkflowsThen, OpenIncidentThen
<1>3. n.state = workflows[u].state /\ n.hold = workflows[u].hold
  BY <1>2 DEF Snapshot, SInv, CInv, Records, Workflow
<1>4. i # NoIncident => IncidentsThen[i] = incidents[i]
  BY <1>1, AdviceIs, OwnThen DEF SInv
<1>5. n.hold \in {""} \cup ReasonCodes \cup TimerTypes
  BY <1>3 DEF SInv, CInv, Records, Workflow, HoldReasons
<1>. HIDE DEF n
<1>6. /\ Coherent(n)
      /\ LET trouble == IF i = NoIncident THEN NoAction ELSE IncidentsThen[i].category
         IN  /\ n.hold \in ReasonCodes => trouble = "repeated_failure"
             /\ n.hold \in TimerTypes  => trouble = "heartbeat_timeout"
             /\ n.state = "retry_pending" => trouble = "test_flake"
             /\ n.state \in Store!CleanStates => trouble = NoAction
  BY <1>2, SerialUnit DEF n, SInv
<1>7. i # NoIncident => incidents[i].category # NoAction
  <2>1. SUFFICES ASSUME i # NoIncident  PROVE incidents[i].category # NoAction
    OBVIOUS
  <2>2. incidents[i] \in Store!Incident /\ incidents[i] # Store!NoRecord
    BY <2>1, AdviceIs DEF SInv, CInv, Index, Owns
  <2>. QED  BY <2>2, StoreTypes DEF Store!Incident, Categories, NoAction
<1>. QED  BY <1>3, <1>4, <1>5, <1>6, <1>7, AdviceIs DEF SInv, Coherent, NoAction

(* In the middle of a request a unit stored as held has an incident of a   *)
(* kind that holds units: it is opened before the hold is put, and closed  *)
(* only after the hold was lifted.                                         *)
LEMMA HeldHasTrouble ==
  ASSUME SInv, NEW u \in Units, NEW h \in Handlers, Holder(u, h),
         workflows[u].state = "on_hold"
  PROVE  /\ openIncident[u] # NoIncident
         /\ incidents[openIncident[u]].category \in {"repeated_failure", "heartbeat_timeout"}
<1>1. PICK k, e, b : b = before[u] /\ Serving(u, h, b, k, e)
  BY BusyServes
<1>. DEFINE t == task[h]
            p == Part(u, b.id)
            r == Answer(b.snapshot, k, e)
            grave == {"repeated_failure", "heartbeat_timeout"}
<1>2. /\ Begun(u) /\ b.snapshot \in Workflow /\ b.open \in IncidentIDs \cup {NoIncident}
      /\ b.incidents \in [IncidentIDs -> Store!Incident]
  BY <1>1, BusyServes DEF PartType
<1>3. /\ SomeStep(b.snapshot, r.next, r.incident)
      /\ Coherent(r.next) /\ r.next \in Workflow
  BY <1>1 DEF Serving, Contract, Result
<1>4. b.snapshot.state = "on_hold" =>
        b.open # NoIncident /\ b.incidents[b.open].category \in grave
  <2>. SUFFICES ASSUME b.snapshot.state = "on_hold"
                PROVE  b.open # NoIncident /\ b.incidents[b.open].category \in grave
    OBVIOUS
  <2>1. WorkflowsThen[u] = b.snapshot /\ OpenIncidentThen[u] = b.open
    BY <1>1, <1>2 DEF WorkflowsThen, OpenIncidentThen
  <2>2. b.snapshot.hold \in ReasonCodes \cup TimerTypes
    <3>1. Coherent(b.snapshot)
      BY <2>1, SerialUnit DEF SInv
    <3>. QED  BY <1>2, <3>1 DEF Coherent, Workflow, HoldReasons
  <2>3. b.open # NoIncident /\ IncidentsThen[b.open].category \in grave
    BY <2>1, <2>2, SerialUnit DEF SInv, NoAction
  <2>4. Owns(u, b.open)
    BY <1>1, <1>2, <2>3 DEF Serving, Held
  <2>5. IncidentsThen[b.open] = b.incidents[b.open]
    BY <1>1, <1>2, <2>3, <2>4, OwnThen
  <2>. QED  BY <2>3, <2>5
<1>5. SnapshotKept(b, p, t, r) /\ IncidentsKept(u, b, p, t, r)
  BY <1>1 DEF Serving, Advanced
<1>6. p.snapshot.state = "on_hold"
  BY DEF Part, Snapshot, SInv, CInv, Records, Workflow
<1>7. /\ p.open = openIncident[u]
      /\ openIncident[u] # NoIncident => p.incidents[p.open] = incidents[p.open]
  BY AdviceIs DEF Part, SInv
<1>. HIDE DEF p, t, r
<1>8. CASE t.at \in Unacted
  <2>1. t.at \notin Stored
    BY <1>8 DEF Unacted, Uncancelled, Unlogged, Asking, Stored, Viewed
  <2>2. b.snapshot.state = "on_hold"
    BY <1>2, <1>5, <1>6, <2>1 DEF SnapshotKept, Workflow
  <2>. QED  BY <1>4, <1>5, <1>7, <1>8, <2>2 DEF IncidentsKept
<1>9. CASE t.at \notin Unacted
  <2>1. Acts(u, b, p, r.incident)
    BY <1>5, <1>9 DEF IncidentsKept
  <2>2. b.snapshot.state = "on_hold" \/ r.next.state = "on_hold"
    BY <1>2, <1>3, <1>5, <1>6 DEF SnapshotKept, Workflow
  <2>3. \/ r.incident = NoAction /\ b.snapshot.state = "on_hold"
        \/ r.incident \in grave
    BY <1>3, <2>2 DEF SomeStep, QuietStep, RetryStep, HoldStep, PassStep,
       TimeOutStep, Edges,
       Coherent
  <2>4. CASE r.incident = NoAction /\ b.snapshot.state = "on_hold"
    <3>1. p.incidents = b.incidents /\ p.open = b.open
      BY <2>1, <2>4 DEF Acts, Categories, NoAction, CloseAction
    <3>. QED  BY <1>4, <1>7, <2>4, <3>1
  <2>5. CASE r.incident \in grave
    <3>1. PICK i \in IncidentIDs :
            /\ p.incidents = [b.incidents EXCEPT ![i] = Store!Opened(u, r.incident)]
            /\ p.open = i
      BY <2>1, <2>5 DEF Acts, Categories, NoAction, CloseAction
    <3>2. p.open # NoIncident /\ p.incidents[p.open].category = r.incident
      BY <1>2, <3>1, IncidentsAssumption DEF Store!Opened
    <3>. QED  BY <1>7, <2>5, <3>2
  <2>. QED  BY <2>3, <2>4, <2>5
<1>. QED  BY <1>8, <1>9

(* Whenever it is asked, triage tells no held unit to go on, and at rest   *)
(* its advice is the one for the state and the hold reason.                *)
THEOREM AdviceIsRight == SerialSpec => []AdviceFits
<1>1. ASSUME SInv  PROVE AdviceFits
  <2>1. ASSUME NEW u \in Units, workflows[u].state = "on_hold"
        PROVE  Advice(u) \in {"route_to_rework", "investigate_station"}
    <3>1. CASE Quiet(u)
      BY <1>1, <2>1, <3>1, AdviceAtRest
    <3>2. CASE ~ Quiet(u)
      <4>1. PICK h \in Handlers : Holder(u, h)
        BY <3>2 DEF Quiet, InHand, Holder
      <4>2. /\ openIncident[u] # NoIncident
            /\ incidents[openIncident[u]].category \in {"repeated_failure", "heartbeat_timeout"}
        BY <1>1, <2>1, <4>1, HeldHasTrouble
      <4>. QED  BY <1>1, <4>2, AdviceIs DEF SInv
    <3>. QED  BY <3>1, <3>2
  <2>. QED  BY <1>1, <2>1, AdviceAtRest DEF AdviceFits
<1>. QED  BY <1>1, SerialInvariance, PTL

-----------------------------------------------------------------------------
(* What the documents say of the service, and overlapping requests for one *)
(* unit break, holds for clients who wait.                                 *)

(* An open incident is the one the index names, even during a request.     *)
LEMMA OpenIsIndexed ==
  ASSUME SInv, NEW i \in IncidentIDs, incidents[i].status = "open",
         NEW u \in Units, incidents[i].unit = u
  PROVE  openIncident[u] = i
<1>1. Store!NoRecord.status = ""
  BY DEF Store!NoRecord
<1>2. Owns(u, i)
  BY <1>1 DEF Owns
<1>3. \A j \in IncidentIDs : IncidentsThen[j].status = "open"
                               => OpenIncidentThen[IncidentsThen[j].unit] = j
  BY Zenon DEF SInv, W!IInv, W!Index, W!Open
<1>4. CASE ~ Begun(u)
  <2>1. IncidentsThen[i] = incidents[i] /\ OpenIncidentThen[u] = openIncident[u]
    BY <1>2, <1>4, OwnThen DEF OpenIncidentThen
  <2>. QED  BY <1>3, <2>1
<1>5. CASE Begun(u)
  <2>1. PICK h \in Handlers : Holder(u, h)
    BY <1>5, BegunIsHeld DEF SInv
  <2>2. PICK k, e, b : b = before[u] /\ Serving(u, h, b, k, e)
    BY <2>1, BusyServes
  <2>. DEFINE p == Part(u, b.id)
              t == task[h]
              r == Answer(b.snapshot, k, e)
  <2>3. p.incidents[i] = incidents[i] /\ p.open = openIncident[u]
    BY <1>2 DEF Part
  <2>4. IncidentsKept(u, b, p, t, r) /\ Held(u, b)
    BY <2>2 DEF Serving, Advanced
  <2>5. ASSUME NEW j \in IncidentIDs, b.incidents[j].status = "open"  PROVE b.open = j
    <3>1. Owns(u, j) /\ b.incidents[j].unit = u
      BY <1>1, <2>4, <2>5 DEF Held
    <3>2. IncidentsThen[j] = b.incidents[j] /\ OpenIncidentThen[u] = b.open
      BY <1>5, <2>2, <3>1, OwnThen DEF OpenIncidentThen
    <3>. QED  BY <1>3, <2>5, <3>1, <3>2
  <2>6. b.incidents \in [IncidentIDs -> Store!Incident]
    BY <2>4 DEF Held, PartType
  <2>. HIDE DEF p, t, r
  <2>7. p.open = i
    <3>1. CASE p.incidents = b.incidents /\ p.open = b.open
      BY <2>3, <2>5, <3>1
    <3>2. CASE r.incident \in Categories /\ Acts(u, b, p, r.incident)
      <4>1. PICK j \in IncidentIDs :
              /\ IF b.open # NoIncident THEN j = b.open ELSE b.incidents[j] = Store!NoRecord
              /\ p.incidents = [b.incidents EXCEPT ![j] = Store!Opened(u, r.incident)]
              /\ p.open = j
        BY <3>2 DEF Acts, Categories, NoAction, CloseAction
      <4>. QED  BY <2>3, <2>5, <2>6, <4>1, IncidentsAssumption
    <3>3. CASE /\ b.open # NoIncident
               /\ p.incidents = [b.incidents EXCEPT ![b.open] =
                                   [b.incidents[b.open] EXCEPT !.status = "resolved"]]
      <4>1. b.open \in IncidentIDs /\ b.incidents[b.open] # Store!NoRecord
        BY <2>2, <2>4, <3>3 DEF Serving, Held, PartType
      <4>2. [b.incidents[b.open] EXCEPT !.status = "resolved"].status = "resolved"
        BY <2>6, <4>1 DEF Store!Incident
      <4>3. i # b.open
        BY <2>3, <2>6, <3>3, <4>1, <4>2
      <4>4. b.incidents[i].status = "open"
        BY <2>3, <2>6, <3>3, <4>3
      <4>. QED  BY <2>5, <4>3, <4>4
    <3>. QED  BY <2>4, <3>1, <3>2, <3>3 DEF IncidentsKept, Acts
  <2>. QED  BY <2>3, <2>7
<1>. QED  BY <1>4, <1>5

(* A unit has at most one open incident at any moment, and a held one has  *)
(* one between its requests (SPEC.md:309, 791).                            *)
THEOREM WaitingKeepsIncidents ==
  SerialSpec => [](OneOpenIncident /\ HoldsHaveIncidents)
<1>1. ASSUME SInv, NEW u \in Units
      PROVE  Cardinality({i \in IncidentIDs :
               incidents[i] \in {Store!Opened(u, c) : c \in Categories}}) <= 1
  <2>. DEFINE open == {i \in IncidentIDs :
                         incidents[i] \in {Store!Opened(u, c) : c \in Categories}}
  <2>1. \A i \in open : i \in IncidentIDs /\ incidents[i].status = "open"
                        /\ incidents[i].unit = u
    BY DEF Store!Opened
  <2>. HIDE DEF open
  <2>2. \A i \in open : i = openIncident[u]
    BY <1>1, <2>1, OpenIsIndexed
  <2>3. open = {} \/ open = {openIncident[u]}
    BY <2>2
  <2>4. Cardinality({}) = 0 /\ Cardinality({openIncident[u]}) = 1
    BY FS_EmptySet, FS_Singleton, Zenon
  <2>5. Cardinality(open) \in {0, 1}
    BY <2>3, <2>4
  <2>. QED  BY <2>5 DEF open
<1>2. ASSUME SInv, NEW u \in Units, Quiet(u), workflows[u].state = "on_hold"
      PROVE  openIncident[u] # NoIncident
  <2>1. Advice(u) # "continue workflow"
    BY <1>2, AdviceAtRest
  <2>. QED  BY <1>2, <2>1, AdviceIs DEF SInv
<1>3. SInv => OneOpenIncident /\ HoldsHaveIncidents
  BY <1>1, <1>2 DEF OneOpenIncident, HoldsHaveIncidents
<1>. QED  BY <1>3, SerialInvariance, PTL

(* A request puts the answer to the snapshot it loaded, which is still the *)
(* stored one: every move of a unit is an allowed one (SPEC.md:492).       *)
THEOREM WaitingKeepsMoves == SerialSpec => MovesAreAllowed
<1>. DEFINE allowed(u) == <<workflows[u].state, workflows'[u].state>> \in AllowedMoves
<1>1. ASSUME SInv, NEW u \in Units, workflows'[u] = workflows[u]  PROVE allowed(u)
  <2>1. workflows[u].state \in States
    BY <1>1 DEF SInv, CInv, Records, Workflow
  <2>. QED  BY <1>1, <2>1 DEF AllowedMoves
<1>2. ASSUME SInv, NEW h \in Handlers, PutWorkflow(h)
      PROVE  \A u \in Units : allowed(u)
  <2>1. PICK u \in Units : Holder(u, h) /\ task[h].unit = u
    BY <1>2 DEF PutWorkflow, At, SInv, CInv, Fine, Tasks, Holder
  <2>2. PICK k, e, b : b = before[u] /\ Serving(u, h, b, k, e)
    BY <1>2, <2>1, BusyServes
  <2>. DEFINE r == Answer(b.snapshot, k, e)
  <2>3. /\ b.snapshot \in Workflow /\ r.next \in Workflow
        /\ SomeStep(b.snapshot, r.next, r.incident)
    BY <2>2 DEF Serving, Held, PartType, Contract, Result
  <2>4. /\ SnapshotKept(b, Part(u, b.id), task[h], r)
        /\ TaskKept(b, Part(u, b.id), task[h], r) /\ task[h].at = "put"
    BY <1>2, <2>2 DEF Serving, Advanced, PutWorkflow, At
  <2>. HIDE DEF r
  <2>5. Snapshot(u).state = b.snapshot.state /\ task[h].next.state = r.next.state
    BY <2>3, <2>4 DEF SnapshotKept, TaskKept, Part, Stored, Viewed, Reloaded,
       Asking, Workflow
  <2>6. /\ workflows[u].state = b.snapshot.state /\ workflows'[u].state = r.next.state
        /\ \A v \in Units \ {u} : workflows'[v] = workflows[v]
    BY <1>2, <2>1, <2>5 DEF PutWorkflow, Snapshot, SInv, CInv, Records, Fine,
       Tasks, Holder,
       Workflow
  <2>7. <<b.snapshot.state, r.next.state>> \in AllowedMoves
    <3>1. b.snapshot.state \in States /\ r.next.state \in States
      BY <2>3 DEF Workflow
    <3>. QED  BY <2>3, <3>1 DEF SomeStep, QuietStep, RetryStep, HoldStep,
                 PassStep,
              TimeOutStep, AllowedMoves
  <2>. QED  BY <1>1, <1>2, <2>6, <2>7
<1>3. ASSUME SInv, [SerialNext]_<<vars, before>>  PROVE \A u \in Units : allowed(u)
  <2>1. workflows' = workflows \/ \E h \in Handlers : PutWorkflow(h)
    BY <1>3, SerialIsNext DEF Next, vars, memory, TakeSignal, TakeTimer, Take,
       Step,
       SignalExists, AppendSignal, GetWorkflow, Apply, Count, AppendDecisions,
       CancelTimers,
       ScheduleTimers, FindIncident, PutIncident, Reload, DeleteIncidentView,
       PutUnitStatus, LookUpIncident, ShowIncident, PutStationHealth
  <2>. QED  BY <1>1, <1>2, <1>3, <2>1
<1>4. SInv /\ [SerialNext]_<<vars, before>> => [\A u \in Units : allowed(u)]_vars
  BY <1>3
<1>. QED  BY <1>4, SerialInvariance, PTL DEF SerialSpec, MovesAreAllowed
=============================================================================
