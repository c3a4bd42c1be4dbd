--------------------------- MODULE TemporalReplay ---------------------------
(***************************************************************************)
(* TemporalUnit, one workflow task at a time, with the restarts of the     *)
(* worker.  A task takes all that is ready, in the order of the selector:  *)
(* signals, then manual timers, then futures in the order in which Go      *)
(* walks the map of timers, which is a different one each time.            *)
(*                                                                         *)
(* A worker that lost the workflow's memory replays the recorded history:  *)
(* the same events, task by task.  The SDK fails a replay whose commands   *)
(* are not the recorded ones, and tries again, but compares nothing else.  *)
(***************************************************************************)
EXTENDS TemporalUnit, FiniteSets

ASSUME NoIdsFollowed == SignalIDs = {}

VARIABLE replays   \* memories that the history so far can be replayed to

replayVars == <<vars, replays>>

Memory(m) == [wf |-> m.wf, timers |-> m.timers, trouble |-> m.trouble]

Now == [wf |-> wf, timers |-> timers, trouble |-> trouble]

ReplayInit == Init /\ replays = {Now}

-----------------------------------------------------------------------------
(* A workflow task: m is the memory, with the futures that are ready and   *)
(* the keys of the timers started in this task.                            *)

Ended(m) == m.wf.state \in Terminal

Take(m, result, scheduled) ==
  [wf      |-> result.next,
   trouble |-> AfterAction(m.trouble, result.incident),
   timers  |-> (scheduled \ result.cancel) \cup result.start,
   ready   |-> (m.ready \cap scheduled) \ (result.cancel \cup result.start),
   started |-> m.started \cup result.start]

TakeSignal(m, sig) ==
  IF Ended(m) \/ DecodeFails(m.wf, sig) THEN m
  ELSE Take(m, ApplySignal(m.wf, sig), m.timers)

TakeManual(m, key) ==
  IF Ended(m) THEN m ELSE Take(m, ApplyTimer(m.wf, key), m.timers)

TakeFuture(m, key) == Take(m, ApplyTimer(m.wf, key), m.timers \ {key})

(* The n-th turn of the loop, in every order in which the futures that are *)
(* ready can be taken; with nothing left to take, there is none.           *)
Turn(m, n) ==
  LET sent   == Len(signalCh)
      posted == Len(timerCh)
  IN  IF n <= sent THEN {TakeSignal(m, signalCh[n])}
      ELSE IF n <= sent + posted THEN {TakeManual(m, timerCh[n - sent])}
      ELSE IF Ended(m) \/ m.ready = {} THEN {m}
      ELSE {TakeFuture(m, key) : key \in m.ready}

(* What may have become of a memory after each number of turns.            *)
After(m) ==
  LET after[n \in Nat] == IF n = 0 THEN {m}
                          ELSE UNION {Turn(d, n) : d \in after[n - 1]}
  IN  after

Begun(m) == [wf |-> m.wf, timers |-> m.timers, trouble |-> m.trouble,
             ready |-> due \cap m.timers, started |-> {}]

(* The loop cancels the timers at its end.                                 *)
Closed(m) == IF Ended(m) THEN [m EXCEPT !.timers = {}] ELSE m

(* What a task makes of a memory.                                          *)
Task(m) ==
  LET turns == Len(signalCh) + Len(timerCh) + Cardinality(due)
  IN  {Closed(d) : d \in After(Begun(m))[turns]}

(* A command numbers its timer and does not name it, and a timer that was  *)
(* cancelled within its task has none: a replay shows at least how many    *)
(* timers the task left running, and whether the workflow ended.           *)
SameCommands(d, e) ==
  /\ Cardinality(d.started \cap d.timers) = Cardinality(e.started \cap e.timers)
  /\ Ended(d) <=> Ended(e)

WorkflowTask ==
  LET ends == [m \in replays |-> Task(m)]
  IN  /\ Working
      /\ signalCh # <<>> \/ timerCh # <<>> \/ due # {}
      /\ \E end \in ends[Now] :
           /\ wf' = end.wf /\ timers' = end.timers /\ trouble' = end.trouble
           /\ execution' = IF Ended(end) THEN "completed" ELSE execution
           /\ replays' = {Memory(d) : d \in {e \in UNION {ends[m] : m \in replays} :
                                              SameCommands(e, end)}}
      /\ due' = {} /\ signalCh' = <<>> /\ timerCh' = <<>>
      /\ UNCHANGED applied

(* The worker restarts, or its cache drops the workflow; a query of a      *)
(* closed workflow is answered from a replay as well.                      *)
Restart ==
  /\ execution # "none"
  /\ \E m \in replays : wf' = m.wf /\ timers' = m.timers /\ trouble' = m.trouble
  /\ UNCHANGED <<execution, due, signalCh, timerCh, applied, replays>>

-----------------------------------------------------------------------------
(* The client and the server, as in TemporalUnit                           *)

Starts(sig) ==
  /\ SignalStarts(sig)
  /\ replays' = {[wf |-> New, timers |-> {}, trouble |-> NoAction]}

(* At the execution timeout all memories lose their timers.                *)
RunsOut ==
  /\ Expire
  /\ replays' = {[m EXCEPT !.timers = {}] : m \in replays}

ReplayNext ==
  \/ WorkflowTask \/ Restart \/ RunsOut
  \/ \E sig \in Inputs : Starts(sig)
  \/ /\ \/ \E sig \in Inputs : SignalRunning(sig)
        \/ \E key \in ManualInputs : SendTimer(key)
        \/ \E key \in Armable : Elapse(key)
        \/ Refuse
     /\ UNCHANGED replays

ReplaySpec == ReplayInit /\ [][ReplayNext]_replayVars

-----------------------------------------------------------------------------
(* Properties                                                              *)

(* The choice between timers that are due at once is in no history, and    *)
(* yet every replay that the SDK lets pass ends where the lost memory was: *)
(* state, station, attempts, timers of the snapshot and of the SDK, and on *)
(* hold or not.  Only which timeout a hold names may differ                *)
(* (workflow.go:54, engine.go:282).                                        *)
Alike(v, w) ==
  /\ [v EXCEPT !.hold = ""] = [w EXCEPT !.hold = ""]
  /\ v.hold # w.hold => {v.hold, w.hold} \subseteq TimerTypes

ReplaysAgree ==
  \A m \in replays :
    Alike(m.wf, wf) /\ m.timers = timers /\ m.trouble = trouble
=============================================================================
