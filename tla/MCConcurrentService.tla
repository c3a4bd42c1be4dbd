------------------------ MODULE MCConcurrentService -------------------------
(***************************************************************************)
(* Inputs for the model checking of ConcurrentService: units under test.   *)
(***************************************************************************)
EXTENDS ConcurrentService, TLC

CONSTANTS
  FailureClasses,  \* payloads of a failed test
  Actions,         \* what to do with a hold
  Fired            \* types of the timers fired

Resender == CHOOSE u \in Units : TRUE   \* the unit whose signals come twice

Sent(id, type, station, payload) ==
  {[id |-> id, type |-> type, unit |-> u, station |-> station,
    payload |-> payload] : u \in Units}

MCInputs ==
  UNION {Sent(Fresh, "test.failed", "test", p) : p \in FailureClasses}
    \cup Sent(Fresh, "test.passed", "test", "")
    \cup UNION {Sent(Fresh, "quality.disposition", "test", a) : a \in Actions}
    \cup {sig \in UNION {Sent(i, "test.passed", "test", "") :
                            i \in SignalIDs} : sig.unit = Resender}

MCTimerInputs == {<<type, "test">> : type \in Fired}

(* The snapshot after the four signals that lead to the first test.        *)
After(wf, type, station) ==
  ApplySignal(wf, [type |-> type, station |-> station, payload |-> ""]).next

UnderTest ==
  After(After(After(After(New, "unit.admitted", ""),
                    "station.entered", "assembly"),
              "assembly.completed", "assembly"),
        "test.started", "test")

MCStarts == {UnderTest}

(* The variables that requests read, and the invariants of overlapping     *)
(* requests; no step reads the others back but to write them again.        *)
ReadBack == <<workflows, attempts, signals, incidents, openIncident, task>>

Symmetry == Permutations(Handlers) \cup Permutations(IncidentIDs)
=============================================================================
