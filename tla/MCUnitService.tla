--------------------------- MODULE MCUnitService ----------------------------
(***************************************************************************)
(* Inputs for the model checking of UnitService: the signals of the        *)
(* factory's stations, with the mistakes a station can make.               *)
(***************************************************************************)
EXTENDS UnitService, TLC

CONSTANTS Spoken,    \* stations a heartbeat or a station.entered may name
          HeartbeatAt  \* stations whose heartbeat timer clients may fire

Sent(id, type, station, payload) ==
  {[id |-> id, type |-> type, unit |-> u, station |-> station,
    payload |-> payload] : u \in Units}

At(type, stations) == UNION {Sent(Fresh, type, s, "") : s \in stations}

MCInputs ==
  At("unit.admitted", {""})
    \cup At("station.entered", Spoken)
    \cup At("assembly.completed", {"assembly", "test"})
    \cup At("test.started", {"test"})
    \cup UNION {Sent(Fresh, "test.failed", "test", p) :
                  p \in {FlakyInfra, "hard_failure"}}
    \cup At("test.passed", {"test"})
    \cup At("station.heartbeat", Spoken)
    \cup UNION {Sent(Fresh, "quality.disposition", "test", p) :
                  p \in {"route_to_rework", "scrap", "unknown_action"}}
    \cup At("rework.started", {"rework"})
    \cup At("rework.completed", {"rework"})
    \cup At("inspection.completed", {"inspection", "test"})
    \cup At("operator.override", {"test"})
    \cup UNION {Sent(i, "unit.admitted", "", "")
                  \cup Sent(i, "test.failed", "test", Malformed)
                  \cup Sent(i, "quality.disposition", "test", Malformed)
                  : i \in SignalIDs}

(* Two units that meet at one station, each with a single chance to pass.  *)
MCSharedInputs ==
  At("unit.admitted", {""})
    \cup At("station.entered", {"assembly"})
    \cup At("assembly.completed", {"assembly"})
    \cup At("test.started", {"test"})
    \cup Sent(Fresh, "test.failed", "test", FlakyInfra)
    \cup At("test.passed", {"test"})
    \cup UNION {Sent(Fresh, "quality.disposition", "test", p) :
                  p \in {"route_to_rework", "scrap"}}
    \cup At("rework.started", {"rework"})
    \cup At("rework.completed", {"rework"})

MCTimerInputs ==
  {RetryBackoff("test"), TestResult("test"), ReviewSLA("test")}
    \cup {Heartbeat(s) : s \in HeartbeatAt}

Symmetry == Permutations(Units) \cup Permutations(IncidentIDs)
=============================================================================
