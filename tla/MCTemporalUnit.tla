--------------------------- MODULE MCTemporalUnit ---------------------------
(***************************************************************************)
(* Inputs for the model checking of TemporalUnit.                          *)
(***************************************************************************)
EXTENDS TemporalUnit

CONSTANTS Spoken,  \* stations a heartbeat or a station.entered may name
          ByHand   \* types of the timers fired by hand

Sent(id, type, station, payload) ==
  {[id |-> id, type |-> type, station |-> station, payload |-> payload]}

At(type, stations) == UNION {Sent(Fresh, type, s, "") : s \in stations}

(* A correct run through the factory, with both ways to fail a test, a     *)
(* signal that comes out of order and one whose id comes again.            *)
MCInputs ==
  At("unit.admitted", {""})
    \cup At("station.entered", Spoken)
    \cup At("assembly.completed", {"assembly"})
    \cup At("test.started", {"test"})
    \cup UNION {Sent(Fresh, "test.failed", "test", p) :
                  p \in {FlakyInfra, "hard_failure", Malformed}}
    \cup At("test.passed", {"test"})
    \cup At("station.heartbeat", Spoken)
    \cup UNION {Sent(Fresh, "quality.disposition", "test", p) :
                  p \in {"route_to_rework", "scrap"}}
    \cup At("rework.started", {"rework"})
    \cup At("rework.completed", {"rework"})
    \cup At("inspection.completed", {"inspection"})
    \cup UNION {Sent(i, "test.failed", "test", FlakyInfra) : i \in SignalIDs}

MCManualInputs == {<<type, "test">> : type \in ByHand}
=============================================================================
