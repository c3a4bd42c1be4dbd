-------------------------- MODULE ScenariosProofs ---------------------------
(***************************************************************************)
(* Demo scenarios end where they should, for any number of units and       *)
(* players, however their runs take turns.  All that the runs on a unit    *)
(* have done to it is how far the foremost of them has come: each step is  *)
(* done by the run that comes to it first, and does nothing in the others. *)
(***************************************************************************)
EXTENDS Scenarios, UnitServiceProofs, SequenceTheorems

(* The states a unit goes through, the first before the first step.        *)
Trail(name) ==
  CASE name = "happy_path_unit" ->
         <<"pending", "ready_for_assembly", "in_assembly", "ready_for_test",
           "awaiting_test_result", "ready_for_inspection", "in_inspection",
           "completed">>
    [] name = "flaky_retry_success" ->
         <<"pending", "ready_for_assembly", "in_assembly", "ready_for_test",
           "awaiting_test_result", "retry_pending", "awaiting_test_result",
           "ready_for_inspection">>
    [] name = "repeated_failure_rework" ->
         <<"pending", "ready_for_assembly", "in_assembly", "ready_for_test",
           "awaiting_test_result", "retry_pending", "awaiting_test_result",
           "on_hold", "awaiting_rework", "in_rework", "ready_for_test">>
    [] name = "heartbeat_timeout_hold" ->
         <<"pending", "ready_for_assembly", "in_assembly", "on_hold">>
    [] name = "duplicate_signal_rejected" ->
         <<"pending", "ready_for_assembly", "ready_for_assembly">>

Length(name) ==
  CASE name = "happy_path_unit"           -> 7
    [] name = "flaky_retry_success"       -> 7
    [] name = "repeated_failure_rework"   -> 10
    [] name = "heartbeat_timeout_hold"    -> 3
    [] name = "duplicate_signal_rejected" -> 2

(* The number of the last signal among the first k steps.                  *)
Numbered(name, k) ==
  CASE name = "happy_path_unit"           -> k
    [] name \in {"flaky_retry_success", "repeated_failure_rework"}
                                          -> IF k < 6 THEN k ELSE k - 1
    [] name = "heartbeat_timeout_hold"    -> IF k < 3 THEN k ELSE 2
    [] name = "duplicate_signal_rejected" -> IF k < 2 THEN k ELSE 1

(* The foremost run on a unit has done k steps.                            *)
Progress(u, k) ==
  LET name == plays[u]
      wf   == workflows[u]
  IN  /\ k \in 0..Length(name)
      /\ wf.state = Trail(name)[k + 1]
      /\ k < 5 => wf.attempts = 0
      /\ k \in {5, 6} /\ name = "repeated_failure_rework" => wf.attempts = 1
      /\ \A i \in 1..9 : signals[<<u, i>>] = "unseen" <=> i > Numbered(name, k)
      /\ \A p \in Players : Playing(p) /\ run[p].unit = u => run[p].done <= k

Runs == [unit : Stage, done : Nat] \cup {NoRun}

SInv ==
  /\ IInv
  /\ plays \in [Stage -> ScenarioNames]
  /\ run \in [Players -> Runs]
  /\ \A u \in Stage : \E k \in 0..10 : Progress(u, k)

-----------------------------------------------------------------------------
(* How to tell that a list is two lists in a row.                          *)
LEMMA IsConcat ==
  ASSUME NEW S, NEW s \in Seq(S), NEW t \in Seq(S), NEW r \in Seq(S),
         Len(r) = Len(s) + Len(t),
         \A k \in 1..Len(s) : r[k] = s[k],
         \A k \in 1..Len(t) : r[Len(s) + k] = t[k]
  PROVE  s \o t = r
<1>1. /\ s \o t \in Seq(S) /\ Len(s \o t) = Len(r)
      /\ \A i \in 1..Len(r) : (s \o t)[i] = IF i <= Len(s) THEN s[i] ELSE t[i - Len(s)]
  BY ConcatProperties
<1>2. ASSUME NEW k \in 1..Len(r)  PROVE (s \o t)[k] = r[k]
  <2>1. Len(s) \in Nat /\ Len(t) \in Nat
    OBVIOUS
  <2>2. CASE k <= Len(s)
    BY <1>1, <2>1, <2>2
  <2>3. CASE ~ (k <= Len(s))
    <3>1. k - Len(s) \in 1..Len(t) /\ k = Len(s) + (k - Len(s))
      BY <2>1, <2>3
    <3>2. r[Len(s) + (k - Len(s))] = t[k - Len(s)]
      BY <3>1
    <3>. QED  BY <1>1, <2>3, <3>1, <3>2
  <2>. QED  BY <2>2, <2>3
<1>. QED  BY <1>1, <1>2, SeqEqual

(* The lists the scenarios are put together from.                          *)
LEMMA Joined ==
  /\ \A a, b, c :
       <<a, b>> \o <<c>> = <<a, b, c>>
  /\ \A a, b, c, d :
       <<a, b>> \o <<c, d>> = <<a, b, c, d>>
  /\ \A a, b, c, d, e, f :
       <<a, b, c, d>> \o <<e, f>> = <<a, b, c, d, e, f>>
  /\ \A a, b, c, d, e, f, g :
       <<a, b, c, d>> \o <<e, f, g>> = <<a, b, c, d, e, f, g>>
  /\ \A a, b, c, d, e, f, g :
       <<a, b, c, d, e, f>> \o <<g>> = <<a, b, c, d, e, f, g>>
  /\ \A a, b, c, d, e, f, g, h, i, j :
       <<a, b, c, d, e, f>> \o <<g, h, i, j>> = <<a, b, c, d, e, f, g, h, i, j>>
<1>1. ASSUME NEW a, NEW b, NEW c
      PROVE  <<a, b>> \o <<c>> = <<a, b, c>>
  <2>. DEFINE s == <<a, b>>
              t == <<c>>
              r == <<a, b, c>>
              S == {a, b, c}
  <2>1. /\ s \in Seq(S) /\ t \in Seq(S) /\ r \in Seq(S)
        /\ Len(s) = 2 /\ Len(t) = 1 /\ Len(r) = 3
        /\ \A k \in 1..2 : r[k] = s[k]
        /\ \A k \in 1..1 : r[2 + k] = t[k]
    OBVIOUS
  <2>. HIDE DEF s, t, r, S
  <2>2. /\ Len(r) = Len(s) + Len(t)
        /\ \A k \in 1..Len(s) : r[k] = s[k]
        /\ \A k \in 1..Len(t) : r[Len(s) + k] = t[k]
    BY <2>1
  <2>3. s \o t = r
    BY <2>1, <2>2, IsConcat
  <2>. QED  BY <2>3 DEF s, t, r
<1>2. ASSUME NEW a, NEW b, NEW c, NEW d
      PROVE  <<a, b>> \o <<c, d>> = <<a, b, c, d>>
  <2>. DEFINE s == <<a, b>>
              t == <<c, d>>
              r == <<a, b, c, d>>
              S == {a, b, c, d}
  <2>1. /\ s \in Seq(S) /\ t \in Seq(S) /\ r \in Seq(S)
        /\ Len(s) = 2 /\ Len(t) = 2 /\ Len(r) = 4
        /\ \A k \in 1..2 : r[k] = s[k]
        /\ \A k \in 1..2 : r[2 + k] = t[k]
    OBVIOUS
  <2>. HIDE DEF s, t, r, S
  <2>2. /\ Len(r) = Len(s) + Len(t)
        /\ \A k \in 1..Len(s) : r[k] = s[k]
        /\ \A k \in 1..Len(t) : r[Len(s) + k] = t[k]
    BY <2>1
  <2>3. s \o t = r
    BY <2>1, <2>2, IsConcat
  <2>. QED  BY <2>3 DEF s, t, r
<1>3. ASSUME NEW a, NEW b, NEW c, NEW d, NEW e, NEW f
      PROVE  <<a, b, c, d>> \o <<e, f>> = <<a, b, c, d, e, f>>
  <2>. DEFINE s == <<a, b, c, d>>
              t == <<e, f>>
              r == <<a, b, c, d, e, f>>
              S == {a, b, c, d, e, f}
  <2>1. /\ s \in Seq(S) /\ t \in Seq(S) /\ r \in Seq(S)
        /\ Len(s) = 4 /\ Len(t) = 2 /\ Len(r) = 6
        /\ \A k \in 1..4 : r[k] = s[k]
        /\ \A k \in 1..2 : r[4 + k] = t[k]
    OBVIOUS
  <2>. HIDE DEF s, t, r, S
  <2>2. /\ Len(r) = Len(s) + Len(t)
        /\ \A k \in 1..Len(s) : r[k] = s[k]
        /\ \A k \in 1..Len(t) : r[Len(s) + k] = t[k]
    BY <2>1
  <2>3. s \o t = r
    BY <2>1, <2>2, IsConcat
  <2>. QED  BY <2>3 DEF s, t, r
<1>4. ASSUME NEW a, NEW b, NEW c, NEW d, NEW e, NEW f, NEW g
      PROVE  <<a, b, c, d>> \o <<e, f, g>> = <<a, b, c, d, e, f, g>>
  <2>. DEFINE s == <<a, b, c, d>>
              t == <<e, f, g>>
              r == <<a, b, c, d, e, f, g>>
              S == {a, b, c, d, e, f, g}
  <2>1. /\ s \in Seq(S) /\ t \in Seq(S) /\ r \in Seq(S)
        /\ Len(s) = 4 /\ Len(t) = 3 /\ Len(r) = 7
        /\ \A k \in 1..4 : r[k] = s[k]
        /\ \A k \in 1..3 : r[4 + k] = t[k]
    OBVIOUS
  <2>. HIDE DEF s, t, r, S
  <2>2. /\ Len(r) = Len(s) + Len(t)
        /\ \A k \in 1..Len(s) : r[k] = s[k]
        /\ \A k \in 1..Len(t) : r[Len(s) + k] = t[k]
    BY <2>1
  <2>3. s \o t = r
    BY <2>1, <2>2, IsConcat
  <2>. QED  BY <2>3 DEF s, t, r
<1>5. ASSUME NEW a, NEW b, NEW c, NEW d, NEW e, NEW f, NEW g
      PROVE  <<a, b, c, d, e, f>> \o <<g>> = <<a, b, c, d, e, f, g>>
  <2>. DEFINE s == <<a, b, c, d, e, f>>
              t == <<g>>
              r == <<a, b, c, d, e, f, g>>
              S == {a, b, c, d, e, f, g}
  <2>1. /\ s \in Seq(S) /\ t \in Seq(S) /\ r \in Seq(S)
        /\ Len(s) = 6 /\ Len(t) = 1 /\ Len(r) = 7
        /\ \A k \in 1..6 : r[k] = s[k]
        /\ \A k \in 1..1 : r[6 + k] = t[k]
    OBVIOUS
  <2>. HIDE DEF s, t, r, S
  <2>2. /\ Len(r) = Len(s) + Len(t)
        /\ \A k \in 1..Len(s) : r[k] = s[k]
        /\ \A k \in 1..Len(t) : r[Len(s) + k] = t[k]
    BY <2>1
  <2>3. s \o t = r
    BY <2>1, <2>2, IsConcat
  <2>. QED  BY <2>3 DEF s, t, r
<1>6. ASSUME NEW a, NEW b, NEW c, NEW d, NEW e, NEW f,
             NEW g, NEW h, NEW i, NEW j
      PROVE  <<a, b, c, d, e, f>> \o <<g, h, i, j>> = <<a, b, c, d, e, f, g, h, i, j>>
  <2>. DEFINE s == <<a, b, c, d, e, f>>
              t == <<g, h, i, j>>
              r == <<a, b, c, d, e, f, g, h, i, j>>
              S == {a, b, c, d, e, f, g, h, i, j}
  <2>1. /\ s \in Seq(S) /\ t \in Seq(S) /\ r \in Seq(S)
        /\ Len(s) = 6 /\ Len(t) = 4 /\ Len(r) = 10
        /\ \A k \in 1..6 : r[k] = s[k]
        /\ \A k \in 1..4 : r[6 + k] = t[k]
    OBVIOUS
  <2>. HIDE DEF s, t, r, S
  <2>2. /\ Len(r) = Len(s) + Len(t)
        /\ \A k \in 1..Len(s) : r[k] = s[k]
        /\ \A k \in 1..Len(t) : r[Len(s) + k] = t[k]
    BY <2>1
  <2>3. s \o t = r
    BY <2>1, <2>2, IsConcat
  <2>. QED  BY <2>3 DEF s, t, r
<1>. QED  BY <1>1, <1>2, <1>3, <1>4, <1>5, <1>6

(* A step that sends a signal of a type under a number.                    *)
Sends(step, u, n, type) ==
  /\ step.signal
  /\ step.event.id = <<u, n>> /\ step.event.type = type
  /\ step.event.unit = u /\ step.event.station \in StationIDs

(* What the steps of the scenarios are.                                    *)
LEMMA SendSends ==
  ASSUME NEW u, NEW n, NEW type, NEW station \in StationIDs, NEW payload
  PROVE  Sends(Send(u, n, type, station, payload), u, n, type)
  BY DEF Send, Sends

(* ... and what they carry.                                                *)
Carries(step, station, payload) ==
  step.event.station = station /\ step.event.payload = payload

LEMMA SendCarries ==
  ASSUME NEW u, NEW n, NEW type, NEW station, NEW payload
  PROVE  Carries(Send(u, n, type, station, payload), station, payload)
  BY DEF Send, Carries

(* A timer is no signal.                                                   *)
LEMMA FireFires ==
  ASSUME NEW key
  PROVE  ~ Fire(key).signal /\ Fire(key).event = key
  BY DEF Fire

(* The scenarios, step by step (scenarios.go).                             *)
Tested(a, b, c, d, u) ==
  /\ Sends(a, u, 1, "unit.admitted")
  /\ Sends(b, u, 2, "station.entered")
  /\ Sends(c, u, 3, "assembly.completed")
  /\ Sends(d, u, 4, "test.started")

Flaked(e, f, u) ==
  /\ Sends(e, u, 5, "test.failed") /\ e.event.payload = FlakyInfra
  /\ ~ f.signal /\ f.event = RetryBackoff("test")

(* They begin alike: to the first test ...                                 *)
LEMMA TestedSteps ==
  ASSUME NEW u
  PROVE  \E a, b, c, d : /\ ToAssembly(u) = <<a, b>>
                         /\ ToTest(u) = <<a, b, c, d>>
                         /\ a = Admit(u)
                         /\ Tested(a, b, c, d, u)
<1>. DEFINE a == Admit(u)
            b == Send(u, 2, "station.entered", "assembly", "")
            c == Send(u, 3, "assembly.completed", "assembly", "")
            d == Send(u, 4, "test.started", "test", "")
<1>1. ToAssembly(u) = <<a, b>>
  BY DEF ToAssembly
<1>2. ToTest(u) = <<a, b>> \o <<c, d>>
  BY <1>1 DEF ToTest
<1>3. /\ "" \in StationIDs /\ "assembly" \in StationIDs /\ "test" \in StationIDs
  BY StationsAssumption, StageAssumption
<1>4. Sends(a, u, 1, "unit.admitted")
  BY <1>3, SendSends, Zenon DEF Admit
<1>5. Sends(b, u, 2, "station.entered")
  BY <1>3, SendSends, Zenon
<1>6. Sends(c, u, 3, "assembly.completed")
  BY <1>3, SendSends, Zenon
<1>7. Sends(d, u, 4, "test.started")
  BY <1>3, SendSends, Zenon
<1>8. a = Admit(u)
  OBVIOUS
<1>. HIDE DEF a, b, c, d
<1>9. ToTest(u) = <<a, b, c, d>>
  BY <1>2, Joined
<1>. QED  BY <1>1, <1>4, <1>5, <1>6, <1>7, <1>8, <1>9 DEF Tested

(* ... and through its failure to the retry.                               *)
LEMMA FlakedSteps ==
  ASSUME NEW u
  PROVE  \E a, b, c, d, e, f : /\ ToRetry(u) = <<a, b, c, d, e, f>>
                               /\ Tested(a, b, c, d, u) /\ Flaked(e, f, u)
<1>. DEFINE e == FlakyFailure(u, 5)
            f == Fire(RetryBackoff("test"))
<1>1. PICK a, b, c, d : ToTest(u) = <<a, b, c, d>> /\ Tested(a, b, c, d, u)
  BY TestedSteps
<1>2. ToRetry(u) = ToTest(u) \o <<e, f>>
  BY DEF ToRetry
<1>3. Flaked(e, f, u)
  <2>1. "test" \in StationIDs
    BY StationsAssumption
  <2>2. Sends(e, u, 5, "test.failed")
    BY <2>1, SendSends, Zenon DEF FlakyFailure
  <2>3. Carries(e, "test", FlakyInfra)
    BY SendCarries, Zenon DEF FlakyFailure
  <2>. QED  BY <2>2, <2>3, FireFires DEF Flaked, Carries
<1>. HIDE DEF e, f
<1>4. ToRetry(u) = <<a, b, c, d, e, f>>
  BY <1>1, <1>2, Joined
<1>. QED  BY <1>1, <1>3, <1>4

(* Where a signal that is step k + 1 takes a unit.                         *)
Drives(sig, k, from, to) ==
  \/ sig.type = "unit.admitted" /\ from = "pending" /\ to = "ready_for_assembly"
  \/ /\ sig.type = "station.entered"
     /\ from = "ready_for_assembly" /\ to = "in_assembly"
  \/ /\ sig.type = "station.entered" /\ sig.station = "inspection"
     /\ from = "ready_for_inspection" /\ to = "in_inspection"
  \/ /\ sig.type = "assembly.completed"
     /\ from = "in_assembly" /\ to = "ready_for_test"
  \/ /\ sig.type = "test.started"
     /\ from = "ready_for_test" /\ to = "awaiting_test_result"
  \/ /\ sig.type = "test.failed" /\ sig.payload = FlakyInfra
     /\ from = "awaiting_test_result"
     /\ \/ k = 4 /\ to = "retry_pending"
        \/ k = 6 /\ to = "on_hold"
  \/ /\ sig.type = "test.passed"
     /\ from = "awaiting_test_result" /\ to = "ready_for_inspection"
  \/ /\ sig.type = "quality.disposition" /\ sig.payload = "route_to_rework"
     /\ from = "on_hold" /\ to = "awaiting_rework"
  \/ sig.type = "rework.started" /\ from = "awaiting_rework" /\ to = "in_rework"
  \/ sig.type = "rework.completed" /\ from = "in_rework" /\ to = "ready_for_test"
  \/ /\ sig.type = "inspection.completed"
     /\ from = "in_inspection" /\ to = "completed"

(* What step k + 1 of a scenario does, when it is done for the first time. *)
Row(u, name, k, step) ==
  LET from == Trail(name)[k + 1]
      to   == Trail(name)[k + 2]
      n    == Numbered(name, k)
      m    == Numbered(name, k + 1)
  IN  /\ \/ \* a signal that has not been sent before
            /\ \E type : Sends(step, u, n + 1, type)
            /\ n + 1 \in 1..9 /\ m = n + 1
            /\ Drives(step.event, k, from, to)
         \/ \* the same signal once more
            /\ \E type : Sends(step, u, 1, type)
            /\ n = 1 /\ m = 1 /\ to = from
            /\ name = "duplicate_signal_rejected"
         \/ /\ ~ step.signal /\ step.event = RetryBackoff("test")
            /\ m = n /\ k = 5
            /\ from = "retry_pending" /\ to = "awaiting_test_result"
         \/ /\ ~ step.signal /\ step.event = Heartbeat("assembly")
            /\ m = n /\ k = 2 /\ to = "on_hold"
            /\ name = "heartbeat_timeout_hold"

(* The scenario without a failure.                                         *)
LEMMA HappyRows ==
  ASSUME NEW u, NEW name, name = "happy_path_unit"
  PROVE  /\ Len(BuildScenario(name, u)) = Length(name)
         /\ \A k \in 0..(Length(name) - 1) : Row(u, name, k, BuildScenario(name, u)[k + 1])
<1>. DEFINE e == Send(u, 5, "test.passed", "test", "")
            f == Send(u, 6, "station.entered", "inspection", "")
            g == Send(u, 7, "inspection.completed", "inspection", "")
<1>1. PICK a, b, c, d : ToTest(u) = <<a, b, c, d>> /\ Tested(a, b, c, d, u)
  BY TestedSteps
<1>2. BuildScenario(name, u) = ToTest(u) \o <<e, f, g>>
  BY DEF BuildScenario
<1>3. "test" \in StationIDs /\ "inspection" \in StationIDs
  BY StationsAssumption
<1>4. Sends(e, u, 5, "test.passed")
  BY <1>3, SendSends, Zenon
<1>5. Sends(f, u, 6, "station.entered")
  BY <1>3, SendSends, Zenon
<1>6. Carries(f, "inspection", "")
  BY SendCarries, Zenon
<1>7. Sends(g, u, 7, "inspection.completed")
  BY <1>3, SendSends, Zenon
<1>. HIDE DEF e, f, g
<1>8. BuildScenario(name, u) = <<a, b, c, d, e, f, g>>
  BY <1>1, <1>2, Joined
<1>9. /\ Length(name) = 7 /\ 0..(Length(name) - 1) = 0..6
      /\ \A k : Numbered(name, k) = k
      /\ Trail(name) = <<"pending", "ready_for_assembly", "in_assembly",
           "ready_for_test", "awaiting_test_result", "ready_for_inspection",
           "in_inspection", "completed">>
  BY DEF Length, Numbered, Trail
<1>10. PICK s : s = BuildScenario(name, u)
  OBVIOUS
<1>11. Row(u, name, 0, a) /\ Row(u, name, 1, b)
  BY <1>1, <1>9 DEF Row, Drives, Tested, Sends
<1>12. Row(u, name, 2, c) /\ Row(u, name, 3, d)
  BY <1>1, <1>9 DEF Row, Drives, Tested, Sends
<1>13. Row(u, name, 4, e) /\ Row(u, name, 5, f) /\ Row(u, name, 6, g)
  <2>1. f.event.station = "inspection"
    BY <1>6, Zenon DEF Carries
  <2>. QED  BY <1>4, <1>5, <1>7, <1>9, <2>1 DEF Row, Drives, Sends
<1>14. \A k \in 0..6 : Row(u, name, k, s[k + 1])
  BY <1>8, <1>10, <1>11, <1>12, <1>13
<1>15. Len(s) = 7
  BY <1>8, <1>10
<1>. QED  BY <1>9, <1>10, <1>14, <1>15

(* ... with one that is retried.                                           *)
LEMMA FlakyRows ==
  ASSUME NEW u, NEW name, name = "flaky_retry_success"
  PROVE  /\ Len(BuildScenario(name, u)) = Length(name)
         /\ \A k \in 0..(Length(name) - 1) : Row(u, name, k, BuildScenario(name, u)[k + 1])
<1>. DEFINE g == Send(u, 6, "test.passed", "test", "")
<1>1. PICK a, b, c, d, e, f : /\ ToRetry(u) = <<a, b, c, d, e, f>>
                              /\ Tested(a, b, c, d, u) /\ Flaked(e, f, u)
  BY FlakedSteps
<1>2. BuildScenario(name, u) = ToRetry(u) \o <<g>>
  BY DEF BuildScenario
<1>3. "test" \in StationIDs
  BY StationsAssumption
<1>4. Sends(g, u, 6, "test.passed")
  BY <1>3, SendSends, Zenon
<1>. HIDE DEF g
<1>5. BuildScenario(name, u) = <<a, b, c, d, e, f, g>>
  BY <1>1, <1>2, Joined
<1>6. /\ Length(name) = 7 /\ 0..(Length(name) - 1) = 0..6
      /\ \A k : Numbered(name, k) = IF k < 6 THEN k ELSE k - 1
      /\ Trail(name) = <<"pending", "ready_for_assembly", "in_assembly",
           "ready_for_test", "awaiting_test_result", "retry_pending",
           "awaiting_test_result", "ready_for_inspection">>
  BY DEF Length, Numbered, Trail
<1>7. PICK s : s = BuildScenario(name, u)
  OBVIOUS
<1>8. Row(u, name, 0, a) /\ Row(u, name, 1, b)
  BY <1>1, <1>6 DEF Row, Drives, Tested, Sends
<1>9. Row(u, name, 2, c) /\ Row(u, name, 3, d)
  BY <1>1, <1>6 DEF Row, Drives, Tested, Sends
<1>10. Row(u, name, 4, e)
  BY <1>1, <1>6 DEF Row, Drives, Flaked, Sends
<1>11. Row(u, name, 5, f) /\ Row(u, name, 6, g)
  BY <1>1, <1>4, <1>6 DEF Row, Drives, Flaked, Sends
<1>12. \A k \in 0..6 : Row(u, name, k, s[k + 1])
  BY <1>5, <1>7, <1>8, <1>9, <1>10, <1>11
<1>13. Len(s) = 7
  BY <1>5, <1>7
<1>. QED  BY <1>6, <1>7, <1>12, <1>13

(* ... with two, the second of which puts the unit on hold.                *)
LEMMA RepeatedRows ==
  ASSUME NEW u, NEW name, name = "repeated_failure_rework"
  PROVE  /\ Len(BuildScenario(name, u)) = Length(name)
         /\ \A k \in 0..(Length(name) - 1) : Row(u, name, k, BuildScenario(name, u)[k + 1])
<1>. DEFINE g == FlakyFailure(u, 6)
            h == Send(u, 7, "quality.disposition", "test", "route_to_rework")
            i == Send(u, 8, "rework.started", "rework", "")
            j == Send(u, 9, "rework.completed", "rework", "")
<1>1. PICK a, b, c, d, e, f : /\ ToRetry(u) = <<a, b, c, d, e, f>>
                              /\ Tested(a, b, c, d, u) /\ Flaked(e, f, u)
  BY FlakedSteps
<1>2. BuildScenario(name, u) = ToRetry(u) \o <<g, h, i, j>>
  BY DEF BuildScenario
<1>3. "test" \in StationIDs /\ "rework" \in StationIDs
  BY StationsAssumption
<1>4. Sends(g, u, 6, "test.failed") /\ Carries(g, "test", FlakyInfra)
  BY <1>3, SendSends, SendCarries, Zenon DEF FlakyFailure
<1>5. /\ Sends(h, u, 7, "quality.disposition")
      /\ Carries(h, "test", "route_to_rework")
  BY <1>3, SendSends, SendCarries, Zenon
<1>6. Sends(i, u, 8, "rework.started")
  BY <1>3, SendSends, Zenon
<1>7. Sends(j, u, 9, "rework.completed")
  BY <1>3, SendSends, Zenon
<1>. HIDE DEF g, h, i, j
<1>8. BuildScenario(name, u) = <<a, b, c, d, e, f, g, h, i, j>>
  BY <1>1, <1>2, Joined
<1>9. /\ Length(name) = 10 /\ 0..(Length(name) - 1) = 0..9
      /\ \A k : Numbered(name, k) = IF k < 6 THEN k ELSE k - 1
      /\ Trail(name) = <<"pending", "ready_for_assembly", "in_assembly",
           "ready_for_test", "awaiting_test_result", "retry_pending",
           "awaiting_test_result", "on_hold", "awaiting_rework", "in_rework",
           "ready_for_test">>
  BY DEF Length, Numbered, Trail
<1>10. PICK s : s = BuildScenario(name, u)
  OBVIOUS
<1>11. Row(u, name, 0, a) /\ Row(u, name, 1, b)
  BY <1>1, <1>9 DEF Row, Drives, Tested, Sends
<1>12. Row(u, name, 2, c) /\ Row(u, name, 3, d)
  BY <1>1, <1>9 DEF Row, Drives, Tested, Sends
<1>13. Row(u, name, 4, e) /\ Row(u, name, 5, f)
  BY <1>1, <1>9 DEF Row, Drives, Flaked, Sends
<1>14. Row(u, name, 6, g) /\ Row(u, name, 7, h)
  BY <1>4, <1>5, <1>9 DEF Row, Drives, Sends, Carries
<1>15. Row(u, name, 8, i) /\ Row(u, name, 9, j)
  BY <1>6, <1>7, <1>9 DEF Row, Drives, Sends
<1>16. \A k \in 0..9 : Row(u, name, k, s[k + 1])
  BY <1>8, <1>10, <1>11, <1>12, <1>13, <1>14, <1>15
<1>17. Len(s) = 10
  BY <1>8, <1>10
<1>. QED  BY <1>9, <1>10, <1>16, <1>17

(* ... with a station that falls silent.                                   *)
LEMMA HeartbeatRows ==
  ASSUME NEW u, NEW name, name = "heartbeat_timeout_hold"
  PROVE  /\ Len(BuildScenario(name, u)) = Length(name)
         /\ \A k \in 0..(Length(name) - 1) : Row(u, name, k, BuildScenario(name, u)[k + 1])
<1>. DEFINE c == Fire(Heartbeat("assembly"))
<1>1. PICK a, b : /\ ToAssembly(u) = <<a, b>>
                  /\ Sends(a, u, 1, "unit.admitted")
                  /\ Sends(b, u, 2, "station.entered")
  BY TestedSteps DEF Tested
<1>2. BuildScenario(name, u) = ToAssembly(u) \o <<c>>
  BY DEF BuildScenario
<1>3. ~ c.signal /\ c.event = Heartbeat("assembly")
  BY FireFires
<1>. HIDE DEF c
<1>4. BuildScenario(name, u) = <<a, b, c>>
  BY <1>1, <1>2, Joined
<1>5. /\ Length(name) = 3 /\ 0..(Length(name) - 1) = 0..2
      /\ \A k : Numbered(name, k) = IF k < 3 THEN k ELSE 2
      /\ Trail(name) =
           <<"pending", "ready_for_assembly", "in_assembly", "on_hold">>
  BY DEF Length, Numbered, Trail
<1>6. PICK s : s = BuildScenario(name, u)
  OBVIOUS
<1>7. Row(u, name, 0, a) /\ Row(u, name, 1, b) /\ Row(u, name, 2, c)
  BY <1>1, <1>3, <1>5 DEF Row, Drives, Sends
<1>8. \A k \in 0..2 : Row(u, name, k, s[k + 1])
  BY <1>4, <1>6, <1>7
<1>9. Len(s) = 3
  BY <1>4, <1>6
<1>. QED  BY <1>5, <1>6, <1>8, <1>9

(* ... and with a client that says everything twice.                       *)
LEMMA DuplicateRows ==
  ASSUME NEW u, NEW name, name = "duplicate_signal_rejected"
  PROVE  /\ Len(BuildScenario(name, u)) = Length(name)
         /\ \A k \in 0..(Length(name) - 1) : Row(u, name, k, BuildScenario(name, u)[k + 1])
<1>1. PICK a : a = Admit(u) /\ Sends(a, u, 1, "unit.admitted")
  BY TestedSteps DEF Tested
<1>2. BuildScenario(name, u) = <<a, a>>
  BY <1>1 DEF BuildScenario
<1>3. /\ Length(name) = 2 /\ 0..(Length(name) - 1) = 0..1
      /\ \A k : Numbered(name, k) = IF k < 2 THEN k ELSE 1
      /\ Trail(name) = <<"pending", "ready_for_assembly", "ready_for_assembly">>
  BY DEF Length, Numbered, Trail
<1>4. PICK s : s = BuildScenario(name, u)
  OBVIOUS
<1>5. Row(u, name, 0, a) /\ Row(u, name, 1, a)
  BY <1>1, <1>3 DEF Row, Drives, Sends
<1>6. \A k \in 0..1 : Row(u, name, k, s[k + 1])
  BY <1>2, <1>4, <1>5
<1>7. Len(s) = 2
  BY <1>2, <1>4
<1>. QED  BY <1>3, <1>4, <1>6, <1>7

(* All scenarios.                                                          *)
LEMMA Rows ==
  ASSUME NEW u, NEW name \in ScenarioNames
  PROVE  /\ Len(BuildScenario(name, u)) = Length(name)
         /\ \A k \in 0..(Length(name) - 1) : Row(u, name, k, BuildScenario(name, u)[k + 1])
  BY HappyRows, FlakyRows, RepeatedRows, HeartbeatRows, DuplicateRows
     DEF ScenarioNames

(* The numbers of the signals only go up.                                  *)
LEMMA NumbersRise ==
  ASSUME NEW name \in ScenarioNames, NEW d \in 0..10, NEW k \in 0..10, d <= k
  PROVE  /\ Numbered(name, d) \in 0..10
         /\ Numbered(name, d) <= Numbered(name, k)
  BY DEF Numbered, ScenarioNames

(* How long the scenarios are.                                             *)
LEMMA Lengths ==
  ASSUME NEW name \in ScenarioNames
  PROVE  Length(name) \in 2..10 /\ Numbered(name, 0) = 0
  BY DEF Length, Numbered, ScenarioNames

-----------------------------------------------------------------------------
(* What the engine makes of a step.                                        *)

(* The snapshot's timers are all that Rearm changes of it.                 *)
LEMMA RearmedState ==
  ASSUME NEW n \in Workflow, NEW ds, NEW start, NEW cancel, NEW action
  PROVE  LET r == Rearm(Accepted(n, ds, start, cancel, action))
         IN  r.next.state = n.state /\ r.next.attempts = n.attempts
<1>1. Rearm(Accepted(n, ds, start, cancel, action)).next
        = [n EXCEPT !.timers = (n.timers \cup start) \ cancel]
  BY RearmedFields
<1>. QED  BY <1>1 DEF Workflow

(* A signal of a scenario, come for the first time, does what it is for.   *)
LEMMA Driven ==
  ASSUME NEW wf \in Workflow, NEW sig, NEW k \in Nat, NEW to,
         Drives(sig, k, wf.state, to), sig.station \in StationIDs,
         k = 4 => wf.attempts = 0,
         k = 6 /\ to = "on_hold" => wf.attempts = 1
  PROVE  /\ ~ DecodeFails(wf, sig)
         /\ ApplySignal(wf, sig).next.state = to
         /\ to = "retry_pending" => ApplySignal(wf, sig).next.attempts = 1
         /\ k < 4 => ApplySignal(wf, sig).next.attempts = wf.attempts
<1>1. Accepts(wf, sig) /\ ~ DecodeFails(wf, sig)
  BY DEF Drives, Accepts, Expected, DecodeFails, FlakyInfra, Malformed
<1>. DEFINE e == Effect(wf, sig)
            Goes(n) == /\ n.state = to
                       /\ to = "retry_pending" => n.attempts = 1
                       /\ k < 4 => n.attempts = wf.attempts
<1>2. ApplySignal(wf, sig) = Rearm(e)
  BY <1>1 DEF ApplySignal
<1>3. SUFFICES \E n \in Workflow : \E ds, start, cancel, action :
                 Goes(n) /\ e = Accepted(n, ds, start, cancel, action)
  <2>1. PICK n \in Workflow : \E ds, start, cancel, action :
          Goes(n) /\ e = Accepted(n, ds, start, cancel, action)
    BY <1>3
  <2>2. Rearm(e).next.state = n.state /\ Rearm(e).next.attempts = n.attempts
    BY <2>1, RearmedState
  <2>. HIDE DEF e
  <2>. QED  BY <1>1, <1>2, <2>1, <2>2
<1>4. CASE sig.type = "unit.admitted"
  <2>. DEFINE n == [wf EXCEPT !.state = "ready_for_assembly", !.station = wf.station]
  <2>1. e = Accepted(n, <<Transition("ready_for_assembly")>>, {}, {}, NoAction)
    BY <1>4 DEF Effect, UnitAdmitted, Move
  <2>2. n \in Workflow /\ Goes(n)
    BY <1>4, StationsAssumption DEF Drives, Workflow, States
  <2>. QED  BY <2>1, <2>2
<1>5. CASE sig.type = "station.entered"
  <2>. DEFINE n == [wf EXCEPT !.state = to, !.station = sig.station]
  <2>1. e = Accepted(n, <<Transition(to)>>, {Heartbeat(sig.station)}, {}, NoAction)
    BY <1>5 DEF Effect, StationEntered, Move, Drives
  <2>2. n \in Workflow /\ Goes(n)
    BY <1>5, StationsAssumption DEF Drives, Workflow, States
  <2>. QED  BY <2>1, <2>2
<1>6. CASE sig.type = "assembly.completed"
  <2>. DEFINE n == [wf EXCEPT !.state = "ready_for_test", !.station = "test"]
  <2>1. e = Accepted(n, <<Decision("cancel_timer"), Transition("ready_for_test")>>,
                    {}, {Heartbeat(sig.station)}, NoAction)
    BY <1>6 DEF Effect, AssemblyCompleted
  <2>2. n \in Workflow /\ Goes(n)
    BY <1>6, StationsAssumption DEF Drives, Workflow, States
  <2>. QED  BY <2>1, <2>2
<1>7. CASE sig.type = "test.started"
  <2>. DEFINE n == [wf EXCEPT !.state = "awaiting_test_result", !.station = "test"]
  <2>1. e = Accepted(n, <<Transition("awaiting_test_result")>>, TestTimers, {},
                    NoAction)
    BY <1>7 DEF Effect, TestStarted, Move
  <2>2. n \in Workflow /\ Goes(n)
    BY <1>7, StationsAssumption DEF Drives, Workflow, States
  <2>. QED  BY <2>1, <2>2
<1>8. CASE sig.type = "test.failed" /\ k = 4
  <2>. DEFINE j == wf.attempts + 1
              n == [wf EXCEPT !.state = "retry_pending", !.attempts = j]
  <2>1. sig.payload = FlakyInfra /\ wf.attempts = 0 /\ to = "retry_pending"
    BY <1>8 DEF Drives
  <2>2. e = RetryTest(wf)
    <3>1. 0 < 1
      OBVIOUS
    <3>2. Evaluate(sig.payload, wf.attempts).retry
      BY <2>1, <3>1, Zenon DEF Evaluate
    <3>3. TestFailed(wf, sig.payload) = RetryTest(wf)
      BY <3>2, Zenon DEF TestFailed
    <3>. QED  BY <1>8, <3>3 DEF Effect
  <2>3. e = Accepted(n, <<Decision("cancel_timer"), Decision("cancel_timer"),
                          Decision("start_retry"), Transition("retry_pending")>>,
                     {RetryBackoff("test")}, TestTimers, "test_flake")
    BY <2>2 DEF RetryTest
  <2>4. j = 1 /\ j \in Nat
    BY <2>1
  <2>5. n \in Workflow /\ n.state = "retry_pending" /\ n.attempts = j
    <3>. HIDE DEF j
    <3>. QED  BY <2>4 DEF Workflow, States
  <2>6. Goes(n)
    BY <1>8, <2>1, <2>4, <2>5
  <2>. QED  BY <2>3, <2>5, <2>6
<1>9. CASE sig.type = "test.failed" /\ k # 4
  <2>. DEFINE j == wf.attempts + 1
              n == [wf EXCEPT !.state = "on_hold", !.attempts = j,
                              !.hold = "retry_budget_exhausted"]
  <2>1. sig.payload = FlakyInfra /\ wf.attempts = 1 /\ to = "on_hold" /\ k = 6
    BY <1>9 DEF Drives
  <2>2. e = HoldTest(wf, "retry_budget_exhausted")
    <3>1. ~ (1 < 1)
      OBVIOUS
    <3>2. /\ ~ Evaluate(sig.payload, wf.attempts).retry
          /\ Evaluate(sig.payload, wf.attempts).reason = "retry_budget_exhausted"
      BY <2>1, <3>1, Zenon DEF Evaluate
    <3>3. TestFailed(wf, sig.payload) = HoldTest(wf, "retry_budget_exhausted")
      BY <3>2, Zenon DEF TestFailed
    <3>. QED  BY <1>9, <3>3 DEF Effect
  <2>3. e = Accepted(n, <<Decision("cancel_timer"), Decision("cancel_timer"),
                          Decision("place_hold"), Decision("escalate"),
                          Transition("on_hold")>>,
                     {ReviewSLA("test")}, TestTimers, "repeated_failure")
    BY <2>2 DEF HoldTest
  <2>4. j \in Nat
    BY <2>1
  <2>5. n \in Workflow /\ n.state = "on_hold"
    <3>. HIDE DEF j
    <3>. QED  BY <2>4 DEF Workflow, States, HoldReasons, ReasonCodes
  <2>6. Goes(n)
    BY <1>9, <2>1, <2>5
  <2>. QED  BY <2>3, <2>5, <2>6
<1>10. CASE sig.type = "test.passed"
  <2>. DEFINE n == [wf EXCEPT !.state = "ready_for_inspection", !.hold = ""]
  <2>1. e = Accepted(n, <<Decision("cancel_timer"), Decision("cancel_timer"),
                       Transition("ready_for_inspection"),
                       Decision("complete_incident")>>,
                    {}, TestTimers, CloseAction)
    BY <1>10 DEF Effect, TestPassed
  <2>2. n \in Workflow /\ Goes(n)
    BY <1>10, StationsAssumption DEF Drives, Workflow, States, HoldReasons
  <2>. QED  BY <2>1, <2>2
<1>11. CASE sig.type = "quality.disposition"
  <2>. DEFINE released == [wf EXCEPT !.hold = ""]
              n == [released EXCEPT !.state = "awaiting_rework"]
  <2>1. sig.payload = "route_to_rework" /\ to = "awaiting_rework"
    BY <1>11 DEF Drives
  <2>2. e = QualityDisposition(wf, sig.payload)
    BY <1>11 DEF Effect
  <2>3. e = Accepted(n, <<Decision("route_to_rework"),
                          Transition("awaiting_rework")>>, {}, {}, NoAction)
    BY <2>1, <2>2, Zenon DEF QualityDisposition
  <2>4. released \in Workflow /\ released.attempts = wf.attempts
    BY DEF Workflow, HoldReasons
  <2>5. n \in Workflow /\ Goes(n)
    <3>. HIDE DEF released
    <3>. QED  BY <2>1, <2>4 DEF Workflow, States
  <2>. QED  BY <2>3, <2>5
<1>12. CASE sig.type = "rework.started"
  <2>. DEFINE n == [wf EXCEPT !.state = "in_rework", !.station = "rework"]
  <2>1. e = Accepted(n, <<Transition("in_rework")>>, {}, {}, NoAction)
    BY <1>12 DEF Effect, ReworkStarted, Move
  <2>2. n \in Workflow /\ Goes(n)
    BY <1>12, StationsAssumption DEF Drives, Workflow, States
  <2>. QED  BY <2>1, <2>2
<1>13. CASE sig.type = "rework.completed"
  <2>. DEFINE n == [wf EXCEPT !.state = "ready_for_test", !.station = "test"]
  <2>1. e = Accepted(n, <<Transition("ready_for_test")>>, {}, {}, NoAction)
    BY <1>13 DEF Effect, ReworkCompleted, Move
  <2>2. n \in Workflow /\ Goes(n)
    BY <1>13, StationsAssumption DEF Drives, Workflow, States
  <2>. QED  BY <2>1, <2>2
<1>14. CASE sig.type = "inspection.completed"
  <2>. DEFINE n == [wf EXCEPT !.state = "completed", !.station = ""]
  <2>1. e = Accepted(n, <<Decision("cancel_timer"), Transition("completed")>>,
                    {}, {Heartbeat(sig.station)}, NoAction)
    BY <1>14 DEF Effect, InspectionCompleted
  <2>2. n \in Workflow /\ Goes(n)
    BY <1>14, StationsAssumption DEF Drives, Workflow, States
  <2>. QED  BY <2>1, <2>2
<1>. QED  BY <1>4, <1>5, <1>6, <1>7, <1>8, <1>9, <1>10, <1>11, <1>12, <1>13,
             <1>14 DEF Drives

(* The retry timer opens the second window once, a silent station holds    *)
(* the unit wherever it is.                                                *)
LEMMA Fired ==
  ASSUME NEW wf \in Workflow
  PROVE  LET retry == ApplyTimer(wf, RetryBackoff("test")).next
             dead  == ApplyTimer(wf, Heartbeat("assembly")).next
         IN  /\ retry.attempts = wf.attempts
             /\ retry.state = IF wf.state = "retry_pending"
                              THEN "awaiting_test_result" ELSE wf.state
             /\ dead.attempts = wf.attempts /\ dead.state = "on_hold"
<1>. DEFINE key  == RetryBackoff("test")
            beat == Heartbeat("assembly")
<1>1. key[1] = "retry_backoff_timer" /\ beat[1] = "station_heartbeat_timeout"
  BY DEF RetryBackoff, Heartbeat
<1>. HIDE DEF key, beat
<1>2. ApplyTimer(wf, key).next.attempts = wf.attempts
  BY <1>1 DEF ApplyTimer, RetryWindowOpens, Rejected, Workflow
<1>3. ApplyTimer(wf, key).next.state =
        IF wf.state = "retry_pending" THEN "awaiting_test_result" ELSE wf.state
  BY <1>1 DEF ApplyTimer, RetryWindowOpens, Rejected, Workflow
<1>4. /\ ApplyTimer(wf, beat).next.attempts = wf.attempts
      /\ ApplyTimer(wf, beat).next.state = "on_hold"
  BY <1>1 DEF ApplyTimer, TimedOut, Workflow
<1>. QED  BY <1>2, <1>3, <1>4 DEF key, beat

(* What the unit of a committed transition is like afterwards.             *)
Leaves(u, next) ==
  /\ workflows'[u].state = next.state /\ workflows'[u].attempts = next.attempts
  /\ \A v \in Units \ {u} : workflows'[v] = workflows[v]

LEMMA CommitLeaves ==
  ASSUME IInv, NEW u \in Units, NEW r, Contract(workflows[u], r),
         CommitTransition(u, r)
  PROVE  Leaves(u, r.next)
<1>1. /\ \A v \in Units \ {u} : workflows'[v] = workflows[v]
      /\ workflows'[u] = [r.next EXCEPT !.incident = openIncident'[u]]
  BY CommitUnit
<1>2. r.next \in Workflow
  BY DEF Contract, Result
<1>3. PICK i : i = openIncident'[u]
  OBVIOUS
<1>. QED  BY <1>1, <1>2, <1>3 DEF Leaves, Workflow

(* A signal of a scenario that is handled, and not ignored.                *)
LEMMA SignalEffect ==
  ASSUME IInv, NEW u \in Stage, NEW n \in 1..9, NEW sig, sig.unit = u,
         sig.id = <<u, n>>, sig.station \in StationIDs, HandleSignal(sig)
  PROVE  /\ IInv' /\ Leaves(u, ApplySignal(workflows[u], sig).next)
         /\ signals' = [signals EXCEPT ![<<u, n>>] = "decided"]
<1>1. u \in Units /\ <<u, n>> \in SignalIDs /\ <<u, n>> # Fresh
  BY StageAssumption, InputsAssumption
<1>2. workflows[u] \in Workflow /\ Coherent(workflows[u])
  BY <1>1 DEF IInv, TypeOK, PerUnit
<1>3. Contract(workflows[u], ApplySignal(workflows[u], sig))
  BY <1>2, ApplySignalContract
<1>4. CommitTransition(u, ApplySignal(workflows[u], sig))
  BY DEF HandleSignal
<1>5. signals' = [signals EXCEPT ![<<u, n>>] = "decided"]
  BY <1>1 DEF HandleSignal, Record
<1>6. signals' \in [SignalIDs -> {"unseen", "recorded", "decided"}]
  BY <1>5 DEF IInv, TypeOK
<1>. QED  BY <1>1, <1>3, <1>4, <1>5, <1>6, CommitInvariant, CommitLeaves

(* A timer that a scenario fires.                                          *)
LEMMA TimerEffect ==
  ASSUME IInv, NEW u \in Stage,
         NEW key \in {RetryBackoff("test"), Heartbeat("assembly")},
         HandleTimer(u, key)
  PROVE  /\ IInv' /\ Leaves(u, ApplyTimer(workflows[u], key).next)
         /\ signals' = signals
<1>1. u \in Units
  BY StageAssumption
<1>2. workflows[u] \in Workflow /\ Coherent(workflows[u])
  BY <1>1 DEF IInv, TypeOK, PerUnit
<1>3. /\ key \in TimerKey
      /\ key[1] = "station_heartbeat_timeout" \/ key[2] = "test"
  <2>1. "test" \in StationIDs /\ "assembly" \in StationIDs
    BY StationsAssumption, StageAssumption
  <2>2. RetryBackoff("test") \in TimerKey /\ Heartbeat("assembly") \in TimerKey
    BY <2>1, TimerKeys
  <2>3. /\ RetryBackoff("test")[2] = "test"
        /\ Heartbeat("assembly")[1] = "station_heartbeat_timeout"
    BY DEF RetryBackoff, Heartbeat
  <2>. QED  BY <2>2, <2>3
<1>4. Contract(workflows[u], ApplyTimer(workflows[u], key))
  BY <1>2, <1>3, ApplyTimerContract
<1>5. /\ CommitTransition(u, ApplyTimer(workflows[u], key))
      /\ signals' = signals
  BY DEF HandleTimer
<1>6. signals' \in [SignalIDs -> {"unseen", "recorded", "decided"}]
  BY <1>5 DEF IInv, TypeOK
<1>. QED  BY <1>1, <1>4, <1>5, <1>6, CommitInvariant, CommitLeaves

-----------------------------------------------------------------------------
(* The steps of a run.                                                     *)

(* A signal that has been seen is ignored, one that has not is handled.    *)
LEMMA SeenOrNot ==
  ASSUME NEW u \in Stage, NEW n \in 1..9, NEW sig, sig.id = <<u, n>>,
         HandleSignal(sig) \/ IgnoreDuplicate(sig)
  PROVE  IF signals[<<u, n>>] = "unseen" THEN HandleSignal(sig)
                                         ELSE UNCHANGED vars
<1>1. <<u, n>> \in SignalIDs
  BY StageAssumption
<1>2. Unseen(sig) <=> signals[<<u, n>>] = "unseen"
  BY <1>1 DEF Unseen
<1>. QED  BY <1>2 DEF HandleSignal, IgnoreDuplicate

(* Where the scenarios part: at the retry, and at the two holds.           *)
LEMMA Landmarks ==
  ASSUME NEW name \in ScenarioNames, NEW k \in 0..Length(name)
  PROVE  /\ k > 5 => Trail(name)[k + 1] # "retry_pending"
         /\ name = "heartbeat_timeout_hold" /\ k > 2
              => Trail(name)[k + 1] = "on_hold"
         /\ k = 5 /\ name = "repeated_failure_rework"
              => Trail(name)[k + 1] = "retry_pending"
         /\ k = 7 /\ Trail(name)[k + 1] = "on_hold"
              => name = "repeated_failure_rework"
<1>1. CASE name = "happy_path_unit"
  BY <1>1 DEF Trail, Length
<1>2. CASE name = "flaky_retry_success"
  BY <1>2 DEF Trail, Length
<1>3. CASE name = "repeated_failure_rework"
  BY <1>3 DEF Trail, Length
<1>4. CASE name = "heartbeat_timeout_hold"
  BY <1>4 DEF Trail, Length
<1>5. CASE name = "duplicate_signal_rejected"
  BY <1>5 DEF Trail, Length
<1>. QED  BY <1>1, <1>2, <1>3, <1>4, <1>5 DEF ScenarioNames

(* Each scenario leads where it should.                                    *)
LEMMA Destinations ==
  ASSUME NEW name \in ScenarioNames
  PROVE  Trail(name)[Length(name) + 1] = FinalState(name)
<1>1. CASE name = "happy_path_unit"
  BY <1>1 DEF Trail, Length, FinalState
<1>2. CASE name = "flaky_retry_success"
  BY <1>2 DEF Trail, Length, FinalState
<1>3. CASE name = "repeated_failure_rework"
  BY <1>3 DEF Trail, Length, FinalState
<1>4. CASE name = "heartbeat_timeout_hold"
  BY <1>4 DEF Trail, Length, FinalState
<1>5. CASE name = "duplicate_signal_rejected"
  BY <1>5 DEF Trail, Length, FinalState
<1>. QED  BY <1>1, <1>2, <1>3, <1>4, <1>5 DEF ScenarioNames

(* What one of its runs leaves of a unit: it has come j steps far.         *)
Reaches(u, name, j) ==
  /\ j \in 0..Length(name)
  /\ workflows'[u].state = Trail(name)[j + 1]
  /\ j < 5 => workflows'[u].attempts = 0
  /\ j \in {5, 6} /\ name = "repeated_failure_rework" => workflows'[u].attempts = 1
  /\ \A i \in 1..9 : signals'[<<u, i>>] = "unseen" <=> i > Numbered(name, j)

(* What it leaves alone.                                                   *)
Spares(u) ==
  /\ \A v \in Stage \ {u} : /\ workflows'[v] = workflows[v]
                            /\ \A i \in 1..9 : signals'[<<v, i>>] = signals[<<v, i>>]

(* A step that changes nothing keeps the invariant of the service.         *)
LEMMA Idle ==
  ASSUME IInv, UNCHANGED vars
  PROVE  /\ IInv' /\ workflows' = workflows /\ signals' = signals
<1>1. [Next]_vars
  OBVIOUS
<1>2. IInv'
  BY <1>1, StepInvariant
<1>. QED  BY <1>2 DEF vars, store

(* A step that the foremost run comes to takes the unit one step further.  *)
LEMMA FirstTime ==
  ASSUME SInv, NEW u \in Stage, NEW k \in 0..10, Progress(u, k),
         k < Length(plays[u]), NEW step, Row(u, plays[u], k, step),
         \/ step.signal /\ (HandleSignal(step.event) \/ IgnoreDuplicate(step.event))
         \/ ~ step.signal /\ HandleTimer(u, step.event)
  PROVE  IInv' /\ Reaches(u, plays[u], k + 1) /\ Spares(u)
<1>. DEFINE name == plays[u]
            wf   == workflows[u]
            n    == Numbered(name, k)
            m    == Numbered(name, k + 1)
            from == Trail(name)[k + 1]
            to   == Trail(name)[k + 2]
<1>1. /\ IInv /\ name \in ScenarioNames
      /\ u \in Units /\ wf \in Workflow
  BY StageAssumption DEF SInv, IInv, TypeOK
<1>2. /\ k \in 0..Length(name) /\ wf.state = from
      /\ k < 5 => wf.attempts = 0
      /\ k \in {5, 6} /\ name = "repeated_failure_rework" => wf.attempts = 1
      /\ \A i \in 1..9 : signals[<<u, i>>] = "unseen" <=> i > n
  BY DEF Progress
<1>3. Length(name) \in 2..10 /\ k + 1 \in 0..10 /\ k + 1 \in 0..Length(name)
      /\ (k + 1) + 1 = k + 2
  BY <1>1, <1>2, Lengths
<1>4. n \in 0..10 /\ m \in 0..10
  BY <1>1, <1>3, NumbersRise
<1>5. /\ signals \in [SignalIDs -> {"unseen", "recorded", "decided"}]
      /\ \A v \in Stage, i \in 1..9 : <<v, i>> \in SignalIDs
  BY <1>1, StageAssumption DEF IInv, TypeOK
<1>. HIDE DEF name, wf, n, m, from, to
<1>6. CASE /\ \E type : Sends(step, u, n + 1, type)
           /\ n + 1 \in 1..9 /\ m = n + 1
           /\ Drives(step.event, k, from, to)
  <2>. DEFINE sig  == step.event
              next == ApplySignal(wf, sig).next
  <2>1. /\ step.signal
        /\ sig.id = <<u, n + 1>> /\ sig.unit = u /\ sig.station \in StationIDs
    BY <1>6, Zenon DEF Sends
  <2>2. HandleSignal(sig) \/ IgnoreDuplicate(sig)
    BY <2>1, Zenon
  <2>. HIDE DEF sig
  <2>3. signals[<<u, n + 1>>] = "unseen"
    BY <1>2, <1>4, <1>6
  <2>4. /\ IInv' /\ Leaves(u, next)
        /\ signals' = [signals EXCEPT ![<<u, n + 1>>] = "decided"]
    <3>1. HandleSignal(sig)
      BY <1>6, <2>1, <2>2, <2>3, SeenOrNot
    <3>. QED  BY <1>1, <1>6, <2>1, <3>1, SignalEffect DEF wf
  <2>5. /\ next.state = to
        /\ to = "retry_pending" => next.attempts = 1
        /\ k < 4 => next.attempts = wf.attempts
    <3>1. k = 6 /\ to = "on_hold" => wf.attempts = 1
      BY <1>1, <1>2, <1>3, Landmarks DEF to
    <3>2. Drives(sig, k, wf.state, to) /\ k \in Nat /\ (k = 4 => wf.attempts = 0)
      BY <1>2, <1>6 DEF sig
    <3>. QED  BY <1>1, <2>1, <3>1, <3>2, Driven
  <2>. HIDE DEF next
  <2>6. /\ workflows'[u].state = to
        /\ k + 1 < 5 => workflows'[u].attempts = 0
    BY <1>2, <2>4, <2>5 DEF Leaves
  <2>7. ASSUME k + 1 \in {5, 6}, name = "repeated_failure_rework"
        PROVE  workflows'[u].attempts = 1
    <3>1. from # "retry_pending"
      BY <1>6 DEF Drives
    <3>2. k # 5
      BY <1>1, <1>2, <2>7, <3>1, Landmarks DEF from
    <3>3. to = "retry_pending"
      BY <1>1, <1>2, <1>3, <2>7, <3>2, Landmarks DEF to
    <3>. QED  BY <2>4, <2>5, <3>3 DEF Leaves
  <2>8. ASSUME NEW i \in 1..9
        PROVE  signals'[<<u, i>>] = "unseen" <=> i > m
    <3>1. CASE i = n + 1
      <4>1. <<u, n + 1>> \in SignalIDs
        BY <1>5, <1>6
      <4>2. signals'[<<u, n + 1>>] = "decided"
        BY <1>5, <2>4, <4>1
      <4>3. ~ (i > m)
        BY <1>4, <1>6, <3>1
      <4>. QED  BY <3>1, <4>2, <4>3
    <3>2. CASE i # n + 1
      <4>1. signals'[<<u, i>>] = signals[<<u, i>>]
        BY <1>5, <2>4, <3>2
      <4>. QED  BY <1>2, <1>4, <1>6, <3>2, <4>1
    <3>. QED  BY <3>1, <3>2
  <2>9. Spares(u)
    <3>1. \A v \in Stage \ {u} : v \in Units \ {u}
      BY StageAssumption
    <3>2. \A v \in Stage \ {u}, i \in 1..9 :
            signals'[<<v, i>>] = signals[<<v, i>>]
      BY <1>5, <2>4
    <3>. QED  BY <2>4, <3>1, <3>2 DEF Spares, Leaves
  <2>10. Reaches(u, name, k + 1)
    BY <1>3, <2>6, <2>7, <2>8 DEF Reaches, to, m
  <2>. QED  BY <2>4, <2>9, <2>10 DEF name
<1>7. CASE /\ \E type : Sends(step, u, 1, type)
           /\ n = 1 /\ m = 1 /\ to = from
           /\ name = "duplicate_signal_rejected"
  <2>1. step.signal /\ step.event.id = <<u, 1>>
    BY <1>7, Zenon DEF Sends
  <2>2. HandleSignal(step.event) \/ IgnoreDuplicate(step.event)
    BY <2>1, Zenon
  <2>3. signals[<<u, 1>>] # "unseen"
    BY <1>2, <1>7
  <2>4. IInv' /\ workflows' = workflows /\ signals' = signals
    <3>1. 1 \in 1..9
      OBVIOUS
    <3>2. UNCHANGED vars
      BY <2>1, <2>2, <2>3, <3>1, SeenOrNot, Zenon
    <3>. QED  BY <1>1, <3>2, Idle
  <2>5. k < 2
    BY <1>7 DEF name, Length
  <2>6. Reaches(u, name, k + 1)
    BY <1>2, <1>3, <1>7, <2>4, <2>5 DEF Reaches, wf, to, m
  <2>. QED  BY <2>4, <2>6 DEF Spares, name
<1>8. CASE /\ ~ step.signal /\ step.event = RetryBackoff("test")
           /\ m = n /\ k = 5
           /\ from = "retry_pending" /\ to = "awaiting_test_result"
  <2>. DEFINE next == ApplyTimer(wf, RetryBackoff("test")).next
  <2>1. HandleTimer(u, RetryBackoff("test"))
    BY <1>8, Zenon
  <2>2. IInv' /\ Leaves(u, next) /\ signals' = signals
    BY <1>1, <2>1, TimerEffect DEF wf
  <2>3. next.state = to /\ next.attempts = wf.attempts
    BY <1>1, <1>2, <1>8, Fired
  <2>. HIDE DEF next
  <2>4. Reaches(u, name, k + 1)
    BY <1>2, <1>3, <1>8, <2>2, <2>3 DEF Reaches, Leaves, to, m
  <2>. QED  BY <2>2, <2>4, StageAssumption DEF Spares, Leaves, name
<1>9. CASE /\ ~ step.signal /\ step.event = Heartbeat("assembly")
           /\ m = n /\ k = 2 /\ to = "on_hold"
           /\ name = "heartbeat_timeout_hold"
  <2>. DEFINE next == ApplyTimer(wf, Heartbeat("assembly")).next
  <2>1. HandleTimer(u, Heartbeat("assembly"))
    BY <1>9, Zenon
  <2>2. IInv' /\ Leaves(u, next) /\ signals' = signals
    BY <1>1, <2>1, TimerEffect DEF wf
  <2>3. next.state = to /\ next.attempts = wf.attempts
    BY <1>1, <1>2, <1>9, Fired
  <2>. HIDE DEF next
  <2>4. Reaches(u, name, k + 1)
    BY <1>2, <1>3, <1>9, <2>2, <2>3 DEF Reaches, Leaves, to, m
  <2>. QED  BY <2>2, <2>4, StageAssumption DEF Spares, Leaves, name
<1>. QED
  <2>1. Row(u, name, k, step)
    BY DEF name
  <2>2. \/ /\ \E type : Sends(step, u, n + 1, type)
           /\ n + 1 \in 1..9 /\ m = n + 1
           /\ Drives(step.event, k, from, to)
        \/ /\ \E type : Sends(step, u, 1, type)
           /\ n = 1 /\ m = 1 /\ to = from
           /\ name = "duplicate_signal_rejected"
        \/ /\ ~ step.signal /\ step.event = RetryBackoff("test")
           /\ m = n /\ k = 5
           /\ from = "retry_pending" /\ to = "awaiting_test_result"
        \/ /\ ~ step.signal /\ step.event = Heartbeat("assembly")
           /\ m = n /\ k = 2 /\ to = "on_hold"
           /\ name = "heartbeat_timeout_hold"
    BY <2>1, Zenon DEF Row, n, m, from, to
  <2>. QED  BY <1>6, <1>7, <1>8, <1>9, <2>2

(* A step that another run has done before does nothing more.              *)
LEMMA OnceMore ==
  ASSUME SInv, NEW u \in Stage, NEW k \in 0..10, Progress(u, k),
         NEW d \in 0..10, d < k, NEW step, Row(u, plays[u], d, step),
         \/ step.signal /\ (HandleSignal(step.event) \/ IgnoreDuplicate(step.event))
         \/ ~ step.signal /\ HandleTimer(u, step.event)
  PROVE  IInv' /\ Reaches(u, plays[u], k) /\ Spares(u)
<1>. DEFINE name == plays[u]
            wf   == workflows[u]
            n    == Numbered(name, d)
            m    == Numbered(name, d + 1)
            from == Trail(name)[d + 1]
            to   == Trail(name)[d + 2]
<1>1. /\ IInv /\ name \in ScenarioNames
      /\ u \in Units /\ wf \in Workflow
  BY StageAssumption DEF SInv, IInv, TypeOK
<1>2. /\ k \in 0..Length(name) /\ wf.state = Trail(name)[k + 1]
      /\ k < 5 => wf.attempts = 0
      /\ k \in {5, 6} /\ name = "repeated_failure_rework" => wf.attempts = 1
      /\ \A i \in 1..9 : signals[<<u, i>>] = "unseen" <=> i > Numbered(name, k)
  BY DEF Progress
<1>3. ASSUME wf.state = workflows'[u].state, wf.attempts = workflows'[u].attempts,
             signals' = signals
      PROVE  Reaches(u, name, k)
  BY <1>2, <1>3 DEF Reaches
<1>4. /\ n \in 0..10 /\ m \in 0..10 /\ Numbered(name, k) \in 0..10
      /\ n <= Numbered(name, k) /\ m <= Numbered(name, k)
  <2>1. d <= k /\ d + 1 <= k /\ d + 1 \in 0..10 /\ k <= k
    OBVIOUS
  <2>. QED  BY <1>1, <2>1, NumbersRise
<1>. HIDE DEF name, wf, n, m, from, to
<1>5. ASSUME NEW i \in 1..9, NEW type, Sends(step, u, i, type),
             i <= Numbered(name, k)
      PROVE  IInv' /\ Reaches(u, name, k) /\ Spares(u)
  <2>1. step.signal /\ step.event.id = <<u, i>>
    BY <1>5, Zenon DEF Sends
  <2>2. HandleSignal(step.event) \/ IgnoreDuplicate(step.event)
    BY <2>1, Zenon
  <2>3. signals[<<u, i>>] # "unseen"
    BY <1>2, <1>4, <1>5
  <2>4. UNCHANGED vars
    BY <2>1, <2>2, <2>3, SeenOrNot, Zenon
  <2>5. IInv' /\ workflows' = workflows /\ signals' = signals
    BY <1>1, <2>4, Idle
  <2>. QED  BY <1>3, <2>5 DEF Spares, wf
<1>6. CASE ~ step.signal /\ step.event = RetryBackoff("test") /\ d = 5
  <2>. DEFINE next == ApplyTimer(wf, RetryBackoff("test")).next
  <2>1. HandleTimer(u, RetryBackoff("test"))
    BY <1>6, Zenon
  <2>2. IInv' /\ Leaves(u, next) /\ signals' = signals
    BY <1>1, <2>1, TimerEffect DEF wf
  <2>3. wf.state # "retry_pending"
    BY <1>1, <1>2, <1>6, Landmarks
  <2>4. next.state = wf.state /\ next.attempts = wf.attempts
    BY <1>1, <2>3, Fired
  <2>. HIDE DEF next
  <2>5. Reaches(u, name, k)
    BY <1>3, <2>2, <2>4 DEF Leaves
  <2>. QED  BY <2>2, <2>5, StageAssumption DEF Spares, Leaves, name
<1>7. CASE /\ ~ step.signal /\ step.event = Heartbeat("assembly")
           /\ d = 2 /\ name = "heartbeat_timeout_hold"
  <2>. DEFINE next == ApplyTimer(wf, Heartbeat("assembly")).next
  <2>1. HandleTimer(u, Heartbeat("assembly"))
    BY <1>7, Zenon
  <2>2. IInv' /\ Leaves(u, next) /\ signals' = signals
    BY <1>1, <2>1, TimerEffect DEF wf
  <2>3. wf.state = "on_hold"
    BY <1>1, <1>2, <1>7, Landmarks
  <2>4. next.state = wf.state /\ next.attempts = wf.attempts
    BY <1>1, <2>3, Fired
  <2>. HIDE DEF next
  <2>5. Reaches(u, name, k)
    BY <1>3, <2>2, <2>4 DEF Leaves
  <2>. QED  BY <2>2, <2>5, StageAssumption DEF Spares, Leaves, name
<1>8. CASE (\E type : Sends(step, u, n + 1, type)) /\ n + 1 \in 1..9 /\ m = n + 1
  BY <1>4, <1>5, <1>8 DEF name
<1>9. CASE (\E type : Sends(step, u, 1, type)) /\ n = 1
  BY <1>4, <1>5, <1>9 DEF name
<1>. QED
  <2>1. Row(u, name, d, step)
    BY DEF name
  <2>2. \/ (\E type : Sends(step, u, n + 1, type)) /\ n + 1 \in 1..9 /\ m = n + 1
        \/ (\E type : Sends(step, u, 1, type)) /\ n = 1
        \/ ~ step.signal /\ step.event = RetryBackoff("test") /\ d = 5
        \/ /\ ~ step.signal /\ step.event = Heartbeat("assembly")
           /\ d = 2 /\ name = "heartbeat_timeout_hold"
    BY <2>1, Zenon DEF Row, n, m
  <2>. QED  BY <1>6, <1>7, <1>8, <1>9, <2>2 DEF name

(* A unit that no other run has touched is as far as it was.               *)
LEMMA Spared ==
  ASSUME NEW v \in Stage, NEW k \in 0..10, Progress(v, k), plays' = plays,
         workflows'[v] = workflows[v],
         \A i \in 1..9 : signals'[<<v, i>>] = signals[<<v, i>>],
         \A q \in Players : run'[q] = run[q] \/ run'[q].unit # v
                              \/ run'[q] = NoRun \/ run'[q].done <= k
  PROVE  Progress(v, k)'
<1>1. ASSUME NEW q \in Players, Playing(q)', run'[q].unit = v
      PROVE  run'[q].done <= k
  BY <1>1 DEF Progress, Playing
<1>. QED  BY <1>1 DEF Progress

(* A run takes its step.                                                   *)
LEMMA PlayInvariant ==
  ASSUME SInv, NEW p \in Players, PlayStep(p)
  PROVE  SInv'
<1>1. PICK u, d : u = run[p].unit /\ d = run[p].done
  OBVIOUS
<1>. DEFINE name == plays[u]
            step == BuildScenario(name, u)[d + 1]
<1>2. /\ run \in [Players -> Runs] /\ run[p] # NoRun
      /\ plays \in [Stage -> ScenarioNames]
  BY DEF SInv, PlayStep, Playing
<1>3. u \in Stage /\ d \in Nat /\ run[p] \in [unit : Stage, done : Nat]
  BY <1>1, <1>2 DEF Runs
<1>4. PICK k \in 0..10 : Progress(u, k)
  BY <1>3 DEF SInv
<1>5. name \in ScenarioNames
  BY <1>2, <1>3
<1>. HIDE DEF name
<1>6. Len(BuildScenario(name, u)) = Length(name) /\ Length(name) \in 2..10
  BY <1>5, Rows, Lengths
<1>7. k \in 0..Length(name) /\ d <= k
  BY <1>1, <1>2, <1>3, <1>4 DEF Progress, Playing, name
<1>8. d # Length(name)
  BY <1>1, <1>6 DEF PlayStep, AllDone, Steps, name
<1>9. d < Length(name) /\ d \in 0..10 /\ d \in 0..(Length(name) - 1)
  BY <1>3, <1>6, <1>7, <1>8
<1>10. Row(u, name, d, step)
  BY <1>5, <1>9, Rows
<1>11. \/ step.signal /\ (HandleSignal(step.event) \/ IgnoreDuplicate(step.event))
       \/ ~ step.signal /\ HandleTimer(u, step.event)
  BY <1>1, Zenon DEF PlayStep, Steps, name
<1>. HIDE DEF step
<1>12. /\ plays' = plays /\ run' = [run EXCEPT ![p].done = @ + 1]
  BY DEF PlayStep
<1>13. PICK j \in 0..10 :
         IInv' /\ Reaches(u, name, j) /\ Spares(u) /\ d + 1 <= j /\ k <= j
  <2>1. CASE d = k
    <3>1. IInv' /\ Reaches(u, name, k + 1) /\ Spares(u)
      BY <1>3, <1>4, <1>9, <1>10, <1>11, <2>1, FirstTime DEF name
    <3>. QED  BY <1>6, <1>9, <2>1, <3>1
  <2>2. CASE d < k
    <3>1. IInv' /\ Reaches(u, name, k) /\ Spares(u)
      BY <1>3, <1>4, <1>9, <1>10, <1>11, <2>2, OnceMore DEF name
    <3>. QED  BY <1>9, <2>2, <3>1
  <2>. QED  BY <1>3, <1>7, <2>1, <2>2
<1>14. /\ run'[p].unit = u /\ run'[p].done = d + 1 /\ run'[p] \in Runs
       /\ \A q \in Players \ {p} : run'[q] = run[q]
  <2>1. run'[p] = [run[p] EXCEPT !.done = d + 1]
    BY <1>1, <1>2, <1>12
  <2>2. d + 1 \in Nat
    BY <1>3
  <2>3. /\ [run[p] EXCEPT !.done = d + 1] \in [unit : Stage, done : Nat]
        /\ [run[p] EXCEPT !.done = d + 1].unit = u
        /\ [run[p] EXCEPT !.done = d + 1].done = d + 1
    BY <1>1, <1>3, <2>2
  <2>. QED  BY <1>2, <1>12, <2>1, <2>3 DEF Runs
<1>15. run' \in [Players -> Runs]
  BY <1>2, <1>12, <1>14
<1>16. Progress(u, j)'
  <2>1. ASSUME NEW q \in Players, Playing(q)', run'[q].unit = u
        PROVE  run'[q].done <= j
    <3>1. CASE q = p
      BY <1>13, <1>14, <3>1
    <3>2. CASE q # p
      <4>1. run[q] # NoRun /\ run[q].unit = u /\ run'[q].done = run[q].done
        BY <1>14, <2>1, <3>2 DEF Playing
      <4>2. run[q].done <= k /\ run[q].done \in Nat
        BY <1>2, <1>4, <4>1 DEF Progress, Playing, Runs
      <4>. QED  BY <1>13, <4>1, <4>2
    <3>. QED  BY <3>1, <3>2
  <2>. QED  BY <1>12, <1>13, <2>1 DEF Progress, Reaches, name
<1>17. ASSUME NEW v \in Stage, v # u
       PROVE  \E i \in 0..10 : Progress(v, i)'
  <2>1. PICK i \in 0..10 : Progress(v, i)
    BY DEF SInv
  <2>2. \A q \in Players : run'[q] = run[q] \/ run'[q].unit # v
    BY <1>14, <1>17
  <2>. QED  BY <1>12, <1>13, <1>17, <2>1, <2>2, Spared DEF Spares
<1>. QED  BY <1>2, <1>3, <1>12, <1>13, <1>15, <1>16, <1>17 DEF SInv

(* The other clients leave the stage alone.                                *)
LEMMA OthersInvariant ==
  ASSUME SInv, Others
  PROVE  SInv'
<1>1. /\ IInv /\ plays' = plays /\ run' = run
  BY DEF SInv, Others
<1>2. Next
  BY DEF Others, Next
<1>3. IInv'
  BY <1>1, <1>2, StepInvariant
<1>4. ASSUME NEW w \in Units \ Stage, NEW r, Contract(workflows[w], r),
             CommitTransition(w, r)
      PROVE  \A v \in Stage : workflows'[v] = workflows[v]
  BY <1>1, <1>4, CommitUnit, StageAssumption
<1>5. \A v \in Units : workflows[v] \in Workflow /\ Coherent(workflows[v])
  BY <1>1 DEF IInv, TypeOK, PerUnit
<1>6. ASSUME NEW sig \in Inputs
      PROVE  /\ sig.unit \in Units \ Stage /\ sig.station \in StationIDs
             /\ sig.id = Fresh
  BY InputTypes, StageAssumption
<1>7. \A v \in Stage : workflows'[v] = workflows[v]
  <2>1. ASSUME NEW sig \in Inputs, HandleSignal(sig)
        PROVE  \A v \in Stage : workflows'[v] = workflows[v]
    <3>1. Contract(workflows[sig.unit], ApplySignal(workflows[sig.unit], sig))
      BY <1>5, <1>6, ApplySignalContract
    <3>2. CommitTransition(sig.unit, ApplySignal(workflows[sig.unit], sig))
      BY <2>1 DEF HandleSignal
    <3>. QED  BY <1>4, <1>6, <3>1, <3>2
  <2>2. ASSUME NEW sig \in Inputs, FailSignal(sig) \/ IgnoreDuplicate(sig)
        PROVE  workflows' = workflows
    BY <2>2 DEF FailSignal, IgnoreDuplicate, vars
  <2>3. ASSUME NEW w \in Units \ Stage, NEW key \in TimerInputs,
               HandleTimer(w, key)
        PROVE  \A v \in Stage : workflows'[v] = workflows[v]
    <3>1. Contract(workflows[w], ApplyTimer(workflows[w], key))
      BY <1>5, InputTypes, ApplyTimerContract
    <3>2. CommitTransition(w, ApplyTimer(workflows[w], key))
      BY <2>3 DEF HandleTimer
    <3>. QED  BY <1>4, <3>1, <3>2
  <2>. QED  BY <2>1, <2>2, <2>3 DEF Others, SignalNext
<1>8. signals' = signals
  <2>1. ASSUME NEW sig \in Inputs,
               HandleSignal(sig) \/ FailSignal(sig) \/ IgnoreDuplicate(sig)
        PROVE  signals' = signals
    BY <1>6, <2>1 DEF HandleSignal, FailSignal, IgnoreDuplicate, Record, vars, store
  <2>2. ASSUME NEW w, NEW key, HandleTimer(w, key)  PROVE signals' = signals
    BY <2>2 DEF HandleTimer
  <2>. QED  BY <2>1, <2>2 DEF Others, SignalNext
<1>9. ASSUME NEW v \in Stage  PROVE \E k \in 0..10 : Progress(v, k)'
  <2>1. PICK k \in 0..10 : Progress(v, k)
    BY DEF SInv
  <2>. QED  BY <1>1, <1>7, <1>8, <2>1, Spared
<1>. QED  BY <1>1, <1>3, <1>9 DEF SInv

(* So does a run that begins, or that ends.                                *)
LEMMA TurnsInvariant ==
  ASSUME SInv, NEW p \in Players, NEW r \in Runs, UNCHANGED <<vars, plays>>,
         run' = [run EXCEPT ![p] = r], r = NoRun \/ r.done = 0
  PROVE  SInv'
<1>1. IInv' /\ workflows' = workflows /\ signals' = signals
  BY Idle DEF SInv
<1>2. run \in [Players -> Runs] /\ plays' = plays
  BY DEF SInv
<1>3. ASSUME NEW v \in Stage  PROVE \E k \in 0..10 : Progress(v, k)'
  <2>1. PICK k \in 0..10 : Progress(v, k)
    BY DEF SInv
  <2>2. 0 <= k
    OBVIOUS
  <2>3. \A q \in Players : run'[q] = run[q] \/ run'[q] = NoRun \/ run'[q].done <= k
    BY <1>2, <2>2
  <2>. QED  BY <1>1, <1>2, <2>1, <2>3, Spared
<1>. QED  BY <1>1, <1>2, <1>3 DEF SInv

(* Nothing is played at first.                                             *)
LEMMA StageInitInvariant == ScenarioInit => SInv
<1>. SUFFICES ASSUME ScenarioInit  PROVE SInv
  OBVIOUS
<1>1. IInv
  BY InitInvariant DEF ScenarioInit
<1>2. /\ run \in [Players -> Runs] /\ plays \in [Stage -> ScenarioNames]
      /\ \A p \in Players : ~ Playing(p)
  BY DEF ScenarioInit, Runs, Playing
<1>3. ASSUME NEW u \in Stage  PROVE Progress(u, 0)
  <2>1. u \in Units /\ plays[u] \in ScenarioNames
    BY <1>2, StageAssumption
  <2>2. workflows[u].state = "pending" /\ workflows[u].attempts = 0
    BY <2>1 DEF ScenarioInit, Init, New
  <2>3. \A i \in 1..9 : signals[<<u, i>>] = "unseen" /\ i > 0
    <3>1. signals = [i \in SignalIDs |-> "unseen"]
      BY Zenon DEF ScenarioInit, Init
    <3>2. \A i \in 1..9 : <<u, i>> \in SignalIDs /\ i > 0
      BY StageAssumption
    <3>. QED  BY <3>1, <3>2
  <2>4. Trail(plays[u])[1] = "pending"
    BY <2>1 DEF Trail, ScenarioNames
  <2>5. Numbered(plays[u], 0) = 0 /\ 0 \in 0..Length(plays[u])
    BY <2>1, Lengths
  <2>. QED  BY <1>2, <2>2, <2>3, <2>4, <2>5 DEF Progress
<1>. QED  BY <1>1, <1>2, <1>3 DEF SInv

(* Every step keeps the invariant.                                         *)
LEMMA StageInvariant ==
  SInv /\ [ScenarioNext]_<<vars, plays, run>> => SInv'
<1>. SUFFICES ASSUME SInv, [ScenarioNext]_<<vars, plays, run>>  PROVE SInv'
  OBVIOUS
<1>1. CASE Others
  BY <1>1, OthersInvariant
<1>2. ASSUME NEW p \in Players, PlayStep(p)  PROVE SInv'
  BY <1>2, PlayInvariant
<1>3. ASSUME NEW p \in Players, Report(p)  PROVE SInv'
  <2>1. NoRun \in Runs
    BY DEF Runs
  <2>. QED  BY <1>3, <2>1, TurnsInvariant DEF Report
<1>4. ASSUME NEW p \in Players, NEW u \in Stage, Begin(p, u)  PROVE SInv'
  <2>1. [unit |-> u, done |-> 0] \in Runs /\ [unit |-> u, done |-> 0].done = 0
    BY DEF Runs
  <2>. QED  BY <1>4, <2>1, TurnsInvariant DEF Begin
<1>5. CASE UNCHANGED <<vars, plays, run>>
  <2>1. IInv' /\ workflows' = workflows /\ signals' = signals
    BY <1>5, Idle DEF SInv
  <2>2. ASSUME NEW v \in Stage  PROVE \E k \in 0..10 : Progress(v, k)'
    <3>1. PICK k \in 0..10 : Progress(v, k)
      BY DEF SInv
    <3>. QED  BY <1>5, <2>1, <3>1, Spared
  <2>. QED  BY <1>5, <2>1, <2>2 DEF SInv
<1>. QED  BY <1>1, <1>2, <1>3, <1>4, <1>5 DEF ScenarioNext

(* The invariant holds in every state of the demonstration.                *)
THEOREM StageInvariance == ScenarioSpec => []SInv
<1>. QED  BY StageInitInvariant, StageInvariant, PTL DEF ScenarioSpec

-----------------------------------------------------------------------------
(* Every run of a demo scenario ends where engine_test.go:500-510 says it  *)
(* does, on every unit, for any number of players whose runs take turns    *)
(* step by step.                                                           *)
THEOREM EveryRunEndsAlike == ScenarioSpec => []ScenariosReplay
<1>1. ASSUME SInv, NEW p \in Players, AllDone(p)
      PROVE  workflows[run[p].unit].state = FinalState(plays[run[p].unit])
  <2>1. PICK u, d : u = run[p].unit /\ d = run[p].done
    OBVIOUS
  <2>2. u \in Stage /\ plays[u] \in ScenarioNames
    BY <1>1, <2>1 DEF SInv, AllDone, Playing, Runs
  <2>3. PICK k \in 0..10 : Progress(u, k)
    BY <1>1, <2>2 DEF SInv
  <2>4. d = Length(plays[u]) /\ Length(plays[u]) \in 2..10
    BY <1>1, <2>1, <2>2, Rows, Lengths DEF AllDone, Steps
  <2>5. k \in 0..Length(plays[u]) /\ d <= k
    BY <1>1, <2>1, <2>3 DEF Progress, AllDone
  <2>6. k = Length(plays[u])
    BY <2>4, <2>5
  <2>7. Trail(plays[u])[Length(plays[u]) + 1] = FinalState(plays[u])
    BY <2>2, Destinations
  <2>. QED  BY <2>1, <2>2, <2>3, <2>6, <2>7 DEF Progress
<1>2. SInv => ScenariosReplay
  BY <1>1 DEF ScenariosReplay
<1>. QED  BY <1>2, StageInvariance, PTL

(* The scenarios are requests like any other: while they are played, each  *)
(* unit, on the stage or not, still has one open incident at most, which   *)
(* index, records, snapshots and dashboard agree on, and current views.    *)
THEOREM StageKeepsService ==
  ScenarioSpec => [](IncidentsIndexed /\ DashboardIsOpenIncidents /\ ViewsCurrent)
<1>1. SInv => IncidentsIndexed /\ DashboardIsOpenIncidents /\ ViewsCurrent
  BY DEF SInv, IInv, Index, PerUnit, IncidentsIndexed
<1>. QED  BY <1>1, StageInvariance, PTL
=============================================================================
