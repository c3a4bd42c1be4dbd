-------------------------- MODULE MCSerialClients ---------------------------
(***************************************************************************)
(* SerialClients with the start of MCConcurrentService: one unit is sent   *)
(* all signals and timers, the others fail a flaky test, go on to the      *)
(* retry and pass.                                                         *)
(***************************************************************************)
EXTENDS SerialClients, MCConcurrentService

MCSerialInputs ==
  {sig \in MCInputs :
     sig.unit = Resender \/ sig.type = "test.passed" \/ sig.payload = FlakyInfra}

MCTimerRequests ==
  {<<u, key>> \in Units \X TimerInputs :
     u = Resender \/ key[1] = "retry_backoff_timer"}
=============================================================================
