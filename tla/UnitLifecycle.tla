--------------------------- MODULE UnitLifecycle ----------------------------
(***************************************************************************)
(* What a runtime promises about each unit: the phase it is in, how many   *)
(* tests it has failed and the category of the incident open against it.   *)
(* Snapshots, timers, incident records and views are the business of the   *)
(* runtimes that implement this specification.                             *)
(***************************************************************************)
EXTENDS Naturals, Phases

CONSTANTS
  Units,
  Interruptible   \* phases a timeout can put on hold

VARIABLES phase, failures, trouble

vars == <<phase, failures, trouble>>

NoTrouble == "none"

Init == /\ phase    = [u \in Units |-> "pending"]
        /\ failures = [u \in Units |-> 0]
        /\ trouble  = [u \in Units |-> NoTrouble]

Enter(u, p) == phase' = [phase EXCEPT ![u] = p]
Fail(u)     == failures' = [failures EXCEPT ![u] = @ + 1]
Raise(u, c) == trouble' = [trouble EXCEPT ![u] = c]

Advance(u) == /\ \E e \in Edges : phase[u] = e[1] /\ Enter(u, e[2])
              /\ UNCHANGED <<failures, trouble>>

(* A failed test is retried only if it is the first failure of the unit's  *)
(* life; any failure may instead put the unit on hold.                     *)
Retry(u) == /\ phase[u] = "awaiting_test_result"
            /\ failures[u] = 0
            /\ Enter(u, "retry_pending")
            /\ Fail(u)
            /\ Raise(u, "test_flake")

Hold(u) == /\ phase[u] = "awaiting_test_result"
           /\ Enter(u, "on_hold")
           /\ Fail(u)
           /\ Raise(u, "repeated_failure")

Pass(u) == /\ phase[u] = "awaiting_test_result"
           /\ Enter(u, "ready_for_inspection")
           /\ Raise(u, NoTrouble)
           /\ UNCHANGED failures

TimeOut(u) == /\ phase[u] \in Interruptible
              /\ Enter(u, "on_hold")
              /\ Raise(u, "heartbeat_timeout")
              /\ UNCHANGED failures

Next == \E u \in Units :
          Advance(u) \/ Retry(u) \/ Hold(u) \/ Pass(u) \/ TimeOut(u)

Spec == Init /\ [][Next]_vars
=============================================================================
