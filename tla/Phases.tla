------------------------------- MODULE Phases -------------------------------
(***************************************************************************)
(* internal/workflow/types.go: the states of a unit's workflow, and the    *)
(* moves between them that neither count a failure nor touch an incident.  *)
(***************************************************************************)

States ==
  {"pending", "ready_for_assembly", "in_assembly", "ready_for_test",
   "awaiting_test_result", "retry_pending", "on_hold", "awaiting_rework",
   "in_rework", "ready_for_inspection", "in_inspection", "completed",
   "scrapped"}

Terminal == {"completed", "scrapped"}

Edges ==
  {<<"pending", "ready_for_assembly">>,
   <<"ready_for_assembly", "in_assembly">>,
   <<"in_assembly", "ready_for_test">>,
   <<"ready_for_test", "awaiting_test_result">>,
   <<"retry_pending", "awaiting_test_result">>,
   <<"ready_for_inspection", "in_inspection">>,
   <<"in_inspection", "completed">>,
   <<"on_hold", "awaiting_rework">>,
   <<"on_hold", "scrapped">>,
   <<"awaiting_rework", "in_rework">>,
   <<"in_rework", "ready_for_test">>}
=============================================================================
