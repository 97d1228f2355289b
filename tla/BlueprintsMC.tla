----------------------------- MODULE BlueprintsMC -----------------------------
(* Small instances of Blueprints for TLC. *)
EXTENDS Blueprints, TLC

Do(tool, stream, transforms, pipelines) ==
  [tool |-> tool, stream |-> stream, transforms |-> transforms, pipelines |-> pipelines]

\* Stream 1 has pipeline 2 connected, or has no record; pipeline 3 is free.
MCStarts == {{[stream |-> 1, pipelines |-> {2}]}, {}}

MCOperations ==
  {Do("setup_app_monitoring_stack", 1, 1, {}), Do("setup_pipeline_for_stream", 1, 2, {}),
   Do("create_app_health_dashboard", 1, 1, {}),
   Do("connect_pipelines_to_stream", 1, 1, {3}), Do("disconnect_pipelines_from_stream", 1, 1, {2})}

\* The two blueprints that connect a pipeline to a stream the agent names.
ConnectingOperations ==
  {Do("setup_debug_log_dropping", 1, 1, {}), Do("setup_pipeline_for_stream", 1, 2, {})}

RetryOperations == {Do("setup_error_alerting", 1, 1, {}), Do("create_app_health_dashboard", 1, 1, {})}

SlotSymmetry == Permutations(Slots)
=============================================================================
