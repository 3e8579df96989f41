----------------------------- MODULE Endpoints -----------------------------
(***************************************************************************)
(* The methods of ragnerock/client that create or change a record: what    *)
(* each of them sends.  A method is known by                               *)
(*   always   the fields it sends in every request, required of its caller *)
(*            or with a default of the method's own,                       *)
(*   kept     those that None, their default, leaves as they are,          *)
(*   cleared  those that UNSET, their default, leaves as they are and None *)
(*            clears; a field that is cleared and in always is sent in     *)
(*            every request, as null when it is None,                      *)
(*   does     what the server makes of a field that is not sent: a new     *)
(*            record has its default, an update leaves it, a replacement   *)
(*            resets it.                                                   *)
(***************************************************************************)
Method(does, kind, always, kept, cleared) ==
  [does |-> does, kind |-> kind, always |-> always, kept |-> kept, cleared |-> cleared]
Creates(kind, always, kept)          == Method("create", kind, always, kept, {})
Changes(kind, always, kept, cleared) == Method("update", kind, always, kept, cleared)
Replaces(kind, always, kept, nulls)  == Method("replace", kind, always, kept, nulls)
Deletes(kind)                        == Method("delete", kind, {}, {}, {})

-----------------------------------------------------------------------------
(* Workflows, their nodes and schedules.  A node's condition and target are  *)
(* cleared by a flag of their own beside the field.                          *)
CreateWorkflow == Creates("Workflow",
  {"project_id", "name", "is_active", "auto_run_on_upload", "is_draft"},
  {"description", "resources", "schedule"})
UpdateWorkflow == Changes("Workflow", {},
  {"name", "description", "is_active", "auto_run_on_upload"}, {})
DeleteWorkflow == Deletes("Workflow")
SetResources  == Changes("Workflow", {"resources"}, {}, {})
SetSinks      == Changes("Workflow", {"sinks"}, {}, {})
SetSchedule   == Replaces("Workflow", {"cron", "timezone", "enabled"}, {"lookback"}, {})

AddNode == Creates("WorkflowNode",
  {"operator_id", "persist", "on_error", "max_retries", "annotations_only", "in_node_ids",
   "out_node_ids", "include_schedule_context", "required_functions"},
  {"condition", "decorators", "position_x", "position_y", "position_z"})
UpdateNode == Changes("WorkflowNode", {},
  {"operator_id", "persist", "on_error", "max_retries", "annotations_only", "decorators",
   "position_x", "position_y", "position_z", "in_node_ids", "out_node_ids",
   "context_resource_ids", "include_schedule_context", "required_functions"},
  {"condition", "target_resource_id"})
DeleteNode == Deletes("WorkflowNode")
Approve == Changes("ChangeRequest", {"proposal_id"}, {}, {})
Reject  == Changes("ChangeRequest", {}, {"note"}, {})

(* Runs of a workflow. *)
CreateManual == Creates("Run", {"force_refresh", "capture_execution_log"},
  {"document_ids", "workflow_ids", "workflow_id", "runs", "group_id",
   "force_refresh_node_ids", "recreate_memory_document_ids"})
RunAllIngest == Creates("Run", {"workflow_id", "resource_id", "capture_execution_log"}, {})
RunNow       == Creates("Run", {"workflow_id", "runs", "capture_execution_log"}, {})

(* Endpoints. *)
CreateEndpoint == Creates("Endpoint",
  {"name", "include_content", "ephemeral", "snapshot_tag", "endpoint_type", "rate_limit_rpm",
   "auto_archive_jobs"},
  {"workflow_id", "accepted_file_types", "return_fields", "description", "compat_format",
   "ai_config_id", "model_name", "default_params", "ip_whitelist",
   "api_key_expires_in_days", "mcp_tool_name", "mcp_tool_description"})
UpdateEndpoint == Changes("Endpoint", {},
  {"name", "accepted_file_types", "return_fields", "include_content", "ephemeral",
   "model_name", "rate_limit_rpm", "auto_archive_jobs", "is_enabled"},
  {"description", "snapshot_tag", "ai_config_id", "default_params", "ip_whitelist",
   "mcp_tool_name", "mcp_tool_description"})
DeleteEndpoint == Deletes("Endpoint")
RegenerateKey  == Replaces("Endpoint", {}, {"expires_in_days"}, {})
SubmitTask     == Creates("EndpointTask", {"data"}, {"metadata", "callback_url", "idempotency_key"})

-----------------------------------------------------------------------------
(* Configurations of models. *)
CreateAIConfig == Creates("AIConfig",
  {"provider_type", "endpoint_url", "api_key", "fallback_to_ragnerock", "timeout_seconds"},
  {"config_name", "model_name", "fallback_ai_config_id", "max_requests_per_minute",
   "max_tokens_per_day", "agent_turn_token_budget", "assignment_token_budget",
   "assignment_max_turns", "assignment_max_age_days", "assignment_retention_days",
   "provider_options", "status"})
UpdateAIConfig == Changes("AIConfig", {},
  {"config_name", "provider_type", "endpoint_url", "api_key", "model_name",
   "fallback_to_ragnerock", "timeout_seconds", "max_requests_per_minute",
   "max_tokens_per_day", "agent_turn_token_budget", "assignment_token_budget",
   "assignment_max_turns", "assignment_max_age_days", "assignment_retention_days"},
  {"fallback_ai_config_id", "provider_options"})
DeleteAIConfig     == Deletes("AIConfig")
SetStatus          == Changes("AIConfig", {"status"}, {}, {})
PutEmbeddingConfig == Changes("EmbeddingConfig",
  {"embedding_type", "endpoint", "model", "dimensions"}, {"api_key"}, {})
PutImageSummary    == Changes("ImageSummaryConfig", {"provider_type", "endpoint", "model"}, {"api_key"}, {})

DeleteEmbeddingConfig == Deletes("EmbeddingConfig")
DeleteImageSummary    == Deletes("ImageSummaryConfig")

(* Storage.  The blob update is two requests: see Records. *)
CreateDatabase == Creates("DBConfig", {"provider_type", "connection_string"},
  {"config_name", "schema_name", "credential_files"})
CreateBigQuery == Creates("DBConfig", {"gcp_project_id", "dataset_name", "credentials_json"},
  {"config_name", "dataset_location"})
UpdateDatabase == Changes("DBConfig", {},
  {"config_name", "connection_string", "schema_name", "credential_files"}, {})
UpdateBigQuery == Changes("DBConfig", {}, {"credentials_json", "dataset_location"}, {})
DeleteDatabase == Deletes("DBConfig")
SwitchDatabase == Changes("DBConfig", {"active"}, {}, {})      \* activate(), deactivate()
CreateBlob == Creates("BlobConfig", {"provider_type", "bucket_name", "credentials", "path_prefix"},
  {"config_name", "region", "provider_config"})
UpdateBlob == Changes("BlobConfig", {},
  {"config_name", "region", "path_prefix", "credentials", "provider_config", "bucket_name"}, {})
DeleteBlob == Deletes("BlobConfig")
SwitchBlob == Changes("BlobConfig", {"active"}, {}, {})

-----------------------------------------------------------------------------
(* Operators, skills and tools.  What a connector is not given of name and    *)
(* description is taken from the catalog, which is read first.                *)
CreateOperator == Creates("Operator",
  {"project_id", "name", "chunk_type", "operator_kind", "multi_annotation", "network_access"},
  {"jsonschema", "output_schema_id", "generation_prompt", "description", "batch_size",
   "input_columns", "code_source", "code_timeout_seconds", "ai_config_id", "model_name",
   "skill_ids", "tool_ids", "notification_template", "change_request_prompt",
   "change_request_signal"})
UpdateOperator == Changes("Operator", {},
  {"name", "description", "jsonschema", "generation_prompt", "chunk_type", "operator_kind",
   "multi_annotation", "code_source", "network_access", "skill_ids", "tool_ids",
   "notification_template", "change_request_prompt"},
  {"batch_size", "input_columns", "code_timeout_seconds", "ai_config_id", "model_name",
   "change_request_signal"})
DeleteOperator == Deletes("Operator")

CreateSkill == Creates("Skill", {"project_id", "name", "description", "body", "is_available"}, {})
UpdateSkill == Changes("Skill", {}, {"name", "description", "body", "is_available"}, {})
DeleteSkill == Deletes("Skill")

CreateMcp == Creates("Tool",
  {"project_id", "name", "description", "url", "transport", "auth", "headers",
   "is_available", "notebook_enabled"}, {"skill_id", "slug", "timeout_seconds"})
CreateConnector == Creates("Tool",
  {"project_id", "connector", "name", "description", "parameters", "is_available",
   "notebook_enabled"}, {"skill_id", "slug", "timeout_seconds"})
CreateRest == Creates("Tool",
  {"project_id", "name", "description", "base_url", "routes", "headers", "is_available",
   "notebook_enabled"}, {"skill_id", "slug"})
UpdateTool == Changes("Tool", {},
  {"name", "description", "is_available", "notebook_enabled", "mcp", "rest", "connector"}, {})
DeleteTool == Deletes("Tool")

-----------------------------------------------------------------------------
(* Documents and what is made of them. *)
CreateDocument == Creates("Document", {"project_id"},
  {"file", "source_url", "name", "group_id", "file_type", "metadata"})
UpdateDocument == Changes("Document", {}, {"name", "group_id", "storage_path", "metadata"}, {})
DeleteDocument == Deletes("Document")
CreateChunk == Creates("Chunk", {"document_id", "content", "document_offset", "chunk_type"},
  {"start_char_idx", "end_char_idx"})
DeleteChunk == Deletes("Chunk")
CreateGroup == Creates("DocumentGroup", {"name"}, {})
UpdateGroup == Changes("DocumentGroup", {"name"}, {}, {})
DeleteGroup == Deletes("DocumentGroup")
CreateAnnotation == Creates("Annotation", {"operator_id", "data"},
  {"document_id", "chunk_id", "page_id", "confidence_score", "generation_metadata", "row_id",
   "sheet_id"})
UpdateAnnotation == Changes("Annotation", {"data"}, {"confidence_score"}, {})
DeleteAnnotation == Deletes("Annotation")
CreateQuery == Creates("SavedQuery", {"name", "query_sql"}, {"description"})
UpdateQuery == Changes("SavedQuery", {}, {"name", "query_sql", "description"}, {})
DeleteQuery == Deletes("SavedQuery")

(* Notebooks, assignments, ingestion and web access. *)
OpenConversation == Creates("Notebook", {"project_id", "agent_id"}, {})
CreateNotebook == Creates("Notebook", {"project_id", "title"}, {"agent_id"})
UpdateNotebook == Changes("Notebook", {}, {"title"}, {"ai_config_id", "reasoning_effort"})
DeleteNotebook == Deletes("Notebook")
CreateCell == Creates("Cell", {"content", "cell_type"}, {"role", "output"})
UpdateCell == Changes("Cell", {}, {"content", "cell_type", "role", "output"}, {})
DeleteCell == Deletes("Cell")
CreateArtifact == Method("create", "Artifact",
  {"project_id", "artifact_type", "preview", "data"}, {}, {"data"})
CreateAssignment == Creates("Assignment", {"agent_id", "task"},
  {"output_schema_id", "deadline", "budget_cost_weighted_tokens"})
Dispatch == Creates("Assignment", {"agent_id", "task", "parent_id"},
  {"output_schema_id", "budget_cost_weighted_tokens"})
Answer == Changes("AgentQuestion", {"answer"}, {}, {})
CreateIngestConfig == Creates("IngestConfig", {"name", "source"}, {"cron"})
UpdateIngestConfig == Replaces("IngestConfig", {"name", "source"}, {"cron"}, {})
DeleteIngestConfig == Deletes("IngestConfig")
SetPolicy == Replaces("WebAccessPolicy", {"web_fetch_enabled", "web_search_enabled"}, {},
  {"web_search_daily_cap"})
SetSearchProvider == Changes("WebSearchProvider", {"provider"}, {"api_key"}, {})
DeleteSearchProvider == Deletes("WebSearchProvider")

-----------------------------------------------------------------------------
Methods ==
  {CreateWorkflow, UpdateWorkflow, DeleteWorkflow, SetResources, SetSinks, SetSchedule,
   AddNode, UpdateNode, DeleteNode, Approve, Reject, CreateManual, RunAllIngest, RunNow,
   CreateEndpoint, UpdateEndpoint, DeleteEndpoint, RegenerateKey, SubmitTask,
   CreateAIConfig, UpdateAIConfig, DeleteAIConfig, SetStatus, PutEmbeddingConfig, PutImageSummary,
   DeleteEmbeddingConfig, DeleteImageSummary,
   CreateDatabase, CreateBigQuery, UpdateDatabase, UpdateBigQuery, DeleteDatabase, SwitchDatabase,
   CreateBlob, UpdateBlob, DeleteBlob, SwitchBlob,
   CreateOperator, UpdateOperator, DeleteOperator, CreateSkill, UpdateSkill, DeleteSkill,
   CreateMcp, CreateConnector, CreateRest, UpdateTool, DeleteTool,
   CreateDocument, UpdateDocument, DeleteDocument, CreateChunk, DeleteChunk,
   CreateGroup, UpdateGroup, DeleteGroup, CreateAnnotation, UpdateAnnotation, DeleteAnnotation,
   CreateQuery, UpdateQuery, DeleteQuery, OpenConversation, CreateNotebook, UpdateNotebook, DeleteNotebook,
   CreateCell, UpdateCell, DeleteCell, CreateArtifact, CreateAssignment, Dispatch, Answer,
   CreateIngestConfig, UpdateIngestConfig, DeleteIngestConfig, SetPolicy, SetSearchProvider,
   DeleteSearchProvider}
Kinds       == {m.kind : m \in Methods}
Fields(m)   == m.always \cup m.kept \cup m.cleared
FieldsOf(k) == UNION {Fields(m) : m \in {n \in Methods : n.kind = k}}
=============================================================================
