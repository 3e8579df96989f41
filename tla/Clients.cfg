\* Two callers and every kind of record, one or two fields of each group watched; and
\* manifests of up to three rows over a list of two pages; streamed
\* answers of up to three events, one of a kind the SDK does not know; and environments
\* with a reserved character in every place.
CONSTANTS
  n1 = n1
  n2 = n2
  n3 = n3
  n4 = n4
  ManifestRows <- MCRows
  Lists <- MCLists
  FirstIds = 3
  ChunkSizes = {0, 1, 2}
  DocumentPage = 2
  MaxCalls = 2
  MaxMoves = 1
  Callers = {"a", "b"}
  KindsUsed <- Kinds
  Watched = {"name", "description", "cron", "lookback", "condition", "persist", "ai_config_id",
             "config_name", "expires_in_days", "provider_options", "credentials", "region",
             "dataset_location", "credentials_json", "batch_size", "title", "content", "role",
             "data", "confidence_score", "callback_url", "query_sql", "web_fetch_enabled",
             "web_search_daily_cap", "provider", "model", "api_key", "deadline", "agent_id",
             "is_available", "start_char_idx", "document_offset", "preview", "active", "note",
             "proposal_id", "answer", "workflow_id"}
  Chars <- MCChars
  NotSet = NotSet
  Environments <- MCEnvironments
  EventKinds = {"status", "cell", "ping"}
  MaxEvents = 3
  MaxLines = 3
SPECIFICATION ClientSpec
INVARIANTS RunsArePrefix RightDocument AskedIsHeld WholeOrCredentials WholeEventsOnly AcceptedAsGiven
CHECK_DEADLOCK FALSE
