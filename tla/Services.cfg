CONSTANTS
  s1 = s1
  s2 = s2
  s3 = s3
  c1 = c1
  c2 = c2
  c3 = c3
  e1 = e1
  e2 = e2
  p1 = p1
  p2 = p2
  TraceSessions = {s1, s2, s3}
  FileOf <- MCFileOf
  MaxTurns = 2
  MaxSessions = 2
  MaxPasses = 1
  MaxRecords = 3
  MaxReloads = 1
  MaxFaults = 1
  LiveClients = {c1, c2, c3}
  Shows <- MCShows
  AdminToken = TRUE
  AllowAnonymous = FALSE
  QueueSize = 2
  MaxEvents = 4
  EngineConfigs <- MCEngineConfigs
  MaxEngines = 2
  Promoters = {p1, p2}
  FactLists <- MCFactLists
  MinConfidence = 9
  PromotableTypes = {"decision", "file_state", "observation", "state"}
  DryRun = FALSE
  Replies <- MCReplies
  MaxTrail = 2
  NoEngine = NoEngine
  Environments <- MCEnvironments
  Plugins = {"filter", "memory", "audit"}
  MaxAttempts = 2
  Fields = {"filter_enabled", "compaction_enabled", "agent_solo_min_input_tokens", "synthetic_tools_enabled"}
  Flags = {"filter_enabled", "compaction_enabled", "synthetic_tools_enabled"}
  Explicit = {"synthetic_tools_enabled"}
  Profiles <- MCProfiles
  Profile = "mechanical"
  FilterHere = TRUE
  Tunable = {"filter_enabled", "compaction_enabled", "agent_solo_min_input_tokens"}
  DenyList = {"filter_enabled", "synthetic_tools_enabled"}
  ConfigBodies <- MCConfigBodies
  Overlays <- MCOverlays
  MaxUpdates = 3
  MaxStarts = 2
  MaxSpoilt = 1
SPECIFICATION Spec
INVARIANTS
  TracesSurvive
  LiveUnbroken
  PromotionHonest
  HealthAndClosureHonest
  SettingsKept
PROPERTIES
  LifecycleEnds
CHECK_DEADLOCK FALSE
