CONSTANTS
  TailSize = 2
  MaxTail = 3
  Shrinks = TRUE
  NoCall = NoCall
  KeepAll = KeepAll
  Settings <- MCSettings
  ColdStart = 2
  MaxMessages = 7
  MaxRequests = 4
  MaxLate = 2
  NoBriefing = NoBriefing
  AllowedTools = {"get_file", "select_relevant_turns"}
  AllTools = {"get_file", "select_relevant_turns", "score_file_relevance"}
  MaxIterations = 3
  MaxRetries = 1
  MaxCalls = 2
  Unselected = 0
  PathOf <- MCPathOf
  Fetched <- MCFetched
  MaxFiles = 3
  Queries = {{"add"}, {"add", "screen"}}
  PoolSizes = {0, 60}
  Allowances = {0, 80, 500, 1200}
  LineLength = 30
  Exemplars = {1, 4}
  NoFile = NoFile
  Unknown = Unknown
  Keys = {k1, k2, k3, k4, k5}
  Capacity = 2
  NoKey = none
  Builtin <- MCBuiltin
  Plugins <- MCPlugins
  Names <- MCNames
  MaxRecords = 2
  BudgetLimits <- MCLimits
  Concurrency = 1
  Parses <- MCParses
  MaxItems = 2
  Found <- MCFound
  TurnReplies <- MCTurnReplies
  BatchSize = 2
  Pending = Pending
  Raised = Raised
  NoVector = NoVector
SPECIFICATION Spec
INVARIANTS
  SentIsWellFormed
  SelectionHonoured
  ServedIsRecent
  LoopAnswersCalls
  AssemblyFits
  TurnNotStarved
  StoredAligned
  Bounds
CHECK_DEADLOCK FALSE
