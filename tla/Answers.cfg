CONSTANTS
  s1 = s1
  s2 = s2
  ws = ws
  ext = ext
  sub = sub
  lnk = lnk
  a = a
  b = b
  Keys = {k1, k2}
  Capacity = 1
  NoKey = none
  MaxQueue = 2
  BatchMax = 2
  MaxWrites = 3
  MaxStarts = 2
  RecallSessions = {s1, s2}
  Conversations <- MCConversations
  Window = 6
  TopFiles = 2
  LedgerSessions = 1
  LedgerFiles = 2
  RecallSlots = {1, 2}
  Questions <- MCQuestions
  ForcedQuestions <- MCForced
  RecallBudget = 7
  Decay <- MCDecay
  NoRecall = NoRecall
  RecallTool = RecallTool
  OtherTool = OtherTool
  NoName = NoName
  NoText = NoText
  Done = Done
  MaxLines = 6
  MaxParallel = 2
  Sizes = {1, 3}
  MaxBuffer = 6
  Resends <- MCResends
  MaxCalls = 2
  Up = Up
  Unknown = Unknown
  Folders <- MCFolders
  Links <- MCLinks
  DiskFiles <- MCDiskFiles
  Cwd <- MCCwd
  Workspaces <- MCWorkspaces
  Requested <- MCRequested
  CaptureOf <- MCCaptureOf
  DiskTexts <- MCTexts
  Focuses <- MCFocuses
  Climb = 2
  MaxEntries = 2
  FocusLines = 2
  PreviewLines = 2
  FullLines = 3
  HeadLines = 1
  MaxRows = 2
  FactPools <- MCFactPools
  FoundLimit = 2
SPECIFICATION Spec
SYMMETRY AnswersSymmetry
INVARIANTS
  MirrorComplete
  MemoryIsSound
  RecallNotRepeated
  RecallIsBest
  ClientReadsAnswer
  CaptureHasNoHole
  ResendsArePaired
  StaysInside
  ShownIsBest
PROPERTIES
  RowsNeverRegress
CHECK_DEADLOCK FALSE
