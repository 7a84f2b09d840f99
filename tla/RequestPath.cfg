SPECIFICATION Spec
CONSTANTS
  s1 = s1
  s2 = s2
  a = a
  b = b
  Sessions = {s1, s2}
  NoSession = none
  Slots = {a, b}
  Tracked = 1
  MaxConsecutive = 1
  MaxTotal = 2
  Cooldown = 1
  Budget = 2
  Traffic <- MixedTraffic
  Answers <- SampleAnswers
  RecallOn = TRUE
  SyntheticOn = TRUE
  BudgetRejects = TRUE
SYMMETRY SlotSymmetry
INVARIANTS ExtractsWhatWasSent InternalHidden EffortBounded
