SPECIFICATION Spec
CONSTANTS
  Enrolments = {e1, e2}
  Records = {r1}
  Consumers = {c1}
  MaxEvents = 3
  MaxConsumers = 1
  MaxTokens = 3
  Limits = {1, 2}
  MaxVersion = 2
  MaxGeneration = 4
  None = None
SYMMETRY Symmetry
INVARIANTS
  TypeOK
  WellFormed
  HistoryReplaysBaselines
  NoTransitionTwice
  OneVerdict
  StableBatches
PROPERTIES
  ImplementsFeed
