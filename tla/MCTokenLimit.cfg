SPECIFICATION Spec
CONSTANTS
  Enrolments = {e1}
  Records = {r1}
  Consumers = {c1}
  MaxEvents = 2
  MaxConsumers = 1
  MaxTokens = 1
  Limits = {1, 2}
  MaxVersion = 2
  MaxGeneration = 7
  None = None
INVARIANTS
  PendingCanBeAcknowledged
