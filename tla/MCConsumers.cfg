SPECIFICATION FairSpec
CONSTANTS
  Enrolments = {e1}
  Records = {r1}
  Consumers = {c1, c2}
  MaxEvents = 2
  MaxConsumers = 2
  MaxTokens = 2
  Limits = {1, 2}
  MaxVersion = 2
  MaxGeneration = 4
  None = None
PROPERTIES
  EventuallyDelivered
  CursorsIndependent
