SPECIFICATION FairSpec
CONSTANTS
  Builds = {b1, b2}
  Tools = {t1}
  Requests = {r1}
  Builder = builder
  MaxDepth = 2
  Retries = 2
  Native = {1}
  Keep = 1
  Interval = 1
  MaxMessages = 4
  FailsAt = {3, 4}
  ClearsAt = {4}
  Disturbances <- AllDisturbances
CONSTRAINT Bounds
INVARIANTS
  TypeOK
  ModelRemembers
  MessagesKept
  RequestsRemembered
  NoInputStranded
PROPERTIES
  InputsTaken
