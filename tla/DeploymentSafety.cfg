SPECIFICATION Spec
CONSTANTS
  None = None
  Calls = {files, plain}
  Bringers = {files}
  Files = {theme, page}
  Theme = {theme}
  Brings <- MCBrings
  Forced = {}
  Attempts = {a1, a2}
  Sessions = {s1, s2, s3}
  Instances = {i1, i2, i3}
  MaxTicks = 1
  ResetEvery = 2
CONSTRAINT Outage
SYMMETRY Symmetry
INVARIANTS
  TypeOK
  PromiseIsOwned
  Monitored
  WatchesCurrent
  OwnerFilesWritten
PROPERTIES
  SharesDeployments
