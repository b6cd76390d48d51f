SPECIFICATION FairSpec
CONSTANTS
  None = None
  Calls = {files, plain}
  Bringers = {files}
  Files = {theme, page}
  Theme = {theme}
  Brings <- MCBrings
  Forced = {}
  Attempts = {a1}
  Sessions = {s1, s2, s3}
  Instances = {i1, i2, i3}
  MaxTicks = 0
  ResetEvery = 2
PROPERTIES
  LoopsRecover
  CallsReturn
