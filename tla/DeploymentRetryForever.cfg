SPECIFICATION Spec
CONSTANTS
  None = None
  Calls = {files}
  Bringers = {files}
  Files = {theme}
  Theme = {theme}
  Brings <- MCBrings
  Forced = {}
  Attempts = {a1, a2}
  Sessions = {s1, s2, s3}
  Instances = {i1, i2, i3}
  MaxTicks = 0
  ResetEvery = 3
PROPERTY RetryEndsAtMasterTimeout
