SPECIFICATION InputSpec
CONSTANTS
  Keys = {"K"}
  Events = {"switch", "pointer", "close", "quit"}
  MaxPosts = 3
INVARIANTS
  InputTypeOK
  NoStuckKey
  DeafWhenUnused
  AwakeWhenUsed
  OnePressPerHold
