\* Two agents; changes of mode, pauses and mouse buttons at any frame.
SPECIFICATION Spec
CONSTANTS
  MaxBound = 3
  MaxRadius = 2
  Unit = 1
  NumAgents = 2
  Invocations = 1
  Overshoot = 1
  Places <- Corners
  Steps <- AlongX
  Keys = {"P", "SPACE"}
  Buttons = {"left"}
  StartMode = "grid"
  Junk <- ZeroOrHuge
INVARIANTS
  TypeOK
  FreshAfterGridKernel
  NearAgentsReadOnce
