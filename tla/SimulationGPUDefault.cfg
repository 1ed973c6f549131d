\* Two and a half work-groups of agents, as with the default of 2560 agents and
\* work-groups of 1024, in brute force mode.
SPECIFICATION Spec
CONSTANTS
  MaxBound = 3
  MaxRadius = 2
  Unit = 1
  NumAgents = 5
  Invocations = 2
  Overshoot = 1
  Places <- Corners
  Steps <- AlongX
  Keys = {}
  Buttons = {}
  StartMode = "brute"
  Junk <- ZeroOrHuge
PROPERTIES
  EveryAgentFlies
