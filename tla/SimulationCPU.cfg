SPECIFICATION Spec
CONSTANTS
  MaxBound = 4
  MaxDepth = 2
  MaxSize = 1
  NumAgents = 3
  MaxRadius = 2
  Overshoot = 1
  Places <- SomePlaces
  Steps <- AlongX
  StartMode = "octree"
  MaxFrames = 2
INVARIANTS
  LeavesExact
  SplitIffFull
  EveryAgentInTree
  OnlyMovedMissed
  FoundTwiceOnlyOnFaces
  EachMovedOnce
