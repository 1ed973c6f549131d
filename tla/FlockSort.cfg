\* Exactly filled work-groups, work-groups of one invocation, and a last
\* work-group that is not dispatched.
SPECIFICATION Spec
CONSTANTS
  Sizes <- ThreeSizes
  Cells <- TwoCells
INVARIANTS
  TypeOK
  RaceFree
  InBuffer
  NoAgentLost
  AlternatingRuns
PROPERTIES
  ImplementsSort
