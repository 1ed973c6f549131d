SPECIFICATION Spec
CONSTANTS
  Keys = {"NUM1", "ESCAPE", "SPACE"}
  MenuKeys <- OneChoice
  Toggle = "SPACE"
  Events = {"close", "quit"}
  MaxPosts = 2
PROPERTIES
  SimulationEnds
  PausedOncePerHold
