\* The window is closed, or asked to close, while the menu is shown.
SPECIFICATION Spec
CONSTANTS
  Keys = {"NUM1", "ESCAPE", "SPACE"}
  MenuKeys <- OneChoice
  Toggle = "SPACE"
  Events = {"close", "quit"}
  MaxPosts = 1
PROPERTIES
  QuitEndsProgram
