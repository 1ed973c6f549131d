\* After the window is destroyed only its WM_QUIT is left to be read.
SPECIFICATION Spec
CONSTANTS
  Places = {"offset", "home"}
  Extents = {1, 2, 3}
  Created <- AtOffset
  Home = "home"
  Full <- WholeScreen
INVARIANTS
  RendererFollows
  PointerConfined
  PointerFreeElsewhere
  QuitReleasesPointer
