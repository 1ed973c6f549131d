SPECIFICATION CameraSpec
CONSTANTS
  Button = {"left"}
  ClickLimit = 3
  Durations = {1, 4}
  Bound = 2
  Motions <- Packets
  Wheel <- SomeTurns
  MaxPackets = 3
  Turn = 4
  StartYaw = 3
  StartPitch <- MinusOne
  Quarter = 1
  MaxYaw = 7
INVARIANTS
  CameraTypeOK
  PressedWhenItWentDown
  DoubleClickInTime
  YawTracks
PROPERTIES
  YawComesBack
