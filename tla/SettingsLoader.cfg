SPECIFICATION LoaderSpec
CONSTANTS
  MenuChoices <- AllChoices
  Shipped <- Presets
  Edited <- CutOrSpoilt
  Invocations = 1024
INVARIANTS
  SettingsAsWritten
  PresetsMeetAssumptions
