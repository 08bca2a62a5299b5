SPECIFICATION OwnerSpec
CONSTANTS
  None = None
  Torn = Torn
  MaxEdits = 1
  MaxKills = 1
  MaxReboots = 1
  MaxFailures = 1
  MaxConsole = 1
  MaxOutside = 0
  MaxTroubles = 3
  Reverts = FALSE
  PanelModes <- Determined
  ConsoleModes <- ConsoleAll
  Edited <- OfEachKind
  Shows <- ShowsIn
  Unusable <- AllUsable
PROPERTY ApplyGetsThrough
