SPECIFICATION Spec
CONSTANTS
  None = None
  Torn = Torn
  MaxEdits = 2
  MaxKills = 1
  MaxReboots = 1
  MaxFailures = 2
  MaxConsole = 1
  MaxOutside = 1
  MaxTroubles = 2
  Reverts = FALSE
  PanelModes <- AllButtons
  ConsoleModes <- ConsoleInPlace
  Edited <- OfEachKind
  Shows <- ShowsIn
  Unusable <- OneDark
INVARIANT TypeOK
INVARIANT NothingToApply
INVARIANT ReflectsUnkilled
INVARIANT FailureLeavesPrevious
PROPERTY NeverBackwards
PROPERTY ConsentForTheRest
