SPECIFICATION Spec
CONSTANTS
  Countries <- MCCountries
  Closed = "NONE"
  Undecided = "None"
  NoPin = "nopin"
  NoOverride = "leastPing"
  FailCycles = 1
  RecoverCycles = 2
  ConfirmCycles = 1
  MinDwell = 1
  Margin = 0
  MaxLat = 0
  MaxFaults = 1
  MaxStops = 1
  MaxOnce = 1
INVARIANTS
  ChoiceSupported
