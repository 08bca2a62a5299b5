SPECIFICATION HFairSpec
CONSTANTS
  Countries <- MCCountries
  Closed = "NONE"
  Undecided = "None"
  NoPin = "nopin"
  NoOverride = "leastPing"
  FailCycles = 2
  RecoverCycles = 2
  ConfirmCycles = 1
  MinDwell = 2
  Margin = 0
  MaxLat = 1
  MaxFaults = 0
  MaxStops = 1
  MaxOnce = 0
INVARIANTS
  TypeOK
PROPERTIES
  KeepsPromise
  MovedForCause
  OverrideFollows
