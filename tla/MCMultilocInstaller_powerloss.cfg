SPECIFICATION Spec
CONSTANTS
 Panel = "panel"
 Edges = {"xray"}
 Added = {"xray"}
 EditIds = {}
 NoCopy = NoCopy
 MaxRuns = 1
 MaxFaults = 0
 MaxKills = 1
 MaxReboots = 1
 MaxOutside = 0
 MaxTroubles = 3
 Updates = FALSE
 Again = FALSE
INVARIANT UndoneIsUndone
CHECK_DEADLOCK FALSE
