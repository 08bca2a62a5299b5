SPECIFICATION Live
CONSTANTS
 Panel = "panel"
 Edges = {"xray"}
 Added = {"xray"}
 EditIds = {"e1"}
 NoCopy = NoCopy
 MaxRuns = 2
 MaxFaults = 1
 MaxKills = 1
 MaxReboots = 1
 MaxOutside = 1
 MaxTroubles = 3
 Updates = TRUE
 Again = FALSE
INVARIANTS TypeOK WorkIsOnRecord SettledIsWhole
PROPERTIES NothingThrownAway OpenRunsEnd
CHECK_DEADLOCK FALSE
