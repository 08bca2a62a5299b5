SPECIFICATION Live
CONSTANTS
 Users = {"u"}
 Addresses = {"a", "b"}
 Limit <- One
 Suspects = 10
 Warns = 15
 Blocks = 20
 Plus <- Bumps
 Decay = 10
 SevereExcess = 1
 SevereRatio = 2
 BanTime = 2
 TrustMax = 1
 TrustGiven = 1
 TrustTaken = 0
 TrustDecay = 1
 Old = 1
 ScoreCap = 25
 MaxUsed = 1
 MaxFaults = 1
 MaxAdmin = 1
 MaxMoves = 1
 MaxDays = 1
INVARIANTS TypeOK BanOnRecord
CHECK_DEADLOCK FALSE
PROPERTIES PeaceReturns SharingIsStopped
