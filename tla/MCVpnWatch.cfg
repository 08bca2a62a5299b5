SPECIFICATION LiveSpec
CONSTANTS
  None = None
  Fast = {"svc"}
  Nodes = {"node"}
  Gate <- NoGate
  Need <- NodeAtOnce
  Repeat = 1
  Forget = 1
  QueueMax = 2
  MaxChanges = 2
  MaxEvents = 1
  MaxKills = 1
INVARIANTS TypeOK MemoryIsRight
PROPERTIES NewsArrives AlertIsEarned
