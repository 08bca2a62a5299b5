SPECIFICATION Live
CONSTANTS
  MaxUsers = 2
  Chats = {"ann", "bob"}
  PhoneOf <- Numbers
  Web = {"p1"}
  NoChat = NoChat
  MaxThreads = 2
  MaxRuns = 2
  Book <- Two
  Limit = 1
  Inbounds = 2
  MaxEvents = 2
  MaxFaults = 1
INVARIANTS TrafficIsCharged
PROPERTIES AccountsStayApart XrayFollows
