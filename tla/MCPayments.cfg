SPECIFICATION LiveSpec
CONSTANTS
  NoPlan = NoPlan
  NoUser = NoUser
  Plans = {"month"}
  Users = {"u"}
  Pays = {"p1", "p2"}
  Limits = {1}
  Prices = {1, 2}
  Trial = 1
  Offer <- OnePlan
  Workers = {"w1", "w2"}
  MaxEdits = 1
  MaxLost = 2
  MaxFaults = 1
INVARIANTS TypeOK BooksBalance AnnouncedIsSold
PROPERTIES RenewedOnce PaidIsSettled
CHECK_DEADLOCK FALSE
