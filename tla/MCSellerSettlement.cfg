SPECIFICATION FairSpec
CONSTANTS
  p1 = p1
  p2 = p2
  b1 = b1
  b2 = b2
  w1 = w1
  w2 = w2
  NoSettlement = NoSettlement
  NoWorker = NoWorker
  Payments <- TwoPayments
  Settlements <- TwoSettlements
  Layouts <- SharedOrAgain
  Waits = {"on hold"}
  Workers <- TwoWorkers
  MaxRequests = 2
  MaxTime = 2
  MaxFaults = 1
INVARIANTS RecordsTrue
PROPERTIES RecordsStick PayoutsSeen
