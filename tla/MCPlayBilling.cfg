SPECIFICATION FairSpec
CONSTANTS
  MaxTokens = 2
  MaxEvents = 2
  MaxSessions = 2
  MaxOrders = 2
  MaxFaults = 1
INVARIANTS TypeOK PurchasesHonoured
PROPERTIES NewestAnswerWins CatchesUp
CHECK_DEADLOCK FALSE
