SPECIFICATION FairSpec
CONSTANTS
  r1 = r1
  r2 = r2
  t1 = t1
  t2 = t2
  s1 = s1
  s2 = s2
  NoRef = NoRef
  Refs <- TwoRefs
  Txs <- TwoTxs
  Sessions <- TwoSessions
  Durations <- OneOrThree
  Horizon = 1
INVARIANTS TypeOK SubscriptionsAgree
PROPERTIES PaidIsHonoured
CHECK_DEADLOCK FALSE
