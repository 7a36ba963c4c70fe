CONSTANTS
    u1 = u1
    s1 = s1
    s2 = s2
    k1 = k1
    k2 = k2
    o1 = o1
    o2 = o2
    e1 = e1
    r1 = r1
    Users <- MCUsers
    Sessions <- MCSessions
    RequestKeys <- MCKeys
    Orders <- MCOrders
    OrderOwner <- MCOwner
    Rewards <- MCRewards
    Worth <- MCWorth
    Points <- MCPoints
    PayoutRefs <- MCRefs
    OpeningTotals <- MCOpening
    NoSession = NoSession
    NoRef = NoRef
SYMMETRY Symmetric
SPECIFICATION Spec
INVARIANTS WalletSafe
PROPERTIES DecidedForGood KeepsPromise
