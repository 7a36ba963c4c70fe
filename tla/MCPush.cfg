SPECIFICATION FairPushSpec
CONSTANTS
    u1 = u1  u2 = u2  good = good  bad = bad  odd = odd  web = web
    Users <- MCUsers
    NoUser = NoUser
    Phones <- MCPhones
    Browsers <- MCBrowsers
    Households <- MCHouseholds
    Bad <- MCBad
    Odd <- MCOdd
    MaxNotes = 1
    MaxAttempts = 2
    ReceiptBatch = 2
    MaxLost = 1
    MaxFaults = 1
INVARIANTS PushTypeOK PushRules
PROPERTIES PushesSettle
CHECK_DEADLOCK FALSE
