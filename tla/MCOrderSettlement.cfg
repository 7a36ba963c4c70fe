SPECIFICATION FairSpec
CONSTANTS
  o1 = o1
  r1 = r1
  r2 = r2
  h1 = h1
  c1 = c1
  Nothing = Nothing
  Orders <- OneOrder
  Refs <- TwoRefs
  MaxCharges = 2
  Hooks <- OneHook
  Confirms <- OneConfirm
  Layouts <- TwoOrDiscounted
  MaxFaults = 2
INVARIANTS SettlesRight
PROPERTIES PaymentIsFinal ChargesSettle
