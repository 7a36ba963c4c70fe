SPECIFICATION Spec
CONSTANTS
  o1 = o1
  o2 = o2
  m1 = m1
  s1 = s1
  s2 = s2
  Orders <- TwoOrders
  Manifests <- OneManifest
  Sessions <- TwoSessions
  MaxNews = 2
  Routings <- LocalOrImported
SYMMETRY Symmetry
INVARIANTS ReleaseGate GoodsTogether
PROPERTIES StoryHolds
CHECK_DEADLOCK FALSE
