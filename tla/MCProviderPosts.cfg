CONSTANTS
    Listings = {l1, l2}
    Products = {g1}
    Makers = {m1, m2}
    Reviewers = {r1}
    MaxPlan = 2
    MaxEdits = 1
    NoPost = NoPost
SPECIFICATION PostsSpec
SYMMETRY Alike
INVARIANTS PostsTypeOK PublicPosts
PROPERTIES QuotaAtEntry
CHECK_DEADLOCK FALSE
