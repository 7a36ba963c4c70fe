CONSTANTS
    Emails = {e1, e2}
    Subjects = {s1, s2}
    Requests = {r1, r2}
    Referrer = e1
    MaxLinks = 2
    MaxResets = 1
    NoEmail = NoEmail
    NoSubject = NoSubject
    Admins = {a1, a2, a3}
    Founders = {a1, a2}
    Changes = {c1, c2}
    MaxEvents = 3
    NoAdmin = NoAdmin
    f1 = f1  f2 = f2  f3 = f3  p1 = p1  p2 = p2
    Fetches <- MCFetches
    Replicas <- MCReplicas
    Sites <- MCSites
    Pages = {page}
    MaxChanges = 1
    Nobody = Nobody
    NoReplica = NoReplica
    NoPage = NoPage
SPECIFICATION AccessSpec
SYMMETRY Alike
INVARIANTS AccessTypeOK AccountsAgree LastAdminStays PagesAreFresh
PROPERTIES SignedOutForGood PrivilegeHeld
CHECK_DEADLOCK FALSE
