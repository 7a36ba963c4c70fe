----------------------------- MODULE AdminAccess -----------------------------
(* Who administers: the accounts of administrators, their roles, and the      *)
(* requests that change them.                                                 *)
(*                                                                            *)
(* A request passes the middleware, which reads the role of the caller from   *)
(* the database, and reaches its handler some time later: the password of a   *)
(* new account is hashed in between, and another change may hold the lock.    *)
(* beginAdminAccess therefore takes one advisory lock for every change and    *)
(* reads the role of the caller again inside the transaction.                 *)
(*                                                                            *)
(* Sources: middleware/auth.go, auth/admin_roles.go, admin_controller.go,     *)
(* admin_access_controller.go.                                                *)
(*                                                                            *)
(* A definition introduced by "Slip:" is an operation with one plausible      *)
(* mistake; no behaviour of AdminSpec uses it.                                *)
EXTENDS Naturals, FiniteSets

CONSTANTS
    Admins,     \* administrator accounts, made or still to be made
    Founders,   \* the super administrators at the start
    Changes,    \* requests that change access
    MaxEvents,  \* bound: audited changes
    NoAdmin     \* nobody

ASSUME AdminAssumption ==
    /\ Founders \subseteq Admins /\ Founders # {}
    /\ NoAdmin \notin Admins
    /\ MaxEvents \in Nat

VARIABLES
    admin,      \* the row of an administrator
    change,     \* a request on its way from the middleware to its commit
    granted,    \* administrators who hold a bearer token
    events      \* admin_access_events: how many changes were recorded

adminVars == <<admin, change, granted, events>>

Roles == {"super_admin", "other"}
Row == [made : BOOLEAN, role : Roles, active : BOOLEAN]
NoChange == [op |-> "none", actor |-> NoAdmin, at |-> "idle"]

AdminInit ==
    /\ admin = [a \in Admins |-> [made |-> a \in Founders, active |-> a \in Founders,
                                  role |-> IF a \in Founders THEN "super_admin" ELSE "other"]]
    /\ change = [r \in Changes |-> NoChange]
    /\ granted = {}
    /\ events = 0

IsSuper(a) == admin[a].active /\ admin[a].role = "super_admin"
Supers == {a \in Admins : IsSuper(a)}

\* AdminLogin: the row must be active; the token names the administrator, no role
AdminLogin(a) ==
    /\ admin[a].active
    /\ granted' = granted \cup {a}
    /\ UNCHANGED <<admin, change, events>>

\* RequireAdminRoles("super_admin"): the role as the database has it now
Authorize(r, a, op) ==
    /\ change[r] = NoChange
    /\ a \in granted /\ IsSuper(a)
    /\ change' = [change EXCEPT ![r] = [op |-> op, actor |-> a, at |-> "handler"]]
    /\ UNCHANGED <<admin, granted, events>>

\* Slip: what the middleware read is relied on (PrivilegeHeld).
LockOnly(r) ==
    /\ change[r].at = "handler"
    /\ \A q \in Changes : change[q].at # "locked"
    /\ change' = [change EXCEPT ![r].at = "locked"]
    /\ UNCHANGED <<admin, granted, events>>

\* beginAdminAccess: the advisory lock, then the caller's row once more
BeginAdminAccess(r) ==
    /\ change[r].at = "handler"
    /\ \A q \in Changes : change[q].at # "locked"
    /\ IsSuper(change[r].actor)
    /\ change' = [change EXCEPT ![r].at = "locked"]
    /\ UNCHANGED <<admin, granted, events>>

\* 403 for a caller who is no longer a super administrator; or the request
\* dies, times out on the lock, or fails before its commit
AbandonChange(r) ==
    /\ change[r] # NoChange
    /\ change' = [change EXCEPT ![r] = NoChange]
    /\ UNCHANGED <<admin, granted, events>>

\* The commit of a change, with its audit record in the same transaction
Commit(r, a, row) ==
    /\ events < MaxEvents
    /\ admin' = [admin EXCEPT ![a] = row]
    /\ events' = events + 1
    /\ change' = [change EXCEPT ![r] = NoChange]
    /\ UNCHANGED granted

\* CreateAdmin: a new email
CreateAdmin(r, a, role) ==
    /\ change[r].at = "locked" /\ change[r].op = "create"
    /\ ~admin[a].made
    /\ Commit(r, a, [made |-> TRUE, role |-> role, active |-> TRUE])

\* Slip: the handler trusts its route: no lock, no second look at the caller, no
\* count of who is left (LastAdminStays).
UpdateAccessAtOnce(r, a, role, active) ==
    /\ change[r].at # "idle" /\ change[r].op = "update"
    /\ a # change[r].actor /\ admin[a].made
    /\ Commit(r, a, [made |-> TRUE, role |-> role, active |-> active])

\* updateAdminAccess, and DeleteAdmin, which disables: nobody changes his own
\* access, and the last active super administrator keeps it
UpdateAdminAccess(r, a, role, active) ==
    /\ change[r].at = "locked" /\ change[r].op = "update"
    /\ a # change[r].actor /\ admin[a].made
    /\ (IsSuper(a) /\ ~(role = "super_admin" /\ active)) => Cardinality(Supers) > 1
    /\ Commit(r, a, [made |-> TRUE, role |-> role, active |-> active])

\* ResetAdminPassword: the row of any administrator, his own included
ResetAdminPassword(r, a) ==
    /\ change[r].at = "locked" /\ change[r].op = "password"
    /\ admin[a].made
    /\ Commit(r, a, admin[a])

AdminNext ==
    \/ \E a \in Admins : AdminLogin(a)
    \/ \E r \in Changes :
         \/ \E a \in Admins, op \in {"create", "update", "password"} : Authorize(r, a, op)
         \/ BeginAdminAccess(r) \/ AbandonChange(r)
         \/ \E a \in Admins, role \in Roles :
              \/ CreateAdmin(r, a, role)
              \/ \E active \in BOOLEAN : UpdateAdminAccess(r, a, role, active)
         \/ \E a \in Admins : ResetAdminPassword(r, a)

AdminSpec == AdminInit /\ [][AdminNext]_adminVars

------------------------------------------------------------------------------
\* Rows and requests stay in their domains
AdminTypeOK ==
    /\ admin \in [Admins -> Row]
    /\ change \in [Changes -> [op : {"none", "create", "update", "password"},
                                 actor : Admins \cup {NoAdmin},
                                 at : {"idle", "handler", "locked"}]]
    /\ granted \subseteq Admins
    /\ events \in 0..MaxEvents

\* One change of access at a time, by a super administrator who still is one
OneChangeAtATime ==
    /\ \A r, q \in Changes : change[r].at = "locked" /\ change[q].at = "locked" => r = q
    /\ \A r \in Changes : change[r].at = "locked" => IsSuper(change[r].actor)

\* However the requests of the super administrators cross, somebody is left
\* who can give access back
LastAdminStays == Supers # {}

ByHolder ==
    events' # events => \E r \in Changes : /\ change[r] # NoChange /\ change'[r] = NoChange
                                          /\ IsSuper(change[r].actor)

\* Nobody uses a privilege another super administrator has just revoked: a
\* recorded change is always made by one who holds the privilege at its commit
PrivilegeHeld == [][ByHolder]_adminVars
==============================================================================
