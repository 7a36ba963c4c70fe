------------------------------ MODULE MCAccess ------------------------------
(* What stands before the handlers.  The accounts of users, those of          *)
(* administrators and the cache of public pages live in different tables and  *)
(* middleware and never meet: one run explores each of them while the others  *)
(* stay where they began.                                                     *)
EXTENDS Accounts, AdminAccess, PublicCache, TLC

CONSTANTS f1, f2, f3, p1, p2

MCFetches == {f1, f2, f3}
MCReplicas == {p1, p2}

\* Three public fetches of a replica with two slots; two of any kind in two replicas
MCSites ==
    {[replicas |-> {p1}, fetches |-> MCFetches, signed |-> {}, slots |-> 2],
     [replicas |-> {p1, p2}, fetches |-> {f1, f2}, signed |-> {f1, f2}, slots |-> 2]}

Alike == Permutations(Subjects) \cup Permutations(Requests)

allVars == <<vars, adminVars, cacheVars>>

AccessInit == Init /\ AdminInit /\ CacheInit

\* The others stay in one of their initial states
NoAccounts == Init /\ enabled = "paused"
NoPages == CacheInit /\ site.replicas = {p1}

AccessNext == \/ AdminInit /\ NoPages /\ Next /\ UNCHANGED <<adminVars, cacheVars>>
              \/ NoAccounts /\ NoPages /\ AdminNext /\ UNCHANGED <<vars, cacheVars>>
              \/ NoAccounts /\ AdminInit /\ CacheNext /\ UNCHANGED <<vars, adminVars>>

AccessSpec == AccessInit /\ [][AccessNext]_allVars

\* Every row, link, request, token and page of the three stays in its domain
AccessTypeOK == TypeOK /\ AdminTypeOK /\ CacheTypeOK
=============================================================================
