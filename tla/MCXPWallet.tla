------------------------------ MODULE MCXPWallet ------------------------------
(***************************************************************************)
(* Small instances of XPWallet for TLC.                                    *)
(***************************************************************************)
EXTENDS XPWallet, TLC

CONSTANTS u1, s1, s2, k1, k2, o1, o2, e1, r1

MCUsers == {u1}
MCSessions == {s1, s2}
MCKeys == {k1, k2}
MCOrders == {o1, o2}
MCOwner == [o \in Orders |-> u1]
MCRewards == {e1}
MCWorth == [e \in Rewards |-> 2]
MCPoints == {2}
MCRefs == {r1}
MCOpening == {1, 3}

Symmetric == Permutations(Sessions) \cup Permutations(RequestKeys) \cup Permutations(Orders)
=============================================================================
