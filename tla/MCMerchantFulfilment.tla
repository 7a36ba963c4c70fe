------------------------ MODULE MCMerchantFulfilment ------------------------
(* A small instance of MerchantFulfilment for TLC. *)
EXTENDS MerchantFulfilment, TLC

CONSTANTS o1, o2, m1, s1, s2

TwoOrders == {o1, o2}
OneManifest == {m1}
TwoSessions == {s1, s2}

\* Two orders of one route: a request may move them together.
LocalOrImported == {[o \in Orders |-> Local], [o \in Orders |-> Import]}

Symmetry == Permutations(Orders) \cup Permutations(Sessions)
=============================================================================
