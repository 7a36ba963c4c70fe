-------------------------- MODULE MCOrderSettlement --------------------------
(* Small instances of OrderSettlement for TLC. *)
EXTENDS OrderSettlement, TLC

CONSTANTS o1, r1, r2, h1, c1

OneOrder == {o1}
TwoRefs == {r1, r2}
OneHook == {h1}
OneConfirm == {c1}

\* Two attempts to pay an order, or one attempt to pay a discounted one.
TwoOrDiscounted ==
    {[of |-> [r \in Refs |-> o1], discounted |-> {}],
     [of |-> (r1 :> o1) @@ (r2 :> Nothing), discounted |-> {o1}]}
=============================================================================
