------------------------- MODULE MCSellerSettlement -------------------------
(* Small instances of SellerSettlement for TLC. *)
EXTENDS SellerSettlement, TLC

CONSTANTS p1, p2, b1, b2, w1, w2

TwoPayments == {p1, p2}
TwoSettlements == {b1, b2}
TwoWorkers == {w1, w2}

\* One settlement of two charges, or two of the same charge, the second after
\* the first was taken back.
SharedOrAgain == {(b1 :> {p1, p2}) @@ (b2 :> {}), (b1 :> {p1}) @@ (b2 :> {p1})}
=============================================================================
