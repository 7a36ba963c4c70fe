---------------------------- MODULE WalletPromise ----------------------------
(***************************************************************************)
(* What the XP wallet promises a user, with no database, lock or session:  *)
(* points that can be spent never drop below zero, every withdrawal holds  *)
(* its points once, and a held claim ends either paid or returned, never   *)
(* both.  XPWallet is shown to implement this specification.               *)
(***************************************************************************)
EXTENDS Integers

CONSTANTS Users,        \* wallet owners
          RequestKeys,  \* client-chosen idempotency keys
          Points        \* amounts a withdrawal may ask for

VARIABLES spendable,    \* [Users -> Nat], points a user may still withdraw
          claim         \* [Users -> [RequestKeys -> [state, points]]]

vars == <<spendable, claim>>

NoClaim == [state |-> "none", points |-> 0]

Init ==
    /\ spendable \in [Users -> Nat]
    /\ claim = [u \in Users |-> [k \in RequestKeys |-> NoClaim]]

Held(u) == {k \in RequestKeys : claim[u][k].state = "held"}

\* Rewards and freed reservations only ever add points.
Earn(u) ==
    /\ spendable' = [spendable EXCEPT ![u] = spendable'[u]]
    /\ spendable'[u] > spendable[u]
    /\ UNCHANGED claim

\* A request takes its points at once.  Reservations that lapsed may be freed
\* by the same step, so the balance falls by at most the points asked for.
Hold(u, k) ==
    \E p \in Points :
        /\ claim[u][k] = NoClaim
        /\ Held(u) = {}
        /\ claim' = [claim EXCEPT ![u][k] = [state |-> "held", points |-> p]]
        /\ spendable' = [spendable EXCEPT ![u] = spendable'[u]]
        /\ spendable'[u] >= 0
        /\ spendable'[u] >= spendable[u] - p

\* The bank transfer was made: the points are gone for good.
Pay(u, k) ==
    /\ claim[u][k].state = "held"
    /\ claim' = [claim EXCEPT ![u][k].state = "paid"]
    /\ UNCHANGED spendable

\* The request was refused: exactly its points come back.
Return(u, k) ==
    /\ claim[u][k].state = "held"
    /\ claim' = [claim EXCEPT ![u][k].state = "returned"]
    /\ spendable' = [spendable EXCEPT ![u] = @ + claim[u][k].points]

Next ==
    \E u \in Users :
        \/ Earn(u)
        \/ \E k \in RequestKeys : Hold(u, k) \/ Pay(u, k) \/ Return(u, k)

Spec == Init /\ [][Next]_vars
=============================================================================
