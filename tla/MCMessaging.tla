----------------------------- MODULE MCMessaging -----------------------------
(* A first contact about two products, with replies and pages; bookings of a    *)
(* slot beside a chat; a thread with receipts; a ticket of the support desk.    *)
EXTENDS Messaging, TLC

CONSTANTS c1, c2, b1, b2, p1, k1, k2, s1, s2

MCContacts == {c1, c2}
MCReferences == {b1, b2, p1, k1, k2}
MCBookings == {k1, k2}
MCBy == [r \in MCReferences |-> IF r = p1 THEN "desk" ELSE "customer"]
MCWriters == {s1, s2}
MCScenes ==
    {[channel |-> "business", does |-> {"contact", "send", "page"}],
     [channel |-> "business", does |-> {"contact", "book"}],
     [channel |-> "business", does |-> {"contact", "receipt"}],
     [channel |-> "support", does |-> {"read"}]}
Alike == Permutations(MCContacts) \cup Permutations(MCWriters) \cup Permutations({b1, b2}) \cup
         Permutations(MCBookings)
=============================================================================
