-------------------------- MODULE MerchantFulfilment --------------------------
(***************************************************************************)
(* What a seller does with paid orders: single and bulk transitions of     *)
(* order_fulfillments, manifests that dispatch imported orders together,   *)
(* and what ends an order: the buyer's receipt or the auto-confirm worker. *)
(* The review reward they offer is paid by XPWallet's postings.            *)
(*                                                                         *)
(* A handler reads whether the seller's money was released (merchant_      *)
(* ledger) in one statement and writes in later ones.  The fulfilment row  *)
(* is locked in between, the ledger row is not: a reversal may commit      *)
(* after the gate was passed.  Reads of the gate are therefore steps of    *)
(* their own; everything else of a handler happens under its row locks,    *)
(* in one step.                                                            *)
(*                                                                         *)
(* Abstractions.  Single requests are bulk requests of one order.  A       *)
(* request that is sent again is a second request with the version its     *)
(* sender saw; finding its idempotency key it saves nothing, as it does    *)
(* finding a newer version.  Carriers, notes and notifications are left    *)
(* out.  Of the events of an order only their number and the last one are  *)
(* kept.  late and released are history: the program does not store them.  *)
(*                                                                         *)
(* A definition introduced by "Slip:" is an operation with one plausible   *)
(* mistake; no behaviour of Spec uses it, it shows that the property named *)
(* beside it would notice.                                                 *)
(***************************************************************************)
EXTENDS Integers, FiniteSets

CONSTANTS
    Orders,     \* paid orders of one seller
    Manifests,  \* manifest ids
    Sessions,   \* requests of the seller's staff under way
    Routings,   \* the routes the orders may have
    MaxNews     \* bound: payouts released or taken back

Local == "merchant_local"
Import == "merchant_cross_border"

ASSUME RoutingsAssumption == Routings \subseteq [Orders -> {Local, Import}]
ASSUME BoundAssumption == MaxNews \in Nat

VARIABLES
    route,     \* orders.fulfillment_mode
    fulfil,    \* order_fulfillments: status and version
    trail,     \* fulfillment_events: how many, the last one's statuses
    order,     \* orders: stage, status, delivery_confirmed
    ledger,    \* merchant_ledger.settlement_status
    manifest,  \* merchant_manifests with merchant_manifest_orders
    session,   \* the request of each session
    late,      \* moves of an order since its payout was reversed
    released,  \* orders whose payout was released once
    news

deal == <<route, ledger, released, news>>
vars == <<route, fulfil, trail, order, ledger, manifest, session, late, released, news>>

Early == {"pending", "accepted", "processing"}
Statuses == Early \cup {"packed", "ready_for_pickup", "out_for_delivery", "delivered",
                        "dispatched_from_origin", "international_transit",
                        "customs_clearance", "local_hub"}

\* Slip: a delivery may be reported again (CompletedForGood).
NextStatusesAgain(r, from) ==
    CASE from = "pending"   -> {"accepted"}
      [] from = "accepted"  -> IF r = Local THEN {"packed"} ELSE {"processing"}
      [] from = "packed"    -> {"ready_for_pickup", "out_for_delivery"}
      [] OTHER              -> {"delivered"}

\* merchantLocalTransitions, merchantCrossBorderTransitions
NextStatuses(r, from) ==
    CASE from = "pending"  -> {"accepted"}
      [] from = "accepted" -> IF r = Local THEN {"packed"} ELSE {"processing"}
      [] from = "packed" /\ r = Local -> {"ready_for_pickup", "out_for_delivery"}
      [] from = "processing"             -> {"dispatched_from_origin"}
      [] from = "dispatched_from_origin" -> {"international_transit"}
      [] from = "international_transit"  -> {"customs_clearance", "local_hub"}
      [] from = "customs_clearance"      -> {"local_hub"}
      [] from = "local_hub"              -> {"ready_for_pickup", "out_for_delivery"}
      [] from \in {"ready_for_pickup", "out_for_delivery"} -> {"delivered"}
      [] OTHER -> {}

Stages == {"Order Placed", "Arrived at International Hub", "In Transit Internationally",
           "Arrived at Local Hub", "Out for Delivery", "Delivered"}

\* legacyStageForFulfillment: current_tracking_stage and order_status.
Stage(r, status) ==
    CASE status \in {"international_transit", "customs_clearance"}
           -> <<"In Transit Internationally", "Shipped">>
      [] status \in {"local_hub", "ready_for_pickup"} -> <<"Arrived at Local Hub", "Shipped">>
      [] status = "out_for_delivery" -> <<"Out for Delivery", "Shipped">>
      [] status = "delivered"        -> <<"Delivered", "Delivered">>
      [] status \in {"processing", "dispatched_from_origin"}
           -> <<"Arrived at International Hub", "Paid">>
      [] status \in {"accepted", "packed"} /\ r = Import
           -> <<"Arrived at International Hub", "Paid">>
      [] OTHER -> <<"Order Placed", "Paid">>

\* A request: what it wants, the orders whose gate is still to be read, and
\* the versions its sender saw.
NoRequest == [kind |-> "none", orders |-> {}, to |-> "", on |-> {}, unread |-> {},
              expect |-> [o \in Orders |-> 0]]

Init ==
    /\ route \in Routings
    /\ fulfil = [o \in Orders |-> [status |-> "pending", version |-> 1]]
    /\ trail = [o \in Orders |-> [count |-> 0, from |-> "pending", to |-> "pending"]]
    /\ order = [o \in Orders |-> [stage |-> "Order Placed", status |-> "Paid",
                                  confirmed |-> FALSE]]
    /\ ledger = [o \in Orders |-> "pending"]
    /\ manifest = [m \in Manifests |-> [status |-> "none", version |-> 1, orders |-> {}]]
    /\ session = [s \in Sessions |-> NoRequest]
    /\ late = [o \in Orders |-> 0]
    /\ released = {}
    /\ news = 0

Manifested(o) == \E m \in Manifests : o \in manifest[m].orders
Drop(s) == session' = [session EXCEPT ![s] = NoRequest]

-----------------------------------------------------------------------------
(* The settlement worker *)

\* The seller's payout is released, or released again.
Release(o) ==
    /\ ledger[o] # "settled"
    /\ news < MaxNews /\ news' = news + 1
    /\ ledger' = [ledger EXCEPT ![o] = "settled"]
    /\ released' = released \cup {o}
    /\ late' = [late EXCEPT ![o] = 0]
    /\ UNCHANGED <<route, fulfil, trail, order, manifest, session>>

\* The seller's payout is taken back.
Reverse(o) ==
    /\ ledger[o] = "settled"
    /\ news < MaxNews /\ news' = news + 1
    /\ ledger' = [ledger EXCEPT ![o] = "reversed"]
    /\ UNCHANGED <<route, released, late, fulfil, trail, order, manifest, session>>

-----------------------------------------------------------------------------
(* Requests *)

\* Requests for different orders share no row: only those that meet are
\* under way together.
Send(s, request) ==
    /\ session[s] = NoRequest
    /\ \A t \in Sessions \ {s} :
          session[t] = NoRequest \/ session[t].orders \cap request.orders # {}
    /\ session' = [session EXCEPT ![s] = request]
    /\ UNCHANGED <<deal, late, fulfil, trail, order, manifest>>

\* A member of the staff moves orders on that a list shows at the same stage,
\* or asks for the end at once.
AskMove(s) ==
    \E os \in (SUBSET Orders) \ {{}} :
    \E to \in {"delivered"} \cup UNION {NextStatuses(route[o], fulfil[o].status) : o \in os} :
       /\ \A o, q \in os : route[o] = route[q] /\ fulfil[o].status = fulfil[q].status
       /\ Send(s, [NoRequest EXCEPT !.kind = "move", !.orders = os, !.to = to,
                     !.unread = {o \in os : route[o] = Import},
                     !.expect = [o \in Orders |-> IF o \in os THEN fulfil[o].version ELSE 0]])

\* A manifest is made of orders that look ready for one.
AskCreate(s) ==
    /\ \E m \in Manifests : manifest[m].status = "none"
    /\ \E os \in (SUBSET {o \in Orders : route[o] = Import /\ fulfil[o].status \in Early}) \ {{}} :
          Send(s, [NoRequest EXCEPT !.kind = "create", !.orders = os, !.unread = os])

NextManifest(from) ==
    CASE from = "open"       -> {"closed", "cancelled"}
      [] from = "closed"     -> {"dispatched", "cancelled"}
      [] from = "dispatched" -> {"completed"}
      [] OTHER               -> {}

AskManifest(s) ==
    \E m \in Manifests : \E to \in NextManifest(manifest[m].status) :
       Send(s, [NoRequest EXCEPT !.kind = "manifest", !.to = to,
                  !.on = {[id |-> m, version |-> manifest[m].version]},
                  !.orders = manifest[m].orders,
                  !.unread = IF to = "dispatched" THEN manifest[m].orders ELSE {}])

-----------------------------------------------------------------------------
(* Handlers *)

\* The seller has the money for this imported order.
GateOpen(o) == ledger[o] = "settled"

\* BulkTransitionMerchantOrders, transitionFulfillment: the gate of one order.
\* A closed gate ends the request with nothing saved.
ReadMove(s, o) ==
    /\ session[s].kind = "move" /\ o \in session[s].unread
    /\ IF GateOpen(o) THEN session' = [session EXCEPT ![s].unread = @ \ {o}]
                      ELSE Drop(s)
    /\ UNCHANGED <<deal, late, fulfil, trail, order, manifest>>

\* CreateMerchantManifest: the SELECT for one order.
ReadCreate(s, o) ==
    /\ session[s].kind = "create" /\ o \in session[s].unread
    /\ IF GateOpen(o) /\ fulfil[o].status \in Early /\ ~Manifested(o)
         THEN session' = [session EXCEPT ![s].unread = @ \ {o}]
         ELSE Drop(s)
    /\ UNCHANGED <<deal, late, fulfil, trail, order, manifest>>

\* TransitionMerchantManifest: the gate of all members, in one statement whose
\* snapshot is taken before it waits for their locks.
ReadMembers(s) ==
    /\ session[s].kind = "manifest" /\ session[s].unread # {}
    /\ IF \A o \in session[s].unread : GateOpen(o)
         THEN session' = [session EXCEPT ![s].unread = {}]
         ELSE Drop(s)
    /\ UNCHANGED <<deal, late, fulfil, trail, order, manifest>>

\* The rows every move writes: fulfilment, order, event.
Advance(os, to) ==
    /\ fulfil' = [o \in Orders |-> IF o \in os
                    THEN [status |-> to, version |-> fulfil[o].version + 1] ELSE fulfil[o]]
    /\ order' = [o \in Orders |-> IF o \in os
                   THEN [order[o] EXCEPT !.stage = Stage(route[o], to)[1],
                                         !.status = Stage(route[o], to)[2]]
                   ELSE order[o]]
    /\ trail' = [o \in Orders |-> IF o \in os
                   THEN [count |-> trail[o].count + 1, from |-> fulfil[o].status, to |-> to]
                   ELSE trail[o]]
    /\ late' = [o \in Orders |-> IF o \in os /\ ledger[o] = "reversed"
                  THEN late[o] + 1 ELSE late[o]]

\* Slip: the version the sender saw is not compared (ReversalBlocks).
MoveUnversioned(s) ==
    LET r == session[s] IN
    /\ r.kind = "move" /\ r.unread = {}
    /\ IF \A o \in r.orders : r.to \in NextStatuses(route[o], fulfil[o].status)
         THEN Advance(r.orders, r.to) /\ Drop(s)
         ELSE Drop(s) /\ UNCHANGED <<late, fulfil, trail, order>>
    /\ UNCHANGED <<deal, manifest>>

\* The rest of BulkTransitionMerchantOrders and transitionFulfillment: all of
\* the orders move or none does.  A request that is sent again finds its key
\* or a newer version, and saves nothing.
Move(s) ==
    LET r == session[s] IN
    /\ r.kind = "move" /\ r.unread = {}
    /\ IF \A o \in r.orders : /\ fulfil[o].version = r.expect[o]
                              /\ r.to \in NextStatuses(route[o], fulfil[o].status)
         THEN Advance(r.orders, r.to) /\ Drop(s)
         ELSE Drop(s) /\ UNCHANGED <<late, fulfil, trail, order>>
    /\ UNCHANGED <<deal, manifest>>

\* The rest of CreateMerchantManifest; an order is in one manifest at most
\* (UNIQUE), whatever became of that manifest.
Create(s) ==
    LET r == session[s] IN
    /\ r.kind = "create" /\ r.unread = {}
    /\ IF \A o \in r.orders : ~Manifested(o)
         THEN \E m \in Manifests :
                /\ manifest[m].status = "none"
                /\ manifest' = [manifest EXCEPT ![m] =
                                  [status |-> "open", version |-> 1, orders |-> r.orders]]
         ELSE UNCHANGED manifest
    /\ Drop(s)
    /\ UNCHANGED <<deal, late, fulfil, trail, order>>

\* Slip: members that are not ready are left behind (DispatchedTogether).
ChangeManifestPartly(s) ==
    LET r == session[s] IN
    /\ r.kind = "manifest" /\ r.unread = {}
    /\ \E seen \in r.on : LET m == seen.id IN
         IF manifest[m].version = seen.version /\ r.to \in NextManifest(manifest[m].status)
           THEN /\ manifest' = [manifest EXCEPT ![m].status = r.to, ![m].version = @ + 1]
                /\ IF r.to = "dispatched"
                     THEN Advance({o \in manifest[m].orders : fulfil[o].status = "processing"},
                                  "dispatched_from_origin")
                     ELSE UNCHANGED <<late, fulfil, trail, order>>
           ELSE UNCHANGED <<late, fulfil, trail, order, manifest>>
    /\ Drop(s)
    /\ UNCHANGED <<deal>>

\* The rest of TransitionMerchantManifest: a manifest is dispatched with all
\* of its orders or not at all.
ChangeManifest(s) ==
    LET r == session[s] IN
    /\ r.kind = "manifest" /\ r.unread = {}
    /\ \E seen \in r.on : LET m == seen.id IN
         IF /\ manifest[m].version = seen.version
            /\ r.to \in NextManifest(manifest[m].status)
            /\ r.to = "dispatched" =>
                 \A o \in manifest[m].orders : fulfil[o].status = "processing"
           THEN /\ manifest' = [manifest EXCEPT ![m].status = r.to, ![m].version = @ + 1]
                /\ IF r.to = "dispatched"
                     THEN Advance(manifest[m].orders, "dispatched_from_origin")
                     ELSE UNCHANGED <<late, fulfil, trail, order>>
           ELSE UNCHANGED <<late, fulfil, trail, order, manifest>>
    /\ Drop(s)
    /\ UNCHANGED <<deal>>

-----------------------------------------------------------------------------
(* The end of an order *)

Received(o) == order[o].stage = "Delivered" /\ ~order[o].confirmed

\* The completion of delivered orders.
Complete(os) ==
    /\ order' = [o \in Orders |-> IF o \in os
                   THEN [order[o] EXCEPT !.status = "Completed", !.confirmed = TRUE]
                   ELSE order[o]]
    /\ UNCHANGED <<deal, late, fulfil, trail, manifest, session>>

ConfirmReceipt(o) == Received(o) /\ order[o].status = "Delivered" /\ Complete({o})

\* AutoConfirmExpiredDeliveries: the deliveries older than three days.
AutoConfirm == \E os \in (SUBSET {o \in Orders : Received(o)}) \ {{}} : Complete(os)

Handle(s) ==
    \/ \E o \in Orders : ReadMove(s, o) \/ ReadCreate(s, o)
    \/ ReadMembers(s) \/ Move(s) \/ Create(s) \/ ChangeManifest(s)

Next ==
    \/ \E o \in Orders : Release(o) \/ Reverse(o) \/ ConfirmReceipt(o)
    \/ AutoConfirm
    \/ \E s \in Sessions : AskMove(s) \/ AskCreate(s) \/ AskManifest(s) \/ Handle(s)

Spec == Init /\ [][Next]_vars
-----------------------------------------------------------------------------
TypeOK ==
    /\ route \in Routings
    /\ fulfil \in [Orders -> [status : Statuses, version : Nat]]
    /\ order \in [Orders -> [stage : Stages, confirmed : BOOLEAN,
                             status : {"Paid", "Shipped", "Delivered", "Completed"}]]
    /\ ledger \in [Orders -> {"pending", "settled", "reversed"}]
    /\ \A m \in Manifests :
          /\ manifest[m].status \in {"none", "open", "closed", "dispatched", "completed",
                                     "cancelled"}
          /\ manifest[m].version \in Nat /\ manifest[m].orders \subseteq Orders
    /\ \A s \in Sessions : session[s].kind \in {"none", "move", "create", "manifest"}
    /\ released \subseteq Orders

\* The events of an order tell its whole story: each begins where the one
\* before ended and is a step the route allows, the last one says where the
\* order is, and there is one for every version, whoever moved the order.
TrailUnbroken ==
    [][\A o \in Orders :
         /\ fulfil'[o].status = trail'[o].to
         /\ fulfil'[o].version = trail'[o].count + 1
         /\ trail'[o] # trail[o] =>
              /\ trail'[o].from = trail[o].to
              /\ trail'[o].to \in NextStatuses(route[o], trail[o].to)]_vars

\* Buyers are shown orders.current_tracking_stage and order_status, which
\* other handlers write too: they are those of the fulfilment, and an order
\* is completed only when it was delivered.
StagesAgree ==
    \A o \in Orders :
       LET shown == Stage(route[o], fulfil[o].status) IN
       /\ order[o].stage = shown[1]
       /\ order[o].status = IF order[o].confirmed THEN "Completed" ELSE shown[2]
       /\ order[o].confirmed => fulfil[o].status = "delivered"

\* "Imported orders remain blocked until Flutterwave reports the seller
\* settlement released" (docs/SELLER_SETTLEMENTS.md:3).
NothingBeforeRelease ==
    \A o \in Orders :
       route[o] = Import /\ fulfil[o].status # "pending" => o \in released

\* "Reversals ... block imported fulfilment" (docs/SELLER_SETTLEMENTS.md:98),
\* although the ledger is read without a lock: after a reversal an imported
\* order moves at most once more by a request that had passed the gate, and
\* once more with a manifest that had.
ReversalBlocks ==
    \A o \in Orders : route[o] = Import =>
       late[o] <= IF Manifested(o) THEN 2 ELSE 1

\* A dispatched manifest left with every order on it.
DispatchedTogether ==
    \A m \in Manifests : manifest[m].status \in {"dispatched", "completed"} =>
       \A o \in manifest[m].orders : fulfil[o].status \notin Early

\* A completed order is never reopened by a late request.
CompletedForGood ==
    [][\A o \in Orders : order[o].status = "Completed" => order'[o].status = "Completed"]_vars

\* The gate of the settlement, as docs/SELLER_SETTLEMENTS.md promises it.
ReleaseGate == NothingBeforeRelease /\ ReversalBlocks

\* Orders, what buyers are shown of them, and manifests go together.
GoodsTogether == StagesAgree /\ DispatchedTogether

\* The past of an order is complete and is not rewritten.
StoryHolds == CompletedForGood /\ TrailUnbroken
=============================================================================
