----------------------- MODULE MerchantFulfilmentProofs -----------------------
(***************************************************************************)
(* Proofs about MerchantFulfilment, for any number of orders, manifests    *)
(* and requests under way.                                                 *)
(*                                                                         *)
(* The invariants about imported orders depend on what requests under way  *)
(* have read: a request that passed the gate may have done so before a     *)
(* reversal.  Inv says what such a request still knows (PassedReleased)    *)
(* and why it can move an order only once after a reversal (LateOK): the   *)
(* first late move raises the version every other request has seen.        *)
(***************************************************************************)
EXTENDS MerchantFulfilment, TLAPS

FulfilRow == [status : Statuses, version : Nat]
TrailRow == [count : Nat, from : Statuses, to : Statuses]
OrderRow == [stage : Stages, confirmed : BOOLEAN,
             status : {"Paid", "Shipped", "Delivered", "Completed"}]
ManifestRow == [status : {"none", "open", "closed", "dispatched", "completed", "cancelled"},
                version : Nat, orders : SUBSET Orders]
Request == [kind : {"none", "move", "create", "manifest"}, orders : SUBSET Orders,
            to : Statuses \cup {"", "closed", "cancelled", "dispatched", "completed"},
            on : SUBSET [id : Manifests, version : Nat], unread : SUBSET Orders, expect : [Orders -> Nat]]

RowsOK ==
    /\ route \in Routings
    /\ fulfil \in [Orders -> FulfilRow]
    /\ trail \in [Orders -> TrailRow]
    /\ order \in [Orders -> OrderRow]
    /\ ledger \in [Orders -> {"pending", "settled", "reversed"}]
    /\ manifest \in [Manifests -> ManifestRow]
    /\ session \in [Sessions -> Request]
    /\ late \in [Orders -> Nat]
    /\ released \subseteq Orders

\* The last event of an order is where it is.
TrailOK == \A o \in Orders : /\ fulfil[o].status = trail[o].to
                             /\ fulfil[o].version = trail[o].count + 1

\* A manifest that does not exist holds nothing.
ManifestsOK == \A m \in Manifests : manifest[m].status = "none" => manifest[m].orders = {}

SettledReleased == \A o \in Orders : ledger[o] = "settled" => o \in released

\* No request has seen a version that is still to come.
ExpectsOK ==
    \A s \in Sessions : session[s].kind = "move" =>
       \A o \in session[s].orders : session[s].expect[o] <= fulfil[o].version

\* The request of s to move the imported order o has read an open gate.
Passed(s, o) == /\ session[s].kind = "move" /\ route[o] = Import
                /\ o \in session[s].orders /\ o \notin session[s].unread

PassedReleased == \A s \in Sessions, o \in Orders : Passed(s, o) => o \in released

\* Once an imported order moved after a reversal, no request under way has
\* its version; the second late move is that of its manifest.
LateOK ==
    \A o \in Orders : route[o] = Import =>
       /\ late[o] <= 2
       /\ late[o] > 0 =>
            /\ ledger[o] = "reversed"
            /\ \A s \in Sessions : Passed(s, o) => session[s].expect[o] < fulfil[o].version
       /\ late[o] = 2 => fulfil[o].status \notin Early /\ Manifested(o)

Inv == /\ RowsOK
       /\ TrailOK
       /\ StagesAgree
       /\ ManifestsOK
       /\ DispatchedTogether
       /\ SettledReleased
       /\ NothingBeforeRelease
       /\ ExpectsOK
       /\ PassedReleased
       /\ LateOK

-----------------------------------------------------------------------------
(* The routes *)

LEMMA RouteOf == ASSUME RowsOK, NEW o \in Orders PROVE route[o] \in {Local, Import}
BY RoutingsAssumption DEF RowsOK

\* Only a delivered order is shown as delivered, and none as completed.
LEMMA StageFacts ==
    ASSUME NEW r \in {Local, Import}, NEW status \in Statuses
    PROVE  /\ Stage(r, status)[1] \in Stages
           /\ Stage(r, status)[2] \in {"Paid", "Shipped", "Delivered"}
           /\ Stage(r, status)[1] = "Delivered" <=> status = "delivered"
<1>1. CASE status \in {"international_transit", "customs_clearance"}
  BY <1>1 DEF Stage, Stages
<1>2. CASE status \in {"local_hub", "ready_for_pickup"}
  BY <1>2 DEF Stage, Stages
<1>3. CASE status \in {"out_for_delivery", "delivered"}
  BY <1>3 DEF Stage, Stages
<1>4. CASE status \in {"processing", "dispatched_from_origin"}
  BY <1>4 DEF Stage, Stages
<1>5. CASE status \in {"accepted", "packed"} /\ r = Import
  BY <1>5 DEF Stage, Stages
<1>6. CASE status = "pending"
  BY <1>6 DEF Stage, Stages
<1>7. CASE status \in {"accepted", "packed"} /\ r # Import
  BY <1>7 DEF Stage, Stages
<1>8. \/ status \in {"international_transit", "customs_clearance"}
      \/ status \in {"local_hub", "ready_for_pickup"}
      \/ status \in {"out_for_delivery", "delivered"}
      \/ status \in {"processing", "dispatched_from_origin"}
      \/ status \in {"accepted", "packed"}
      \/ status = "pending"
  BY DEF Statuses, Early
<1>9. QED BY <1>1, <1>2, <1>3, <1>4, <1>5, <1>6, <1>7, <1>8, Zenon

\* No step starts at the end, leads back to the beginning, or undoes the
\* departure of an order.
LEMMA StepFacts ==
    ASSUME NEW r \in {Local, Import}, NEW from \in Statuses, NEW to \in NextStatuses(r, from)
    PROVE  /\ to \in Statuses
           /\ from # "delivered"
           /\ to # "pending"
           /\ from \notin Early => to \notin Early
BY DEF NextStatuses, Statuses, Early, Local, Import

\* A manifest may leave with every order that is being processed.
LEMMA DepartureIsStep ==
    ASSUME NEW r
    PROVE  /\ "dispatched_from_origin" \in NextStatuses(r, "processing")
           /\ "dispatched_from_origin" \in Statuses \ Early
BY DEF NextStatuses, Statuses, Early

-----------------------------------------------------------------------------
(* Requests that come, read and go *)

\* A step of requests alone keeps the invariant, if whoever has passed the
\* gate had passed it before, or passes it now that the payout is released.
LEMMA SessionsMove ==
    ASSUME Inv, UNCHANGED <<deal, late, fulfil, trail, order, manifest>>,
           session' \in [Sessions -> Request],
           \A s \in Sessions : session'[s].kind = "move" =>
              \A o \in session'[s].orders : session'[s].expect[o] <= fulfil[o].version,
           \A s \in Sessions, o \in Orders : Passed(s, o)' =>
              \/ Passed(s, o) /\ session'[s].expect = session[s].expect
              \/ ledger[o] = "settled"
    PROVE  Inv'
<1>1. UNCHANGED <<route, ledger, released>>
  BY DEF deal
<1>2. RowsOK'
  BY <1>1 DEF Inv, RowsOK
<1>3. TrailOK' /\ StagesAgree' /\ ManifestsOK' /\ DispatchedTogether'
      /\ SettledReleased' /\ NothingBeforeRelease'
  BY <1>1 DEF Inv, TrailOK, StagesAgree, ManifestsOK, DispatchedTogether, SettledReleased,
              NothingBeforeRelease
<1>4. ExpectsOK'
  BY DEF ExpectsOK
<1>5. PassedReleased'
  BY <1>1 DEF Inv, PassedReleased, SettledReleased
<1>6. LateOK'
  <2>1. SUFFICES ASSUME NEW o \in Orders, route[o] = Import, late[o] > 0,
                        NEW s \in Sessions, Passed(s, o)'
                 PROVE  session'[s].expect[o] < fulfil[o].version
    BY <1>1 DEF Inv, LateOK, Manifested
  <2>2. ledger[o] = "reversed"
    BY <2>1 DEF Inv, LateOK
  <2>3. Passed(s, o) /\ session'[s].expect = session[s].expect
    BY <2>1, <2>2
  <2>4. QED BY <2>1, <2>3 DEF Inv, LateOK
<1>7. QED BY <1>2, <1>3, <1>4, <1>5, <1>6 DEF Inv

LEMMA NoRequestType == NoRequest \in Request /\ NoRequest.kind = "none"
BY DEF NoRequest, Request

\* What dropping a request changes.
LEMMA DropEffect ==
    ASSUME session \in [Sessions -> Request], NEW s \in Sessions, Drop(s)
    PROVE  /\ session' \in [Sessions -> Request]
           /\ session'[s].kind = "none"
           /\ \A t \in Sessions : t # s => session'[t] = session[t]
BY NoRequestType DEF Drop

LEMMA DropStep ==
    ASSUME Inv, NEW s \in Sessions, Drop(s),
           UNCHANGED <<deal, late, fulfil, trail, order, manifest>>
    PROVE  Inv'
<1>1. /\ session' \in [Sessions -> Request]
      /\ session'[s].kind = "none"
      /\ \A t \in Sessions : t # s => session'[t] = session[t]
  BY DropEffect DEF Inv, RowsOK
<1>2. \A t \in Sessions : session'[t].kind = "move" =>
         t # s /\ session'[t] = session[t]
  BY <1>1
<1>3. UNCHANGED route
  BY DEF deal
<1>4. \A t \in Sessions, o \in Orders : Passed(t, o)' =>
         Passed(t, o) /\ session'[t].expect = session[t].expect
  BY <1>2, <1>3 DEF Passed
<1>5. \A t \in Sessions : session'[t].kind = "move" =>
         \A o \in session'[t].orders : session'[t].expect[o] <= fulfil[o].version
  BY <1>2 DEF Inv, ExpectsOK
<1>6. QED BY <1>1, <1>4, <1>5, SessionsMove

\* A request that comes has passed no gate yet.
LEMMA SendStep ==
    ASSUME Inv, NEW s \in Sessions, NEW request \in Request, Send(s, request),
           request.kind = "move" =>
              \A o \in request.orders : /\ request.expect[o] <= fulfil[o].version
                                        /\ route[o] = Import => o \in request.unread
    PROVE  Inv'
<1>1. /\ session' = [session EXCEPT ![s] = request]
      /\ UNCHANGED <<deal, late, fulfil, trail, order, manifest>>
  BY DEF Send
<1>2. /\ session' \in [Sessions -> Request]
      /\ session'[s] = request
      /\ \A t \in Sessions : t # s => session'[t] = session[t]
  BY <1>1 DEF Inv, RowsOK
<1>3. UNCHANGED route
  BY <1>1 DEF deal
<1>4. \A t \in Sessions, o \in Orders : Passed(t, o)' =>
         Passed(t, o) /\ session'[t].expect = session[t].expect
  BY <1>2, <1>3 DEF Passed
<1>5. \A t \in Sessions : session'[t].kind = "move" =>
         \A o \in session'[t].orders : session'[t].expect[o] <= fulfil[o].version
  BY <1>2 DEF Inv, ExpectsOK
<1>6. QED BY <1>1, <1>2, <1>4, <1>5, SessionsMove

LEMMA AskMoveStep == ASSUME Inv, NEW s \in Sessions, AskMove(s) PROVE Inv'
<1>0. PICK os \in SUBSET Orders :
      \E to \in {"delivered"} \cup UNION {NextStatuses(route[o], fulfil[o].status) : o \in os} :
         Send(s, [NoRequest EXCEPT !.kind = "move", !.orders = os, !.to = to,
                    !.unread = {o \in os : route[o] = Import},
                    !.expect = [o \in Orders |-> IF o \in os THEN fulfil[o].version ELSE 0]])
  BY DEF AskMove
<1>1. PICK to \in {"delivered"} \cup UNION {NextStatuses(route[o], fulfil[o].status) : o \in os} :
         Send(s, [NoRequest EXCEPT !.kind = "move", !.orders = os, !.to = to,
                    !.unread = {o \in os : route[o] = Import},
                    !.expect = [o \in Orders |-> IF o \in os THEN fulfil[o].version ELSE 0]])
  BY <1>0
<1>2. PICK request : request =
         [NoRequest EXCEPT !.kind = "move", !.orders = os, !.to = to,
                    !.unread = {o \in os : route[o] = Import},
                    !.expect = [o \in Orders |-> IF o \in os THEN fulfil[o].version ELSE 0]]
  OBVIOUS
<1>3. to \in Statuses
  <2>1. \A o \in os : NextStatuses(route[o], fulfil[o].status) \subseteq Statuses
    BY RouteOf, StepFacts DEF Inv, RowsOK, FulfilRow
  <2>2. QED BY <2>1 DEF Statuses
<1>4. [o \in Orders |-> IF o \in os THEN fulfil[o].version ELSE 0] \in [Orders -> Nat]
  BY DEF Inv, RowsOK, FulfilRow
<1>5. /\ request \in Request /\ request.orders = os
      /\ request.unread = {o \in os : route[o] = Import}
      /\ request.expect = [o \in Orders |-> IF o \in os THEN fulfil[o].version ELSE 0]
  BY <1>2, <1>3, <1>4 DEF NoRequest, Request
<1>6. \A o \in os : fulfil[o].version \in Nat /\ request.expect[o] = fulfil[o].version
  BY <1>5 DEF Inv, RowsOK, FulfilRow
<1>7. \A o \in os : request.expect[o] <= fulfil[o].version
  BY <1>6
<1>8. QED BY <1>1, <1>2, <1>5, <1>7, SendStep

LEMMA AskCreateStep == ASSUME Inv, NEW s \in Sessions, AskCreate(s) PROVE Inv'
<1>1. PICK os \in SUBSET Orders :
         Send(s, [NoRequest EXCEPT !.kind = "create", !.orders = os, !.unread = os])
  BY DEF AskCreate
<1>2. PICK request : request = [NoRequest EXCEPT !.kind = "create", !.orders = os, !.unread = os]
  OBVIOUS
<1>3. request \in Request /\ request.kind = "create"
  BY <1>2 DEF NoRequest, Request
<1>4. QED BY <1>1, <1>2, <1>3, SendStep

LEMMA AskManifestStep == ASSUME Inv, NEW s \in Sessions, AskManifest(s) PROVE Inv'
<1>0. PICK m \in Manifests : \E to \in NextManifest(manifest[m].status) :
         Send(s, [NoRequest EXCEPT !.kind = "manifest", !.to = to,
                    !.on = {[id |-> m, version |-> manifest[m].version]},
                    !.orders = manifest[m].orders,
                    !.unread = IF to = "dispatched" THEN manifest[m].orders ELSE {}])
  BY DEF AskManifest
<1>1. PICK to \in NextManifest(manifest[m].status) :
         Send(s, [NoRequest EXCEPT !.kind = "manifest", !.to = to,
                    !.on = {[id |-> m, version |-> manifest[m].version]},
                    !.orders = manifest[m].orders,
                    !.unread = IF to = "dispatched" THEN manifest[m].orders ELSE {}])
  BY <1>0
<1>2. PICK request : request =
         [NoRequest EXCEPT !.kind = "manifest", !.to = to,
                    !.on = {[id |-> m, version |-> manifest[m].version]},
                    !.orders = manifest[m].orders,
                    !.unread = IF to = "dispatched" THEN manifest[m].orders ELSE {}]
  OBVIOUS
<1>3. manifest[m] \in ManifestRow
  BY DEF Inv, RowsOK
<1>4. to \in {"closed", "cancelled", "dispatched", "completed"}
  BY DEF NextManifest
<1>5. /\ request.kind = "manifest" /\ request.to = to
      /\ request.orders = manifest[m].orders
      /\ request.on = {[id |-> m, version |-> manifest[m].version]}
      /\ request.unread = IF to = "dispatched" THEN manifest[m].orders ELSE {}
      /\ request.expect = [o \in Orders |-> 0]
      /\ request = [kind |-> request.kind, orders |-> request.orders, to |-> request.to,
                    on |-> request.on, unread |-> request.unread, expect |-> request.expect]
  BY <1>2 DEF NoRequest
<1>6. /\ request.orders \in SUBSET Orders /\ request.unread \in SUBSET Orders
      /\ request.on \in SUBSET [id : Manifests, version : Nat]
      /\ request.expect \in [Orders -> Nat]
  BY <1>3, <1>5 DEF ManifestRow
<1>7. request \in Request
  BY <1>4, <1>5, <1>6 DEF Request
<1>8. QED BY <1>1, <1>2, <1>5, <1>7, SendStep

\* Reading the gates of some orders: a request goes on when they are open.
LEMMA ReadStep ==
    ASSUME Inv, NEW s \in Sessions, NEW unread \in SUBSET Orders,
           session' = [session EXCEPT ![s].unread = unread],
           \A o \in Orders : o \in session[s].unread \ unread => GateOpen(o),
           UNCHANGED <<deal, late, fulfil, trail, order, manifest>>
    PROVE  Inv'
<1>1. session \in [Sessions -> Request]
  BY DEF Inv, RowsOK
<1>2. /\ session' \in [Sessions -> Request]
      /\ session'[s].unread = unread
      /\ \A t \in Sessions : /\ session'[t].kind = session[t].kind
                             /\ session'[t].orders = session[t].orders
                             /\ session'[t].expect = session[t].expect
                             /\ t # s => session'[t] = session[t]
  BY <1>1 DEF Request
<1>3. UNCHANGED route
  BY DEF deal
<1>4. ASSUME NEW t \in Sessions, NEW o \in Orders, Passed(t, o)'
      PROVE  \/ Passed(t, o) /\ session'[t].expect = session[t].expect
             \/ ledger[o] = "settled"
  BY <1>2, <1>3, <1>4 DEF Passed, GateOpen
<1>5. \A t \in Sessions : session'[t].kind = "move" =>
         \A o \in session'[t].orders : session'[t].expect[o] <= fulfil[o].version
  BY <1>2 DEF Inv, ExpectsOK
<1>6. QED BY <1>2, <1>4, <1>5, SessionsMove

LEMMA ReadMoveStep ==
    ASSUME Inv, NEW s \in Sessions, NEW o \in Orders, ReadMove(s, o) \/ ReadCreate(s, o)
    PROVE  Inv'
<1>1. UNCHANGED <<deal, late, fulfil, trail, order, manifest>>
  BY DEF ReadMove, ReadCreate
<1>2. CASE Drop(s)
  BY <1>1, <1>2, DropStep
<1>3. CASE GateOpen(o) /\ session' = [session EXCEPT ![s].unread = @ \ {o}]
  <2>1. PICK unread : unread = session[s].unread \ {o}
    OBVIOUS
  <2>2. unread \in SUBSET Orders
    BY <2>1 DEF Inv, RowsOK, Request
  <2>3. session' = [session EXCEPT ![s].unread = unread]
    BY <1>3, <2>1
  <2>4. \A q \in Orders : q \in session[s].unread \ unread => GateOpen(q)
    BY <1>3, <2>1
  <2>5. QED BY <1>1, <2>2, <2>3, <2>4, ReadStep
<1>4. QED BY <1>2, <1>3 DEF ReadMove, ReadCreate

LEMMA ReadMembersStep == ASSUME Inv, NEW s \in Sessions, ReadMembers(s) PROVE Inv'
<1>1. UNCHANGED <<deal, late, fulfil, trail, order, manifest>>
  BY DEF ReadMembers
<1>2. CASE Drop(s)
  BY <1>1, <1>2, DropStep
<1>3. CASE (\A o \in session[s].unread : GateOpen(o)) /\ session' = [session EXCEPT ![s].unread = {}]
  <2>1. PICK unread : unread = {}
    OBVIOUS
  <2>2. session' = [session EXCEPT ![s].unread = unread] /\ unread \in SUBSET Orders
    BY <1>3, <2>1
  <2>3. \A q \in Orders : q \in session[s].unread \ unread => GateOpen(q)
    BY <1>3
  <2>4. QED BY <1>1, <2>2, <2>3, ReadStep
<1>4. QED BY <1>2, <1>3 DEF ReadMembers

-----------------------------------------------------------------------------
(* The settlement worker *)

LEMMA ReleaseStep == ASSUME Inv, NEW o \in Orders, Release(o) PROVE Inv'
<1>1. /\ ledger' = [ledger EXCEPT ![o] = "settled"] /\ released' = released \cup {o}
      /\ late' = [late EXCEPT ![o] = 0]
      /\ UNCHANGED <<route, fulfil, trail, order, manifest, session>>
  BY DEF Release
<1>2. /\ ledger \in [Orders -> {"pending", "settled", "reversed"}]
      /\ late \in [Orders -> Nat] /\ released \subseteq Orders
  BY DEF Inv, RowsOK
<1>3. /\ \A q \in Orders : ledger'[q] = (IF q = o THEN "settled" ELSE ledger[q])
      /\ \A q \in Orders : late'[q] = (IF q = o THEN 0 ELSE late[q])
      /\ \A t \in Sessions, q \in Orders : Passed(t, q)' = Passed(t, q)
  BY <1>1, <1>2 DEF Passed
<1>4. RowsOK'
  BY <1>1, <1>2 DEF Inv, RowsOK
<1>5. TrailOK' /\ StagesAgree' /\ ManifestsOK' /\ DispatchedTogether' /\ ExpectsOK'
  BY <1>1 DEF Inv, TrailOK, StagesAgree, ManifestsOK, DispatchedTogether, ExpectsOK
<1>6. SettledReleased' /\ NothingBeforeRelease' /\ PassedReleased'
  BY <1>1, <1>3 DEF Inv, SettledReleased, NothingBeforeRelease, PassedReleased
<1>7. LateOK'
  BY <1>1, <1>3 DEF Inv, LateOK, Manifested
<1>8. QED BY <1>4, <1>5, <1>6, <1>7 DEF Inv

LEMMA ReverseStep == ASSUME Inv, NEW o \in Orders, Reverse(o) PROVE Inv'
<1>1. /\ ledger[o] = "settled" /\ ledger' = [ledger EXCEPT ![o] = "reversed"]
      /\ UNCHANGED <<route, released, late, fulfil, trail, order, manifest, session>>
  BY DEF Reverse
<1>2. ledger \in [Orders -> {"pending", "settled", "reversed"}]
  BY DEF Inv, RowsOK
<1>3. /\ \A q \in Orders : ledger'[q] = (IF q = o THEN "reversed" ELSE ledger[q])
      /\ \A t \in Sessions, q \in Orders : Passed(t, q)' = Passed(t, q)
  BY <1>1, <1>2 DEF Passed
<1>4. RowsOK'
  BY <1>1, <1>2 DEF Inv, RowsOK
<1>5. TrailOK' /\ StagesAgree' /\ ManifestsOK' /\ DispatchedTogether' /\ ExpectsOK'
  BY <1>1 DEF Inv, TrailOK, StagesAgree, ManifestsOK, DispatchedTogether, ExpectsOK
<1>6. SettledReleased' /\ NothingBeforeRelease' /\ PassedReleased'
  BY <1>1, <1>3 DEF Inv, SettledReleased, NothingBeforeRelease, PassedReleased
<1>7. LateOK'
  BY <1>1, <1>3 DEF Inv, LateOK, Manifested
<1>8. QED BY <1>4, <1>5, <1>6, <1>7 DEF Inv

-----------------------------------------------------------------------------
(* Orders that move *)

\* The rows of the orders that move, and of those that stay.
LEMMA AdvanceEffect ==
    ASSUME RowsOK, NEW os \in SUBSET Orders, NEW to \in Statuses, Advance(os, to)
    PROVE  /\ fulfil' \in [Orders -> FulfilRow]
           /\ trail' \in [Orders -> TrailRow]
           /\ order' \in [Orders -> OrderRow]
           /\ late' \in [Orders -> Nat]
           /\ \A o \in os :
                /\ fulfil'[o].status = to /\ fulfil'[o].version = fulfil[o].version + 1
                /\ order'[o].stage = Stage(route[o], to)[1]
                /\ order'[o].status = Stage(route[o], to)[2]
                /\ order'[o].confirmed = order[o].confirmed
                /\ trail'[o].count = trail[o].count + 1
                /\ trail'[o].from = fulfil[o].status /\ trail'[o].to = to
                /\ late'[o] = IF ledger[o] = "reversed" THEN late[o] + 1 ELSE late[o]
           /\ \A o \in Orders \ os :
                /\ fulfil'[o] = fulfil[o] /\ order'[o] = order[o]
                /\ trail'[o] = trail[o] /\ late'[o] = late[o]
<1>1. ASSUME NEW o \in Orders
      PROVE  /\ fulfil[o] \in FulfilRow /\ trail[o] \in TrailRow
             /\ order[o] \in OrderRow /\ late[o] \in Nat
  BY DEF RowsOK
<1>2. fulfil' \in [Orders -> FulfilRow]
  <2>1. ASSUME NEW o \in Orders
        PROVE  [status |-> to, version |-> fulfil[o].version + 1] \in FulfilRow
    <3>1. fulfil[o].version \in Nat
      BY <1>1 DEF FulfilRow
    <3>2. QED BY <3>1 DEF FulfilRow
  <2>2. QED BY <1>1, <2>1 DEF Advance
<1>3. trail' \in [Orders -> TrailRow]
  <2>1. ASSUME NEW o \in Orders
        PROVE  [count |-> trail[o].count + 1, from |-> fulfil[o].status, to |-> to] \in TrailRow
    <3>1. trail[o].count \in Nat /\ fulfil[o].status \in Statuses
      BY <1>1 DEF FulfilRow, TrailRow
    <3>2. QED BY <3>1 DEF TrailRow
  <2>2. QED BY <1>1, <2>1 DEF Advance
<1>4. late' \in [Orders -> Nat]
  <2>1. \A o \in Orders : late[o] + 1 \in Nat
    BY <1>1
  <2>2. QED BY <1>1, <2>1 DEF Advance
<1>5. ASSUME NEW o \in os
      PROVE  /\ order'[o] \in OrderRow
             /\ order'[o].stage = Stage(route[o], to)[1]
             /\ order'[o].status = Stage(route[o], to)[2]
             /\ order'[o].confirmed = order[o].confirmed
  <2>1. /\ Stage(route[o], to)[1] \in Stages
        /\ Stage(route[o], to)[2] \in {"Paid", "Shipped", "Delivered"}
    BY RouteOf, StageFacts
  <2>2. PICK stage, status : stage = Stage(route[o], to)[1] /\ status = Stage(route[o], to)[2]
    OBVIOUS
  <2>3. order'[o] = [order[o] EXCEPT !.stage = stage, !.status = status]
    BY <2>2 DEF Advance
  <2>4. QED BY <1>1, <2>1, <2>2, <2>3 DEF OrderRow
<1>6. order' \in [Orders -> OrderRow]
  <2>1. PICK row : row = [o \in Orders |-> order'[o]]
    OBVIOUS
  <2>2. order' = row
    BY <2>1 DEF Advance
  <2>3. \A o \in Orders \ os : order'[o] = order[o]
    BY DEF Advance
  <2>4. QED BY <1>1, <1>5, <2>1, <2>2, <2>3
<1>7. ASSUME NEW o \in os
      PROVE  /\ fulfil'[o].status = to /\ fulfil'[o].version = fulfil[o].version + 1
             /\ trail'[o].count = trail[o].count + 1
             /\ trail'[o].from = fulfil[o].status /\ trail'[o].to = to
             /\ late'[o] = IF ledger[o] = "reversed" THEN late[o] + 1 ELSE late[o]
  BY DEF Advance
<1>8. ASSUME NEW o \in Orders \ os
      PROVE  /\ fulfil'[o] = fulfil[o] /\ order'[o] = order[o]
             /\ trail'[o] = trail[o] /\ late'[o] = late[o]
  BY DEF Advance
<1>9. QED BY <1>2, <1>3, <1>4, <1>5, <1>6, <1>7, <1>8

\* Only the status of manifests changes.
SameOrders == /\ manifest' \in [Manifests -> ManifestRow]
              /\ \A m \in Manifests : /\ manifest'[m].orders = manifest[m].orders
                                      /\ manifest'[m].status = "none" => manifest[m].status = "none"

\* What a handler must know of the orders it moves.
MayMove(os, to) ==
    \A o \in os :
       /\ to \in NextStatuses(route[o], fulfil[o].status)
       /\ route[o] = Import => o \in released
       /\ route[o] = Import /\ late[o] > 0 => to \notin Early /\ Manifested(o) /\ late[o] = 1

\* A request that ends by moving orders keeps the invariant.
LEMMA AdvanceStep ==
    ASSUME Inv, NEW s \in Sessions, Drop(s),
           NEW os \in SUBSET Orders, NEW to \in Statuses, Advance(os, to), MayMove(os, to),
           UNCHANGED <<route, ledger, released>>,
           SameOrders,
           \A m \in Manifests : manifest'[m].status \in {"dispatched", "completed"} =>
              \/ manifest[m].status \in {"dispatched", "completed"}
              \/ manifest[m].orders \subseteq os /\ to \notin Early
    PROVE  Inv'
<1>a. RowsOK
  BY DEF Inv
<1>b. /\ fulfil' \in [Orders -> FulfilRow] /\ trail' \in [Orders -> TrailRow]
      /\ order' \in [Orders -> OrderRow] /\ late' \in [Orders -> Nat]
  BY <1>a, AdvanceEffect
<1>c. ASSUME NEW o \in os
      PROVE  /\ fulfil'[o].status = to /\ fulfil'[o].version = fulfil[o].version + 1
             /\ order'[o].stage = Stage(route[o], to)[1]
             /\ order'[o].status = Stage(route[o], to)[2]
             /\ order'[o].confirmed = order[o].confirmed
             /\ trail'[o].count = trail[o].count + 1 /\ trail'[o].to = to
             /\ late'[o] = IF ledger[o] = "reversed" THEN late[o] + 1 ELSE late[o]
  BY <1>a, AdvanceEffect
<1>d. ASSUME NEW o \in Orders, o \notin os
      PROVE  /\ fulfil'[o] = fulfil[o] /\ order'[o] = order[o]
             /\ trail'[o] = trail[o] /\ late'[o] = late[o]
  BY <1>a, <1>d, AdvanceEffect
<1>1. /\ session' \in [Sessions -> Request]
      /\ session'[s].kind = "none"
      /\ \A t \in Sessions : t # s => session'[t] = session[t]
  BY <1>a, DropEffect DEF RowsOK
<1>2. RowsOK'
  BY <1>a, <1>b, <1>1 DEF RowsOK, SameOrders
<1>3. ASSUME NEW o \in os
      PROVE  /\ fulfil[o].status \in Statuses /\ fulfil[o].version \in Nat
             /\ route[o] \in {Local, Import}
             /\ fulfil[o].status # "delivered" /\ to # "pending"
             /\ fulfil[o].status \notin Early => to \notin Early
  <2>1. fulfil[o] \in FulfilRow /\ route[o] \in {Local, Import}
    BY <1>a, RouteOf DEF RowsOK
  <2>2. to \in NextStatuses(route[o], fulfil[o].status)
    BY DEF MayMove
  <2>3. fulfil[o].status \in Statuses /\ fulfil[o].version \in Nat
    BY <2>1 DEF FulfilRow
  <2>4. QED BY <2>1, <2>2, <2>3, StepFacts
<1>4. TrailOK'
  <2>1. \A o \in Orders \ os : fulfil'[o].status = trail'[o].to
                               /\ fulfil'[o].version = trail'[o].count + 1
    BY <1>d DEF Inv, TrailOK
  <2>2. \A o \in os : fulfil'[o].status = trail'[o].to
                      /\ fulfil'[o].version = trail'[o].count + 1
    BY <1>c DEF Inv, TrailOK
  <2>3. QED BY <2>1, <2>2 DEF TrailOK
<1>5. StagesAgree'
  <2>1. ASSUME NEW o \in Orders, o \notin os
        PROVE  /\ order'[o].stage = Stage(route[o], fulfil'[o].status)[1]
               /\ order'[o].status = IF order'[o].confirmed THEN "Completed"
                                     ELSE Stage(route[o], fulfil'[o].status)[2]
               /\ order'[o].confirmed => fulfil'[o].status = "delivered"
    BY <1>d, <2>1 DEF Inv, StagesAgree
  <2>2. ASSUME NEW o \in os
        PROVE  /\ ~order'[o].confirmed
               /\ order'[o].stage = Stage(route[o], fulfil'[o].status)[1]
               /\ order'[o].status = Stage(route[o], fulfil'[o].status)[2]
    BY <1>3, <1>c DEF Inv, StagesAgree
  <2>3. ASSUME NEW o \in Orders
        PROVE  Stage(route[o], fulfil[o].status)' = Stage(route[o], fulfil'[o].status)
    BY DEF Stage
  <2>4. QED BY <2>1, <2>2, <2>3 DEF StagesAgree
<1>6. ManifestsOK' /\ SettledReleased'
  BY DEF Inv, ManifestsOK, SettledReleased, SameOrders
<1>7. DispatchedTogether'
  <2>1. SUFFICES ASSUME NEW m \in Manifests, manifest'[m].status \in {"dispatched", "completed"},
                        NEW o \in manifest[m].orders
                 PROVE  fulfil'[o].status \notin Early
    BY DEF DispatchedTogether, SameOrders
  <2>2. o \in Orders
    BY <1>a, <2>1 DEF RowsOK, ManifestRow
  <2>3. CASE o \notin os
    BY <1>d, <2>1, <2>2, <2>3 DEF Inv, DispatchedTogether
  <2>4. CASE o \in os
    BY <1>3, <1>c, <2>1, <2>4 DEF Inv, DispatchedTogether
  <2>5. QED BY <2>3, <2>4
<1>8. NothingBeforeRelease'
  <2>1. SUFFICES ASSUME NEW o \in Orders, route[o] = Import, fulfil'[o].status # "pending"
                 PROVE  o \in released
    BY DEF NothingBeforeRelease
  <2>2. CASE o \in os
    BY <2>1, <2>2 DEF MayMove
  <2>3. CASE o \notin os
    BY <1>d, <2>1, <2>3 DEF Inv, NothingBeforeRelease
  <2>4. QED BY <2>2, <2>3
<1>9. \A t \in Sessions : session'[t].kind = "move" => t # s /\ session'[t] = session[t]
  BY <1>1
<1>10. \A o \in Orders : /\ fulfil[o].version \in Nat /\ fulfil'[o].version \in Nat
                         /\ fulfil'[o].version = fulfil[o].version + (IF o \in os THEN 1 ELSE 0)
  BY <1>a, <1>b, <1>c, <1>d DEF RowsOK, FulfilRow
<1>11. \A t \in Sessions, o \in Orders :
          session[t].kind = "move" /\ o \in session[t].orders => session[t].expect[o] \in Nat
  BY <1>a DEF RowsOK, Request
<1>12. ExpectsOK'
  <2>1. SUFFICES ASSUME NEW t \in Sessions, session'[t].kind = "move",
                        NEW o \in session'[t].orders
                 PROVE  session'[t].expect[o] <= fulfil'[o].version
    BY DEF ExpectsOK
  <2>2. session'[t] = session[t] /\ o \in Orders
    BY <1>a, <1>9, <2>1 DEF RowsOK, Request
  <2>3. session[t].expect[o] <= fulfil[o].version
    BY <2>1, <2>2 DEF Inv, ExpectsOK
  <2>4. QED BY <1>10, <1>11, <2>1, <2>2, <2>3
<1>13. \A t \in Sessions, o \in Orders :
          Passed(t, o)' => Passed(t, o) /\ session'[t] = session[t]
  BY <1>9 DEF Passed
<1>14. PassedReleased'
  BY <1>13 DEF Inv, PassedReleased
<1>15. LateOK'
  <2>1. SUFFICES ASSUME NEW o \in Orders, route[o] = Import
                 PROVE  /\ late'[o] <= 2
                        /\ late'[o] > 0 =>
                             /\ ledger[o] = "reversed"
                             /\ \A t \in Sessions :
                                  Passed(t, o)' => session'[t].expect[o] < fulfil'[o].version
                        /\ late'[o] = 2 => fulfil'[o].status \notin Early /\ Manifested(o)
    BY DEF LateOK, Manifested, SameOrders
  <2>2. late[o] \in Nat
    BY <1>a DEF RowsOK
  <2>3. CASE o \notin os
    BY <1>13, <1>d, <2>1, <2>3 DEF Inv, LateOK
  <2>4. CASE o \in os
    <3>1. \A t \in Sessions : Passed(t, o)' => session'[t].expect[o] < fulfil'[o].version
      <4>1. SUFFICES ASSUME NEW t \in Sessions, Passed(t, o)'
                     PROVE  session'[t].expect[o] < fulfil'[o].version
        OBVIOUS
      <4>2. session'[t] = session[t] /\ session[t].kind = "move" /\ o \in session[t].orders
        BY <1>13, <4>1 DEF Passed
      <4>3. session[t].expect[o] <= fulfil[o].version
        BY <4>2 DEF Inv, ExpectsOK
      <4>4. QED BY <1>10, <1>11, <2>4, <4>2, <4>3
    <3>2. CASE late[o] = 0
      <4>1. late'[o] = IF ledger[o] = "reversed" THEN 1 ELSE 0
        BY <1>c, <2>4, <3>2
      <4>2. QED BY <3>1, <4>1
    <3>3. CASE late[o] > 0
      <4>1. late[o] = 1 /\ to \notin Early /\ Manifested(o) /\ ledger[o] = "reversed"
        BY <2>1, <2>4, <3>3 DEF MayMove, Inv, LateOK
      <4>2. late'[o] = 2 /\ fulfil'[o].status = to
        BY <1>c, <2>4, <4>1
      <4>3. QED BY <3>1, <4>1, <4>2
    <3>4. QED BY <2>2, <3>2, <3>3
  <2>5. QED BY <2>3, <2>4
<1>16. QED BY <1>2, <1>4, <1>5, <1>6, <1>7, <1>8, <1>12, <1>14, <1>15 DEF Inv

\* BulkTransitionMerchantOrders: all of the orders or none.
LEMMA MoveStep == ASSUME Inv, NEW s \in Sessions, Move(s) PROVE Inv'
<1>1. session[s].kind = "move" /\ session[s].unread = {} /\ UNCHANGED <<deal, manifest>>
  BY DEF Move
<1>2. CASE Drop(s) /\ UNCHANGED <<late, fulfil, trail, order>>
  BY <1>1, <1>2, DropStep
<1>3. CASE /\ \A o \in session[s].orders :
                /\ fulfil[o].version = session[s].expect[o]
                /\ session[s].to \in NextStatuses(route[o], fulfil[o].status)
           /\ Advance(session[s].orders, session[s].to) /\ Drop(s)
  <2>1. PICK os, to : os = session[s].orders /\ to = session[s].to
    OBVIOUS
  <2>2. os \in SUBSET Orders
    BY <2>1 DEF Inv, RowsOK, Request
  <2>3. \A o \in os : /\ to \in NextStatuses(route[o], fulfil[o].status)
                      /\ fulfil[o].version = session[s].expect[o]
    BY <1>3, <2>1
  <2>4. CASE os = {}
    <3>1. fulfil' = fulfil /\ order' = order /\ trail' = trail /\ late' = late
      BY <1>3, <2>1, <2>4 DEF Advance, Inv, RowsOK
    <3>2. QED BY <1>1, <1>3, <3>1, DropStep
  <2>5. CASE os # {}
    <3>1. to \in Statuses
      <4>1. PICK o \in os : TRUE
        BY <2>5
      <4>2. fulfil[o].status \in Statuses /\ route[o] \in {Local, Import}
        BY <2>2, <4>1, RouteOf DEF Inv, RowsOK, FulfilRow
      <4>3. QED BY <2>3, <4>1, <4>2, StepFacts
    <3>2. ASSUME NEW o \in os, route[o] = Import
          PROVE  o \in released /\ late[o] = 0
      <4>1. Passed(s, o) /\ o \in Orders
        BY <1>1, <2>1, <2>2, <3>2 DEF Passed
      <4>2. ~(session[s].expect[o] < fulfil[o].version)
        BY <2>2, <2>3, <3>2 DEF Inv, RowsOK, FulfilRow
      <4>3. late[o] \in Nat /\ ~(late[o] > 0)
        BY <3>2, <4>1, <4>2 DEF Inv, LateOK, RowsOK
      <4>4. QED BY <4>1, <4>3 DEF Inv, PassedReleased
    <3>3. MayMove(os, to)
      BY <2>3, <3>2 DEF MayMove
    <3>4. UNCHANGED <<route, ledger, released>> /\ SameOrders
      BY <1>1 DEF deal, SameOrders, Inv, RowsOK
    <3>5. Advance(os, to) /\ Drop(s)
      BY <1>3, <2>1
    <3>6. UNCHANGED manifest
      BY <1>1
    <3>7. QED BY <2>2, <3>1, <3>3, <3>4, <3>5, <3>6, AdvanceStep
  <2>6. QED BY <2>4, <2>5
<1>4. QED BY <1>2, <1>3 DEF Move

\* A new manifest holds no order twice.
LEMMA CreateStep == ASSUME Inv, NEW s \in Sessions, Create(s) PROVE Inv'
<1>1. Drop(s) /\ UNCHANGED <<deal, late, fulfil, trail, order>>
  BY DEF Create
<1>2. CASE UNCHANGED manifest
  BY <1>1, <1>2, DropStep
<1>3. ASSUME NEW m \in Manifests, manifest[m].status = "none",
             manifest' = [manifest EXCEPT ![m] =
                            [status |-> "open", version |-> 1, orders |-> session[s].orders]]
      PROVE  Inv'
  <2>1. PICK row : row = [status |-> "open", version |-> 1, orders |-> session[s].orders]
    OBVIOUS
  <2>2. row \in ManifestRow /\ row.status = "open"
    BY <2>1 DEF Inv, RowsOK, Request, ManifestRow
  <2>3. /\ manifest' \in [Manifests -> ManifestRow] /\ manifest'[m] = row
        /\ \A n \in Manifests : n # m => manifest'[n] = manifest[n]
    BY <1>3, <2>1, <2>2 DEF Inv, RowsOK
  <2>4. /\ session' \in [Sessions -> Request]
        /\ session'[s].kind = "none"
        /\ \A t \in Sessions : t # s => session'[t] = session[t]
    BY <1>1, DropEffect DEF Inv, RowsOK
  <2>5. UNCHANGED <<route, ledger, released>>
    BY <1>1 DEF deal
  <2>6. RowsOK'
    BY <1>1, <2>3, <2>4, <2>5 DEF Inv, RowsOK
  <2>7. TrailOK' /\ StagesAgree' /\ SettledReleased' /\ NothingBeforeRelease'
    BY <1>1, <2>5 DEF Inv, TrailOK, StagesAgree, SettledReleased, NothingBeforeRelease
  <2>8. ManifestsOK' /\ DispatchedTogether'
    BY <1>1, <2>2, <2>3 DEF Inv, ManifestsOK, DispatchedTogether
  <2>9. \A t \in Sessions : session'[t].kind = "move" => t # s /\ session'[t] = session[t]
    BY <2>4
  <2>10. ExpectsOK'
    BY <1>1, <2>9 DEF Inv, ExpectsOK
  <2>11. \A t \in Sessions, o \in Orders :
            Passed(t, o)' => Passed(t, o) /\ session'[t] = session[t]
    BY <2>5, <2>9 DEF Passed
  <2>12. PassedReleased'
    BY <2>5, <2>11 DEF Inv, PassedReleased
  <2>13. \A o \in Orders : Manifested(o) => Manifested(o)'
    <3>1. manifest[m].orders = {}
      BY <1>3 DEF Inv, ManifestsOK
    <3>2. QED BY <2>3, <3>1 DEF Manifested
  <2>14. LateOK'
    BY <1>1, <2>5, <2>11, <2>13 DEF Inv, LateOK
  <2>15. QED BY <2>6, <2>7, <2>8, <2>10, <2>12, <2>14 DEF Inv
<1>4. QED BY <1>2, <1>3 DEF Create

LEMMA ManifestSteps ==
    ASSUME NEW from, NEW to \in NextManifest(from)
    PROVE  /\ to \in {"closed", "cancelled", "dispatched", "completed"}
           /\ to = "completed" => from = "dispatched"
BY DEF NextManifest

\* TransitionMerchantManifest: every order on board or none.
LEMMA ChangeManifestStep == ASSUME Inv, NEW s \in Sessions, ChangeManifest(s) PROVE Inv'
<1>1. Drop(s) /\ UNCHANGED <<deal>>
  BY DEF ChangeManifest
<1>2. CASE UNCHANGED <<late, fulfil, trail, order, manifest>>
  BY <1>1, <1>2, DropStep
<1>3. ASSUME NEW m \in Manifests, NEW to \in NextManifest(manifest[m].status),
             manifest' = [manifest EXCEPT ![m].status = to, ![m].version = @ + 1]
      PROVE  /\ SameOrders
             /\ \A n \in Manifests : manifest'[n].status \in {"dispatched", "completed"} =>
                   \/ manifest[n].status \in {"dispatched", "completed"}
                   \/ n = m /\ to = "dispatched"
  <2>1. manifest \in [Manifests -> ManifestRow]
    BY DEF Inv, RowsOK
  <2>2. /\ to \in {"closed", "cancelled", "dispatched", "completed"}
        /\ to = "completed" => manifest[m].status = "dispatched"
    BY ManifestSteps
  <2>3. manifest[m] \in ManifestRow /\ manifest[m].version + 1 \in Nat
    BY <2>1 DEF ManifestRow
  <2>4. PICK row : row = [manifest[m] EXCEPT !.status = to, !.version = @ + 1]
    OBVIOUS
  <2>5. /\ row \in ManifestRow /\ row.status = to /\ row.orders = manifest[m].orders
    BY <2>2, <2>3, <2>4 DEF ManifestRow
  <2>6. manifest' = [manifest EXCEPT ![m] = row]
    BY <1>3, <2>1, <2>4
  <2>7. /\ manifest' \in [Manifests -> ManifestRow] /\ manifest'[m] = row
        /\ \A n \in Manifests : n # m => manifest'[n] = manifest[n]
    BY <2>1, <2>5, <2>6
  <2>8. SameOrders
    BY <2>2, <2>5, <2>7 DEF SameOrders
  <2>9. ASSUME NEW n \in Manifests, manifest'[n].status \in {"dispatched", "completed"}
        PROVE  \/ manifest[n].status \in {"dispatched", "completed"}
               \/ n = m /\ to = "dispatched"
    BY <2>2, <2>5, <2>7, <2>9
  <2>10. QED BY <2>8, <2>9
<1>4. UNCHANGED <<route, ledger, released>>
  BY <1>1 DEF deal
<1>5. ASSUME NEW m \in Manifests, NEW to \in NextManifest(manifest[m].status),
             manifest' = [manifest EXCEPT ![m].status = to, ![m].version = @ + 1],
             to = "dispatched",
             \A o \in manifest[m].orders : fulfil[o].status = "processing",
             Advance(manifest[m].orders, "dispatched_from_origin")
      PROVE  Inv'
  <2>1. PICK os : os = manifest[m].orders
    OBVIOUS
  <2>2. os \in SUBSET Orders
    BY <2>1 DEF Inv, RowsOK, ManifestRow
  <2>3. "dispatched_from_origin" \in Statuses \ Early
    BY DepartureIsStep
  <2>4. ASSUME NEW o \in os
        PROVE  /\ "dispatched_from_origin" \in NextStatuses(route[o], fulfil[o].status)
               /\ route[o] = Import => o \in released
               /\ route[o] = Import /\ late[o] > 0 => Manifested(o) /\ late[o] = 1
    <3>1. fulfil[o].status = "processing" /\ o \in Orders
      BY <1>5, <2>1, <2>2
    <3>2. Manifested(o)
      BY <2>1 DEF Manifested
    <3>3. "processing" \in Early
      BY DEF Early
    <3>4. late[o] \in Nat
      BY <3>1 DEF Inv, RowsOK
    <3>5. route[o] = Import => late[o] <= 2 /\ late[o] # 2
      BY <3>1, <3>3 DEF Inv, LateOK
    <3>6. route[o] = Import /\ late[o] > 0 => late[o] = 1
      BY <3>4, <3>5
    <3>7. QED BY <3>1, <3>2, <3>6, DepartureIsStep DEF Inv, NothingBeforeRelease
  <2>5. MayMove(os, "dispatched_from_origin")
    BY <2>3, <2>4 DEF MayMove
  <2>6. SameOrders
    BY <1>3, <1>5
  <2>7. \A n \in Manifests : manifest'[n].status \in {"dispatched", "completed"} =>
           \/ manifest[n].status \in {"dispatched", "completed"}
           \/ manifest[n].orders \subseteq os /\ "dispatched_from_origin" \notin Early
    BY <1>3, <1>5, <2>1, <2>3, ZenonT(30)
  <2>8. Advance(os, "dispatched_from_origin")
    BY <1>5, <2>1
  <2>9. QED BY <1>1, <1>4, <2>2, <2>3, <2>5, <2>6, <2>7, <2>8, AdvanceStep
<1>6. ASSUME NEW m \in Manifests, NEW to \in NextManifest(manifest[m].status),
             manifest' = [manifest EXCEPT ![m].status = to, ![m].version = @ + 1],
             to # "dispatched", UNCHANGED <<late, fulfil, trail, order>>
      PROVE  Inv'
  <2>1. SameOrders /\ \A n \in Manifests : manifest'[n].status \in {"dispatched", "completed"} =>
           manifest[n].status \in {"dispatched", "completed"}
    BY <1>3, <1>6
  <2>2. /\ session' \in [Sessions -> Request]
        /\ session'[s].kind = "none"
        /\ \A t \in Sessions : t # s => session'[t] = session[t]
    BY <1>1, DropEffect DEF Inv, RowsOK
  <2>3. RowsOK'
    BY <1>4, <1>6, <2>1, <2>2 DEF Inv, RowsOK, SameOrders
  <2>4. TrailOK' /\ StagesAgree' /\ SettledReleased' /\ NothingBeforeRelease'
    BY <1>4, <1>6 DEF Inv, TrailOK, StagesAgree, SettledReleased, NothingBeforeRelease
  <2>5. ManifestsOK' /\ DispatchedTogether'
    BY <1>6, <2>1 DEF Inv, ManifestsOK, DispatchedTogether, SameOrders
  <2>6. \A t \in Sessions : session'[t].kind = "move" => t # s /\ session'[t] = session[t]
    BY <2>2
  <2>7. ExpectsOK'
    BY <1>6, <2>6 DEF Inv, ExpectsOK
  <2>8. \A t \in Sessions, o \in Orders :
           Passed(t, o)' => Passed(t, o) /\ session'[t] = session[t]
    BY <1>4, <2>6 DEF Passed
  <2>9. PassedReleased'
    BY <1>4, <2>8 DEF Inv, PassedReleased
  <2>10. LateOK'
    BY <1>4, <1>6, <2>1, <2>8 DEF Inv, LateOK, Manifested, SameOrders
  <2>11. QED BY <2>3, <2>4, <2>5, <2>7, <2>9, <2>10 DEF Inv
<1>7. PICK seen \in session[s].on :
         \/ /\ session[s].to \in NextManifest(manifest[seen.id].status)
            /\ session[s].to = "dispatched" =>
                 \A o \in manifest[seen.id].orders : fulfil[o].status = "processing"
            /\ manifest' = [manifest EXCEPT ![seen.id].status = session[s].to,
                                            ![seen.id].version = @ + 1]
            /\ IF session[s].to = "dispatched"
                 THEN Advance(manifest[seen.id].orders, "dispatched_from_origin")
                 ELSE UNCHANGED <<late, fulfil, trail, order>>
         \/ UNCHANGED <<late, fulfil, trail, order, manifest>>
  BY DEF ChangeManifest
<1>8. seen.id \in Manifests
  <2>1. session[s].on \subseteq [id : Manifests, version : Nat]
    BY DEF Inv, RowsOK, Request
  <2>2. seen \in [id : Manifests, version : Nat]
    BY <2>1
  <2>3. QED BY <2>2
<1>9. QED BY <1>2, <1>5, <1>6, <1>7, <1>8

-----------------------------------------------------------------------------
(* Orders that end *)

LEMMA CompleteStep ==
    ASSUME Inv, NEW os \in SUBSET Orders, Complete(os), \A o \in os : Received(o)
    PROVE  Inv'
<1>1. UNCHANGED <<route, ledger, released, late, fulfil, trail, manifest, session>>
  BY DEF Complete, deal
<1>2. order \in [Orders -> OrderRow]
  BY DEF Inv, RowsOK
<1>3. \A o \in Orders :
         /\ order'[o] \in OrderRow
         /\ order'[o].stage = order[o].stage
         /\ order'[o].status = IF o \in os THEN "Completed" ELSE order[o].status
         /\ order'[o].confirmed = IF o \in os THEN TRUE ELSE order[o].confirmed
  <2>1. ASSUME NEW o \in Orders, o \in os
        PROVE  order'[o] = [order[o] EXCEPT !.status = "Completed", !.confirmed = TRUE]
    BY <2>1 DEF Complete
  <2>2. ASSUME NEW o \in Orders, o \notin os PROVE order'[o] = order[o]
    BY <2>2 DEF Complete
  <2>3. ASSUME NEW o \in Orders PROVE order[o] \in OrderRow
    BY <1>2
  <2>4. ASSUME NEW o \in Orders, o \in os
        PROVE  /\ order'[o] \in OrderRow /\ order'[o].stage = order[o].stage
               /\ order'[o].status = "Completed" /\ order'[o].confirmed = TRUE
    BY <2>1, <2>3, <2>4, ZenonT(30) DEF OrderRow
  <2>5. QED BY <2>2, <2>3, <2>4
<1>4. order' \in [Orders -> OrderRow]
  <2>1. order' = [o \in Orders |-> order'[o]]
    BY DEF Complete
  <2>2. QED BY <1>3, <2>1
<1>5. RowsOK'
  BY <1>1, <1>4 DEF Inv, RowsOK
<1>6. \A o \in os : fulfil[o].status = "delivered"
  <2>1. ASSUME NEW o \in os PROVE fulfil[o].status = "delivered"
    <3>1. /\ fulfil[o].status \in Statuses /\ route[o] \in {Local, Import}
          /\ Stage(route[o], fulfil[o].status)[1] = "Delivered"
      BY RouteOf DEF Inv, RowsOK, FulfilRow, StagesAgree, Received
    <3>2. QED BY <3>1, StageFacts
  <2>2. QED BY <2>1
<1>7. StagesAgree'
  <2>1. \A o \in Orders : Stage(route[o], fulfil[o].status)' = Stage(route[o], fulfil[o].status)
    BY <1>1 DEF Stage
  <2>2. QED BY <1>1, <1>3, <1>6, <2>1 DEF Inv, StagesAgree
<1>8. TrailOK' /\ ManifestsOK' /\ DispatchedTogether' /\ SettledReleased'
      /\ NothingBeforeRelease' /\ ExpectsOK'
  BY <1>1 DEF Inv, TrailOK, ManifestsOK, DispatchedTogether, SettledReleased,
              NothingBeforeRelease, ExpectsOK
<1>9. \A t \in Sessions, o \in Orders : Passed(t, o)' = Passed(t, o)
  BY <1>1 DEF Passed
<1>10. PassedReleased' /\ LateOK'
  BY <1>1, <1>9 DEF Inv, PassedReleased, LateOK, Manifested
<1>11. QED BY <1>5, <1>7, <1>8, <1>10 DEF Inv

-----------------------------------------------------------------------------
(* Theorems *)

LEMMA InitInv == ASSUME Init PROVE Inv
<1>1. NoRequest \in Request
  BY NoRequestType
<1>2. "pending" \in Statuses /\ "Order Placed" \in Stages
  BY DEF Statuses, Early, Stages
<1>3. RowsOK
  <2>1. fulfil \in [Orders -> FulfilRow] /\ trail \in [Orders -> TrailRow]
    BY <1>2 DEF Init, FulfilRow, TrailRow
  <2>2. order \in [Orders -> OrderRow]
    BY <1>2 DEF Init, OrderRow
  <2>3. manifest \in [Manifests -> ManifestRow]
    BY DEF Init, ManifestRow
  <2>4. QED BY <1>1, <2>1, <2>2, <2>3 DEF Init, RowsOK
<1>4. \A r : Stage(r, "pending")[1] = "Order Placed" /\ Stage(r, "pending")[2] = "Paid"
  BY DEF Stage
<1>5. TrailOK /\ ManifestsOK /\ StagesAgree
  <2>1. \A o \in Orders : fulfil[o].status = "pending" /\ fulfil[o].version = 1
                          /\ trail[o].to = "pending" /\ trail[o].count = 0
    BY DEF Init
  <2>2. TrailOK
    BY <2>1 DEF TrailOK
  <2>3. \A o \in Orders : order[o].stage = "Order Placed" /\ order[o].status = "Paid"
                          /\ order[o].confirmed = FALSE
    BY DEF Init
  <2>4. \A o \in Orders : Stage(route[o], fulfil[o].status)[1] = "Order Placed"
                          /\ Stage(route[o], fulfil[o].status)[2] = "Paid"
    BY <1>4, <2>1
  <2>5. StagesAgree
    BY <2>3, <2>4 DEF StagesAgree
  <2>6. ManifestsOK
    BY DEF Init, ManifestsOK
  <2>7. QED BY <2>2, <2>5, <2>6
<1>6. DispatchedTogether /\ SettledReleased /\ NothingBeforeRelease
  BY DEF Init, DispatchedTogether, SettledReleased, NothingBeforeRelease
<1>7. ExpectsOK /\ PassedReleased
  BY NoRequestType DEF Init, ExpectsOK, PassedReleased, Passed
<1>8. LateOK
  <2>1. \A o \in Orders : late[o] = 0
    BY DEF Init
  <2>2. QED BY <2>1 DEF LateOK
<1>9. QED BY <1>3, <1>5, <1>6, <1>7, <1>8 DEF Inv

LEMMA NextInv == ASSUME Inv, [Next]_vars PROVE Inv'
<1>1. CASE UNCHANGED vars
  <2>1. UNCHANGED <<deal, late, fulfil, trail, order, manifest>> /\ UNCHANGED session
    BY <1>1 DEF vars, deal
  <2>2. \A t \in Sessions, o \in Orders : Passed(t, o)' = Passed(t, o)
    BY <2>1 DEF Passed, deal
  <2>3. session' \in [Sessions -> Request]
    BY <2>1 DEF Inv, RowsOK
  <2>4. \A t \in Sessions : session'[t].kind = "move" =>
           \A o \in session'[t].orders : session'[t].expect[o] <= fulfil[o].version
    BY <2>1 DEF Inv, ExpectsOK
  <2>5. QED BY <2>1, <2>2, <2>3, <2>4, SessionsMove
<1>2. ASSUME NEW o \in Orders, Release(o) \/ Reverse(o) PROVE Inv'
  BY <1>2, ReleaseStep, ReverseStep
<1>3. ASSUME NEW o \in Orders, ConfirmReceipt(o) PROVE Inv'
  <2>1. PICK os : os = {o}
    OBVIOUS
  <2>2. os \in SUBSET Orders /\ Complete(os) /\ \A q \in os : Received(q)
    BY <1>3, <2>1 DEF ConfirmReceipt
  <2>3. QED BY <2>2, CompleteStep
<1>4. CASE AutoConfirm
  <2>1. PICK os \in SUBSET {o \in Orders : Received(o)} : Complete(os)
    BY <1>4 DEF AutoConfirm
  <2>2. os \in SUBSET Orders /\ \A o \in os : Received(o)
    OBVIOUS
  <2>3. QED BY <2>1, <2>2, CompleteStep
<1>5. ASSUME NEW s \in Sessions, AskMove(s) \/ AskCreate(s) \/ AskManifest(s) PROVE Inv'
  BY <1>5, AskMoveStep, AskCreateStep, AskManifestStep
<1>6. ASSUME NEW s \in Sessions, Handle(s) PROVE Inv'
  BY <1>6, ReadMoveStep, ReadMembersStep, MoveStep, CreateStep, ChangeManifestStep DEF Handle
<1>7. QED BY <1>1, <1>2, <1>3, <1>4, <1>5, <1>6 DEF Next

\* The invariant holds in every reachable state, whatever requests are under
\* way when payouts are released and taken back.
THEOREM Invariance == Spec => []Inv
<1>1. Init => Inv
  BY InitInv
<1>2. Inv /\ [Next]_vars => Inv'
  BY NextInv
<1>3. QED BY <1>1, <1>2, PTL DEF Spec

\* Buyers are shown the stage of the fulfilment; only delivered orders are
\* completed.
THEOREM BuyersSeeTheStage == Spec => []StagesAgree
<1>1. Inv => StagesAgree
  BY DEF Inv
<1>2. QED BY <1>1, Invariance, PTL

\* No imported order moves before its seller's payout was released.
THEOREM GateHolds == Spec => []NothingBeforeRelease
<1>1. Inv => NothingBeforeRelease
  BY DEF Inv
<1>2. QED BY <1>1, Invariance, PTL

\* A dispatched manifest left nothing behind.
THEOREM ManifestsLeaveWhole == Spec => []DispatchedTogether
<1>1. Inv => DispatchedTogether
  BY DEF Inv
<1>2. QED BY <1>1, Invariance, PTL

\* After a reversal an imported order moves at most once, and once more only
\* with its manifest, however many requests had passed the gate before it.
THEOREM ReversalsBlock == Spec => []ReversalBlocks
<1>1. Inv => ReversalBlocks
  <2>1. SUFFICES ASSUME Inv, NEW o \in Orders, route[o] = Import
                 PROVE  late[o] <= IF Manifested(o) THEN 2 ELSE 1
    BY DEF ReversalBlocks
  <2>2. late[o] \in Nat /\ late[o] <= 2 /\ (late[o] = 2 => Manifested(o))
    BY <2>1 DEF Inv, RowsOK, LateOK
  <2>3. CASE Manifested(o)
    BY <2>2, <2>3
  <2>4. CASE ~Manifested(o)
    BY <2>2, <2>4
  <2>5. QED BY <2>3, <2>4
<1>2. QED BY <1>1, Invariance, PTL

\* The types of the tables, and that every state of an order has one of the
\* stages buyers know.
THEOREM TypeCorrect == Spec => []TypeOK
<1>1. Inv => TypeOK
  BY DEF Inv, RowsOK, TypeOK, FulfilRow, OrderRow, ManifestRow, Request
<1>2. QED BY <1>1, Invariance, PTL

-----------------------------------------------------------------------------
(* What a step may do to an order *)

\* Orders move along their routes.
Moves(os, to) == Advance(os, to) /\ \A o \in os : to \in NextStatuses(route[o], fulfil[o].status)

\* No step touches an order other than by moving it or by completing a
\* received one.
LEMMA OrderSteps ==
    ASSUME Inv, [Next]_vars
    PROVE  \/ UNCHANGED <<fulfil, trail, order>>
           \/ \E os \in SUBSET Orders : Complete(os)
           \/ \E os \in SUBSET Orders, to \in Statuses : Moves(os, to)
<1> DEFINE Still == UNCHANGED <<fulfil, trail, order>>
           Ends == \E os \in SUBSET Orders : Complete(os)
           Goes == \E os \in SUBSET Orders, to \in Statuses : Moves(os, to)
<1>0. fulfil \in [Orders -> FulfilRow] /\ trail \in [Orders -> TrailRow]
      /\ order \in [Orders -> OrderRow]
  BY DEF Inv, RowsOK
<1>1. ASSUME NEW os \in SUBSET Orders, NEW to, Advance(os, to),
             \A o \in os : to \in NextStatuses(route[o], fulfil[o].status)
      PROVE  Still \/ Goes
  <2>1. CASE os = {}
    BY <1>0, <1>1, <2>1 DEF Advance
  <2>2. CASE os # {}
    <3>1. PICK o \in os : TRUE
      BY <2>2
    <3>2. fulfil[o].status \in Statuses /\ route[o] \in {Local, Import}
      BY <1>0, RouteOf DEF Inv, FulfilRow
    <3>3. to \in Statuses
      BY <1>1, <3>1, <3>2, StepFacts
    <3>4. Moves(os, to)
      BY <1>1 DEF Moves
    <3>5. QED BY <3>3, <3>4
  <2>3. QED BY <2>1, <2>2
<1> HIDE DEF Still, Ends, Goes
<1>2. ASSUME NEW s \in Sessions, Move(s) PROVE Still \/ Goes
  <2>1. CASE UNCHANGED <<late, fulfil, trail, order>>
    BY <2>1 DEF Still
  <2>2. CASE /\ \A o \in session[s].orders :
                  session[s].to \in NextStatuses(route[o], fulfil[o].status)
             /\ Advance(session[s].orders, session[s].to)
    <3>1. session[s].orders \in SUBSET Orders
      BY DEF Inv, RowsOK, Request
    <3>2. QED BY <1>1, <2>2, <3>1
  <2>3. QED BY <1>2, <2>1, <2>2 DEF Move
<1>3. ASSUME NEW s \in Sessions, ChangeManifest(s) PROVE Still \/ Goes
  <2>1. CASE UNCHANGED <<late, fulfil, trail, order>>
    BY <2>1 DEF Still
  <2>2. ASSUME NEW m \in Manifests, Advance(manifest[m].orders, "dispatched_from_origin"),
               \A o \in manifest[m].orders : fulfil[o].status = "processing"
        PROVE  Still \/ Goes
    <3>1. manifest[m].orders \in SUBSET Orders
      BY DEF Inv, RowsOK, ManifestRow
    <3>2. \A o \in manifest[m].orders :
             "dispatched_from_origin" \in NextStatuses(route[o], fulfil[o].status)
      BY <2>2, DepartureIsStep
    <3>3. QED BY <1>1, <2>2, <3>1, <3>2
  <2>3. PICK seen \in session[s].on :
           \/ /\ Advance(manifest[seen.id].orders, "dispatched_from_origin")
              /\ \A o \in manifest[seen.id].orders : fulfil[o].status = "processing"
           \/ UNCHANGED <<late, fulfil, trail, order>>
    BY <1>3 DEF ChangeManifest
  <2>4. session[s].on \subseteq [id : Manifests, version : Nat]
    BY DEF Inv, RowsOK, Request
  <2>5. seen \in [id : Manifests, version : Nat]
    BY <2>4
  <2>6. seen.id \in Manifests
    BY <2>5
  <2>7. QED BY <2>1, <2>2, <2>3, <2>6
<1>4. ASSUME NEW s \in Sessions, NEW o \in Orders, ReadMove(s, o) \/ ReadCreate(s, o)
      PROVE  Still
  BY <1>4 DEF ReadMove, ReadCreate, Still
<1>5. ASSUME NEW s \in Sessions, ReadMembers(s) \/ Create(s) PROVE Still
  BY <1>5 DEF ReadMembers, Create, Still
<1>6. ASSUME NEW s \in Sessions, AskMove(s) \/ AskCreate(s) \/ AskManifest(s) PROVE Still
  BY <1>6 DEF AskMove, AskCreate, AskManifest, Send, Still
<1>7. ASSUME NEW o \in Orders, Release(o) \/ Reverse(o) PROVE Still
  BY <1>7 DEF Release, Reverse, Still
<1>8. ASSUME NEW o \in Orders, ConfirmReceipt(o) PROVE Ends
  BY <1>8 DEF ConfirmReceipt, Ends
<1>9. ASSUME AutoConfirm PROVE Ends
  BY <1>9 DEF AutoConfirm, Ends
<1>10. ASSUME UNCHANGED vars PROVE Still
  BY <1>10 DEF vars, Still
<1>11. Still \/ Ends \/ Goes
  <2>1. ASSUME NEW s \in Sessions, Handle(s) PROVE Still \/ Goes
    BY <1>2, <1>3, <1>4, <1>5, <2>1 DEF Handle
  <2>2. CASE \E o \in Orders : Release(o) \/ Reverse(o) \/ ConfirmReceipt(o)
    BY <1>7, <1>8, <2>2
  <2>3. CASE \E s \in Sessions : AskMove(s) \/ AskCreate(s) \/ AskManifest(s) \/ Handle(s)
    BY <1>6, <2>1, <2>3
  <2>4. QED BY <1>9, <1>10, <2>2, <2>3 DEF Next
<1>12. QED BY <1>11 DEF Still, Ends, Goes

Unbroken(o) ==
    /\ fulfil'[o].status = trail'[o].to
    /\ fulfil'[o].version = trail'[o].count + 1
    /\ trail'[o] # trail[o] =>
         /\ trail'[o].from = trail[o].to
         /\ trail'[o].to \in NextStatuses(route[o], trail[o].to)

\* The events of an order tell its whole story: each begins where the one
\* before ended and is a step of the route, and there is one per version.
THEOREM StoriesAreWhole == Spec => TrailUnbroken
<1>1. ASSUME Inv, Inv', [Next]_vars, NEW o \in Orders PROVE Unbroken(o)
  <2>1. fulfil'[o].status = trail'[o].to /\ fulfil'[o].version = trail'[o].count + 1
    BY <1>1 DEF Inv, TrailOK
  <2>2. fulfil[o].status = trail[o].to
    BY <1>1 DEF Inv, TrailOK
  <2>3. ASSUME UNCHANGED trail PROVE Unbroken(o)
    BY <2>1, <2>3 DEF Unbroken
  <2>4. ASSUME NEW os \in SUBSET Orders, NEW to \in Statuses, Moves(os, to)
        PROVE  Unbroken(o)
    <3>1. RowsOK /\ Advance(os, to)
      BY <1>1, <2>4 DEF Inv, Moves
    <3>2. CASE o \in os
      <4>1. trail'[o].from = fulfil[o].status /\ trail'[o].to = to
        BY <3>1, <3>2, AdvanceEffect, ZenonT(30)
      <4>2. to \in NextStatuses(route[o], fulfil[o].status)
        BY <2>4, <3>2 DEF Moves
      <4>3. QED BY <2>1, <2>2, <4>1, <4>2 DEF Unbroken
    <3>3. CASE o \notin os
      <4>1. trail'[o] = trail[o]
        BY <3>1, <3>3, AdvanceEffect
      <4>2. QED BY <2>1, <4>1 DEF Unbroken
    <3>4. QED BY <3>2, <3>3
  <2>5. ASSUME NEW os \in SUBSET Orders, Complete(os) PROVE UNCHANGED trail
    BY <2>5 DEF Complete
  <2>6. QED BY <1>1, <2>3, <2>4, <2>5, OrderSteps
<1>2. Inv /\ Inv' /\ [Next]_vars =>
        [\A o \in Orders :
           /\ fulfil'[o].status = trail'[o].to
           /\ fulfil'[o].version = trail'[o].count + 1
           /\ trail'[o] # trail[o] =>
                /\ trail'[o].from = trail[o].to
                /\ trail'[o].to \in NextStatuses(route[o], trail[o].to)]_vars
  BY <1>1 DEF Unbroken
<1>3. QED BY <1>2, Invariance, PTL DEF Spec, TrailUnbroken

\* No request, however late, reopens a completed order.
THEOREM CompletedStaysCompleted == Spec => CompletedForGood
<1>1. ASSUME Inv, [Next]_vars, NEW o \in Orders, order[o].status = "Completed"
      PROVE  order'[o].status = "Completed"
  <2>1. fulfil[o].status = "delivered"
    <3>1. fulfil[o].status \in Statuses /\ route[o] \in {Local, Import}
      BY <1>1, RouteOf DEF Inv, RowsOK, FulfilRow
    <3>2. Stage(route[o], fulfil[o].status)[2] # "Completed"
      BY <3>1, StageFacts
    <3>3. order[o].confirmed
      BY <1>1, <3>2 DEF Inv, StagesAgree
    <3>4. QED BY <1>1, <3>3 DEF Inv, StagesAgree
  <2>2. ASSUME NEW os \in SUBSET Orders, NEW to \in Statuses, Moves(os, to)
        PROVE  order'[o] = order[o]
    <3>1. RowsOK /\ Advance(os, to)
      BY <1>1, <2>2 DEF Inv, Moves
    <3>2. o \notin os
      <4>1. SUFFICES ASSUME o \in os PROVE FALSE
        OBVIOUS
      <4>2. to \in NextStatuses(route[o], "delivered")
        BY <2>1, <2>2, <4>1 DEF Moves
      <4>3. "delivered" \in Statuses /\ route[o] \in {Local, Import}
        BY <1>1, RouteOf DEF Inv, Statuses
      <4>4. QED BY <4>2, <4>3, StepFacts
    <3>3. QED BY <3>1, <3>2, AdvanceEffect
  <2>3. ASSUME NEW os \in SUBSET Orders, Complete(os)
        PROVE  order'[o].status = "Completed"
    <3>1. order[o] \in OrderRow
      BY <1>1 DEF Inv, RowsOK
    <3>2. order'[o] = IF o \in os
                        THEN [order[o] EXCEPT !.status = "Completed", !.confirmed = TRUE]
                        ELSE order[o]
      BY <2>3 DEF Complete
    <3>3. QED BY <1>1, <3>1, <3>2 DEF OrderRow
  <2>4. QED BY <1>1, <2>2, <2>3, OrderSteps
<1>2. Inv /\ [Next]_vars =>
        [\A o \in Orders : order[o].status = "Completed" => order'[o].status = "Completed"]_vars
  BY <1>1
<1>3. QED BY <1>2, Invariance, PTL DEF Spec, CompletedForGood

-----------------------------------------------------------------------------
(* The properties of the runs *)

\* The gate of the settlement holds for any number of orders and requests: no
\* imported order moves before its payout, and next to none after a reversal.
THEOREM GateOfTheSettlement == Spec => []ReleaseGate
BY GateHolds, ReversalsBlock, PTL DEF ReleaseGate

\* Orders, their pages and their manifests go together.
THEOREM GoodsGoTogether == Spec => []GoodsTogether
BY BuyersSeeTheStage, ManifestsLeaveWhole, PTL DEF GoodsTogether

\* The events of every order tell its whole story, which ends with completion.
THEOREM StoriesHold == Spec => StoryHolds
BY StoriesAreWhole, CompletedStaysCompleted DEF StoryHolds
=============================================================================
