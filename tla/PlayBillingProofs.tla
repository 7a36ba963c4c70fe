-------------------------- MODULE PlayBillingProofs --------------------------
(* Why no purchase is paid for nothing and none is granted and refunded, for  *)
(* any number of purchases, messages, requests and failures.  The argument:   *)
(* whoever decides holds the lock of the provider from his first look to his  *)
(* commit, so that what he found (no refund asked for, no newer answer) still *)
(* holds when he writes (Locks); what comes after the commit is done without  *)
(* the lock and relies only on what no step takes back: a purchase stays      *)
(* known, a receipt stays written, an acknowledgement stays given (Past,      *)
(* Grows).                                                                    *)
EXTENDS PlayBilling, TLAPS

USE BoundsAssumption DEF Tokens, Events, Sessions, NoToken, NoEvent

EventRow == [token : Tokens \cup {NoToken}, state : {"none", "sent", "waiting", "done"}]
ReceiptRow == [orders : SUBSET (1 .. MaxOrders), rewarded : SUBSET (1 .. MaxOrders)]
SessionRow ==
    [step : {"idle", "verify", "commit", "clear", "ack", "converge", "mark", "revoke", "confirm"},
     token : Tokens \cup {NoToken}, event : Events \cup {NoEvent}, saw : GoogleRow]

\* The steps at which a purchase is under way in a session
Busy == {"verify", "commit", "clear", "ack", "converge", "revoke", "confirm"}

\* A purchase that was never made has no period, a paid one has one, and every
\* period has its number
Sales ==
    \A t \in Tokens :
      /\ google[t].state = "none" => google[t] = NoSale
      /\ Active(google[t]) => google[t].order # 0

\* The messages sent so far are the first n, at least one for every change
Sent(n) ==
    /\ \A e \in Events : event[e].state = "none" <=> e > n
    /\ \A t \in Tokens : google[t].ver <= n
Messages ==
    /\ \E n \in 0 .. MaxEvents : Sent(n)
    /\ \A e \in Events : event[e].state # "none" => event[e].token \in Tokens

\* What a session works on, and what Google's answer still says
Works(s) ==
    /\ session[s].step \in Busy => session[s].token \in Tokens
    /\ session[s].event # NoEvent => event[session[s].event].state # "none"
    /\ session[s].step = "mark" => session[s].event # NoEvent
Answered(s) ==
    session[s].step \in {"commit", "clear", "ack", "converge"} =>
      LET t == session[s].token  r == session[s].saw IN
      /\ r.ver <= google[t].ver /\ (r.acked => google[t].acked)
      /\ Active(r) => r.order # 0

\* The lock of the provider has one holder, for a purchase without a refund, and
\* nobody writes the purchase between the answer and its commit
Locks ==
    /\ \A s, r \in Sessions : Holding(s) /\ Holding(r) => s = r
    /\ \A s \in Sessions : Holding(s) => job[session[s].token] = "none"
    /\ \A s \in Sessions :
         session[s].step = "commit" => purchase[session[s].token].seen <= session[s].saw.ver

\* Past its commit a session has a purchase that is granted, past the
\* acknowledgement one that Google holds for delivered, and a refund under way
\* was asked for
Past(s) ==
    LET t == session[s].token  r == session[s].saw IN
    /\ session[s].step \in {"clear", "ack", "converge"} =>
         /\ Known(t)
         /\ Active(r) \/ session[s].step # "clear" => r.order \in receipt[t].orders
    /\ session[s].step = "converge" => google[t].acked
    /\ session[s].step \in {"revoke", "confirm"} => job[t] # "none"

\* No record is newer than the purchase; only granted ones have receipts
Records ==
    /\ \A t \in Tokens : purchase[t].seen <= google[t].ver
    /\ \A t \in Tokens : receipt[t].orders # {} => Known(t)
    /\ GrantedOrRefunded
    /\ AckedMeansGranted

Inv ==
    /\ TypeOK
    /\ Sales
    /\ Messages
    /\ \A s \in Sessions : Works(s) /\ Answered(s) /\ Past(s)
    /\ Locks
    /\ Records

------------------------------------------------------------------------------
(* What every step is shown to keep.                                          *)

\* Nothing that was recorded, granted, acknowledged or sent is taken back
Grows ==
    /\ \A t \in Tokens :
         /\ google[t].ver <= google'[t].ver /\ (google[t].acked => google'[t].acked)
         /\ Known(t) => Known(t)'
         /\ receipt[t].orders \subseteq receipt'[t].orders
         /\ job[t] # "none" => job'[t] # "none"
    /\ \A e \in Events : event[e].state # "none" => event'[e].state # "none"

Typed ==
    /\ google \in [Tokens -> GoogleRow] /\ event \in [Events -> EventRow]
    /\ purchase \in [Tokens -> PurchaseRow] /\ receipt \in [Tokens -> ReceiptRow]
    /\ job \in [Tokens -> {"none", "requested", "confirmed"}]
    /\ intent \in BOOLEAN /\ card \in {"none", "recurring", "one_time", "active"}
    /\ session \in [Sessions -> SessionRow] /\ faults \in 0 .. MaxFaults

LEMMA TypedIsTypeOK == (TypeOK => Typed) /\ (Typed' => TypeOK')
BY DEF TypeOK, Typed, EventRow, ReceiptRow, SessionRow

LEMMA Rows ==
    ASSUME Inv
    PROVE  /\ Typed
           /\ \A t \in Tokens : /\ google[t] \in GoogleRow /\ purchase[t] \in PurchaseRow
                                /\ receipt[t] \in ReceiptRow
                                /\ google[t].ver \in Nat /\ purchase[t].seen \in Nat
           /\ \A s \in Sessions : session[s] \in SessionRow
<1>1. Typed BY TypedIsTypeOK DEF Inv
<1>2. \A t \in Tokens : /\ google[t] \in GoogleRow /\ purchase[t] \in PurchaseRow
                        /\ receipt[t] \in ReceiptRow
  BY <1>1 DEF Typed
<1>3. \A t \in Tokens : google[t].ver \in Nat /\ purchase[t].seen \in Nat
  BY <1>2 DEF GoogleRow, PurchaseRow
<1> QED BY <1>1, <1>2, <1>3 DEF Typed

\* A session nobody moves keeps what it relies on
LEMMA SessionStays ==
    ASSUME Inv, Typed', Grows, NEW r \in Sessions, session'[r] = session[r]
    PROVE  Works(r)' /\ Answered(r)' /\ Past(r)'
<1>1. Works(r) /\ Answered(r) /\ Past(r) /\ session[r] \in SessionRow BY Rows DEF Inv
<1>2. Works(r)' BY <1>1 DEF Works, Grows, SessionRow
<1>3. Answered(r)'
  <2>1. SUFFICES ASSUME session[r].step \in {"commit", "clear", "ack", "converge"}
                 PROVE  Answered(r)'
    BY DEF Answered
  <2>2. PICK t \in Tokens : t = session[r].token BY <1>1, <2>1 DEF Works, Busy
  <2>3. google[t].ver \in Nat /\ google'[t].ver \in Nat /\ session[r].saw.ver \in Nat
    BY <1>1, Rows DEF Typed, GoogleRow, SessionRow
  <2> QED BY <1>1, <2>1, <2>2, <2>3 DEF Answered, Grows
<1>4. Past(r)'
  <2>1. CASE session[r].step \in {"clear", "ack", "converge"}
    <3>1. PICK t \in Tokens : t = session[r].token BY <1>1, <2>1 DEF Works, Busy
    <3>2. /\ Known(t) /\ (session[r].step = "converge" => google[t].acked)
          /\ Active(session[r].saw) \/ session[r].step # "clear" =>
                 session[r].saw.order \in receipt[t].orders
      BY <1>1, <2>1, <3>1 DEF Past
    <3>3. /\ Known(t)' /\ (session[r].step = "converge" => google'[t].acked)
          /\ Active(session[r].saw) \/ session[r].step # "clear" =>
                 session[r].saw.order \in receipt'[t].orders
      BY <3>1, <3>2 DEF Grows
    <3> QED BY <2>1, <3>1, <3>3 DEF Past
  <2>2. CASE session[r].step \in {"revoke", "confirm"}
    <3>1. session[r].token \in Tokens BY <1>1, <2>2 DEF Works, Busy
    <3> QED BY <1>1, <2>2, <3>1 DEF Past, Grows
  <2>3. CASE session[r].step \notin {"clear", "ack", "converge", "revoke", "confirm"}
    BY <2>3 DEF Past
  <2> QED BY <2>1, <2>2, <2>3
<1> QED BY <1>2, <1>3, <1>4

\* The lock stays with whom it was, for a purchase nobody else writes
LEMMA LocksStay ==
    ASSUME Inv, \A r \in Sessions : Holding(r)' => session'[r] = session[r],
           \A t \in Tokens : job[t] = "none" => job'[t] = "none",
           \A t \in Tokens : purchase'[t].seen = purchase[t].seen
    PROVE  Locks'
<1>1. \A r \in Sessions : Holding(r)' => Holding(r) BY DEF Holding
<1>2. \A r \in Sessions : Holding(r) => session[r].token \in Tokens
  BY DEF Inv, Works, Holding, Busy
<1>3. \A s, r \in Sessions : Holding(s)' /\ Holding(r)' => s = r BY <1>1 DEF Inv, Locks
<1>4. \A s \in Sessions : Holding(s)' => job'[session'[s].token] = "none"
  BY <1>1, <1>2 DEF Inv, Locks, LockFree, Holding
<1>5. \A s \in Sessions : session'[s].step = "commit" =>
          purchase'[session'[s].token].seen <= session'[s].saw.ver
  BY <1>1, <1>2 DEF Inv, Locks, Holding
<1> QED BY <1>3, <1>4, <1>5 DEF Locks, Holding

\* Receipts, refunds and purchases as they were, and Google's numbers only grow
LEMMA RecordsStay ==
    ASSUME Inv, Typed', UNCHANGED <<receipt, job>>,
           \A t \in Tokens : /\ purchase'[t].seen = purchase[t].seen
                             /\ purchase'[t].state = purchase[t].state
                             /\ google[t].ver <= google'[t].ver
                             /\ google'[t].acked = google[t].acked
    PROVE  Records'
<1>1. \A t \in Tokens : purchase'[t].seen <= google'[t].ver
  <2>1. ASSUME NEW t \in Tokens PROVE purchase'[t].seen <= google'[t].ver
    <3>1. google[t].ver \in Nat /\ google'[t].ver \in Nat /\ purchase[t].seen \in Nat
      BY Rows DEF Typed, GoogleRow
    <3>2. purchase[t].seen <= google[t].ver BY DEF Inv, Records
    <3> QED BY <3>1, <3>2
  <2> QED BY <2>1
<1>2. GrantedOrRefunded' BY DEF Inv, Records, GrantedOrRefunded, Known
<1>3. AckedMeansGranted' BY DEF Inv, Records, AckedMeansGranted, Known
<1>4. \A t \in Tokens : receipt'[t].orders # {} => Known(t)' BY DEF Inv, Records, Known
<1> QED BY <1>1, <1>2, <1>3, <1>4 DEF Records

\* A message that was sent is worked off
LEMMA EventStep ==
    ASSUME Inv, NEW e \in Events, event[e].state # "none", NEW st \in {"waiting", "done"},
           event' = [event EXCEPT ![e].state = st], UNCHANGED google
    PROVE  /\ event' \in [Events -> EventRow] /\ Messages'
           /\ \A d \in Events : event[d].state # "none" => event'[d].state # "none"
<1>1. event \in [Events -> EventRow] BY Rows DEF Typed
<1>2. event' \in [Events -> EventRow] BY <1>1 DEF EventRow
<1>3. \A d \in Events : /\ event'[d].token = event[d].token
                        /\ event'[d].state = "none" <=> event[d].state = "none"
  BY <1>1 DEF EventRow
<1>4. PICK n \in 0 .. MaxEvents : Sent(n) BY DEF Inv, Messages
<1>5. Sent(n)' BY <1>3, <1>4 DEF Sent
<1>6. Messages' BY <1>3, <1>5 DEF Inv, Messages
<1> QED BY <1>2, <1>3, <1>6

\* One session moves on; purchases, receipts, refunds and Google stay as they are
LEMMA SessionStep ==
    ASSUME Inv, NEW s \in Sessions, NEW row \in SessionRow,
           session' = [session EXCEPT ![s] = row],
           UNCHANGED <<google, purchase, receipt, job>>,
           event' \in [Events -> EventRow], Messages',
           \A e \in Events : event[e].state # "none" => event'[e].state # "none",
           intent' \in BOOLEAN, card' = card, faults' \in 0 .. MaxFaults,
           Works(s)', Answered(s)', Past(s)',
           \/ row.step \notin {"verify", "commit"}
           \/ row.step = "verify" /\ LockFree /\ job[row.token] = "none"
           \/ /\ row.step = "commit" /\ session[s].step = "verify"
              /\ row.token = session[s].token /\ purchase[row.token].seen <= row.saw.ver
    PROVE  Inv'
<1>1. session \in [Sessions -> SessionRow] BY Rows DEF Typed
<1>2. session'[s] = row /\ \A r \in Sessions : r # s => session'[r] = session[r] BY <1>1
<1>3. Typed' BY <1>1, Rows DEF Typed
<1>4. Grows
  <2>1. \A t \in Tokens : google[t].ver <= google[t].ver BY Rows
  <2> QED BY <2>1 DEF Grows, Known
<1>5. \A r \in Sessions : Works(r)' /\ Answered(r)' /\ Past(r)'
  BY <1>2, <1>3, <1>4, SessionStays
<1>6. Sales' BY DEF Inv, Sales
<1>7. Records'
  <2>1. \A t \in Tokens : google[t].ver <= google'[t].ver BY <1>4 DEF Grows
  <2> QED BY <1>3, <2>1, RecordsStay
<1>8. Locks'
  <2>1. CASE row.step \notin {"verify", "commit"}
    <3>1. \A r \in Sessions : Holding(r)' => session'[r] = session[r]
      BY <1>2, <2>1 DEF Holding
    <3> QED BY <3>1, LocksStay
  <2>2. CASE row.step = "verify" /\ LockFree /\ job[row.token] = "none"
    <3>1. \A r \in Sessions : r # s => ~Holding(r)' BY <1>2, <2>2 DEF LockFree, Holding
    <3> QED BY <1>2, <2>2, <3>1 DEF Locks, Holding
  <2>3. CASE /\ row.step = "commit" /\ session[s].step = "verify"
             /\ row.token = session[s].token /\ purchase[row.token].seen <= row.saw.ver
    <3>1. Holding(s) BY <2>3 DEF Holding
    <3>2. \A r \in Sessions : r # s => ~Holding(r)' BY <1>2, <3>1 DEF Inv, Locks, Holding
    <3>3. job[row.token] = "none" BY <2>3, <3>1 DEF Inv, Locks
    <3> QED BY <1>2, <2>3, <3>2, <3>3 DEF Locks, Holding
  <2> QED BY <2>1, <2>2, <2>3
<1>9. TypeOK' BY <1>3, TypedIsTypeOK
<1> QED BY <1>5, <1>6, <1>7, <1>8, <1>9 DEF Inv

\* No session moves, and what happens concerns messages, the reservation and the
\* other subscription alone
LEMMA AroundStep ==
    ASSUME Inv, UNCHANGED <<google, purchase, receipt, job, session, faults>>,
           event' \in [Events -> EventRow], Messages',
           \A e \in Events : event[e].state # "none" => event'[e].state # "none",
           intent' \in BOOLEAN, card' \in {"none", "recurring", "one_time", "active"}
    PROVE  Inv'
<1>1. Typed' BY Rows DEF Typed
<1>2. Grows
  <2>1. \A t \in Tokens : google[t].ver <= google[t].ver BY Rows
  <2> QED BY <2>1 DEF Grows, Known
<1>3. \A r \in Sessions : Works(r)' /\ Answered(r)' /\ Past(r)' BY <1>1, <1>2, SessionStays
<1>4. Sales' BY DEF Inv, Sales
<1>5. Records'
  <2>1. \A t \in Tokens : google[t].ver <= google'[t].ver BY <1>2 DEF Grows
  <2> QED BY <1>1, <2>1, RecordsStay
<1>6. Locks' BY LocksStay
<1>7. TypeOK' BY <1>1, TypedIsTypeOK
<1> QED BY <1>3, <1>4, <1>5, <1>6, <1>7 DEF Inv

LEMMA EventsStay ==
    ASSUME Inv, UNCHANGED <<event, google>>
    PROVE  event' \in [Events -> EventRow] /\ Messages'
<1>1. Messages' BY DEF Inv, Messages, Sent
<1> QED BY <1>1, Rows DEF Typed

------------------------------------------------------------------------------
(* Google and the buyer.                                                      *)

\* A purchase changes at Google and a message is sent
LEMMA ChangesKeep ==
    ASSUME Inv, NEW t \in Tokens, NEW row, Changes(t, row),
           [row EXCEPT !.ver = 0] \in GoogleRow, row.acked = google[t].acked,
           row.state # "none", Active(row) => row.order # 0,
           purchase' \in [Tokens -> PurchaseRow],
           \A u \in Tokens : /\ purchase'[u].seen = purchase[u].seen
                             /\ purchase'[u].state = purchase[u].state,
           UNCHANGED <<receipt, job, intent, card, session, faults>>
    PROVE  Inv'
<1>1. PICK e \in Events :
         /\ \A d \in Events : event[d].state = "none" <=> d >= e
         /\ event' = [event EXCEPT ![e] = [token |-> t, state |-> "sent"]]
         /\ google' = [google EXCEPT ![t] = [row EXCEPT !.ver = google[t].ver + 1]]
  BY DEF Changes
<1>2. /\ google \in [Tokens -> GoogleRow] /\ event \in [Events -> EventRow]
      /\ google[t] \in GoogleRow /\ \A u \in Tokens : google[u].ver \in Nat
  BY Rows DEF Typed
<1>3. PICK n \in 0 .. MaxEvents : Sent(n) BY DEF Inv, Messages
<1>4. n = e - 1 /\ e \in 1 .. MaxEvents
  <2>1. e \in 1 .. MaxEvents /\ n \in Nat OBVIOUS
  <2>2. \A d \in Events : d > n <=> d >= e BY <1>1, <1>3 DEF Sent
  <2>3. e > n BY <2>1, <2>2
  <2>4. CASE n = 0 BY <2>1, <2>2, <2>3, <2>4
  <2>5. CASE n # 0
    <3>1. n \in Events BY <2>5
    <3>2. ~(n >= e) BY <2>2, <3>1
    <3>3. n + 1 \in Events /\ n + 1 >= e BY <2>1, <2>2, <2>3
    <3> QED BY <2>1, <2>2, <2>3, <3>2, <3>3
  <2> QED BY <2>4, <2>5
<1>5. google[t].ver + 1 \in 0 .. MaxEvents BY <1>2, <1>3, <1>4 DEF Sent
<1>6. PICK new : new = [row EXCEPT !.ver = google[t].ver + 1] OBVIOUS
<1>7. /\ new \in GoogleRow /\ new.ver = google[t].ver + 1 /\ new.acked = google[t].acked
      /\ new.state # "none" /\ new.state = row.state /\ new.order = row.order
  BY <1>5, <1>6 DEF GoogleRow
<1>8. /\ google' \in [Tokens -> GoogleRow] /\ google'[t] = new
      /\ \A u \in Tokens : u # t => google'[u] = google[u]
  BY <1>1, <1>2, <1>6, <1>7
<1>9. /\ event' \in [Events -> EventRow] /\ event'[e] = [token |-> t, state |-> "sent"]
      /\ \A d \in Events : d # e => event'[d] = event[d]
  BY <1>1, <1>2 DEF EventRow
<1>10. \A u \in Tokens : google[u].ver <= google'[u].ver /\ google'[u].acked = google[u].acked
  <2>1. google[t].ver <= google'[t].ver /\ google'[t].acked = google[t].acked
    BY <1>2, <1>7, <1>8
  <2>2. ASSUME NEW u \in Tokens, u # t
        PROVE  google[u].ver <= google'[u].ver /\ google'[u].acked = google[u].acked
    BY <1>2, <1>8, <2>2
  <2> QED BY <2>1, <2>2
<1>11. Typed' BY <1>8, <1>9, Rows DEF Typed
<1>12. Grows
  <2>1. \A d \in Events : event[d].state # "none" => event'[d].state # "none" BY <1>9
  <2> QED BY <1>10, <2>1 DEF Grows, Known
<1>13. \A r \in Sessions : Works(r)' /\ Answered(r)' /\ Past(r)' BY <1>11, <1>12, SessionStays
<1>14. Sales'
  <2>1. Active(new) <=> Active(row) BY <1>7 DEF Active
  <2>2. google'[t].state # "none" /\ (Active(google'[t]) => google'[t].order # 0)
    BY <1>7, <1>8, <2>1
  <2> QED BY <1>8, <2>2 DEF Inv, Sales, Active
<1>15. Messages'
  <2>1. \A d \in Events : event'[d].state = "none" <=> d > e
    BY <1>1, <1>9
  <2>2. \A u \in Tokens : google'[u].ver <= e
    <3>1. \A u \in Tokens : google[u].ver \in Nat /\ google[u].ver <= n
      BY <1>2, <1>3 DEF Sent
    <3>2. google'[t].ver <= e BY <1>4, <1>7, <1>8, <3>1
    <3>3. ASSUME NEW u \in Tokens, u # t PROVE google'[u].ver <= e
      BY <1>4, <1>8, <3>1, <3>3
    <3> QED BY <3>2, <3>3
  <2>3. Sent(e)' BY <2>1, <2>2 DEF Sent
  <2>4. e \in 0 .. MaxEvents OBVIOUS
  <2>5. \A d \in Events : event'[d].state # "none" => event'[d].token \in Tokens
    BY <1>9 DEF Inv, Messages
  <2> QED BY <2>3, <2>4, <2>5 DEF Messages
<1>16. Records' BY <1>10, <1>11, RecordsStay
<1>17. Locks' BY LocksStay
<1>18. TypeOK' BY <1>11, TypedIsTypeOK
<1> QED BY <1>13, <1>14, <1>15, <1>16, <1>17, <1>18 DEF Inv

\* What a change must not touch or break
Fits(t, row) ==
    /\ [row EXCEPT !.ver = 0] \in GoogleRow /\ row.acked = google[t].acked
    /\ row.state # "none" /\ (Active(row) => row.order # 0)

LEMMA OrderFits ==
    ASSUME Inv, NEW t \in Tokens, google[t].order < MaxOrders
    PROVE  Fits(t, NextOrder(t)) /\ \A b \in BOOLEAN : Fits(t, [NextOrder(t) EXCEPT !.renews = b])
<1>1. google[t] \in GoogleRow BY Rows
<1>2. google[t].order + 1 \in 0 .. MaxOrders /\ google[t].order + 1 # 0 /\ 0 \in 0 .. MaxEvents
  BY <1>1 DEF GoogleRow
<1>3. Fits(t, NextOrder(t)) BY <1>1, <1>2 DEF Fits, NextOrder, GoogleRow, GoogleStates
<1>4. ASSUME NEW b \in BOOLEAN PROVE Fits(t, [NextOrder(t) EXCEPT !.renews = b])
  BY <1>1, <1>2 DEF Fits, NextOrder, GoogleRow, GoogleStates
<1> QED BY <1>3, <1>4

LEMMA StateFits ==
    ASSUME Inv, NEW t \in Tokens, NEW st \in GoogleStates, NEW b \in BOOLEAN, st # "none",
           st \in {"active", "canceled"} => google[t].order # 0
    PROVE  Fits(t, [google[t] EXCEPT !.state = st, !.renews = b])
<1>1. google[t] \in GoogleRow /\ 0 \in 0 .. MaxEvents BY Rows
<1> QED BY <1>1 DEF Fits, GoogleRow, Active

LEMMA FittingKeeps ==
    ASSUME Inv, NEW t \in Tokens, NEW row, Changes(t, row), Fits(t, row),
           purchase' = purchase \/ purchase' = [purchase EXCEPT ![t].live = FALSE],
           UNCHANGED <<receipt, job, intent, card, session, faults>>
    PROVE  Inv'
<1>1. purchase \in [Tokens -> PurchaseRow] BY Rows DEF Typed
<1>2. /\ purchase' \in [Tokens -> PurchaseRow]
      /\ \A u \in Tokens : /\ purchase'[u].seen = purchase[u].seen
                           /\ purchase'[u].state = purchase[u].state
  <2>1. CASE purchase' = purchase BY <1>1, <2>1
  <2>2. CASE purchase' = [purchase EXCEPT ![t].live = FALSE] BY <1>1, <2>2 DEF PurchaseRow
  <2> QED BY <2>1, <2>2
<1> QED BY <1>2, ChangesKeep DEF Fits

LEMMA BuyKeeps ==
    ASSUME Inv, NEW t \in Tokens, Buy(t)
    PROVE  Inv'
<1>1. google[t] = NoSale /\ google[t].order = 0
  <2>1. google[t].state = "none" BY DEF Buy
  <2> QED BY <2>1 DEF Inv, Sales, NoSale
<1>2. PICK b \in BOOLEAN : \/ Changes(t, [NextOrder(t) EXCEPT !.renews = b])
                           \/ Changes(t, [google[t] EXCEPT !.state = "pending", !.renews = b])
  BY DEF Buy
<1>3. UNCHANGED <<purchase, receipt, job, intent, card, session, faults>> BY DEF Buy
<1>4. CASE Changes(t, [NextOrder(t) EXCEPT !.renews = b])
  <2>1. PICK row : row = [NextOrder(t) EXCEPT !.renews = b] OBVIOUS
  <2>2. Fits(t, row) BY <1>1, <2>1, OrderFits
  <2> QED BY <1>3, <1>4, <2>1, <2>2, FittingKeeps
<1>5. CASE Changes(t, [google[t] EXCEPT !.state = "pending", !.renews = b])
  <2>1. PICK row : row = [google[t] EXCEPT !.state = "pending", !.renews = b] OBVIOUS
  <2>2. Fits(t, row) BY <2>1, StateFits DEF GoogleStates
  <2> QED BY <1>3, <1>5, <2>1, <2>2, FittingKeeps
<1> QED BY <1>2, <1>4, <1>5

LEMMA SaleKeeps ==
    ASSUME Inv, NEW t \in Tokens, Sale(t)
    PROVE  Inv'
<1>1. UNCHANGED <<purchase, receipt, job, intent, card, session, faults>> BY DEF Sale
<1>2. google[t] \in GoogleRow /\ (Active(google[t]) => google[t].order # 0)
  BY Rows DEF Inv, Sales
<1>3. CASE google[t].order < MaxOrders /\ Changes(t, NextOrder(t))
  <2>1. PICK row : row = NextOrder(t) OBVIOUS
  <2>2. Fits(t, row) BY <1>3, <2>1, OrderFits
  <2> QED BY <1>1, <1>3, <2>1, <2>2, FittingKeeps
<1>4. CASE Changes(t, [google[t] EXCEPT !.state = "expired", !.renews = FALSE])
  <2>1. PICK row : row = [google[t] EXCEPT !.state = "expired", !.renews = FALSE] OBVIOUS
  <2>2. Fits(t, row) BY <2>1, StateFits DEF GoogleStates
  <2> QED BY <1>1, <1>4, <2>1, <2>2, FittingKeeps
<1>5. CASE /\ google[t].state = "active"
           /\ Changes(t, [google[t] EXCEPT !.state = "canceled", !.renews = FALSE])
  <2>1. PICK row : row = [google[t] EXCEPT !.state = "canceled", !.renews = FALSE] OBVIOUS
  <2>2. Fits(t, row) BY <1>2, <1>5, <2>1, StateFits DEF GoogleStates, Active
  <2> QED BY <1>1, <1>5, <2>1, <2>2, FittingKeeps
<1>6. CASE /\ google[t].state = "canceled"
           /\ Changes(t, [google[t] EXCEPT !.state = "active", !.renews = TRUE])
  <2>1. PICK row : row = [google[t] EXCEPT !.state = "active", !.renews = TRUE] OBVIOUS
  <2>2. Fits(t, row) BY <1>2, <1>6, <2>1, StateFits DEF GoogleStates, Active
  <2> QED BY <1>1, <1>6, <2>1, <2>2, FittingKeeps
<1> QED BY <1>3, <1>4, <1>5, <1>6 DEF Sale

LEMMA PeriodEndsKeeps ==
    ASSUME Inv, NEW t \in Tokens, PeriodEnds(t)
    PROVE  Inv'
<1>1. /\ purchase' = [purchase EXCEPT ![t].live = FALSE]
      /\ UNCHANGED <<receipt, job, intent, card, session, faults>>
  BY DEF PeriodEnds
<1>2. google[t] \in GoogleRow BY Rows
<1>3. CASE google[t].order < MaxOrders /\ Changes(t, NextOrder(t))
  <2>1. PICK row : row = NextOrder(t) OBVIOUS
  <2>2. Fits(t, row) BY <1>3, <2>1, OrderFits
  <2> QED BY <1>1, <1>3, <2>1, <2>2, FittingKeeps
<1>4. CASE Changes(t, [google[t] EXCEPT !.state = "hold"])
  <2>1. PICK row : row = [google[t] EXCEPT !.state = "hold"] OBVIOUS
  <2>2. 0 \in 0 .. MaxEvents OBVIOUS
  <2>3. Fits(t, row) BY <1>2, <2>1, <2>2 DEF Fits, GoogleRow, GoogleStates, Active
  <2> QED BY <1>1, <1>4, <2>1, <2>3, FittingKeeps
<1>5. CASE Changes(t, [google[t] EXCEPT !.state = "expired", !.renews = FALSE])
  <2>1. PICK row : row = [google[t] EXCEPT !.state = "expired", !.renews = FALSE] OBVIOUS
  <2>2. Fits(t, row) BY <2>1, StateFits DEF GoogleStates
  <2> QED BY <1>1, <1>5, <2>1, <2>2, FittingKeeps
<1> QED BY <1>3, <1>4, <1>5 DEF PeriodEnds
------------------------------------------------------------------------------
(* Around the purchases: messages, reservations and the other subscription.   *)

LEMMA AroundKeeps ==
    ASSUME Inv, CardCheckout \/ CardMoves \/ Prepare \/ IntentExpires
    PROVE  Inv'
<1>1. UNCHANGED <<google, event, purchase, receipt, job, session, faults>>
  BY DEF CardCheckout, CardMoves, Prepare, IntentExpires
<1>2. intent' \in BOOLEAN /\ card' \in {"none", "recurring", "one_time", "active"}
  BY Rows DEF Typed, CardCheckout, CardMoves, Prepare, IntentExpires
<1>3. event' \in [Events -> EventRow] /\ Messages' BY <1>1, EventsStay
<1> QED BY <1>1, <1>2, <1>3, AroundStep

LEMMA MessageKeeps ==
    ASSUME Inv, NEW e \in Events, Notification(e) \/ MarkRefunded(e)
    PROVE  Inv'
<1>1. PICK st \in {"waiting", "done"} : event' = [event EXCEPT ![e].state = st]
  BY DEF Notification, MarkRefunded
<1>2. event[e].state # "none" BY DEF Notification, MarkRefunded, Unmatched
<1>3. UNCHANGED <<google, purchase, receipt, job, intent, card, session, faults>>
  BY DEF Notification, MarkRefunded
<1>4. /\ event' \in [Events -> EventRow] /\ Messages'
      /\ \A d \in Events : event[d].state # "none" => event'[d].state # "none"
  BY <1>1, <1>2, <1>3, EventStep
<1>5. intent' \in BOOLEAN /\ card' \in {"none", "recurring", "one_time", "active"}
  BY <1>3, Rows DEF Typed
<1> QED BY <1>3, <1>4, <1>5, AroundStep

LEMMA MatchKeeps ==
    ASSUME Inv, Match
    PROVE  Inv'
<1>1. UNCHANGED <<google, receipt, job, intent, card, session, faults>> BY DEF Match
<1>2. event \in [Events -> EventRow] /\ purchase \in [Tokens -> PurchaseRow] BY Rows DEF Typed
<1>3. \A e \in Events : event'[e] = IF e \in Matched THEN [event[e] EXCEPT !.state = "done"]
                                    ELSE event[e]
  BY DEF Match
<1>4. \A e \in Events : /\ event'[e] \in EventRow /\ event'[e].token = event[e].token
                        /\ event'[e].state = "none" <=> event[e].state = "none"
  BY <1>2, <1>3 DEF EventRow, Matched
<1>5. event' \in [Events -> EventRow] BY <1>4 DEF Match
<1>6. \A t \in Tokens : /\ purchase'[t] \in PurchaseRow
                        /\ purchase'[t].seen = purchase[t].seen
                        /\ purchase'[t].state = purchase[t].state
  BY <1>2 DEF Match, PurchaseRow
<1>7. purchase' \in [Tokens -> PurchaseRow] BY <1>6 DEF Match
<1>8. Typed' BY <1>1, <1>5, <1>7, Rows DEF Typed
<1>9. Grows
  <2>1. \A t \in Tokens : google[t].ver <= google[t].ver BY Rows
  <2> QED BY <1>1, <1>4, <1>6, <2>1 DEF Grows, Known
<1>10. \A r \in Sessions : Works(r)' /\ Answered(r)' /\ Past(r)'
  BY <1>1, <1>8, <1>9, SessionStays
<1>11. Messages'
  <2>1. PICK n \in 0 .. MaxEvents : Sent(n) BY DEF Inv, Messages
  <2>2. Sent(n)' BY <1>1, <1>4, <2>1 DEF Sent
  <2> QED BY <1>4, <2>2 DEF Inv, Messages
<1>12. Sales' BY <1>1 DEF Inv, Sales
<1>13. Records'
  <2>1. \A t \in Tokens : google[t].ver <= google'[t].ver BY <1>9 DEF Grows
  <2> QED BY <1>1, <1>6, <1>8, <2>1, RecordsStay
<1>14. Locks' BY <1>1, <1>6, LocksStay
<1>15. TypeOK' BY <1>8, TypedIsTypeOK
<1> QED BY <1>10, <1>11, <1>12, <1>13, <1>14, <1>15 DEF Inv

------------------------------------------------------------------------------
(* Sessions that begin, read, wait and end.                                   *)

\* A session that relies on nothing
LEMMA Rests ==
    ASSUME NEW s \in Sessions, session'[s] = Idle
    PROVE  Works(s)' /\ Answered(s)' /\ Past(s)' /\ Idle.step = "idle"
BY DEF Works, Answered, Past, Idle, Busy

LEMMA IdleTyped == Idle \in SessionRow
<1>1. 0 \in 0 .. MaxOrders /\ 0 \in 0 .. MaxEvents OBVIOUS
<1> QED BY <1>1 DEF Idle, SessionRow, NoSale, GoogleRow, GoogleStates

\* A session comes to its end; its message may be marked with it
LEMMA FinishKeeps ==
    ASSUME Inv, NEW s \in Sessions, Finish(s),
           UNCHANGED <<google, purchase, receipt, job, intent, card>>,
           event' \in [Events -> EventRow], Messages',
           \A e \in Events : event[e].state # "none" => event'[e].state # "none",
           faults' \in 0 .. MaxFaults
    PROVE  Inv'
<1>1. session' = [session EXCEPT ![s] = Idle] BY DEF Finish
<1>2. session'[s] = Idle BY <1>1, Rows DEF Typed
<1>3. Works(s)' /\ Answered(s)' /\ Past(s)' /\ Idle.step = "idle" BY <1>2, Rests
<1>4. intent' \in BOOLEAN /\ Idle \in SessionRow BY Rows, IdleTyped DEF Typed
<1> QED BY <1>1, <1>3, <1>4, SessionStep

\* A purchase is taken up under the lock of the provider
LEMMA StartKeeps ==
    ASSUME Inv, NEW s \in Sessions, NEW t \in Tokens, NEW e \in Events \cup {NoEvent},
           e # NoEvent => event[e].state # "none",
           MayProcess(t), Start(s, t, e),
           UNCHANGED <<google, event, purchase, receipt, job, intent, card, faults>>
    PROVE  Inv'
<1>1. PICK row : row = [Idle EXCEPT !.step = "verify", !.token = t, !.event = e] OBVIOUS
<1>2. row.step = "verify" /\ row.token = t /\ row.event = e BY <1>1 DEF Idle
<1>3. row \in SessionRow BY <1>1, IdleTyped DEF SessionRow
<1>4. session' = [session EXCEPT ![s] = row] BY <1>1 DEF Start
<1>5. session'[s] = row BY <1>4, Rows DEF Typed
<1>6. Works(s)' BY <1>2, <1>5 DEF Works, Busy
<1>7. Answered(s)' /\ Past(s)' BY <1>2, <1>5 DEF Answered, Past
<1>8. event' \in [Events -> EventRow] /\ Messages' BY EventsStay
<1>9. intent' \in BOOLEAN /\ faults' \in 0 .. MaxFaults BY Rows DEF Typed
<1>10. LockFree /\ job[row.token] = "none" BY <1>2 DEF MayProcess
<1> QED BY <1>2, <1>3, <1>4, <1>6, <1>7, <1>8, <1>9, <1>10, SessionStep

LEMMA BeginKeeps ==
    ASSUME Inv, NEW s \in Sessions, NEW t \in Tokens, VerifyRequest(s, t) \/ Claim(s, t)
    PROVE  Inv'
<1>1. MayProcess(t) /\ Start(s, t, NoEvent) BY DEF VerifyRequest, Claim
<1>2. UNCHANGED <<google, event, purchase, receipt, job, intent, card, faults>>
  BY DEF VerifyRequest, Claim
<1> QED BY <1>1, <1>2, StartKeeps

LEMMA RecoverKeeps ==
    ASSUME Inv, NEW s \in Sessions, NEW e \in Events, Recover(s, e)
    PROVE  Inv'
<1>1. event[e].state # "none" BY DEF Recover, Unmatched
<1>2. PICK t \in Tokens : t = event[e].token BY <1>1 DEF Inv, Messages
<1>3. MayProcess(t) /\ Start(s, t, e) BY <1>2 DEF Recover
<1>4. UNCHANGED <<google, event, purchase, receipt, job, intent, card, faults>> BY DEF Recover
<1> QED BY <1>1, <1>3, <1>4, StartKeeps

LEMMA RefundKeeps ==
    ASSUME Inv, NEW s \in Sessions, NEW t \in Tokens, Refund(s, t)
    PROVE  Inv'
<1>1. PICK row : row = [Idle EXCEPT !.step = "revoke", !.token = t] OBVIOUS
<1>2. row.step = "revoke" /\ row.token = t /\ row.event = NoEvent BY <1>1 DEF Idle
<1>3. row \in SessionRow BY <1>1, IdleTyped DEF SessionRow
<1>4. session' = [session EXCEPT ![s] = row] BY <1>1 DEF Refund
<1>5. session'[s] = row BY <1>4, Rows DEF Typed
<1>6. /\ UNCHANGED <<google, event, purchase, receipt, job, intent, card, faults>>
      /\ job[t] = "requested"
  BY DEF Refund
<1>7. Works(s)' /\ Answered(s)' /\ Past(s)' BY <1>2, <1>5, <1>6 DEF Works, Answered, Past
<1>8. event' \in [Events -> EventRow] /\ Messages' BY <1>6, EventsStay
<1>9. intent' \in BOOLEAN /\ faults' \in 0 .. MaxFaults BY <1>6, Rows DEF Typed
<1> QED BY <1>2, <1>3, <1>4, <1>6, <1>7, <1>8, <1>9, SessionStep

\* What a session works on is a token, also where the step says so only
LEMMA TokenOf ==
    ASSUME Inv, NEW s \in Sessions, session[s].step \in Busy
    PROVE  session[s].token \in Tokens
BY DEF Inv, Works

LEMMA VerifyKeeps ==
    ASSUME Inv, NEW s \in Sessions, Verify(s)
    PROVE  Inv'
<1>1. PICK t \in Tokens : t = session[s].token BY TokenOf DEF Verify, Busy
<1>2. PICK row : row = [session[s] EXCEPT !.step = "commit", !.saw = google[t]] OBVIOUS
<1>3. session[s] \in SessionRow /\ google[t] \in GoogleRow BY Rows
<1>4. /\ row \in SessionRow /\ row.step = "commit" /\ row.token = t /\ row.saw = google[t]
      /\ row.event = session[s].event
  BY <1>1, <1>2, <1>3 DEF SessionRow
<1>5. session' = [session EXCEPT ![s] = row] BY <1>1, <1>2, Rows DEF Verify, Typed
<1>6. session'[s] = row BY <1>5, Rows DEF Typed
<1>7. UNCHANGED <<google, event, purchase, receipt, job, intent, card, faults>> BY DEF Verify
<1>8. Works(s)' BY <1>4, <1>6, <1>7 DEF Inv, Works
<1>9. Answered(s)'
  <2>1. google[t].ver \in Nat BY Rows
  <2> QED BY <1>4, <1>6, <1>7, <2>1 DEF Answered, Inv, Sales, Active
<1>10. Past(s)' BY <1>4, <1>6 DEF Past
<1>11. event' \in [Events -> EventRow] /\ Messages' BY <1>7, EventsStay
<1>12. intent' \in BOOLEAN /\ faults' \in 0 .. MaxFaults BY <1>7, Rows DEF Typed
<1>13. session[s].step = "verify" /\ purchase[row.token].seen <= row.saw.ver
  BY <1>4 DEF Verify, Inv, Records
<1> QED BY <1>1, <1>4, <1>5, <1>7, <1>8, <1>9, <1>10, <1>11, <1>12, <1>13, SessionStep

\* The rest of Process is not run
LEMMA ReturnRow ==
    ASSUME Inv, NEW s \in Sessions, Return(s), session[s].step \in Busy,
           \A e \in Events : event[e].state # "none" => event'[e].state # "none"
    PROVE  \E row \in SessionRow :
             /\ session' = [session EXCEPT ![s] = row] /\ session'[s] = row
             /\ row.step \in {"idle", "mark"}
             /\ Works(s)' /\ Answered(s)' /\ Past(s)'
<1>1. session[s] \in SessionRow /\ Works(s) BY Rows DEF Inv
<1>2. PICK row : row = IF session[s].event = NoEvent THEN Idle
                       ELSE [session[s] EXCEPT !.step = "mark"]
  OBVIOUS
<1>3. session' = [session EXCEPT ![s] = row] BY <1>2, Rows DEF Return, Typed
<1>4. session'[s] = row BY <1>3, Rows DEF Typed
<1>5. CASE session[s].event = NoEvent
  <2>1. row = Idle BY <1>2, <1>5
  <2>2. Works(s)' /\ Answered(s)' /\ Past(s)' /\ Idle.step = "idle" BY <1>4, <2>1, Rests
  <2> QED BY <1>3, <1>4, <2>1, <2>2, IdleTyped
<1>6. CASE session[s].event # NoEvent
  <2>1. row = [session[s] EXCEPT !.step = "mark"] BY <1>2, <1>6
  <2>2. row \in SessionRow /\ row.step = "mark" /\ row.event = session[s].event
    BY <1>1, <2>1 DEF SessionRow
  <2>3. session[s].event \in Events BY <1>1, <1>6 DEF SessionRow
  <2>4. Works(s)' BY <1>1, <1>4, <1>6, <2>2, <2>3 DEF Works, Busy
  <2>5. Answered(s)' /\ Past(s)' BY <1>4, <2>2 DEF Answered, Past
  <2> QED BY <1>3, <1>4, <2>2, <2>4, <2>5
<1> QED BY <1>5, <1>6

LEMMA ReturnKeeps ==
    ASSUME Inv, NEW s \in Sessions, Return(s), session[s].step \in Busy,
           UNCHANGED <<google, event, purchase, receipt, job, card>>,
           intent' \in BOOLEAN, faults' \in 0 .. MaxFaults
    PROVE  Inv'
<1>1. PICK row \in SessionRow :
             /\ session' = [session EXCEPT ![s] = row] /\ session'[s] = row
             /\ row.step \in {"idle", "mark"}
             /\ Works(s)' /\ Answered(s)' /\ Past(s)'
  BY ReturnRow
<1>2. event' \in [Events -> EventRow] /\ Messages' BY EventsStay
<1> QED BY <1>1, <1>2, SessionStep

LEMMA CommitNothingKeeps ==
    ASSUME Inv, NEW s \in Sessions, CommitNothing(s)
    PROVE  Inv'
<1>1. Return(s) /\ session[s].step \in Busy BY DEF CommitNothing, Busy
<1>2. UNCHANGED <<google, event, purchase, receipt, job, intent, card, faults>>
  BY DEF CommitNothing
<1>3. intent' \in BOOLEAN /\ faults' \in 0 .. MaxFaults BY <1>2, Rows DEF Typed
<1> QED BY <1>1, <1>2, <1>3, ReturnKeeps

LEMMA DieKeeps ==
    ASSUME Inv, NEW s \in Sessions, Die(s)
    PROVE  Inv'
<1>1. /\ Finish(s) /\ faults' = faults + 1 /\ faults < MaxFaults
      /\ UNCHANGED <<google, event, purchase, receipt, job, intent, card>>
  BY DEF Die
<1>2. event' \in [Events -> EventRow] /\ Messages' BY <1>1, EventsStay
<1>3. faults' \in 0 .. MaxFaults BY <1>1, Rows DEF Typed
<1> QED BY <1>1, <1>2, <1>3, FinishKeeps

LEMMA MarkKeeps ==
    ASSUME Inv, NEW s \in Sessions, Mark(s)
    PROVE  Inv'
<1>1. PICK e \in Events : e = session[s].event /\ event[e].state # "none"
  BY Rows DEF Inv, Works, Mark, SessionRow
<1>2. /\ event' = [event EXCEPT ![e].state = "done"] /\ Finish(s)
      /\ UNCHANGED <<google, purchase, receipt, job, intent, card, faults>>
  BY <1>1 DEF Mark
<1>3. /\ event' \in [Events -> EventRow] /\ Messages'
      /\ \A d \in Events : event[d].state # "none" => event'[d].state # "none"
  BY <1>1, <1>2, EventStep
<1>4. faults' \in 0 .. MaxFaults BY <1>2, Rows DEF Typed
<1> QED BY <1>2, <1>3, <1>4, FinishKeeps
------------------------------------------------------------------------------
(* Commits, acknowledgements and refunds.                                     *)

\* One session moves on and everything else is accounted for
LEMMA WholeStep ==
    ASSUME Inv, NEW s \in Sessions, \A r \in Sessions : r # s => session'[r] = session[r],
           Typed', Grows, Works(s)', Answered(s)', Past(s)',
           Locks', Records', Sales', Messages'
    PROVE  Inv'
<1>1. \A r \in Sessions : Works(r)' /\ Answered(r)' /\ Past(r)' BY SessionStays
<1>2. TypeOK' BY TypedIsTypeOK
<1> QED BY <1>1, <1>2 DEF Inv

\* Whoever commits holds the lock alone and gives it back
LEMMA HolderLeaves ==
    ASSUME Inv, NEW s \in Sessions, session[s].step = "commit",
           \A r \in Sessions : r # s => session'[r] = session[r],
           session'[s].step \notin {"verify", "commit"}
    PROVE  /\ job[session[s].token] = "none"
           /\ purchase[session[s].token].seen <= session[s].saw.ver
           /\ Locks'
<1>1. Holding(s) BY DEF Holding
<1>2. \A r \in Sessions : ~Holding(r)' BY <1>1 DEF Inv, Locks, Holding
<1> QED BY <1>1, <1>2 DEF Inv, Locks, Holding

LEMMA CommitRefundKeeps ==
    ASSUME Inv, NEW s \in Sessions, CommitRefund(s)
    PROVE  Inv'
<1>1. PICK t \in Tokens : t = session[s].token BY TokenOf DEF CommitRefund, Busy
<1>2. /\ session[s].step = "commit" /\ ~Known(t)
      /\ job' = [job EXCEPT ![t] = "requested"] /\ Return(s)
      /\ UNCHANGED <<google, event, purchase, receipt, intent, card, faults>>
  BY <1>1 DEF CommitRefund
<1>3. PICK row \in SessionRow :
             /\ session' = [session EXCEPT ![s] = row] /\ session'[s] = row
             /\ row.step \in {"idle", "mark"}
             /\ Works(s)' /\ Answered(s)' /\ Past(s)'
  BY <1>2, ReturnRow DEF Busy
<1>4. \A r \in Sessions : r # s => session'[r] = session[r] BY <1>3, Rows DEF Typed
<1>5. Locks' BY <1>2, <1>3, <1>4, HolderLeaves
<1>6. job \in [Tokens -> {"none", "requested", "confirmed"}] BY Rows DEF Typed
<1>7. job'[t] = "requested" /\ \A u \in Tokens : u # t => job'[u] = job[u] BY <1>2, <1>6
<1>8. Typed' BY <1>2, <1>3, <1>6, Rows DEF Typed
<1>9. Grows
  <2>1. \A u \in Tokens : google[u].ver <= google[u].ver BY Rows
  <2> QED BY <1>2, <1>7, <2>1 DEF Grows, Known
<1>10. Records'
  <2>1. \A u \in Tokens : purchase'[u].seen <= google'[u].ver BY <1>2 DEF Inv, Records
  <2>2. GrantedOrRefunded' BY <1>2, <1>7 DEF Inv, Records, GrantedOrRefunded, Known
  <2>3. AckedMeansGranted' BY <1>2 DEF Inv, Records, AckedMeansGranted, Known
  <2>4. \A u \in Tokens : receipt'[u].orders # {} => Known(u)' BY <1>2 DEF Inv, Records, Known
  <2> QED BY <2>1, <2>2, <2>3, <2>4 DEF Records
<1>11. Sales' BY <1>2 DEF Inv, Sales
<1>12. Messages' BY <1>2, EventsStay
<1> QED BY <1>3, <1>4, <1>5, <1>8, <1>9, <1>10, <1>11, <1>12, WholeStep

LEMMA CommitPurchaseKeeps ==
    ASSUME Inv, NEW s \in Sessions, CommitPurchase(s)
    PROVE  Inv'
<1>1. PICK t \in Tokens : t = session[s].token BY TokenOf DEF CommitPurchase, Busy
<1>2. PICK r \in GoogleRow : r = session[s].saw BY Rows DEF SessionRow
<1>3. /\ session[s].step = "commit" /\ Goto(s, "clear")
      /\ purchase' = [purchase EXCEPT ![t] = Written(t, r)]
      /\ UNCHANGED <<google, event, job, intent, card, faults>>
  BY <1>1, <1>2 DEF CommitPurchase
<1>4. PICK row : row = [session[s] EXCEPT !.step = "clear"] OBVIOUS
<1>5. /\ row \in SessionRow /\ row.step = "clear" /\ row.token = t /\ row.saw = r
      /\ row.event = session[s].event
  BY <1>1, <1>2, <1>4, Rows DEF SessionRow
<1>6. session'[s] = row /\ \A z \in Sessions : z # s => session'[z] = session[z]
  BY <1>3, <1>4, Rows DEF Goto, Typed
<1>7. session' \in [Sessions -> SessionRow] BY <1>3, <1>4, <1>5, Rows DEF Goto, Typed
<1>8. job[t] = "none" /\ purchase[t].seen <= r.ver /\ Locks'
  BY <1>1, <1>2, <1>3, <1>5, <1>6, HolderLeaves
<1>9. /\ r.ver <= google[t].ver /\ (r.acked => google[t].acked)
      /\ Active(r) => r.order # 0
  BY <1>1, <1>2, <1>3 DEF Inv, Answered
<1>10. Written(t, r) \in PurchaseRow
  BY <1>2 DEF Written, PurchaseRow, GoogleRow, Active, Unacked
<1>11. Written(t, r).state # "absent" /\ Written(t, r).seen = r.ver BY DEF Written
<1>12. /\ purchase' \in [Tokens -> PurchaseRow] /\ Known(t)' /\ purchase'[t].seen = r.ver
       /\ \A u \in Tokens : u # t => purchase'[u] = purchase[u]
  BY <1>3, <1>10, <1>11, Rows DEF Typed, Known
<1>13. PICK new \in ReceiptRow :
         /\ receipt' = [receipt EXCEPT ![t] = new]
         /\ receipt[t].orders \subseteq new.orders
         /\ Active(r) => r.order \in new.orders
         /\ new.rewarded # {} => google[t].acked
  <2>1. receipt[t] \in ReceiptRow /\ receipt \in [Tokens -> ReceiptRow] BY Rows DEF Typed
  <2>2. receipt[t].rewarded # {} => google[t].acked BY DEF Inv, Records, AckedMeansGranted
  <2>3. CASE ~Active(r) \/ r.order \in receipt[t].orders
    <3>1. receipt' = receipt BY <1>1, <1>2, <2>3 DEF CommitPurchase
    <3>2. receipt' = [receipt EXCEPT ![t] = receipt[t]] BY <2>1, <3>1
    <3> QED BY <2>1, <2>2, <2>3, <3>2
  <2>4. CASE Active(r) /\ r.order \notin receipt[t].orders
    <3>1. PICK new : new = [receipt[t] EXCEPT
                              !.orders = @ \cup {r.order},
                              !.rewarded = @ \cup (IF r.acked THEN {r.order} ELSE {})]
      OBVIOUS
    <3>2. receipt' = [receipt EXCEPT ![t] = new]
      BY <1>1, <1>2, <2>1, <2>4, <3>1 DEF CommitPurchase
    <3>3. r.order \in 1 .. MaxOrders BY <1>2, <1>9, <2>4 DEF GoogleRow
    <3>4. /\ new.orders = receipt[t].orders \cup {r.order}
          /\ new.rewarded = receipt[t].rewarded \cup (IF r.acked THEN {r.order} ELSE {})
      BY <2>1, <3>1 DEF ReceiptRow
    <3>5. new \in ReceiptRow BY <2>1, <3>1, <3>3 DEF ReceiptRow
    <3>6. new.rewarded # {} => google[t].acked BY <1>9, <2>2, <3>4
    <3> QED BY <3>2, <3>4, <3>5, <3>6
  <2> QED BY <2>3, <2>4
<1>14. /\ receipt' \in [Tokens -> ReceiptRow] /\ receipt'[t] = new
       /\ \A u \in Tokens : u # t => receipt'[u] = receipt[u]
  BY <1>13, Rows DEF Typed
<1>15. Typed' BY <1>3, <1>7, <1>12, <1>14, Rows DEF Typed
<1>16. Grows
  <2>1. \A u \in Tokens : google[u].ver <= google[u].ver BY Rows
  <2>2. \A u \in Tokens : receipt[u].orders \subseteq receipt'[u].orders BY <1>13, <1>14
  <2>3. \A u \in Tokens : Known(u) => Known(u)' BY <1>12 DEF Known
  <2> QED BY <1>3, <2>1, <2>2, <2>3 DEF Grows
<1>17. Works(s)' BY <1>3, <1>5, <1>6 DEF Inv, Works
<1>18. Answered(s)' BY <1>3, <1>5, <1>6, <1>9 DEF Answered
<1>19. Past(s)' BY <1>5, <1>6, <1>12, <1>13, <1>14 DEF Past
<1>20. Records'
  <2>1. \A u \in Tokens : purchase'[u].seen <= google'[u].ver
    BY <1>3, <1>9, <1>12 DEF Inv, Records
  <2>2. \A u \in Tokens : u # t => (Known(u)' <=> Known(u)) BY <1>12 DEF Known
  <2>3. GrantedOrRefunded' BY <1>3, <1>8, <1>14, <2>2 DEF Inv, Records, GrantedOrRefunded
  <2>4. receipt[t].orders # {} => new.orders # {} BY <1>13
  <2>5. AckedMeansGranted'
    BY <1>3, <1>12, <1>13, <1>14, <2>2, <2>4 DEF Inv, Records, AckedMeansGranted
  <2>6. \A u \in Tokens : receipt'[u].orders # {} => Known(u)'
    BY <1>12, <1>14, <2>2 DEF Inv, Records
  <2> QED BY <2>1, <2>3, <2>5, <2>6 DEF Records
<1>21. Sales' BY <1>3 DEF Inv, Sales
<1>22. Messages' BY <1>3, EventsStay
<1> QED BY <1>6, <1>8, <1>15, <1>16, <1>17, <1>18, <1>19, <1>20, <1>21, <1>22, WholeStep

LEMMA ClearIntentKeeps ==
    ASSUME Inv, NEW s \in Sessions, ClearIntent(s)
    PROVE  Inv'
<1>1. /\ session[s].step = "clear" /\ intent' = FALSE
      /\ UNCHANGED <<google, event, purchase, receipt, job, card, faults>>
  BY DEF ClearIntent
<1>2. session[s].step \in Busy BY <1>1 DEF Busy
<1>3. /\ session[s] \in SessionRow /\ Works(s) /\ Answered(s) /\ Past(s)
      /\ faults' \in 0 .. MaxFaults
  BY <1>1, Rows DEF Inv, Typed
<1>4. event' \in [Events -> EventRow] /\ Messages' BY <1>1, EventsStay
<1>5. CASE Return(s) BY <1>1, <1>2, <1>3, <1>5, ReturnKeeps
<1>6. CASE \/ Goto(s, "ack") /\ Active(session[s].saw)
           \/ Goto(s, "converge") /\ Active(session[s].saw) /\ session[s].saw.acked
  <2>1. PICK step \in {"ack", "converge"} :
          Goto(s, step) /\ (step = "converge" => session[s].saw.acked)
    BY <1>6
  <2>2. PICK row : row = [session[s] EXCEPT !.step = step] OBVIOUS
  <2>3. /\ row \in SessionRow /\ row.step = step /\ row.token = session[s].token
        /\ row.saw = session[s].saw /\ row.event = session[s].event
    BY <1>3, <2>1, <2>2 DEF SessionRow
  <2>4. session' = [session EXCEPT ![s] = row] BY <2>1, <2>2, Rows DEF Goto, Typed
  <2>5. session'[s] = row BY <2>4, Rows DEF Typed
  <2>6. Works(s)' BY <1>1, <1>2, <1>3, <2>1, <2>3, <2>5 DEF Works
  <2>7. Answered(s)' BY <1>1, <1>3, <2>1, <2>3, <2>5 DEF Answered
  <2>8. Past(s)' BY <1>1, <1>3, <1>6, <2>1, <2>3, <2>5 DEF Past, Answered, Known
  <2> QED BY <1>1, <1>3, <1>4, <2>1, <2>3, <2>4, <2>6, <2>7, <2>8, SessionStep
<1> QED BY <1>5, <1>6 DEF ClearIntent, Unacked

\* Google's row of a purchase is written; its number stays
LEMMA GoogleWrite ==
    ASSUME Inv, NEW t \in Tokens, NEW new \in GoogleRow,
           google' = [google EXCEPT ![t] = new], new.ver = google[t].ver,
           google[t].acked => new.acked, new.state # "none",
           Active(new) => new.order # 0,
           UNCHANGED <<event, purchase, receipt, job>>
    PROVE  /\ google' \in [Tokens -> GoogleRow] /\ google'[t] = new
           /\ \A u \in Tokens : u # t => google'[u] = google[u]
           /\ Grows /\ Sales' /\ event' \in [Events -> EventRow] /\ Messages'
<1>1. /\ google' \in [Tokens -> GoogleRow] /\ google'[t] = new
      /\ \A u \in Tokens : u # t => google'[u] = google[u]
  BY Rows DEF Typed
<1>2. \A u \in Tokens : google'[u].ver = google[u].ver BY <1>1
<1>3. Grows
  <2>1. \A u \in Tokens : google[u].ver <= google'[u].ver BY <1>2, Rows
  <2> QED BY <1>1, <2>1 DEF Grows, Known
<1>4. Sales' BY <1>1 DEF Inv, Sales, Active
<1>5. Messages'
  <2>1. PICK n \in 0 .. MaxEvents : Sent(n) BY DEF Inv, Messages
  <2>2. Sent(n)' BY <1>2, <2>1 DEF Sent
  <2> QED BY <2>2 DEF Inv, Messages
<1> QED BY <1>1, <1>3, <1>4, <1>5, Rows DEF Typed

LEMMA AcknowledgeKeeps ==
    ASSUME Inv, NEW s \in Sessions, Acknowledge(s)
    PROVE  Inv'
<1>1. PICK t \in Tokens : t = session[s].token BY TokenOf DEF Acknowledge, Busy
<1>2. /\ session[s].step = "ack" /\ session[s].step \in Busy
      /\ UNCHANGED <<event, purchase, receipt, job, intent, card>>
  BY DEF Acknowledge, Busy
<1>3. /\ session[s] \in SessionRow /\ Works(s) /\ Answered(s) /\ Past(s)
      /\ google[t] \in GoogleRow
  BY Rows DEF Inv
<1>4. CASE ~Active(google[t]) /\ Return(s) /\ UNCHANGED <<google, faults>>
  <2>1. intent' \in BOOLEAN /\ faults' \in 0 .. MaxFaults BY <1>2, <1>4, Rows DEF Typed
  <2> QED BY <1>2, <1>4, <2>1, ReturnKeeps
<1>5. CASE /\ Active(google[t])
           /\ google' = [google EXCEPT ![t].acked = TRUE]
           /\ \/ Goto(s, "converge") /\ UNCHANGED faults
              \/ faults < MaxFaults /\ faults' = faults + 1 /\ Return(s)
  <2>1. PICK new : new = [google[t] EXCEPT !.acked = TRUE] OBVIOUS
  <2>2. /\ new \in GoogleRow /\ new.ver = google[t].ver /\ new.acked
        /\ new.state = google[t].state /\ new.order = google[t].order
    BY <1>3, <2>1 DEF GoogleRow
  <2>3. google' = [google EXCEPT ![t] = new] BY <1>5, <2>1, Rows DEF Typed
  <2>4. new.state # "none" /\ (Active(new) => new.order # 0)
    BY <1>5, <2>2 DEF Inv, Sales, Active
  <2>5. /\ google' \in [Tokens -> GoogleRow] /\ google'[t] = new
        /\ \A u \in Tokens : u # t => google'[u] = google[u]
        /\ Grows /\ Sales' /\ event' \in [Events -> EventRow] /\ Messages'
    BY <1>2, <2>2, <2>3, <2>4, GoogleWrite
  <2>6. Known(t) /\ session[s].saw.order \in receipt[t].orders BY <1>1, <1>2, <1>3 DEF Past
  <2>7. faults' \in 0 .. MaxFaults BY <1>5, Rows DEF Typed
  <2>8. PICK row \in SessionRow :
               /\ session' = [session EXCEPT ![s] = row]
               /\ row.step \in {"idle", "mark", "converge"}
               /\ Works(s)' /\ Answered(s)' /\ Past(s)'
    <3>1. CASE Return(s) BY <1>2, <3>1, ReturnRow
    <3>2. CASE Goto(s, "converge")
      <4>1. PICK row : row = [session[s] EXCEPT !.step = "converge"] OBVIOUS
      <4>2. /\ row \in SessionRow /\ row.step = "converge" /\ row.token = t
            /\ row.saw = session[s].saw /\ row.event = session[s].event
        BY <1>1, <1>3, <4>1 DEF SessionRow
      <4>3. session' = [session EXCEPT ![s] = row] BY <3>2, <4>1, Rows DEF Goto, Typed
      <4>4. session'[s] = row BY <4>3, Rows DEF Typed
      <4>5. Works(s)' BY <1>2, <1>3, <4>2, <4>4 DEF Works
      <4>6. Answered(s)' BY <1>1, <1>2, <1>3, <2>2, <2>5, <4>2, <4>4 DEF Answered
      <4>7. Past(s)' BY <1>2, <2>2, <2>5, <2>6, <4>2, <4>4 DEF Past, Known
      <4> QED BY <4>2, <4>3, <4>5, <4>6, <4>7
    <3> QED BY <1>5, <3>1, <3>2
  <2>9. session'[s] = row /\ \A r \in Sessions : r # s => session'[r] = session[r]
    BY <2>8, Rows DEF Typed
  <2>10. Typed' BY <1>2, <2>5, <2>7, <2>8, Rows DEF Typed
  <2>11. Locks'
    <3>1. \A r \in Sessions : Holding(r)' => session'[r] = session[r]
      BY <2>8, <2>9 DEF Holding
    <3> QED BY <1>2, <3>1, LocksStay
  <2>12. Records'
    <3>1. \A u \in Tokens : google'[u].ver = google[u].ver BY <2>2, <2>5
    <3>2. \A u \in Tokens : purchase'[u].seen <= google'[u].ver
      BY <1>2, <3>1 DEF Inv, Records
    <3>3. GrantedOrRefunded' BY <1>2 DEF Inv, Records, GrantedOrRefunded, Known
    <3>4. AckedMeansGranted'
      BY <1>2, <2>2, <2>5, <2>6 DEF Inv, Records, AckedMeansGranted, Known
    <3>5. \A u \in Tokens : receipt'[u].orders # {} => Known(u)'
      BY <1>2 DEF Inv, Records, Known
    <3> QED BY <3>2, <3>3, <3>4, <3>5 DEF Records
  <2> QED BY <2>5, <2>8, <2>9, <2>10, <2>11, <2>12, WholeStep
<1> QED BY <1>1, <1>2, <1>4, <1>5 DEF Acknowledge

LEMMA ConvergeKeeps ==
    ASSUME Inv, NEW s \in Sessions, Converge(s)
    PROVE  Inv'
<1>1. PICK t \in Tokens : t = session[s].token BY TokenOf DEF Converge, Busy
<1>2. PICK o : o = session[s].saw.order OBVIOUS
<1>3. /\ session[s].step = "converge" /\ session[s].step \in Busy /\ Return(s)
      /\ purchase' = [purchase EXCEPT ![t].needsAck = FALSE]
      /\ receipt' = [receipt EXCEPT ![t].rewarded = @ \cup ({o} \cap receipt[t].orders)]
      /\ UNCHANGED <<google, event, job, intent, card, faults>>
  BY <1>1, <1>2 DEF Converge, Busy
<1>4. PICK row \in SessionRow :
             /\ session' = [session EXCEPT ![s] = row] /\ session'[s] = row
             /\ row.step \in {"idle", "mark"}
             /\ Works(s)' /\ Answered(s)' /\ Past(s)'
  BY <1>3, ReturnRow
<1>5. \A r \in Sessions : r # s => session'[r] = session[r] BY <1>4, Rows DEF Typed
<1>6. google[t].acked BY <1>1, <1>3 DEF Inv, Past
<1>7. /\ purchase' \in [Tokens -> PurchaseRow]
      /\ \A u \in Tokens : /\ purchase'[u].state = purchase[u].state
                           /\ purchase'[u].seen = purchase[u].seen
  BY <1>3, Rows DEF Typed, PurchaseRow
<1>8. /\ receipt' \in [Tokens -> ReceiptRow]
      /\ \A u \in Tokens : /\ receipt'[u].orders = receipt[u].orders
                           /\ u # t => receipt'[u].rewarded = receipt[u].rewarded
  <2>1. receipt \in [Tokens -> ReceiptRow] /\ receipt[t] \in ReceiptRow BY Rows DEF Typed
  <2>2. PICK new : new = [receipt[t] EXCEPT !.rewarded = @ \cup ({o} \cap receipt[t].orders)]
    OBVIOUS
  <2>3. new \in ReceiptRow /\ new.orders = receipt[t].orders BY <2>1, <2>2 DEF ReceiptRow
  <2>4. receipt' = [receipt EXCEPT ![t] = new] BY <1>3, <2>1, <2>2
  <2> QED BY <2>1, <2>3, <2>4
<1>9. Typed' BY <1>3, <1>4, <1>7, <1>8, Rows DEF Typed
<1>10. Grows
  <2>1. \A u \in Tokens : google[u].ver <= google[u].ver BY Rows
  <2> QED BY <1>3, <1>7, <1>8, <2>1 DEF Grows, Known
<1>11. Locks'
  <2>1. \A r \in Sessions : Holding(r)' => session'[r] = session[r]
    BY <1>4, <1>5 DEF Holding
  <2> QED BY <1>3, <1>7, <2>1, LocksStay
<1>12. Records'
  <2>1. \A u \in Tokens : purchase'[u].seen <= google'[u].ver
    BY <1>3, <1>7 DEF Inv, Records
  <2>2. GrantedOrRefunded' BY <1>3, <1>7, <1>8 DEF Inv, Records, GrantedOrRefunded, Known
  <2>3. AckedMeansGranted'
    BY <1>3, <1>6, <1>7, <1>8 DEF Inv, Records, AckedMeansGranted, Known
  <2>4. \A u \in Tokens : receipt'[u].orders # {} => Known(u)'
    BY <1>7, <1>8 DEF Inv, Records, Known
  <2> QED BY <2>1, <2>2, <2>3, <2>4 DEF Records
<1>13. Sales' BY <1>3 DEF Inv, Sales
<1>14. Messages' BY <1>3, EventsStay
<1> QED BY <1>4, <1>5, <1>9, <1>10, <1>11, <1>12, <1>13, <1>14, WholeStep

LEMMA RevokeKeeps ==
    ASSUME Inv, NEW s \in Sessions, Revoke(s)
    PROVE  Inv'
<1>1. PICK t \in Tokens : t = session[s].token BY TokenOf DEF Revoke, Busy
<1>2. /\ session[s].step = "revoke"
      /\ google' = [google EXCEPT ![t].state = "expired", ![t].renews = FALSE]
      /\ \/ Goto(s, "confirm") /\ UNCHANGED faults
         \/ faults < MaxFaults /\ faults' = faults + 1 /\ Finish(s)
      /\ UNCHANGED <<event, purchase, receipt, job, intent, card>>
  BY <1>1 DEF Revoke
<1>3. session[s] \in SessionRow /\ Works(s) /\ google[t] \in GoogleRow BY Rows DEF Inv
<1>4. job[t] # "none" BY <1>1, <1>2 DEF Inv, Past
<1>5. PICK new : new = [google[t] EXCEPT !.state = "expired", !.renews = FALSE] OBVIOUS
<1>6. /\ new \in GoogleRow /\ new.ver = google[t].ver /\ new.acked = google[t].acked
      /\ new.state = "expired" /\ ~Active(new)
  BY <1>3, <1>5 DEF GoogleRow, GoogleStates, Active
<1>7. google' = [google EXCEPT ![t] = new] BY <1>2, <1>5, Rows DEF Typed
<1>8. /\ google' \in [Tokens -> GoogleRow] /\ google'[t] = new
      /\ \A u \in Tokens : u # t => google'[u] = google[u]
      /\ Grows /\ Sales' /\ event' \in [Events -> EventRow] /\ Messages'
  BY <1>2, <1>6, <1>7, GoogleWrite
<1>9. PICK row \in SessionRow :
             /\ session' = [session EXCEPT ![s] = row]
             /\ row.step \in {"idle", "confirm"}
             /\ Works(s)' /\ Answered(s)' /\ Past(s)'
  <2>1. CASE Finish(s)
    <3>1. session' = [session EXCEPT ![s] = Idle] BY <2>1 DEF Finish
    <3>2. session'[s] = Idle BY <3>1, Rows DEF Typed
    <3> QED BY <3>1, <3>2, Rests, IdleTyped
  <2>2. CASE Goto(s, "confirm")
    <3>1. PICK row : row = [session[s] EXCEPT !.step = "confirm"] OBVIOUS
    <3>2. /\ row \in SessionRow /\ row.step = "confirm" /\ row.token = t
          /\ row.event = session[s].event
      BY <1>1, <1>3, <3>1 DEF SessionRow
    <3>3. session' = [session EXCEPT ![s] = row] BY <2>2, <3>1, Rows DEF Goto, Typed
    <3>4. session'[s] = row BY <3>3, Rows DEF Typed
    <3>5. Works(s)' BY <1>2, <1>3, <3>2, <3>4 DEF Works
    <3>6. Answered(s)' /\ Past(s)' BY <1>2, <1>4, <3>2, <3>4 DEF Answered, Past
    <3> QED BY <3>2, <3>3, <3>5, <3>6
  <2> QED BY <1>2, <2>1, <2>2
<1>10. session'[s] = row /\ \A r \in Sessions : r # s => session'[r] = session[r]
  BY <1>9, Rows DEF Typed
<1>11. faults' \in 0 .. MaxFaults BY <1>2, Rows DEF Typed
<1>12. Typed' BY <1>2, <1>8, <1>9, <1>11, Rows DEF Typed
<1>13. Locks'
  <2>1. \A r \in Sessions : Holding(r)' => session'[r] = session[r]
    BY <1>9, <1>10 DEF Holding
  <2> QED BY <1>2, <2>1, LocksStay
<1>14. Records'
  <2>1. \A u \in Tokens : google[u].ver <= google'[u].ver /\ google'[u].acked = google[u].acked
    BY <1>6, <1>8 DEF Grows
  <2> QED BY <1>2, <1>12, <2>1, RecordsStay
<1> QED BY <1>8, <1>9, <1>10, <1>12, <1>13, <1>14, WholeStep

LEMMA ConfirmKeeps ==
    ASSUME Inv, NEW s \in Sessions, Confirm(s)
    PROVE  Inv'
<1>1. PICK t \in Tokens : t = session[s].token BY TokenOf DEF Confirm, Busy
<1>2. /\ session[s].step = "confirm" /\ job' = [job EXCEPT ![t] = "confirmed"] /\ Finish(s)
      /\ UNCHANGED <<google, event, purchase, receipt, intent, card, faults>>
  BY <1>1 DEF Confirm
<1>3. job[t] # "none" BY <1>1, <1>2 DEF Inv, Past
<1>4. /\ job' \in [Tokens -> {"none", "requested", "confirmed"}]
      /\ \A u \in Tokens : job'[u] = "none" <=> job[u] = "none"
  BY <1>2, <1>3, Rows DEF Typed
<1>5. session' = [session EXCEPT ![s] = Idle] BY <1>2 DEF Finish
<1>6. session'[s] = Idle /\ \A r \in Sessions : r # s => session'[r] = session[r]
  BY <1>5, Rows DEF Typed
<1>7. Works(s)' /\ Answered(s)' /\ Past(s)' /\ Idle.step = "idle" BY <1>6, Rests
<1>8. Typed' BY <1>2, <1>4, <1>5, IdleTyped, Rows DEF Typed
<1>9. Grows
  <2>1. \A u \in Tokens : google[u].ver <= google[u].ver BY Rows
  <2> QED BY <1>2, <1>4, <2>1 DEF Grows, Known
<1>10. Locks'
  <2>1. \A r \in Sessions : Holding(r)' => session'[r] = session[r]
    BY <1>6, <1>7 DEF Holding
  <2> QED BY <1>2, <1>4, <2>1, LocksStay
<1>11. Records'
  <2>1. \A u \in Tokens : purchase'[u].seen <= google'[u].ver BY <1>2 DEF Inv, Records
  <2>2. GrantedOrRefunded' BY <1>2, <1>4 DEF Inv, Records, GrantedOrRefunded, Known
  <2>3. AckedMeansGranted' BY <1>2 DEF Inv, Records, AckedMeansGranted, Known
  <2>4. \A u \in Tokens : receipt'[u].orders # {} => Known(u)' BY <1>2 DEF Inv, Records, Known
  <2> QED BY <2>1, <2>2, <2>3, <2>4 DEF Records
<1>12. Sales' BY <1>2 DEF Inv, Sales
<1>13. Messages' BY <1>2, EventsStay
<1> QED BY <1>6, <1>7, <1>8, <1>9, <1>10, <1>11, <1>12, <1>13, WholeStep

------------------------------------------------------------------------------
(* The invariant.                                                             *)

LEMMA Begins == Init => Inv
<1> SUFFICES ASSUME Init PROVE Inv OBVIOUS
<1>1. /\ NoSale \in GoogleRow /\ NoSale.state = "none" /\ NoSale.ver = 0 /\ ~NoSale.acked
      /\ ~Active(NoSale)
  <2>1. 0 \in 0 .. MaxOrders /\ 0 \in 0 .. MaxEvents OBVIOUS
  <2> QED BY <2>1 DEF NoSale, GoogleRow, GoogleStates, Active
<1>2. Absent \in PurchaseRow /\ Absent.state = "absent" /\ Absent.seen = 0
  BY DEF Absent, PurchaseRow
<1>3. TypeOK
  <2>1. session \in [Sessions -> SessionRow] BY IdleTyped DEF Init
  <2>2. /\ google \in [Tokens -> GoogleRow] /\ purchase \in [Tokens -> PurchaseRow]
        /\ job \in [Tokens -> {"none", "requested", "confirmed"}]
    BY <1>1, <1>2 DEF Init
  <2>3. event \in [Events -> EventRow] BY DEF Init, EventRow
  <2>4. receipt \in [Tokens -> ReceiptRow] BY DEF Init, ReceiptRow
  <2>5. intent \in BOOLEAN /\ card \in {"none", "recurring", "one_time", "active"}
    BY DEF Init
  <2>6. faults = 0 /\ 0 \in 0 .. MaxFaults BY DEF Init
  <2> QED BY <2>1, <2>2, <2>3, <2>4, <2>5, <2>6 DEF TypeOK, SessionRow, EventRow, ReceiptRow
<1>4. \A t \in Tokens : /\ google[t] = NoSale /\ purchase[t] = Absent /\ job[t] = "none"
                        /\ receipt[t].orders = {} /\ receipt[t].rewarded = {}
  BY DEF Init
<1>5. \A e \in Events : event[e].state = "none" BY DEF Init
<1>6. \A s \in Sessions : session[s].step = "idle" /\ session[s].event = NoEvent
  BY DEF Init, Idle
<1>7. Sales BY <1>1, <1>4 DEF Sales
<1>8. Messages
  <2>1. \A t \in Tokens : google[t].ver <= 0 BY <1>1, <1>4
  <2>2. \A e \in Events : event[e].state = "none" <=> e > 0 BY <1>5
  <2>3. Sent(0) /\ 0 \in 0 .. MaxEvents BY <2>1, <2>2 DEF Sent
  <2> QED BY <1>5, <2>3 DEF Messages
<1>9. \A s \in Sessions : Works(s) /\ Answered(s) /\ Past(s)
  BY <1>6 DEF Works, Answered, Past, Busy
<1>10. Locks BY <1>6 DEF Locks, Holding
<1>11. Records
  <2>1. \A t \in Tokens : purchase[t].seen <= google[t].ver BY <1>1, <1>2, <1>4
  <2>2. GrantedOrRefunded BY <1>4 DEF GrantedOrRefunded
  <2>3. AckedMeansGranted BY <1>1, <1>4 DEF AckedMeansGranted
  <2> QED BY <1>4, <2>1, <2>2, <2>3 DEF Records
<1> QED BY <1>3, <1>7, <1>8, <1>9, <1>10, <1>11 DEF Inv

LEMMA StaysStill ==
    ASSUME Inv, UNCHANGED vars
    PROVE  Inv'
<1>1. UNCHANGED <<google, event, purchase, receipt, job, intent, card, session, faults>>
  BY DEF vars
<1>2. event' \in [Events -> EventRow] /\ Messages' BY <1>1, EventsStay
<1>3. intent' \in BOOLEAN /\ card' \in {"none", "recurring", "one_time", "active"}
  BY <1>1, Rows DEF Typed
<1> QED BY <1>1, <1>2, <1>3, AroundStep

LEMMA StepKeeps ==
    ASSUME Inv, NEW s \in Sessions, Step(s)
    PROVE  Inv'
<1>1. CASE Verify(s) BY <1>1, VerifyKeeps
<1>2. CASE CommitNothing(s) BY <1>2, CommitNothingKeeps
<1>3. CASE CommitRefund(s) BY <1>3, CommitRefundKeeps
<1>4. CASE CommitPurchase(s) BY <1>4, CommitPurchaseKeeps
<1>5. CASE ClearIntent(s) BY <1>5, ClearIntentKeeps
<1>6. CASE Acknowledge(s) BY <1>6, AcknowledgeKeeps
<1>7. CASE Converge(s) BY <1>7, ConvergeKeeps
<1>8. CASE Mark(s) BY <1>8, MarkKeeps
<1>9. CASE Revoke(s) BY <1>9, RevokeKeeps
<1>10. CASE Confirm(s) BY <1>10, ConfirmKeeps
<1> QED BY <1>1, <1>2, <1>3, <1>4, <1>5, <1>6, <1>7, <1>8, <1>9, <1>10 DEF Step

LEMMA NextKeeps == Inv /\ [Next]_vars => Inv'
<1> SUFFICES ASSUME Inv, [Next]_vars PROVE Inv' OBVIOUS
<1>1. CASE UNCHANGED vars BY <1>1, StaysStill
<1>2. ASSUME NEW t \in Tokens, Buy(t) \/ Sale(t) \/ PeriodEnds(t) PROVE Inv'
  BY <1>2, BuyKeeps, SaleKeeps, PeriodEndsKeeps
<1>3. ASSUME NEW e \in Events, Notification(e) \/ MarkRefunded(e) PROVE Inv'
  BY <1>3, MessageKeeps
<1>4. CASE CardCheckout \/ CardMoves \/ Prepare \/ IntentExpires BY <1>4, AroundKeeps
<1>5. CASE Match BY <1>5, MatchKeeps
<1>6. ASSUME NEW s \in Sessions, Step(s) \/ Die(s) PROVE Inv' BY <1>6, StepKeeps, DieKeeps
<1>7. ASSUME NEW s \in Sessions, NEW t \in Tokens,
             VerifyRequest(s, t) \/ Claim(s, t) \/ Refund(s, t)
      PROVE  Inv'
  BY <1>7, BeginKeeps, RefundKeeps
<1>8. ASSUME NEW s \in Sessions, NEW e \in Events, Recover(s, e) PROVE Inv'
  BY <1>8, RecoverKeeps
<1> QED BY <1>1, <1>2, <1>3, <1>4, <1>5, <1>6, <1>7, <1>8 DEF Next

\* The argument about Process, Reconcile and reconcileRefunds as a whole.
THEOREM Invariance == Spec => []Inv
BY Begins, NextKeeps, PTL DEF Spec

\* Every row of the Play tables, every purchase at Google and every request has
\* the form and the status the code gives it, whatever fails.
THEOREM TypeCorrect == Spec => []TypeOK
<1>1. Inv => TypeOK BY DEF Inv
<1> QED BY <1>1, Invariance, PTL

\* A purchase is granted or refunded and never both; Google is told of a
\* delivery only after the grant and its receipt are committed, and a referral
\* is rewarded only for an acknowledged purchase (Process, reconcileRefunds).
THEOREM PurchasesAreHonoured == Spec => []PurchasesHonoured
<1>1. Inv => PurchasesHonoured BY DEF Inv, Records, PurchasesHonoured
<1> QED BY <1>1, Invariance, PTL

------------------------------------------------------------------------------
(* The newest answer.                                                         *)

\* Only a commit writes what Google said, and whoever commits asked later
LEMMA NewerOnly ==
    ASSUME Inv, [Next]_vars
    PROVE  \A t \in Tokens : purchase'[t].seen >= purchase[t].seen
<1>1. \A t \in Tokens : purchase[t].seen \in Nat /\ purchase[t] \in PurchaseRow BY Rows
<1>2. purchase \in [Tokens -> PurchaseRow] BY Rows DEF Typed
<1>3. CASE purchase' = purchase BY <1>1, <1>3
<1>4. ASSUME NEW t \in Tokens, PeriodEnds(t) PROVE \A u \in Tokens : purchase'[u].seen >= purchase[u].seen
  <2>1. \A u \in Tokens : purchase'[u].seen = purchase[u].seen
    BY <1>2, <1>4 DEF PeriodEnds, PurchaseRow
  <2> QED BY <1>1, <2>1
<1>5. CASE Match
  <2>1. \A u \in Tokens : purchase'[u].seen = purchase[u].seen
    BY <1>2, <1>5 DEF Match, PurchaseRow
  <2> QED BY <1>1, <2>1
<1>6. ASSUME NEW s \in Sessions, Converge(s) PROVE \A u \in Tokens : purchase'[u].seen >= purchase[u].seen
  <2>1. \A u \in Tokens : purchase'[u].seen = purchase[u].seen
    BY <1>2, <1>6 DEF Converge, PurchaseRow
  <2> QED BY <1>1, <2>1
<1>7. ASSUME NEW s \in Sessions, CommitPurchase(s) PROVE \A u \in Tokens : purchase'[u].seen >= purchase[u].seen
  <2>1. PICK t \in Tokens : t = session[s].token BY <1>7, TokenOf DEF CommitPurchase, Busy
  <2>2. PICK r \in GoogleRow : r = session[s].saw BY Rows DEF SessionRow
  <2>3. purchase' = [purchase EXCEPT ![t] = Written(t, r)] /\ session[s].step = "commit"
    BY <1>7, <2>1, <2>2 DEF CommitPurchase
  <2>4. purchase[t].seen <= r.ver BY <2>1, <2>2, <2>3 DEF Inv, Locks
  <2>5. purchase'[t] = Written(t, r) /\ \A u \in Tokens : u # t => purchase'[u] = purchase[u]
    BY <1>2, <2>3
  <2>6. purchase'[t].seen = r.ver /\ r.ver \in Nat BY <2>2, <2>5 DEF Written, GoogleRow
  <2> QED BY <1>1, <2>4, <2>5, <2>6
<1> QED
  BY <1>3, <1>4, <1>5, <1>6, <1>7
  DEF Next, Step, vars, Buy, Sale, Notification, MarkRefunded, CardCheckout, CardMoves, Prepare,
      IntentExpires, Verify, CommitNothing, CommitRefund, ClearIntent, Acknowledge, Mark,
      Revoke, Confirm, Die, VerifyRequest, Claim, Refund, Recover

\* Of two answers of Google about a purchase the newer one is kept, whoever asked
\* and however long each answer took (Process under the lock of the provider).
THEOREM NewestAnswerKept == Spec => NewestAnswerWins
<1>1. Inv /\ [Next]_vars => [\A t \in Tokens : purchase'[t].seen >= purchase[t].seen]_purchase
  BY NewerOnly
<1> QED BY <1>1, Invariance, PTL DEF Spec, NewestAnswerWins
=============================================================================
