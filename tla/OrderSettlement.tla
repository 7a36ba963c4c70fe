--------------------------- MODULE OrderSettlement ---------------------------
(***************************************************************************)
(* How a charge of an order becomes a paid order: the webhook of the       *)
(* gateway, the verification a buyer asks for and the reconciliation of an *)
(* administrator, all ending in settleOrderPayment.                        *)
(*                                                                         *)
(* Product checkout is retired: no handler creates a payment attempt any   *)
(* more.  The attempts the old checkout left, and the charges a buyer may  *)
(* still make on them, are settled as before, so Init starts from the      *)
(* attempts and the gateway (external) adds charges, final or not, full or *)
(* short, more than one on an attempt.                                     *)
(*                                                                         *)
(* A webhook is delivered any number of times, also by several handlers at *)
(* once; the gateway repeats it until it is answered with a 2xx.  Handlers *)
(* may stop between any two statements.                                    *)
(*                                                                         *)
(* Abstractions.  A charge covers its order or not (full): amounts,        *)
(* currency and the fee columns are left out, and every order has a seller *)
(* who fulfils it.  lockXPUser and the row lock of the order are one lock  *)
(* per order.  An event's key is its transaction and reference, hence its  *)
(* charge: the reported status is not part of it.                          *)
(*                                                                         *)
(* A definition introduced by "Slip:" is an operation with one plausible   *)
(* mistake; no behaviour of Spec uses it, it shows that the property named *)
(* beside it would notice.                                                 *)
(***************************************************************************)
EXTENDS Integers, FiniteSets

CONSTANTS
    Orders, Refs,
    MaxCharges,  \* transactions at the gateway, numbered as they come
    Hooks,       \* webhook deliveries handled at the same time
    Confirms,    \* verify and reconcile requests handled at the same time
    Layouts,     \* possible attempts: the order each reference was made for,
                 \* if it was made, and the orders with an XP discount
    Nothing,     \* a NULL or empty reference, transaction or order
    MaxFaults    \* crashes and outages in one behaviour

Charges == 1 .. MaxCharges
Handlers == Hooks \cup Confirms

\* The old checkout never gave a discounted order a second attempt.
ASSUME LayoutsAssumption ==
    /\ Layouts \subseteq [of : [Refs -> Orders \cup {Nothing}], discounted : SUBSET Orders]
    /\ \A layout \in Layouts, r, s \in Refs :
          layout.of[r] = layout.of[s] /\ layout.of[r] \in layout.discounted => r = s
ASSUME NothingAssumption == Nothing \notin Orders \cup Refs \cup Charges
ASSUME HandlersAssumption == Hooks \cap Confirms = {} /\ Nothing \notin Handlers
ASSUME BoundsAssumption == MaxCharges \in Nat /\ MaxFaults \in Nat

VARIABLES
    orderOf,   \* the order each payment reference was made for, if it was made
    order,     \* orders rows, what settlement adds to them and their lock
    payment,   \* payments rows by reference
    charge,    \* the gateway's transactions
    event,     \* payment_webhook_events by charge
    sent,      \* events announced by the gateway
    answered,  \* the successful charges whose event was answered with a 2xx
    handler,   \* the request each handler serves
    faults

vars == <<orderOf, order, payment, charge, event, sent, answered, handler, faults>>

EventStates == {"none", "processing", "processed", "ignored", "failed"}
\* The status a webhook reports; the handlers only ask if it is a success.
Event == [charge : Charges, success : BOOLEAN]

\* Paid stands for Shipped, Delivered and Completed too: settlement treats the
\* four alike.  sold: how often the order was added to sold_count; ledger, job: its
\* merchant_ledger entry and its seller's settlement job; xp: its reservation;
\* told: the buyer was notified of the payment.
OrderRow == [status : {"Pending", "Paid"},
             ref : Refs \cup {Nothing}, charge : Charges \cup {Nothing},
             sold : Nat, ledger : BOOLEAN, job : BOOLEAN,
             xp : {"none", "reserved", "consumed"},
             told : BOOLEAN, lock : Handlers \cup {Nothing}]
PaymentRow == [status : {"unpaid", "succeeded"},
               charge : Charges \cup {Nothing}]
ChargeRow == [status : {"none", "pending", "successful", "failed"},
              ref : Refs \cup {Nothing}, full : BOOLEAN]

\* charge: the charge of the event, or found for a confirmation; success: what
\* the event said; out: the status it will get.
Idle == [step |-> "idle", charge |-> Nothing, success |-> FALSE, out |-> "none"]
Task == [step : {"idle", "verify", "settle", "commit", "notify", "finish"},
         charge : Charges \cup {Nothing}, success : BOOLEAN, out : EventStates]

RefsOf(o) == {r \in Refs : orderOf[r] = o}
\* The order a handler is settling: parseOrderID of the verified reference.
OrderAt(h) == orderOf[charge[handler[h].charge].ref]
RefAt(h) == charge[handler[h].charge].ref

\* A failed or unanswered attempt may still have reached the gateway (pending,
\* processing and failed are all "unpaid"); the stored reference is that of any
\* attempt of the order, or missing.
Init ==
    /\ \E layout \in Layouts, stored \in [Orders -> Refs \cup {Nothing}] :
         /\ orderOf = layout.of
         /\ \A o \in Orders : stored[o] # Nothing => layout.of[stored[o]] = o
         /\ order = [o \in Orders |->
                [status |-> "Pending", ref |-> stored[o], charge |-> Nothing,
                 sold |-> 0, ledger |-> FALSE, job |-> FALSE,
                 xp |-> IF o \in layout.discounted THEN "reserved" ELSE "none",
                 told |-> FALSE, lock |-> Nothing]]
    /\ payment = [r \in Refs |-> [status |-> "unpaid", charge |-> Nothing]]
    /\ charge = [t \in Charges |-> [status |-> "none", ref |-> Nothing, full |-> FALSE]]
    /\ event = [t \in Charges |-> "none"]
    /\ sent = {} /\ answered = {}
    /\ handler = [h \in Handlers |-> Idle]
    /\ faults = 0

Fault == faults < MaxFaults /\ faults' = faults + 1

-----------------------------------------------------------------------------
(* The gateway *)

Charge(t, r) ==
    /\ charge[t].status = "none" /\ \A s \in 1 .. t - 1 : charge[s].status # "none"
    /\ orderOf[r] # Nothing
    /\ charge' = [charge EXCEPT ![t] = [status |-> "pending", ref |-> r, full |-> FALSE]]
    /\ UNCHANGED <<orderOf, order, payment, event, sent, answered, handler, faults>>

\* A charge that is under way is announced before it is final.
AnnounceEarly(t) ==
    /\ charge[t].status = "pending"
    /\ sent' = sent \cup {[charge |-> t, success |-> FALSE]}
    /\ UNCHANGED <<orderOf, order, payment, charge, event, answered, handler, faults>>

\* A charge becomes final, in full or short, and is announced.
Conclude(t, result, full) ==
    /\ charge[t].status = "pending"
    /\ charge' = [charge EXCEPT ![t].status = result, ![t].full = full]
    /\ sent' = sent \cup {[charge |-> t, success |-> result = "successful"]}
    /\ UNCHANGED <<orderOf, order, payment, event, answered, handler, faults>>

\* VerifyPayment: the transaction named, else any transaction of the reference.
Found(t, r) ==
    IF t # Nothing THEN {t}
    ELSE {s \in Charges : charge[s].ref # Nothing /\ charge[s].ref = r}

-----------------------------------------------------------------------------
(* The beginning of the handlers *)

Closed(t) == event[t] \in {"processed", "ignored"}
Answered(t, success) == answered \cup (IF success THEN {t} ELSE {})

\* beginPaymentWebhook: an event that is done is answered with 200 at once, a
\* failed one is taken up again, one in progress is processed a second time.
Receive(h, e) ==
    /\ e \in sent
    /\ handler[h] = Idle
    /\ event' = [event EXCEPT ![e.charge] =
                    IF @ \in {"none", "failed"} THEN "processing" ELSE @]
    /\ IF Closed(e.charge)
         THEN answered' = Answered(e.charge, e.success) /\ UNCHANGED handler
         ELSE /\ handler' = [handler EXCEPT ![h] = [Idle EXCEPT
                    !.charge = e.charge, !.success = e.success,
                    !.step = IF e.success THEN "verify" ELSE "finish",
                    !.out = "ignored"]]
              /\ UNCHANGED answered
    /\ UNCHANGED <<orderOf, order, payment, charge, sent, faults>>

\* VerifyFlutterwavePayment: the gateway is asked for the transaction or else
\* the reference the buyer names, or the reference stored with the order; only a
\* successful charge of that very order is settled.  Anything else, also an
\* outage, is answered without any change.  (A reference read before the stored
\* one changes is one a buyer may name, so reading and asking are one step.)
Verify(h, o, t, r) ==
    /\ handler[h] = Idle
    /\ \E found \in Found(t, IF r # Nothing THEN r ELSE order[o].ref) :
         /\ charge[found].status = "successful"
         /\ orderOf[charge[found].ref] = o
         /\ handler' = [handler EXCEPT ![h] = [Idle EXCEPT !.step = "settle",
                                                         !.charge = found]]
    /\ UNCHANGED <<orderOf, order, payment, charge, event, sent, answered, faults>>

\* Slip: the transaction must be one of the stored reference (ChargesSettle).
ReconcileStoredOnly(h, o, t, r) ==
    /\ t # Nothing \/ r # Nothing
    /\ t # Nothing => charge[t].ref = order[o].ref
    /\ order[o].ref # Nothing /\ r # Nothing => order[o].ref = r
    /\ Verify(h, o, t, r)

\* AdminReconcileFlutterwavePayment: as above, but something must be named and
\* a reference must not contradict the stored one.
Reconcile(h, o, t, r) ==
    /\ t # Nothing \/ r # Nothing
    /\ order[o].ref # Nothing /\ r # Nothing => order[o].ref = r
    /\ Verify(h, o, t, r)

-----------------------------------------------------------------------------
(* Verification *)

Released(h) == [o \in Orders |-> IF order[o].lock = h
                                   THEN [order[o] EXCEPT !.lock = Nothing] ELSE order[o]]

\* An error ends a confirmation; a webhook goes on to mark its event.
Refused(h) == IF h \in Hooks
                THEN [handler[h] EXCEPT !.step = "finish", !.out = "failed"] ELSE Idle
Done(h, out) == IF h \in Hooks
                  THEN [handler[h] EXCEPT !.step = "finish", !.out = out] ELSE Idle

\* verifyFlutterwaveTransaction of a webhook: the transaction of the event is
\* looked up, and settled if the gateway confirms it.
LookUp(h) ==
    /\ handler[h].step = "verify"
    /\ handler' = [handler EXCEPT ![h] =
           IF charge[@.charge].status = "successful" THEN [@ EXCEPT !.step = "settle"]
           ELSE Done(h, "ignored")]
    /\ UNCHANGED <<orderOf, order, payment, charge, event, sent, answered, faults>>

\* The gateway does not answer.
Outage(h) ==
    /\ handler[h].step = "verify"
    /\ Fault
    /\ handler' = [handler EXCEPT ![h] = Refused(h)]
    /\ UNCHANGED <<orderOf, order, payment, charge, event, sent, answered>>

-----------------------------------------------------------------------------
(* settleOrderPayment *)

\* Slip: a paid order takes any reference of its own (SettledOnce).
PayableAnyReference(h) ==
    LET o == OrderAt(h) IN
    /\ charge[handler[h].charge].full
    /\ payment[RefAt(h)].charge \in {Nothing, handler[h].charge}
    /\ order[o].status = "Pending" => order[o].xp # "consumed"

\* The amount covers the order; the order is unpaid, or was paid with this
\* reference; the reference has no other transaction (settlePaymentLedger);
\* the XP reservation is still there (consumeXP).
Payable(h) ==
    LET o == OrderAt(h) IN
    /\ charge[handler[h].charge].full
    /\ order[o].status = "Pending" \/ order[o].ref = RefAt(h)
    /\ payment[RefAt(h)].charge \in {Nothing, handler[h].charge}
    /\ order[o].status = "Pending" => order[o].xp # "consumed"

\* The locks, and everything read under them.
Check(h) ==
    /\ handler[h].step = "settle"
    /\ order[OrderAt(h)].lock = Nothing
    /\ IF Payable(h)
         THEN /\ handler' = [handler EXCEPT ![h].step = "commit"]
              /\ order' = [order EXCEPT ![OrderAt(h)].lock = h]
         ELSE /\ handler' = [handler EXCEPT ![h] = Refused(h)]
              /\ UNCHANGED order
    /\ UNCHANGED <<orderOf, payment, charge, event, sent, answered, faults>>

\* Slip: a repeated settlement sells the order again (PaymentIsFinal).
PaidAgain(row, t, r) ==
    [row EXCEPT !.status = "Paid", !.ref = r, !.charge = t,
                !.sold = @ + 1, !.ledger = TRUE, !.job = TRUE,
                !.xp = IF @ = "reserved" THEN "consumed" ELSE @,
                !.lock = Nothing]

\* The order with everything that hangs on its payment; a repetition changes
\* nothing.
Paid(row, t, r) ==
    IF row.status # "Pending" THEN [row EXCEPT !.lock = Nothing]
    ELSE [row EXCEPT !.status = "Paid", !.ref = r, !.charge = t,
                     !.sold = @ + 1, !.ledger = TRUE, !.job = TRUE,
                     !.xp = IF @ = "reserved" THEN "consumed" ELSE @,
                     !.lock = Nothing]

\* The commit; its answer may be lost.
Commit(h) ==
    /\ handler[h].step = "commit"
    /\ order' = [order EXCEPT ![OrderAt(h)] = Paid(@, handler[h].charge, RefAt(h))]
    /\ payment' = [payment EXCEPT ![RefAt(h)] =
                      [status |-> "succeeded", charge |-> handler[h].charge]]
    /\ \/ /\ handler' = [handler EXCEPT ![h].step = "notify"]
          /\ UNCHANGED faults
       \/ /\ Fault
          /\ handler' = [handler EXCEPT ![h] = Refused(h)]
    /\ UNCHANGED <<orderOf, charge, event, sent, answered>>

\* A statement fails: nothing of the transaction remains.
Rollback(h) ==
    /\ handler[h].step \in {"settle", "commit"}
    /\ Fault
    /\ order' = Released(h)
    /\ handler' = [handler EXCEPT ![h] = Refused(h)]
    /\ UNCHANGED <<orderOf, payment, charge, event, sent, answered>>

-----------------------------------------------------------------------------
(* After the settlement *)

\* settleAndNotify: the notification, once per order; that it or the reward
\* fails is ignored.
Notify(h) ==
    /\ handler[h].step = "notify"
    /\ \/ order' = [order EXCEPT ![OrderAt(h)].told = TRUE] /\ UNCHANGED faults
       \/ Fault /\ UNCHANGED order
    /\ handler' = [handler EXCEPT ![h] = Done(h, "processed")]
    /\ UNCHANGED <<orderOf, payment, charge, event, sent, answered>>

\* "payment settled but post-payment processing failed": the order cannot be
\* read again, and the request counts as failed.
NotifyFails(h) ==
    /\ handler[h].step = "notify"
    /\ Fault
    /\ handler' = [handler EXCEPT ![h] = Refused(h)]
    /\ UNCHANGED <<orderOf, order, payment, charge, event, sent, answered>>

\* finishPaymentWebhook, whatever the event's status has become meanwhile and
\* with errors ignored, and the answer: 200 or 202, or an error.
Finish(h) ==
    LET task == handler[h] IN
    /\ task.step = "finish"
    /\ \/ event' = [event EXCEPT ![task.charge] = task.out] /\ UNCHANGED faults
       \/ Fault /\ UNCHANGED event
    /\ answered' = IF task.out = "failed" THEN answered
                   ELSE Answered(task.charge, task.success)
    /\ handler' = [handler EXCEPT ![h] = Idle]
    /\ UNCHANGED <<orderOf, order, payment, charge, sent>>

\* The process stops; the database drops its transaction.
Crash(h) ==
    /\ handler[h] # Idle
    /\ Fault
    /\ order' = Released(h)
    /\ handler' = [handler EXCEPT ![h] = Idle]
    /\ UNCHANGED <<orderOf, payment, charge, event, sent, answered>>

-----------------------------------------------------------------------------
Serve(h) == LookUp(h) \/ Check(h) \/ Commit(h) \/ Notify(h) \/ Finish(h)

Next ==
    \/ \E t \in Charges : \/ \E r \in Refs : Charge(t, r)
                          \/ AnnounceEarly(t)
                          \/ \E full \in BOOLEAN : Conclude(t, "successful", full)
                          \/ Conclude(t, "failed", FALSE)
    \/ \E h \in Hooks, e \in Event : Receive(h, e)
    \/ \E h \in Confirms, o \in Orders, t \in Charges \cup {Nothing},
          r \in Refs \cup {Nothing} : Verify(h, o, t, r) \/ Reconcile(h, o, t, r)
    \/ \E h \in Handlers : \/ Serve(h) \/ Outage(h) \/ Rollback(h)
                           \/ NotifyFails(h) \/ Crash(h)

Spec == Init /\ [][Next]_vars

Early(t) == [charge |-> t, success |-> FALSE] \in sent
Success(t) == [charge |-> t, success |-> TRUE]

\* Handlers run on.  The gateway repeats the announcement of a successful
\* charge until it is answered with a 2xx.  An administrator is sure to
\* reconcile only charges that were announced early, whose event may have been
\* ignored for good: all others must be settled by their event alone.
FairSpec ==
    /\ Spec
    /\ \A h \in Handlers : WF_vars(Serve(h))
    /\ \A t \in Charges :
         /\ SF_vars(t \notin answered /\ \E h \in Hooks : Receive(h, Success(t)))
         /\ SF_vars(Early(t) /\ \E h \in Confirms, o \in Orders :
                      charge[t].ref \in RefsOf(o) /\ Reconcile(h, o, t, Nothing))

-----------------------------------------------------------------------------
TypeOK ==
    /\ orderOf \in [Refs -> Orders \cup {Nothing}]
    /\ order \in [Orders -> OrderRow]
    /\ payment \in [Refs -> PaymentRow]
    /\ charge \in [Charges -> ChargeRow]
    /\ event \in [Charges -> EventStates]
    /\ sent \subseteq Event /\ answered \subseteq Charges
    /\ handler \in [Handlers -> Task]
    /\ faults \in 0 .. MaxFaults

\* Nothing hangs on an order that is not paid.
Untouched(row) ==
    row.charge = Nothing /\ row.sold = 0 /\ ~row.ledger /\ ~row.job
    /\ row.xp # "consumed" /\ ~row.told

\* A paid order was paid by one successful charge that covers it, made on a
\* reference of its own and recorded on that payment, and was sold, entered
\* and relieved of its XP exactly once.
PaidBy(o, row, t) ==
    /\ charge[t].status = "successful" /\ charge[t].full
    /\ charge[t].ref = row.ref /\ orderOf[row.ref] = o
    /\ payment[row.ref] = [status |-> "succeeded", charge |-> t]
    /\ row.sold = 1 /\ row.ledger /\ row.job /\ row.xp # "reserved"

\* settleOrderPayment, reached by webhook, buyer and administrator at once:
\* "request values can identify a payment but can never mark it paid"
\* (payment_controller.go:472), and what a payment brings about happens once,
\* for one payment of the order.
SettledOnce ==
    /\ \A o \in Orders :
         IF order[o].status = "Pending" THEN Untouched(order[o])
         ELSE order[o].charge # Nothing /\ PaidBy(o, order[o], order[o].charge)
    /\ \A r \in Refs : payment[r].status = "succeeded" =>
         order[orderOf[r]].ref = r /\ order[orderOf[r]].status # "Pending"

\* A second charge, on the same attempt or another one, a repeated event or a
\* late confirmation never changes what an order was paid with.
PaymentIsFinal ==
    [][\A o \in Orders :
         order[o].status # "Pending" =>
           /\ order'[o].status # "Pending"
           /\ order'[o].ref = order[o].ref /\ order'[o].charge = order[o].charge
           /\ order'[o].sold = order[o].sold]_vars

\* An event is marked processed, which ends its repetition, only when its own
\* charge has paid the order (FlutterwaveWebhook, finishPaymentWebhook).
ProcessedMeansPaid ==
    \A t \in Charges : event[t] = "processed" =>
       LET row == order[orderOf[charge[t].ref]] IN
       row.status # "Pending" /\ row.charge = t

\* A successful charge that covers an unpaid order gets it paid, whatever
\* crashes, outages and repetitions do: by its event, or by the administrator
\* who "recovers a successful charge whose webhook could not be settled"
\* (payment_controller.go:470) when an early announcement closed the event.
ChargesSettle ==
    \A o \in Orders :
       (\E t \in Charges : /\ charge[t].status = "successful" /\ charge[t].full
                          /\ charge[t].ref \in RefsOf(o))
       ~> order[o].status = "Paid"

\* An order is settled once, by its own charge, and only that ends an event.
SettlesRight == SettledOnce /\ ProcessedMeansPaid
=============================================================================
