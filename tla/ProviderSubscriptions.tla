------------------------- MODULE ProviderSubscriptions -------------------------
(***************************************************************************)
(* What one service provider pays through Flutterwave: checkouts, their    *)
(* cancellation, the monthly renewals of a card, stopping those renewals,  *)
(* and the settlement of verified payments into paid periods.              *)
(*                                                                         *)
(* SubscriptionCheckout, CancelUnpaidProviderCheckout and                  *)
(* ProviderManageRenewal try the same advisory lock of the provider and    *)
(* refuse when it is taken.  A checkout talks to the gateway after it has  *)
(* committed and let go of the lock.  settleProviderSubscription never     *)
(* takes that lock: a webhook, a confirmation or an administrator may      *)
(* settle any payment, any number of times, between any two steps.         *)
(*                                                                         *)
(* Abstractions.  Time is counted in months.  A request that is refused    *)
(* changes nothing and is a disabled action; every later early return of a *)
(* handler, like a crash or its 40 s deadline, is Die.  Google Play        *)
(* subscriptions, amounts and the audit tables are left out, and so are    *)
(* the payments rows of renewals after the first charge.                   *)
(*                                                                         *)
(* A definition introduced by "Slip:" is an operation with one plausible   *)
(* mistake; no behaviour of Spec uses it, it shows that the property named *)
(* beside it would notice.                                                 *)
(***************************************************************************)
EXTENDS Integers, FiniteSets, FiniteSetsExt

CONSTANTS
    Refs,       \* tx_ref of the subscriptions the provider ever starts
    Txs,        \* gateway transaction ids
    Sessions,   \* requests served at the same time
    Durations,  \* months of a prepaid checkout (code: 1, 3, 6, 12)
    Horizon,    \* bound on the clock
    NoRef

ASSUME BoundsAssumption ==
    /\ Durations \subseteq Nat \ {0}
    /\ Horizon \in Nat
    /\ NoRef \notin Refs
    /\ IsFiniteSet(Refs)

VARIABLES
    now,       \* the clock
    sub,       \* provider_subscriptions
    pay,       \* the payments row of the checkout of each subscription
    paid,      \* provider_subscription_payments: the period each tx bought
    pref,      \* provider_renewal_preferences
    stopping,  \* provider_gateway_subscription_cancellations
    session,   \* requests being served
    link,      \* at the gateway: the hosted checkout page of each reference
    charge,    \* at the gateway: the reference each transaction paid for
    billed,    \* at the gateway: month in which a reference was last charged
    renewing   \* at the gateway: references charged again every month

vars == <<now, sub, pay, paid, pref, stopping, session, link, charge, billed, renewing>>
gateway == <<link, charge, billed, renewing>>

Plans == {[mode |-> "recurring", months |-> 1]}
           \cup [mode : {"one_time"}, months : Durations]

NoSub == [status |-> "none", mode |-> "one_time", months |-> 0, ends |-> 0]
NoPay == [status |-> "none", linked |-> FALSE]
NotPaid == [from |-> 0, to |-> 0]
Idle == [step |-> "idle", ref |-> NoRef, targets |-> {}]

Init ==
    /\ now = 0
    /\ sub = [r \in Refs |-> NoSub]
    /\ pay = [r \in Refs |-> NoPay]
    /\ paid = [t \in Txs |-> NotPaid]
    /\ pref = [status |-> "none", covers |-> {}]
    /\ stopping = [r \in Refs |-> "none"]
    /\ session = [s \in Sessions |-> Idle]
    /\ link = [r \in Refs |-> "none"]
    /\ charge = [t \in Txs |-> NoRef]
    /\ billed = [r \in Refs |-> 0]
    /\ renewing = {}

\* Sessions at these steps hold "provider-renewal:<provider>".
LockedSteps == {"insert", "disable", "verify", "write", "list", "stop", "check", "stopped"}
LockFree == \A s \in Sessions : session[s].step \notin LockedSteps

Pending == {r \in Refs : sub[r].status = "pending"}
Current == {r \in Refs : sub[r].status = "active" /\ sub[r].ends > now}
Receipts(r) == {t \in Txs : charge[t] = r /\ paid[t] # NotPaid}

-----------------------------------------------------------------------------
(* The gateway's answers *)

\* listSubscriptions: what of refs is charged again; every other answer (an
\* error, an inconsistent row, more than twenty pages) ends the request.
Listed(refs) == refs \cap renewing

\* CancelSubscription: the gateway says yes, and may yet renew.
CancelSubscription(r) == renewing' \in {renewing, renewing \ {r}}

\* A page is made, or refused; the answer may be lost after either.
CreatePage(r) == link' \in {link, [link EXCEPT ![r] = "open"]}

-----------------------------------------------------------------------------
(* Requests *)

Goto(s, step, r) == session' = [session EXCEPT ![s] = [Idle EXCEPT !.step = step, !.ref = r]]
Finish(s) == session' = [session EXCEPT ![s] = Idle]

\* The process stops, a deadline passes or a statement fails.
Die(s) ==
    /\ session[s] # Idle
    /\ Finish(s)
    /\ UNCHANGED <<now, sub, pay, paid, pref, stopping, gateway>>

-----------------------------------------------------------------------------
(* SubscriptionCheckout *)

\* Takes the lock; no current subscription, no renewal in doubt.  Between this
\* and the next step the handler asks the gateway about the monthly plan.
CheckoutCheck(s) ==
    /\ session[s] = Idle /\ LockFree
    /\ Current = {}
    /\ pref.status # "uncertain"
    /\ Goto(s, "insert", NoRef)
    /\ UNCHANGED <<now, sub, pay, paid, pref, stopping, gateway>>

\* No pending checkout; the subscription is inserted and committed.
CheckoutInsert(s) ==
    /\ session[s].step = "insert"
    /\ Pending = {}
    /\ \E r \in Refs, p \in Plans :
         /\ sub[r] = NoSub
         /\ sub' = [sub EXCEPT ![r] =
                      [status |-> "pending", mode |-> p.mode, months |-> p.months, ends |-> 0]]
         /\ Goto(s, "attempt", r)
    /\ UNCHANGED <<now, pay, paid, pref, stopping, gateway>>

\* recordSubscriptionPaymentAttempt
RecordAttempt(s) ==
    /\ session[s].step = "attempt"
    /\ pay' = [pay EXCEPT ![session[s].ref] = [status |-> "pending", linked |-> FALSE]]
    /\ Goto(s, "init", session[s].ref)
    /\ UNCHANGED <<now, sub, paid, pref, stopping, gateway>>

\* InitializeCheckout: the gateway makes the page or refuses; its answer may
\* be lost.
InitializeCheckout(s) ==
    /\ session[s].step = "init"
    /\ LET r == session[s].ref IN
         /\ CreatePage(r)
         /\ Goto(s, "failed", r) \/ (link'[r] = "open" /\ Goto(s, "ready", r))
    /\ UNCHANGED <<now, sub, pay, paid, pref, stopping, charge, billed, renewing>>

\* markPaymentCheckoutReady, whatever the payment says by now.
MarkReady(s) ==
    /\ session[s].step = "ready"
    /\ pay' = [pay EXCEPT ![session[s].ref] = [status |-> "processing", linked |-> TRUE]]
    /\ Finish(s)
    /\ UNCHANGED <<now, sub, paid, pref, stopping, gateway>>

\* Slip: the subscription is marked failed too, a status its table does not
\* know (TypeOK).
MarkFailedBoth(s) ==
    /\ session[s].step = "failed"
    /\ pay' = [pay EXCEPT ![session[s].ref].status = "failed"]
    /\ sub' = [sub EXCEPT ![session[s].ref].status = "failed"]
    /\ Finish(s)
    /\ UNCHANGED <<now, paid, pref, stopping, gateway>>

\* markPaymentInitializationFailed; the subscription stays pending.
MarkFailed(s) ==
    /\ session[s].step = "failed"
    /\ pay' = [pay EXCEPT ![session[s].ref].status = "failed"]
    /\ Finish(s)
    /\ UNCHANGED <<now, sub, paid, pref, stopping, gateway>>

Checkout(s) ==
    \/ CheckoutCheck(s) \/ CheckoutInsert(s) \/ RecordAttempt(s)
    \/ InitializeCheckout(s) \/ MarkReady(s) \/ MarkFailed(s)
-----------------------------------------------------------------------------
(* CancelUnpaidProviderCheckout *)

\* Takes the lock and finds a pending checkout whose page is known.
CancelBegin(s) ==
    /\ session[s] = Idle /\ LockFree
    /\ \E r \in Pending : pay[r].linked /\ Goto(s, "disable", r)
    /\ UNCHANGED <<now, sub, pay, paid, pref, stopping, gateway>>

\* DisableCheckout: the page takes no payment any more.
CancelDisable(s) ==
    /\ session[s].step = "disable"
    /\ link' = [link EXCEPT ![session[s].ref] = "disabled"]
    /\ Goto(s, "verify", session[s].ref)
    /\ UNCHANGED <<now, sub, pay, paid, pref, stopping, charge, billed, renewing>>

\* VerifyPayment: a payment the gateway has is settled, without the lock;
\* only one it does not know, or that failed, may be cancelled.
CancelVerify(s) ==
    /\ session[s].step = "verify"
    /\ LET r == session[s].ref IN
         IF \E t \in Txs : charge[t] = r THEN Goto(s, "settle", r) ELSE Goto(s, "write", r)
    /\ UNCHANGED <<now, sub, pay, paid, pref, stopping, gateway>>

\* Slip: the status read at the start is trusted (PaidNeverCancelled).
CancelWriteStale(s) ==
    /\ session[s].step = "write"
    /\ LET r == session[s].ref IN
         /\ sub' = [sub EXCEPT ![r].status = "cancelled"]
         /\ pay' = [pay EXCEPT ![r].status =
                      IF @ \in {"pending", "processing", "failed"} THEN "cancelled" ELSE @]
    /\ Finish(s)
    /\ UNCHANGED <<now, paid, pref, stopping, gateway>>

\* The commit that releases the reference, if it is still pending.
CancelWrite(s) ==
    /\ session[s].step = "write"
    /\ LET r == session[s].ref IN
         /\ sub[r].status = "pending"
         /\ sub' = [sub EXCEPT ![r].status = "cancelled"]
         /\ pay' = [pay EXCEPT ![r].status =
                      IF @ \in {"pending", "processing", "failed"} THEN "cancelled" ELSE @]
    /\ Finish(s)
    /\ UNCHANGED <<now, paid, pref, stopping, gateway>>

-----------------------------------------------------------------------------
(* settleProviderSubscription, one transaction *)

\* A new payment starts when the other current subscriptions end.
StartsAt(r) == Max({now} \cup {sub[o].ends : o \in Current \ {r}})

\* A prepaid checkout takes one transaction only.
Prepaid(t) ==
    LET r == charge[t] IN sub[r].mode = "one_time" /\ Receipts(r) \ {t} # {}

\* The first time a transaction is settled it buys a period.
Grant(t) ==
    LET r == charge[t]  from == StartsAt(r)  to == from + sub[r].months IN
    /\ paid[t] = NotPaid
    /\ paid' = [paid EXCEPT ![t] = [from |-> from, to |-> to]]
    /\ sub' = [sub EXCEPT ![r].status = "active", ![r].ends = to]

\* A repeated renewal transaction revives access that has run out.
Regrant(t) ==
    LET r == charge[t] IN
    /\ paid[t] # NotPaid
    /\ sub[r].mode = "recurring"
    /\ sub[r].status # "active" \/ sub[r].ends <= now
    /\ sub' = [sub EXCEPT ![r].status = "active", ![r].ends = IF @ <= now THEN now + 1 ELSE @]
    /\ UNCHANGED paid

\* settleSubscriptionPaymentLedger: the row of the checkout, whatever it said
SettleLedger(r) == pay' = [pay EXCEPT ![r].status = "succeeded"]

\* Slip: what was cancelled is not settled any more (PaidIsHonoured).
SettlePendingOnly(t) ==
    /\ charge[t] # NoRef /\ ~Prepaid(t)
    /\ sub[charge[t]].status # "cancelled"
    /\ Grant(t) \/ Regrant(t)
    /\ SettleLedger(charge[t])
    /\ UNCHANGED <<now, pref, stopping, session, gateway>>

\* Asked by the webhook, a confirmation, a cancellation that found the
\* payment, or an administrator.
Settle(t) ==
    /\ charge[t] # NoRef /\ ~Prepaid(t)
    /\ Grant(t) \/ Regrant(t)
    /\ SettleLedger(charge[t])
    /\ UNCHANGED <<now, pref, stopping, session, gateway>>

\* The cancellation that found the payment has asked for its settlement.
CancelSettled(s) ==
    /\ session[s].step = "settle"
    /\ Finish(s)
    /\ UNCHANGED <<now, sub, pay, paid, pref, stopping, gateway>>

CancelCheckout(s) ==
    \/ CancelBegin(s) \/ CancelDisable(s) \/ CancelVerify(s) \/ CancelWrite(s)
    \/ CancelSettled(s)

-----------------------------------------------------------------------------
(* ProviderManageRenewal *)

\* Takes the lock; no pending checkout.  The wish is stored first.
RenewalBegin(s) ==
    /\ session[s] = Idle /\ LockFree
    /\ Pending = {}
    /\ pref' = [status |-> "uncertain", covers |-> {}]
    /\ Goto(s, "list", NoRef)
    /\ UNCHANGED <<now, sub, pay, paid, stopping, gateway>>

\* References whose charges the gateway may repeat.
Purchases == {r \in Refs : sub[r].mode = "recurring" /\ Receipts(r) # {}}

\* ListTransactionSubscriptions for every purchase.
RenewalList(s) ==
    /\ session[s].step = "list"
    /\ session' = [session EXCEPT ![s].step = "stop", ![s].targets = Listed(Purchases)]
    /\ UNCHANGED <<now, sub, pay, paid, pref, stopping, gateway>>

\* CancelSubscription of one target: the gateway says yes, and may yet renew.
RenewalCancel(s) ==
    /\ session[s].step = "stop"
    /\ \E r \in session[s].targets :
         /\ session' = [session EXCEPT ![s].targets = @ \ {r}]
         /\ CancelSubscription(r)
    /\ UNCHANGED <<now, sub, pay, paid, pref, stopping, link, charge, billed>>

\* The second listing: a purchase that still renews ends the request in doubt.
RenewalVerify(s) ==
    /\ session[s].step = "stop" /\ session[s].targets = {}
    /\ Listed(Purchases) = {}
    /\ Goto(s, "stopped", NoRef)
    /\ UNCHANGED <<now, sub, pay, paid, pref, stopping, gateway>>

\* The renewals of everything bought so far are recorded as stopped; updated_at
\* tells them from what is bought later (covers).
RenewalStopped(s) ==
    /\ session[s].step = "stopped"
    /\ pref' = [status |-> "stopped", covers |-> {r \in Refs : sub[r] # NoSub}]
    /\ Finish(s)
    /\ UNCHANGED <<now, sub, pay, paid, stopping, gateway>>

ManageRenewal(s) ==
    \/ RenewalBegin(s) \/ RenewalList(s) \/ RenewalCancel(s)
    \/ RenewalVerify(s) \/ RenewalStopped(s)

-----------------------------------------------------------------------------
(* AdminCancelGatewaySubscription, without the lock of the provider *)

\* The fresh listing has the subscription, and the row of the cancellation is
\* new or in doubt for a minute.
AdminClaim(s) ==
    /\ session[s] = Idle
    /\ \E r \in Listed(Refs) :
         /\ stopping[r] \in {"none", "uncertain"}
         /\ stopping' = [stopping EXCEPT ![r] = "pending"]
         /\ Goto(s, "ask", r)
    /\ UNCHANGED <<now, sub, pay, paid, pref, gateway>>

AdminCancel(s) ==
    /\ session[s].step = "ask"
    /\ CancelSubscription(session[s].ref)
    /\ Goto(s, "confirm", session[s].ref)
    /\ UNCHANGED <<now, sub, pay, paid, pref, stopping, link, charge, billed>>

\* The listing after the cancellation, and the deferred write of its outcome,
\* which an error at the gateway reaches as well
AdminConfirm(s) ==
    LET r == session[s].ref IN
    /\ session[s].step \in {"ask", "confirm"}
    /\ \/ stopping' = [stopping EXCEPT ![r] = "uncertain"]
       \/ /\ session[s].step = "confirm" /\ Listed({r}) = {}
          /\ stopping' = [stopping EXCEPT ![r] = "confirmed"]
    /\ Finish(s)
    /\ UNCHANGED <<now, sub, pay, paid, pref, gateway>>

AdminStop(s) == AdminClaim(s) \/ AdminCancel(s) \/ AdminConfirm(s)

-----------------------------------------------------------------------------
(* The gateway, the provider's customer and the calendar *)

\* The customer pays the page, or transfers late to the account it showed.
Charge(t, r) ==
    /\ charge[t] = NoRef
    /\ pay[r].linked
    /\ \/ link[r] = "open"
       \/ link[r] # "none" /\ sub[r].mode = "one_time"
    /\ charge' = [charge EXCEPT ![t] = r]
    /\ billed' = [billed EXCEPT ![r] = now]
    /\ link' = [link EXCEPT ![r] = IF @ = "open" THEN "used" ELSE @]
    /\ renewing' = renewing \cup (IF sub[r].mode = "recurring" THEN {r} ELSE {})
    /\ UNCHANGED <<now, sub, pay, paid, pref, stopping, session>>

\* The monthly charge of a card.
Renew(t, r) ==
    /\ charge[t] = NoRef
    /\ r \in renewing /\ billed[r] < now
    /\ charge' = [charge EXCEPT ![t] = r]
    /\ billed' = [billed EXCEPT ![r] = now]
    /\ UNCHANGED <<now, sub, pay, paid, pref, stopping, session, link, renewing>>

Tick ==
    /\ now < Horizon
    /\ now' = now + 1
    /\ UNCHANGED <<sub, pay, paid, pref, stopping, session, gateway>>

Next ==
    \/ Tick
    \/ \E s \in Sessions : \/ Checkout(s) \/ CancelCheckout(s) \/ ManageRenewal(s)
                          \/ AdminStop(s) \/ Die(s)
    \/ \E t \in Txs : Settle(t) \/ \E r \in Refs : Charge(t, r) \/ Renew(t, r)

Spec == Init /\ [][Next]_vars

\* Flutterwave repeats its webhook, the application confirms a pending
\* checkout, and the administrator reconciles what both missed.
FairSpec == Spec /\ \A t \in Txs : WF_vars(Settle(t))

-----------------------------------------------------------------------------
TypeOK ==
    /\ now \in 0 .. Horizon
    /\ sub \in [Refs -> [status : {"none", "pending", "active", "cancelled"},
                         mode : {"recurring", "one_time"},
                         months : {0, 1} \cup Durations, ends : Nat]]
    /\ pay \in [Refs -> [status : {"none", "pending", "processing", "succeeded",
                                   "failed", "cancelled"}, linked : BOOLEAN]]
    /\ paid \in [Txs -> [from : Nat, to : Nat]]
    /\ pref \in [status : {"none", "uncertain", "stopped"}, covers : SUBSET Refs]
    /\ stopping \in [Refs -> {"none", "pending", "uncertain", "confirmed"}]
    /\ session \in [Sessions ->
         [step : LockedSteps \cup {"idle", "attempt", "init", "ready", "failed", "settle",
                               "ask", "confirm"},
          ref : Refs \cup {NoRef}, targets : SUBSET Refs]]
    /\ link \in [Refs -> {"none", "open", "used", "disabled"}]
    /\ charge \in [Txs -> Refs \cup {NoRef}]
    /\ billed \in [Refs -> 0 .. Horizon]
    /\ renewing \subseteq Refs

\* A provider is never left with two pages that both still take money for a
\* period not yet paid, whoever pays, cancels or dies half-way.
OneOpenLink ==
    \A a, b \in Refs : link[a] = "open" /\ link[b] = "open" => a = b

\* "Never replace active/paid access with cancelled"
\* (provider_checkout_recovery.go:102).
PaidNeverCancelled ==
    \A t \in Txs : paid[t] # NotPaid => sub[charge[t]].status = "active"

\* The payments row tells the same story as the subscription, although the two
\* are written by different steps of different requests.
LedgerAgrees ==
    \A r \in Refs :
       /\ sub[r].status = "active" <=> pay[r].status = "succeeded"
       /\ sub[r].status = "cancelled" <=> pay[r].status = "cancelled"

\* "Never label an uncertain cancellation as stopped"
\* (provider_renewal.go:117-118): what had been bought when renewals were
\* recorded as stopped is not charged again; neither is what an administrator's
\* cancellation is recorded as confirmed for, whoever else cancels or settles.
StoppedMeansStopped ==
    /\ pref.status = "stopped" => pref.covers \cap renewing = {}
    /\ \A r \in Refs : stopping[r] = "confirmed" => r \notin renewing

Overlap(a, b) == paid[a].from < paid[b].to /\ paid[b].from < paid[a].to

\* "two successful callbacks cannot calculate overlapping entitlement periods"
\* (provider_marketplace_controller.go:1782-1783), for payments of different
\* subscriptions.
PeriodsStack ==
    \A a, b \in Txs : charge[a] # charge[b] => ~Overlap(a, b)

\* "Keep the reference and ledger so a delayed verified webhook can still
\* settle" (provider_checkout_recovery.go:14): whoever pays gets the period
\* paid for, also after the checkout was cancelled.  A second transfer for a
\* prepaid checkout is refused.
PaidIsHonoured ==
    \A r \in Refs : (\E t \in Txs : charge[t] = r) ~> sub[r].status = "active"

\* Subscriptions, payments, pages and renewals tell one story, and what was
\* paid for stays paid for.
SubscriptionsAgree == /\ OneOpenLink /\ PaidNeverCancelled /\ LedgerAgrees
                      /\ StoppedMeansStopped /\ PeriodsStack
=============================================================================
