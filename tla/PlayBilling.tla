------------------------------ MODULE PlayBilling ------------------------------
(***************************************************************************)
(* Subscriptions of one provider that are bought through Google Play.      *)
(*                                                                         *)
(* A purchase is reported by the phone (Verify), by a notification of      *)
(* Google (Notification, worked off later) and by the minute worker        *)
(* (Reconcile).  All three end in Store.Process, which asks Google for the *)
(* current state of the purchase while it holds the advisory lock of the   *)
(* provider, writes what it was told, commits, and only then acknowledges  *)
(* the purchase.  A purchase that must not be granted becomes a refund     *)
(* job.                                                                    *)
(*                                                                         *)
(* Abstractions.  A purchase token is a member of Tokens and belongs to    *)
(* the provider.  Google numbers the changes of a purchase (ver) so that   *)
(* the model can say which answer is the newer one.  Every statement that  *)
(* fails, every refused Google call, a deadline and a stopped process are  *)
(* Die, at most MaxFaults times.  Products, prices, test purchases and     *)
(* the payments row beside each receipt are left out; the provider is an   *)
(* approved one whose account Prepare has bound; a time that lies ahead    *)
(* (next_check_at, next_attempt_at) may be reached at any moment.  The     *)
(* provider's Flutterwave side is one variable, card;                      *)
(* ProviderSubscriptions has it in full.                                   *)
(*                                                                         *)
(* A definition introduced by "Slip:" is an operation with one plausible   *)
(* mistake; no behaviour of Spec uses it.                                  *)
(***************************************************************************)
EXTENDS Integers

CONSTANTS
    MaxTokens,  \* bound on the purchase tokens
    MaxEvents,  \* bound on the changes of purchases, one message each
    MaxSessions, \* bound on the requests and worker passes under way
    MaxOrders,  \* bound on the paid periods of a purchase
    MaxFaults   \* bound on failures and crashes

ASSUME BoundsAssumption ==
    /\ MaxTokens \in Nat /\ MaxEvents \in Nat /\ MaxSessions \in Nat
    /\ MaxOrders \in Nat \ {0} /\ MaxFaults \in Nat

\* All are numbered in the order in which they are used.
Tokens == 1 .. MaxTokens
Events == 1 .. MaxEvents
Sessions == 1 .. MaxSessions
NoToken == 0
NoEvent == 0

VARIABLES
    google,    \* at Google: the purchase behind each token
    event,     \* messages of Google and rows of play_provider_events
    purchase,  \* play_provider_purchases with their provider_subscriptions
    receipt,   \* provider_subscription_payments: orders recorded, orders rewarded
    job,       \* play_provider_refund_jobs
    intent,    \* play_provider_checkout_intents: a reservation still runs
    card,      \* the provider's Flutterwave subscription
    session,   \* requests and passes under way
    faults     \* history: failures so far

vars == <<google, event, purchase, receipt, job, intent, card,
          session, faults>>

GoogleStates == {"none", "pending", "active", "canceled", "hold", "expired"}
GoogleRow == [state : GoogleStates, renews : BOOLEAN, acked : BOOLEAN,
              order : 0 .. MaxOrders, ver : 0 .. MaxEvents]
NoSale == [state |-> "none", renews |-> FALSE, acked |-> FALSE, order |-> 0, ver |-> 0]

\* live: active and its current_period_end is still ahead; checked: next_check_at
\* is not infinity.
PurchaseRow == [state : {"absent", "pending", "active", "expired"}, live : BOOLEAN,
                renews : BOOLEAN, needsAck : BOOLEAN,
                checked : BOOLEAN, seen : 0 .. MaxEvents]
Absent == [state |-> "absent", live |-> FALSE, renews |-> FALSE, needsAck |-> FALSE,
           checked |-> FALSE, seen |-> 0]

Idle == [step |-> "idle", token |-> NoToken, event |-> NoEvent, saw |-> NoSale]

Init ==
    /\ google = [t \in Tokens |-> NoSale]
    /\ event = [e \in Events |-> [token |-> NoToken, state |-> "none"]]
    /\ purchase = [t \in Tokens |-> Absent]
    /\ receipt = [t \in Tokens |-> [orders |-> {}, rewarded |-> {}]]
    /\ job = [t \in Tokens |-> "none"]
    /\ intent = FALSE
    /\ card = "none"
    /\ session = [s \in Sessions |-> Idle]
    /\ faults = 0

Known(t) == purchase[t].state # "absent"

\* "provider-renewal:<provider>" is held from Begin to the commit, and with it
\* the row lock of a purchase that exists.
Holding(s) == session[s].step \in {"verify", "commit"}
LockFree == \A s \in Sessions : ~Holding(s)
RowFree(t) == \A s \in Sessions : Holding(s) => session[s].token # t

Goto(s, step) == session' = [session EXCEPT ![s].step = step]
\* The next request or pass is s.
Free(s) == session[s] = Idle /\ \A r \in 1 .. s - 1 : session[r] # Idle
Finish(s) == session' = [session EXCEPT ![s] = Idle]

-----------------------------------------------------------------------------
(* Google and the buyer *)

\* A purchase changes and Google sends a message about it.
Changes(t, row) ==
    \E e \in Events :
      /\ \A d \in Events : event[d].state = "none" <=> d >= e
      /\ event' = [event EXCEPT ![e] = [token |-> t, state |-> "sent"]]
      /\ google' = [google EXCEPT ![t] = [row EXCEPT !.ver = google[t].ver + 1]]

NextOrder(t) == [google[t] EXCEPT !.state = "active", !.order = @ + 1]

\* Bought and paid at once, or to be paid later; a prepaid plan does not renew.
Buy(t) ==
    /\ \A u \in Tokens : google[u].state = "none" <=> u >= t
    /\ \E renews \in BOOLEAN :
         \/ Changes(t, [NextOrder(t) EXCEPT !.renews = renews])
         \/ Changes(t, [google[t] EXCEPT !.state = "pending", !.renews = renews])
    /\ UNCHANGED <<purchase, receipt, job, intent, card, session, faults>>

\* A late payment or its end; the buyer cancels, or changes his mind again.
Sale(t) ==
    /\ \/ /\ google[t].state \in {"pending", "hold"} /\ google[t].order < MaxOrders
          /\ Changes(t, NextOrder(t))
       \/ /\ google[t].state = "pending"
          /\ Changes(t, [google[t] EXCEPT !.state = "expired", !.renews = FALSE])
       \/ /\ google[t].state = "active" /\ google[t].renews
          /\ Changes(t, [google[t] EXCEPT !.state = "canceled", !.renews = FALSE])
       \/ /\ google[t].state = "canceled"
          /\ Changes(t, [google[t] EXCEPT !.state = "active", !.renews = TRUE])
    /\ UNCHANGED <<purchase, receipt, job, intent, card, session,
                   faults>>

\* A paid period ends: it is renewed, the card fails, or the purchase expires.
\* Google also lets a purchase expire that nobody acknowledges.
PeriodEnds(t) ==
    /\ google[t].state \in {"active", "canceled", "hold"}
    /\ \/ /\ google[t].renews /\ google[t].state = "active"
          /\ \/ google[t].order < MaxOrders /\ Changes(t, NextOrder(t))
             \/ Changes(t, [google[t] EXCEPT !.state = "hold"])
       \/ Changes(t, [google[t] EXCEPT !.state = "expired", !.renews = FALSE])
    /\ purchase' = [purchase EXCEPT ![t].live = FALSE]
    /\ UNCHANGED <<receipt, job, intent, card, session, faults>>

\* The provider's other subscription: its checkout respects a Play intent and
\* any Play subscription that may still run, its settlement respects nothing.
CardCheckout ==
    /\ card = "none" /\ LockFree /\ ~intent
    /\ \A t \in Tokens : purchase[t].state \notin {"active", "pending"}
    /\ card' \in {"recurring", "one_time"}
    /\ UNCHANGED <<google, event, purchase, receipt, job, intent,
                   session, faults>>

CardMoves ==
    /\ \/ card \in {"recurring", "one_time"} /\ card' \in {"active", "none"}
       \/ card = "active" /\ card' = "none"
    /\ UNCHANGED <<google, event, purchase, receipt, job, intent,
                   session, faults>>

-----------------------------------------------------------------------------
(* Prepare and Notification *)

\* Nothing that is billed, pending or in doubt, and no checkout reserved.
Vacant ==
    /\ card = "none"
    /\ \A t \in Tokens : purchase[t].state # "pending" /\ ~purchase[t].live
                           /\ ~purchase[t].renews
    /\ ~intent

Prepare ==
    /\ LockFree /\ Vacant
    /\ \E t \in Tokens : google[t].state = "none"
    /\ intent' = TRUE
    /\ UNCHANGED <<google, event, purchase, receipt, job, card, session, faults>>

\* Fifteen minutes pass; a buyer who has not paid by then gives up.
IntentExpires ==
    /\ intent
    /\ intent' = FALSE
    /\ UNCHANGED <<google, event, purchase, receipt, job, card,
                   session, faults>>

\* A message arrives; message_id is the key, a repetition changes nothing.
Notification(e) ==
    /\ event[e].state = "sent"
    /\ event' = [event EXCEPT ![e].state = "waiting"]
    /\ UNCHANGED <<google, purchase, receipt, job, intent, card,
                   session, faults>>
-----------------------------------------------------------------------------
(* Process *)

Active(row) == row.state \in {"active", "canceled"}
Unacked(row) == Active(row) /\ ~row.acked

\* The rest of Process is not run, or fails: its caller leaves the message and
\* the purchase for a later pass.
Return(s) ==
    session' = [session EXCEPT ![s] =
                  IF @.event = NoEvent THEN Idle ELSE [@ EXCEPT !.step = "mark"]]

Start(s, t, e) ==
    session' = [session EXCEPT ![s] = [Idle EXCEPT !.step = "verify", !.token = t, !.event = e]]

\* Slip: the lock of the provider is not taken (NewestAnswerWins).
MayProcessUnlocked(t) == job[t] = "none"

\* The lock is free, no refund was asked for, a new purchase may be granted.
MayProcess(t) == LockFree /\ job[t] = "none"

\* The phone reports a purchase or restores it.
VerifyRequest(s, t) ==
    /\ Free(s) /\ google[t].state # "none"
    /\ MayProcess(t)
    /\ Start(s, t, NoEvent)
    /\ UNCHANGED <<google, event, purchase, receipt, job, intent,
                   card, faults>>

\* Slip: a purchase is acknowledged as soon as it was verified (AckedMeansGranted).
VerifyAcknowledging(s) ==
    /\ session[s].step = "verify"
    /\ session' = [session EXCEPT ![s].step = "commit", ![s].saw = google[session[s].token]]
    /\ google' = [google EXCEPT ![session[s].token].acked = Active(google[session[s].token])]
    /\ UNCHANGED <<event, purchase, receipt, job, intent, card, faults>>

\* Google answers with the purchase as it is now.
Verify(s) ==
    /\ session[s].step = "verify"
    /\ session' = [session EXCEPT ![s].step = "commit", ![s].saw = google[session[s].token]]
    /\ UNCHANGED <<google, event, purchase, receipt, job, intent,
                   card, faults>>

\* Another subscription runs or is billed.  A Flutterwave checkout counts when
\* it would renew.
Conflict(t) ==
    \/ card \in {"recurring", "active"}
    \/ \E u \in Tokens \ {t} : purchase[u].live \/ purchase[u].renews

\* The purchase as the answer says it is.
Written(t, r) ==
    [state    |-> IF Active(r) THEN "active" ELSE IF r.state = "pending" THEN "pending"
                  ELSE "expired",
     live     |-> Active(r) /\ google[t].order = r.order /\ Active(google[t]),
     renews   |-> r.renews,
     needsAck |-> Unacked(r),
     checked  |-> r.state # "expired",
     seen     |-> r.ver]

\* Nothing to grant yet: not committed.
CommitNothing(s) ==
    LET t == session[s].token  r == session[s].saw IN
    /\ session[s].step = "commit"
    /\ ~Known(t)
    /\ ~Active(r) /\ (r.state = "pending" => Conflict(t))
    /\ Return(s)
    /\ UNCHANGED <<google, event, purchase, receipt, job, intent,
                   card, faults>>

\* A paid purchase beside another subscription is to be refunded.
CommitRefund(s) ==
    LET t == session[s].token IN
    /\ session[s].step = "commit"
    /\ ~Known(t) /\ Active(session[s].saw) /\ Conflict(t)
    /\ job' = [job EXCEPT ![t] = "requested"]
    /\ Return(s)
    /\ UNCHANGED <<google, event, purchase, receipt, intent, card, faults>>

\* The purchase, its subscription and the receipt of its order.
CommitPurchase(s) ==
    LET t == session[s].token  r == session[s].saw IN
    /\ session[s].step = "commit"
    /\ Known(t) \/ ((Active(r) \/ r.state = "pending") /\ ~Conflict(t))
    /\ purchase' = [purchase EXCEPT ![t] = Written(t, r)]
    /\ receipt' = IF ~Active(r) \/ r.order \in receipt[t].orders THEN receipt
                  ELSE [receipt EXCEPT ![t].orders = @ \cup {r.order},
                                       ![t].rewarded = @ \cup (IF r.acked THEN {r.order} ELSE {})]
    /\ Goto(s, "clear")
    /\ UNCHANGED <<google, event, job, intent, card, faults>>

\* After the commit, in a statement of its own: whatever intent there is goes.
ClearIntent(s) ==
    LET r == session[s].saw IN
    /\ session[s].step = "clear"
    /\ intent' = FALSE
    /\ IF Unacked(r) THEN Goto(s, "ack") ELSE IF Active(r) THEN Goto(s, "converge")
       ELSE Return(s)
    /\ UNCHANGED <<google, event, purchase, receipt, job, card,
                   faults>>

\* Acknowledge asks again; an inactive purchase is not acknowledged, and the
\* answer may be lost.
Acknowledge(s) ==
    LET t == session[s].token IN
    /\ session[s].step = "ack"
    /\ \/ /\ Active(google[t])
          /\ google' = [google EXCEPT ![t].acked = TRUE]
          /\ \/ Goto(s, "converge") /\ UNCHANGED faults
             \/ faults < MaxFaults /\ faults' = faults + 1 /\ Return(s)
       \/ ~Active(google[t]) /\ Return(s) /\ UNCHANGED <<google, faults>>
    /\ UNCHANGED <<event, purchase, receipt, job, intent, card>>

\* needs_acknowledgement and referral_eligible, in a second transaction that
\* takes no lock of the provider.
Converge(s) ==
    LET t == session[s].token  o == session[s].saw.order IN
    /\ session[s].step = "converge" /\ RowFree(t)
    /\ purchase' = [purchase EXCEPT ![t].needsAck = FALSE]
    /\ receipt' = [receipt EXCEPT ![t].rewarded = @ \cup ({o} \cap receipt[t].orders)]
    /\ Return(s)
    /\ UNCHANGED <<google, event, job, intent, card, faults>>

\* A statement, a call or the process fails; a transaction is rolled back.
Die(s) ==
    /\ session[s] # Idle /\ faults < MaxFaults
    /\ faults' = faults + 1
    /\ Finish(s)
    /\ UNCHANGED <<google, event, purchase, receipt, job, intent,
                   card>>
-----------------------------------------------------------------------------
(* Reconcile *)

Unmatched(e) == event[e].state = "waiting" /\ ~Known(event[e].token)

\* Slip: the message is marked before the purchase was processed (CatchesUp).
RecoverMarked(s, e) ==
    /\ Free(s) /\ Unmatched(e)
    /\ MayProcess(event[e].token)
    /\ event' = [event EXCEPT ![e].state = "done"]
    /\ Start(s, event[e].token, e)
    /\ UNCHANGED <<google, purchase, receipt, job, intent, card, faults>>

\* recoverNotificationPurchases: Google names the account, then Process.  While
\* that is not possible the message waits for its next turn.
Recover(s, e) ==
    /\ Free(s) /\ Unmatched(e)
    /\ MayProcess(event[e].token)
    /\ Start(s, event[e].token, e)
    /\ UNCHANGED <<google, event, purchase, receipt, job, intent, card,
                   faults>>

\* Process came back without an error, perhaps only to say that the purchase is
\* being refunded.
Mark(s) ==
    /\ session[s].step = "mark"
    /\ event' = [event EXCEPT ![session[s].event].state = "done"]
    /\ Finish(s)
    /\ UNCHANGED <<google, purchase, receipt, job, intent, card, faults>>

MarkRefunded(e) ==
    /\ Unmatched(e) /\ LockFree /\ job[event[e].token] # "none"
    /\ event' = [event EXCEPT ![e].state = "done"]
    /\ UNCHANGED <<google, purchase, receipt, job, intent, card, session,
                   faults>>

Matched == {e \in Events : event[e].state = "waiting" /\ Known(event[e].token)}

\* Messages about known purchases make these due, finished ones too; the
\* statement waits for the rows that are being checked.
Match ==
    /\ Matched # {}
    /\ \A e \in Matched : RowFree(event[e].token)
    /\ event' = [e \in Events |-> IF e \in Matched THEN [event[e] EXCEPT !.state = "done"]
                                  ELSE event[e]]
    /\ purchase' = [t \in Tokens |->
                      IF \E e \in Matched : event[e].token = t
                      THEN [purchase[t] EXCEPT !.checked = TRUE] ELSE purchase[t]]
    /\ UNCHANGED <<google, receipt, job, intent, card, session, faults>>

\* A purchase whose next_check_at is reached is claimed for five minutes and
\* processed; without the lock it is left to a later pass (ErrBusy).
Claim(s, t) ==
    /\ Free(s)
    /\ purchase[t].checked /\ MayProcess(t)
    /\ Start(s, t, NoEvent)
    /\ UNCHANGED <<google, event, purchase, receipt, job, intent, card,
                   faults>>

\* reconcileRefunds: a job is claimed, if nothing was granted for it.
Refund(s, t) ==
    /\ Free(s)
    /\ job[t] = "requested" /\ ~Known(t)
    /\ session' = [session EXCEPT ![s] = [Idle EXCEPT !.step = "revoke", !.token = t]]
    /\ UNCHANGED <<google, event, purchase, receipt, job, intent,
                   card, faults>>

\* Google takes the purchase back, again if it was asked before; the message
\* about it changes nothing and is left out.
Revoke(s) ==
    /\ session[s].step = "revoke"
    /\ google' = [google EXCEPT ![session[s].token].state = "expired",
                                ![session[s].token].renews = FALSE]
    /\ \/ Goto(s, "confirm") /\ UNCHANGED faults
       \/ faults < MaxFaults /\ faults' = faults + 1 /\ Finish(s)
    /\ UNCHANGED <<event, purchase, receipt, job, intent, card>>

\* Slip: a status the table does not know (TypeOK).
ConfirmRefunded(s) ==
    /\ session[s].step = "confirm"
    /\ job' = [job EXCEPT ![session[s].token] = "refunded"]
    /\ Finish(s)
    /\ UNCHANGED <<google, event, purchase, receipt, intent, card, faults>>

Confirm(s) ==
    /\ session[s].step = "confirm"
    /\ job' = [job EXCEPT ![session[s].token] = "confirmed"]
    /\ Finish(s)
    /\ UNCHANGED <<google, event, purchase, receipt, intent, card,
                   faults>>
-----------------------------------------------------------------------------
Step(s) ==
    \/ Verify(s) \/ CommitNothing(s) \/ CommitRefund(s) \/ CommitPurchase(s)
    \/ ClearIntent(s) \/ Acknowledge(s) \/ Converge(s) \/ Mark(s) \/ Revoke(s) \/ Confirm(s)

Next ==
    \/ \E t \in Tokens : Buy(t) \/ Sale(t) \/ PeriodEnds(t)
    \/ \E e \in Events : Notification(e) \/ MarkRefunded(e)
    \/ CardCheckout \/ CardMoves \/ Prepare \/ IntentExpires \/ Match
    \/ \E s \in Sessions :
         \/ Step(s) \/ Die(s)
         \/ \E t \in Tokens : VerifyRequest(s, t) \/ Claim(s, t) \/ Refund(s, t)
         \/ \E e \in Events : Recover(s, e)

Spec == Init /\ [][Next]_vars

\* What is left to do: messages to deliver or to work off, purchases to check and
\* to refund.
Behind(t) == Known(t) /\ purchase[t].seen # google[t].ver
Useful ==
    \/ Match
    \/ \E e \in Events : Notification(e) \/ MarkRefunded(e)
    \/ \E s \in Sessions :
         \/ \E e \in Events : Recover(s, e)
         \/ \E t \in Tokens : Refund(s, t) \/ (Behind(t) /\ Claim(s, t))

\* A step that was begun is taken or fails.  Whatever is left to do gets its turn:
\* each queue is served oldest first and a failure waits for five minutes; nobody
\* holds the lock for longer than 25 s, so the minute worker finds it free.
FairSpec ==
    /\ Spec
    /\ WF_vars(\E s \in Sessions : Step(s))
    /\ SF_vars(Useful)
-----------------------------------------------------------------------------
TypeOK ==
    /\ google \in [Tokens -> GoogleRow]
    /\ event \in [Events -> [token : Tokens \cup {NoToken},
                             state : {"none", "sent", "waiting", "done"}]]
    /\ purchase \in [Tokens -> PurchaseRow]
    /\ receipt \in [Tokens -> [orders : SUBSET (1 .. MaxOrders), rewarded : SUBSET (1 .. MaxOrders)]]
    /\ job \in [Tokens -> {"none", "requested", "confirmed"}]
    /\ intent \in BOOLEAN
    /\ card \in {"none", "recurring", "one_time", "active"}
    /\ session \in [Sessions ->
         [step : {"idle", "verify", "commit", "clear", "ack", "converge", "mark",
                  "revoke", "confirm"},
          token : Tokens \cup {NoToken}, event : Events \cup {NoEvent}, saw : GoogleRow]]
    /\ faults \in 0 .. MaxFaults

\* A purchase is granted or refunded and never both: whoever grants looked for
\* a refund job under the lock under which such jobs are made (Process,
\* reconcileRefunds).
GrantedOrRefunded ==
    \A t \in Tokens : job[t] # "none" => ~Known(t) /\ receipt[t].orders = {}

\* Google is told that a purchase was delivered only after it was granted and
\* its receipt committed, and a referral is rewarded only for a purchase that
\* was acknowledged (Process, the order of its last steps, with crashes).
AckedMeansGranted ==
    \A t \in Tokens :
      /\ google[t].acked => Known(t) /\ receipt[t].orders # {}
      /\ receipt[t].rewarded # {} => google[t].acked

\* Of two answers of Google about a purchase the newer one is kept, whoever
\* asked, however long the answers took (Process under the provider's lock).
NewestAnswerWins ==
    [][\A t \in Tokens : purchase'[t].seen >= purchase[t].seen]_purchase

\* What is recorded agrees with Google; every paid purchase is
\* granted or given back.
Settled ==
    \A t \in Tokens :
      /\ Known(t) => purchase[t].seen = google[t].ver
      /\ job[t] # "none" => ~Active(google[t])
      /\ (Active(google[t]) /\ job[t] = "none") => Known(t)

\* Once Google stops changing things they are settled, also when the phone never
\* reports the purchase, calls fail or a worker stops half-way (Notification,
\* Reconcile, recoverNotificationPurchases, reconcileRefunds).
CatchesUp == <>[]Settled

\* Nobody pays for nothing: granted or refunded, and acknowledged only after that.
PurchasesHonoured == GrantedOrRefunded /\ AckedMeansGranted
=============================================================================
