--------------------------- MODULE SellerSettlement ---------------------------
(***************************************************************************)
(* Seller payouts: the worker replicas that read one seller's settlements  *)
(* from Flutterwave, page by page under a five-minute lease                *)
(* (ReconcileFlutterwaveSettlements), and write what they say to the       *)
(* payments and the merchant ledger (applyFlutterwaveSettlement).          *)
(*                                                                         *)
(* Only the cursor is protected by the lease.  The page a worker has in    *)
(* memory is applied whatever became of its lease, so old answers of the   *)
(* gateway can arrive after newer ones; the WHERE clause of the payments   *)
(* UPDATE (Acceptable) alone decides which of them counts.                 *)
(*                                                                         *)
(* Abstractions.  Jobs of different sellers share nothing, so there is     *)
(* one.  A list page holds one settlement, a detail page one transaction.  *)
(* Amounts, fees and destinations are left out; an answer they make        *)
(* unusable is a failed request.  Every settlement of the seller is        *)
(* listed: corrections come within the seven days a scan looks back.       *)
(* next_check_at only delays a claim, so a free job may be claimed at any   *)
(* time; a lease that lapsed is the same as none.                          *)
(* when, payouts and lapsed are history: the program does not store them.  *)
(*                                                                         *)
(* A definition introduced by "Slip:" is an operation with one plausible   *)
(* mistake; no behaviour of Spec uses it, it shows that the property named *)
(* beside it would notice.                                                 *)
(***************************************************************************)
EXTENDS Integers, FiniteSets

CONSTANTS
    Payments,     \* successful buyer charges of one seller
    Settlements,  \* settlement ids of the gateway
    Layouts,      \* the ways the gateway may group the charges
    Workers,      \* worker processes
    NoSettlement, NoWorker,
    Waits,        \* words the gateway has for a payout it has not made
    MaxRequests,  \* gateway requests a claim may make (code: 10)
    MaxTime,      \* bound: payouts the gateway makes
    MaxFaults     \* bound: crashes, failed requests, leases that lapse

ASSUME LayoutsAssumption == Layouts \subseteq [Settlements -> SUBSET Payments]
ASSUME WaitsAssumption == Waits \subseteq {"pending", "on hold", "failed"}
ASSUME NoneAssumption == NoSettlement \notin Settlements /\ NoWorker \notin Workers
ASSUME BoundsAssumption ==
    MaxRequests \in Nat \ {0} /\ MaxTime \in Nat \ {0} /\ MaxFaults \in Nat

VARIABLES
    clock,    \* now(), counted in payouts
    members,  \* the charges each settlement pays out, fixed by the gateway
    gateway,  \* what Flutterwave says of each settlement
    payment,  \* payments of the orders
    entry,    \* their "order-paid" rows of merchant_ledger
    job,      \* the seller's row of seller_settlement_jobs
    worker,   \* memory of each worker
    payouts,  \* <<settlement, processed date>> that did happen
    lapsed,   \* a lease lapsed under a working worker
    faults

vars == <<clock, members, gateway, payment, entry, job, worker, payouts, lapsed, faults>>

Words == Waits \cup {"successful", "reversed"}
States == {"pending", "on_hold", "settled", "failed", "reversed"}
Stamps == 0 .. MaxTime      \* 0: no date
Opened == {b \in Settlements : gateway[b].word # "unknown"}

\* Where a scan is: the settlement being read and its transactions already
\* seen, the settlements already listed, and whether the list has ended.
Start == [head |-> NoSettlement, seen |-> {}, walked |-> {}, finished |-> FALSE]
Cursor == [head : Settlements \cup {NoSettlement}, seen : SUBSET Payments,
           walked : SUBSET Settlements, finished : BOOLEAN]

Page == [of : Payments, id : Settlements, word : Words, at : Stamps, when : Stamps]
Idle == [step |-> "idle", cursor |-> Start, left |-> 0, page |-> {}]

Init ==
    /\ clock = 0
    /\ members \in Layouts
    /\ gateway = [b \in Settlements |-> [word |-> "unknown", at |-> 0, when |-> 0]]
    /\ payment = [p \in Payments |-> [status |-> "processing", settlement |-> "pending",
                                      id |-> NoSettlement, at |-> 0, when |-> 0]]
    /\ entry = [p \in Payments |-> [status |-> "absent", settlement |-> "pending",
                                    id |-> NoSettlement]]
    /\ job = [exists |-> FALSE, lease |-> NoWorker, cursor |-> Start]
    /\ worker = [w \in Workers |-> Idle]
    /\ payouts = {}
    /\ lapsed = FALSE
    /\ faults = 0

Fault == faults < MaxFaults /\ faults' = faults + 1
local == <<payment, entry, job, worker, payouts, lapsed, faults>>

-----------------------------------------------------------------------------
(* Outside the workers *)

\* settleOrderPayment: the order is paid, its ledger row and the seller's job
\* appear in the same transaction.
Charge(p) ==
    /\ payment[p].status = "processing"
    /\ \E b \in Settlements : p \in members[b]
    /\ payment' = [payment EXCEPT ![p].status = "succeeded"]
    /\ entry' = [entry EXCEPT ![p].status = "available"]
    /\ job' = [job EXCEPT !.exists = TRUE]
    /\ UNCHANGED <<clock, members, gateway, worker, payouts, lapsed, faults>>

\* Flutterwave opens a settlement, holds it or gives up a payout.
Announce(b, word) ==
    /\ members[b] # {}
    /\ gateway[b].word \in (Waits \cup {"unknown"}) \ {word}
    /\ gateway' = [gateway EXCEPT ![b].word = word]
    /\ UNCHANGED <<clock, members, local>>

\* Flutterwave pays a settlement out, with a processed date or without.  A
\* charge is in one paid settlement at a time.
PayOut(b) ==
    /\ clock < MaxTime /\ members[b] # {}
    /\ gateway[b].word # "successful"
    /\ \A c \in Settlements \ {b} :
          members[b] \cap members[c] # {} => gateway[c].word # "successful"
    /\ clock' = clock + 1
    /\ \E at \in {0, clock'} :
          /\ gateway' = [gateway EXCEPT ![b] =
                           [word |-> "successful", at |-> at, when |-> clock']]
          /\ payouts' = payouts \cup {<<b, at>>}
    /\ UNCHANGED <<members, payment, entry, job, worker, lapsed, faults>>

\* Flutterwave takes a payout back.
Reverse(b) ==
    /\ gateway[b].word = "successful"
    /\ gateway' = [gateway EXCEPT ![b].word = "reversed"]
    /\ UNCHANGED <<clock, members, local>>

\* locked_until is reached.
Lapse ==
    /\ job.lease # NoWorker
    /\ IF worker[job.lease].step = "idle"
         THEN UNCHANGED <<lapsed, faults>>
         ELSE Fault /\ lapsed' = TRUE
    /\ job' = [job EXCEPT !.lease = NoWorker]
    /\ UNCHANGED <<clock, members, gateway, payment, entry, worker, payouts>>

-----------------------------------------------------------------------------
(* The lease *)

\* Slip: the lease of another worker is not looked at (ReversalsStick).
ClaimAnyway(w) ==
    /\ worker[w].step = "idle"
    /\ job.exists
    /\ job' = [job EXCEPT !.lease = w]
    /\ worker' = [worker EXCEPT ![w] = [Idle EXCEPT !.step = "ask", !.cursor = job.cursor,
                                                     !.left = MaxRequests]]
    /\ UNCHANGED <<clock, members, gateway, payment, entry, payouts, lapsed, faults>>

\* claimSettlementJob
Claim(w) ==
    /\ worker[w].step = "idle"
    /\ job.exists /\ job.lease = NoWorker
    /\ job' = [job EXCEPT !.lease = w]
    /\ worker' = [worker EXCEPT ![w] = [Idle EXCEPT !.step = "ask", !.cursor = job.cursor,
                                                     !.left = MaxRequests]]
    /\ UNCHANGED <<clock, members, gateway, payment, entry, payouts, lapsed, faults>>

\* The error path of ReconcileFlutterwaveSettlements: the cursor stays where
\* it was last saved, and the lease goes only if it is still this worker's.
GiveUp(w) ==
    /\ job' = IF job.lease = w
                THEN [job EXCEPT !.lease = NoWorker] ELSE job
    /\ worker' = [worker EXCEPT ![w] = Idle]

Owns(w) == job.lease = w

\* saveSettlementCursor: the cursor is stored under the lease, and the lease
\* returned when the requests of this claim are used up.
Save(w, cursor) ==
    IF ~Owns(w) THEN GiveUp(w)
    ELSE IF worker[w].left > 1
      THEN /\ job' = [job EXCEPT !.cursor = cursor]
           /\ worker' = [worker EXCEPT ![w] = [step |-> "ask", cursor |-> cursor,
                                               left |-> @.left - 1, page |-> {}]]
      ELSE /\ job' = [job EXCEPT !.cursor = cursor, !.lease = NoWorker]
           /\ worker' = [worker EXCEPT ![w] = Idle]

-----------------------------------------------------------------------------
(* One pass over the settlements *)

\* Slip: the finished scan is not reset (PayoutsSeen).
FinishOnce(w) ==
    /\ worker[w].step = "ask"
    /\ worker[w].cursor.head = NoSettlement /\ worker[w].cursor.finished
    /\ IF Owns(w)
         THEN /\ job' = [job EXCEPT !.lease = NoWorker]
              /\ worker' = [worker EXCEPT ![w] = Idle]
         ELSE GiveUp(w)
    /\ UNCHANGED <<clock, members, gateway, payment, entry, payouts, lapsed, faults>>

\* processSettlementJob, the scan is over: the next one starts from the top.
Finish(w) ==
    /\ worker[w].step = "ask"
    /\ worker[w].cursor.head = NoSettlement /\ worker[w].cursor.finished
    /\ IF Owns(w)
         THEN /\ job' = [job EXCEPT !.lease = NoWorker, !.cursor = Start]
              /\ worker' = [worker EXCEPT ![w] = Idle]
         ELSE GiveUp(w)
    /\ UNCHANGED <<clock, members, gateway, payment, entry, payouts, lapsed, faults>>

\* listFlutterwaveSettlementPage: the next settlement of the list, or its end.
List(w) ==
    LET cursor == worker[w].cursor
        rest   == Opened \ cursor.walked
    IN  /\ worker[w].step = "ask"
        /\ cursor.head = NoSettlement /\ ~cursor.finished
        /\ \/ rest = {} /\ Save(w, [cursor EXCEPT !.finished = TRUE])
           \/ \E b \in rest :
                Save(w, [cursor EXCEPT !.head = b, !.walked = @ \cup {b},
                                       !.finished = (rest = {b})])
        /\ UNCHANGED <<clock, members, gateway, payment, entry, payouts, lapsed, faults>>

\* getFlutterwaveSettlementPage: the next transaction of the settlement, with
\* the settlement's state as it is now.
Fetch(w) ==
    LET b == worker[w].cursor.head IN
    /\ worker[w].step = "ask" /\ b # NoSettlement
    /\ \E p \in members[b] \ worker[w].cursor.seen :
         worker' = [worker EXCEPT
                      ![w].step = "apply",
                      ![w].page = {[of |-> p, id |-> b, word |-> gateway[b].word,
                                    at |-> gateway[b].at, when |-> gateway[b].when]}]
    /\ UNCHANGED <<clock, members, gateway, payment, entry, job, payouts, lapsed, faults>>

\* normalizeSettlementStatus
Normalize(word) ==
    CASE word = "on hold"    -> "on_hold"
      [] word = "successful" -> "settled"
      [] OTHER               -> word

\* The last condition of the payments UPDATE: a payout or a reversal on record
\* yields to a reversal of the same settlement, to the same payout again, and
\* to a payout processed after the one on record.  settled_at may be NULL, and
\* no date is after NULL.
Acceptable(pay, page) ==
    LET says == Normalize(page.word) IN
    \/ pay.settlement \notin {"settled", "reversed"}
    \/ /\ pay.id = page.id
       /\ \/ says = "reversed"
          \/ says = "settled" /\ pay.settlement = "settled"
    \/ says = "settled" /\ page.at # 0 /\ pay.at # 0 /\ page.at > pay.at

\* Slip: a payout is dated when it is read (RecordedPayoutsHappened).
SettledAtRead(pay, page) ==
    IF Normalize(page.word) = "settled" THEN clock ELSE pay.at

\* settled_at: the processed date, else the date on record, else now().
SettledAt(pay, page) ==
    IF Normalize(page.word) # "settled" THEN pay.at
    ELSE IF page.at # 0 THEN page.at
    ELSE IF pay.at # 0 THEN pay.at
    ELSE clock

\* The merchant_ledger UPDATE of the same transaction.
LedgerRow(row, page) ==
    [settlement |-> Normalize(page.word), id |-> page.id,
     status |-> CASE Normalize(page.word) = "reversed" -> "reversed"
                  [] Normalize(page.word) = "settled"  -> "paid"
                  [] OTHER                             -> row.status]

\* applyFlutterwaveSettlement, then the cursor behind the transaction.  A
\* charge the orders do not know yet is passed over.
Apply(w) ==
    \E page \in worker[w].page :
      LET p      == page.of
          cursor == worker[w].cursor
          seen   == cursor.seen \cup {p}
      IN  /\ worker[w].step = "apply"
          /\ IF payment[p].status = "succeeded" /\ Acceptable(payment[p], page)
               THEN /\ payment' = [payment EXCEPT ![p] =
                         [status |-> "succeeded", settlement |-> Normalize(page.word),
                          id |-> page.id, at |-> SettledAt(payment[p], page),
                          when |-> page.when]]
                    /\ entry' = [entry EXCEPT ![p] = LedgerRow(@, page)]
               ELSE UNCHANGED <<payment, entry>>
          /\ Save(w, IF seen = members[cursor.head]
                       THEN [cursor EXCEPT !.head = NoSettlement, !.seen = {}]
                       ELSE [cursor EXCEPT !.seen = seen])
          /\ UNCHANGED <<clock, members, gateway, payouts, lapsed, faults>>

\* A request fails, or its answer cannot be used.
Fail(w) ==
    /\ worker[w].step = "ask"
    /\ worker[w].cursor.head # NoSettlement \/ ~worker[w].cursor.finished
    /\ Fault
    /\ GiveUp(w)
    /\ UNCHANGED <<clock, members, gateway, payment, entry, payouts, lapsed>>

\* The process stops.
Crash(w) ==
    /\ worker[w].step # "idle"
    /\ Fault
    /\ worker' = [worker EXCEPT ![w] = Idle]
    /\ UNCHANGED <<clock, members, gateway, payment, entry, job, payouts, lapsed>>

Work(w) == Finish(w) \/ List(w) \/ Fetch(w) \/ Apply(w)

Next ==
    \/ \E p \in Payments : Charge(p)
    \/ \E b \in Settlements : \/ \E word \in Waits : Announce(b, word)
                              \/ PayOut(b) \/ Reverse(b)
    \/ Lapse
    \/ \E w \in Workers : Claim(w) \/ Work(w) \/ Fail(w) \/ Crash(w)

Spec == Init /\ [][Next]_vars

\* Leases run out, and as long as there is something to do some worker does
\* it: its ticker fires every minute and a request has a timeout of twenty
\* seconds.  No single worker is ever sure to go on.
FairSpec ==
    /\ Spec
    /\ WF_vars(Lapse)
    /\ WF_vars(\E w \in Workers : Claim(w) \/ Work(w))
-----------------------------------------------------------------------------
TypeOK ==
    /\ members \in Layouts
    /\ clock \in Stamps /\ lapsed \in BOOLEAN /\ faults \in 0 .. MaxFaults
    /\ gateway \in [Settlements -> [word : Words \cup {"unknown"}, at : Stamps, when : Stamps]]
    /\ payment \in [Payments -> [status : {"processing", "succeeded"}, settlement : States,
                                 id : Settlements \cup {NoSettlement},
                                 at : Stamps, when : Stamps]]
    /\ entry \in [Payments -> [status : {"absent", "available", "paid", "reversed"},
                               settlement : States, id : Settlements \cup {NoSettlement}]]
    /\ job \in [exists : BOOLEAN, lease : Workers \cup {NoWorker}, cursor : Cursor]
    /\ worker \in [Workers -> [step : {"idle", "ask", "apply"}, cursor : Cursor,
                               left : 0 .. MaxRequests, page : SUBSET Page]]
    /\ payouts \subseteq Settlements \X Stamps

\* "Stale holds cannot downgrade a released payout"
\* (docs/SELLER_SETTLEMENTS.md:98): what a payment once said of a payout or a
\* reversal is never taken back to a hold, a failure or a wait, by however old
\* an answer of the gateway.
PayoutsStick ==
    [][\A p \in Payments : payment[p].settlement \in {"settled", "reversed"}
         => payment'[p].settlement \in {"settled", "reversed"}]_vars

\* A payment is reported as released only for a payout the gateway made, under
\* its settlement and its date, or without a date when the gateway gave none:
\* no mixture of two answers is ever stored.
RecordedPayoutsHappened ==
    \A p \in Payments : payment[p].settlement = "settled" =>
       /\ p \in members[payment[p].id]
       /\ \/ <<payment[p].id, payment[p].at>> \in payouts
          \/ <<payment[p].id, 0>> \in payouts

\* The order screens and the fulfilment gate read merchant_ledger, the payout
\* report reads payments: whatever was applied, lost or applied again, both
\* say the same, and the seller's balance status follows.
LedgerAgrees ==
    \A p \in Payments :
       /\ entry[p].settlement = payment[p].settlement
       /\ entry[p].id = payment[p].id
       /\ (entry[p].status = "absent") = (payment[p].status = "processing")
       /\ (entry[p].status = "paid") = (payment[p].settlement = "settled")
       /\ (entry[p].status = "reversed") = (payment[p].settlement = "reversed")

\* A recorded reversal is replaced only by a payout made after it.
NewerPayout(p) ==
    payment[p].settlement = "reversed" /\ payment'[p].settlement = "settled"
      => payment'[p].when > payment[p].when

\* "A stale successful replay cannot erase a reversal"
\* (docs/SELLER_SETTLEMENTS.md:99): true while every lease outlives its worker.
\* A worker whose lease lapsed may apply a payout it read before the reversal.
ReversalsStick == [][~lapsed => \A p \in Payments : NewerPayout(p)]_vars

PaidNow(p, b) ==
    /\ payment[p].status = "succeeded"
    /\ p \in members[b] /\ gateway[b].word = "successful" /\ gateway[b].at # 0

Recorded(p, b) == payment[p].settlement = "settled" /\ payment[p].id = b

\* The reversal on record has no date, or one the payout does not beat.
Deaf(p, b) ==
    /\ payment[p].settlement = "reversed"
    /\ payment[p].at = 0 \/ payment[p].at >= gateway[b].at

\* A dated payout is eventually recorded, through failed requests, crashes,
\* lapsed leases and scans cut short after MaxRequests requests, unless the
\* gateway takes it back or the payment turned deaf.
PayoutsSeen ==
    \A p \in Payments, b \in Settlements :
       PaidNow(p, b) ~> (Recorded(p, b) \/ ~PaidNow(p, b) \/ Deaf(p, b))

\* What is on record about payouts happened, in both tables.
RecordsTrue == RecordedPayoutsHappened /\ LedgerAgrees

\* What is on record is not undone by an older answer.
RecordsStick == PayoutsStick /\ ReversalsStick
=============================================================================
