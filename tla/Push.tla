--------------------------------- MODULE Push ---------------------------------
(***************************************************************************)
(* Notifications and the two queues that carry them to devices: phones     *)
(* through Expo (one request for many phones, a receipt later) and browsers *)
(* through web push (one request each).                                    *)
(*                                                                         *)
(* A notification is written in a transaction whose triggers queue one job *)
(* for every device of its user.  Registering a phone queues the unread    *)
(* notifications again, and so does every pass of the worker: a            *)
(* notification written while the phone registers is seen by neither       *)
(* transaction.  A pass claims what is due, sends it and saves the answers *)
(* one by one; a claim that is not settled in five minutes lapses.         *)
(*                                                                         *)
(* Abstractions.  Texts, sounds and channels are left out.  A notification *)
(* is open while it is unread and younger than the two days (one day for a *)
(* registration) in which it is queued again.  Due times and lapses may be *)
(* reached at any moment.  Jobs rejected by an older release (the error    *)
(* "expo push HTTP 400" without a code) do not occur.  The 100 newest open *)
(* notifications and 100 due jobs of a pass are all there are.             *)
(*                                                                         *)
(* A definition introduced by "Slip:" is an operation with one plausible   *)
(* mistake; no behaviour of PushSpec uses it.                              *)
(***************************************************************************)
EXTENDS Integers, FiniteSets, Sequences, SequencesExt

CONSTANTS
    Users, Phones, Browsers,
    Households,   \* the cases: who may log in on which device, and how many passes of
                  \* the push workers run at once
    NoUser,       \* of a device or notification that does not exist
    Bad,          \* phones whose token Expo refuses, and the whole request with it
    Odd,          \* phones of another Expo project that did not say so
    MaxNotes,     \* bound on the notifications
    MaxAttempts,  \* maxPushAttempts (6 in the code)
    ReceiptBatch, \* pushBatchLimit of a receipt pass (100 in the code)
    MaxLost,      \* bound on the waiting tickets that never get a receipt
    MaxFaults     \* bound on stopped passes and lapsed claims

ASSUME PushAssumption ==
    /\ NoUser \notin Users
    /\ Households \subseteq [users : [Phones \cup Browsers -> SUBSET Users], passes : Nat]
    /\ IsFiniteSet(Phones) /\ IsFiniteSet(Browsers)
    /\ Bad \subseteq Phones /\ Odd \subseteq Phones /\ Phones \cap Browsers = {}
    /\ MaxNotes \in Nat /\ MaxAttempts \in Nat \ {0} /\ ReceiptBatch \in Nat \ {0}
    /\ MaxLost \in Nat /\ MaxFaults \in Nat

Devices == Phones \cup Browsers
Notes == 1 .. MaxNotes
Jobs == Notes \X Devices
PhoneJobs == Notes \X Phones

VARIABLES
    device,      \* user_push_tokens and web_push_subscriptions
    note,        \* notifications
    job,         \* notification_push_deliveries and web_push_deliveries
    writing,     \* a transaction that writes a notification, not yet committed
    worker,      \* passes of the push workers
    tickets,     \* phone jobs with an unchecked ticket, oldest first, and whether
                 \* Expo will ever have a receipt for it
    receipts,    \* receipts that one pass has fetched and not yet saved
    credit,      \* history: sends that had a reason, minus sends, per job
    faults       \* history: stopped passes and lapsed claims

Workers == DOMAIN worker  \* numbered, the lowest free one is next

pushVars == <<device, note, job, writing, worker, tickets, receipts,
          credit, faults>>

NoJob == [st |-> "none", tries |-> 0, checked |-> FALSE]
Queued == [st |-> "pending", tries |-> 0, checked |-> FALSE]
None == [user |-> NoUser, at |-> 0, rows |-> {}]
Idle == [plan |-> <<>>, known |-> [j \in {} |-> 0], save |-> <<>>]

PushInit ==
    /\ \E home \in Households :
         /\ device = [d \in Devices |->
                        [user |-> NoUser, enabled |-> FALSE, users |-> home.users[d]]]
         /\ worker = [w \in 1 .. home.passes |-> Idle]
    /\ note = [n \in Notes |-> [user |-> NoUser, open |-> FALSE]]
    /\ job = [j \in Jobs |-> NoJob]
    /\ writing = None
    /\ tickets = <<>> /\ receipts = {}
    /\ credit = [j \in Jobs |-> 1]
    /\ faults = 0

\* INSERT ... ON CONFLICT DO NOTHING.
Enqueue(rows) == [j \in Jobs |-> IF j \in rows /\ job[j].st = "none" THEN Queued ELSE job[j]]

DevicesOf(u) == {d \in Devices : device[d].user = u /\ device[d].enabled}
Set(j, st) == [job EXCEPT ![j].st = st]

-----------------------------------------------------------------------------
(* Notifications *)

\* The triggers read the devices of the user in the transaction of the writer.
\* A test notification is born read and queued for one device only.
WriteNotification(n, u) ==
    /\ writing = None
    /\ \A m \in Notes : note[m].user = NoUser <=> m >= n
    /\ writing' = [user |-> u, at |-> n, rows |-> {n} \X DevicesOf(u)]
    /\ UNCHANGED <<device, note, job, worker, tickets, receipts,
                   credit, faults>>

CommitNotification ==
    /\ writing # None
    /\ note' = [note EXCEPT ![writing.at] = [user |-> writing.user, open |-> TRUE]]
    /\ job' = Enqueue(writing.rows)
    /\ writing' = None
    /\ UNCHANGED <<device, worker, tickets, receipts, credit, faults>>

\* The test of a device is born read and queued for it alone.
Test(n, d) ==
    /\ writing = None
    /\ \A m \in Notes : note[m].user = NoUser <=> m >= n
    /\ device[d].enabled
    /\ note' = [note EXCEPT ![n] = [user |-> device[d].user, open |-> FALSE]]
    /\ job' = Enqueue({<<n, d>>})
    /\ UNCHANGED <<device, writing, worker, tickets, receipts,
                   credit, faults>>

\* TestPush locks the device and needs its owner; half a minute apart at least.
TestPush(n, d) == d \in Phones /\ Test(n, d)

\* Test of a browser; repeated within half a minute it answers with the last one.
TestBrowser(n, d) == d \in Browsers /\ Test(n, d)

\* MarkRead, MarkAllRead, or the window of two days is over.
CloseNotification(n) ==
    /\ note[n].open
    /\ note' = [note EXCEPT ![n].open = FALSE]
    /\ UNCHANGED <<device, job, writing, worker, tickets, receipts,
                   credit, faults>>

-----------------------------------------------------------------------------
(* Devices *)

SignIn(u, d) ==
    /\ u \in device[d].users
    /\ device' = [device EXCEPT ![d].user = u, ![d].enabled = TRUE]
    /\ UNCHANGED <<note, writing, worker, tickets, receipts, credit, faults>>

\* RegisterPushToken queues the open notifications of the user.
RegisterPhone(u, d) ==
    /\ d \in Phones /\ SignIn(u, d)
    /\ job' = Enqueue({n \in Notes : note[n] = [user |-> u, open |-> TRUE]} \X {d})

\* A browser that changes hands loses what was queued for its last user.
RegisterBrowser(u, d) ==
    /\ d \in Browsers /\ SignIn(u, d)
    /\ job' = [j \in Jobs |-> IF j[2] = d /\ device[d].user # u THEN NoJob ELSE job[j]]

SignOut(d) ==
    /\ device[d].enabled
    /\ device' = [device EXCEPT ![d].enabled = FALSE]
    /\ UNCHANGED <<note, writing, worker, tickets, receipts, credit, faults>>

\* What is queued for a device is not sent any more.
CancelQueue(d) ==
    job' = [j \in Jobs |-> IF j[2] = d /\ job[j].st \in {"pending", "retry"}
                           THEN [job[j] EXCEPT !.st = "cancelled"] ELSE job[j]]

\* Slip: what is queued for a phone is cancelled as well (PushTypeOK).
UnregisterCancelling(d) == d \in Phones /\ SignOut(d) /\ CancelQueue(d)

\* UnregisterPushToken leaves the queue; nothing of it is claimed meanwhile.
UnregisterPhone(d) == d \in Phones /\ SignOut(d) /\ UNCHANGED job

UnregisterBrowser(d) == d \in Browsers /\ SignOut(d) /\ CancelQueue(d)

-----------------------------------------------------------------------------
(* A pass of a worker *)

\* A pass that still has to send it, or to save its answer.
Holds(w, j) ==
    \/ \E i \in 1 .. Len(worker[w].plan) : j \in ToSet(worker[w].plan[i])
    \/ \E a \in ToSet(worker[w].save) : a[1] = j

\* Five minutes pass; the worker has stopped or is still at it.
Lapse(j) ==
    /\ job[j].st = "sending"
    /\ job' = Set(j, "retry")
    /\ IF \E w \in Workers : Holds(w, j)
       THEN faults < MaxFaults /\ faults' = faults + 1
       ELSE UNCHANGED faults
    /\ credit' = [credit EXCEPT ![j] = @ + 1]
    /\ UNCHANGED <<device, note, writing, worker, tickets, receipts>>

\* What neither transaction saw is queued by the pass; browsers have no such step.
Materialize ==
    LET rows == {j \in PhoneJobs : note[j[1]].open /\ j[2] \in DevicesOf(note[j[1]].user)} IN
    /\ \E j \in rows : job[j].st = "none"
    /\ job' = Enqueue(rows)
    /\ UNCHANGED <<device, note, writing, worker, tickets, receipts,
                   credit, faults>>

\* A web push is not sent after 24 hours.
Expire(j) ==
    /\ j[2] \in Browsers /\ job[j].st \in {"pending", "retry", "sending"}
    /\ ~note[j[1]].open
    /\ job' = Set(j, "expired")
    /\ UNCHANGED <<device, note, writing, worker, tickets, receipts,
                   credit, faults>>

\* Slip: a job that another pass holds is claimed too (CopiesBounded).
DueOrHeld(j) == job[j].st \in {"pending", "retry", "sending"} /\ device[j[2]].enabled

Due(j) == job[j].st \in {"pending", "retry"} /\ device[j[2]].enabled

\* SKIP LOCKED in a transaction that ends before anything is sent.
Take(w, js, plan) ==
    /\ worker[w] = Idle /\ \A v \in 1 .. w - 1 : worker[v] # Idle
    /\ job' = [j \in Jobs |-> IF j \in js THEN [job[j] EXCEPT !.st = "sending", !.tries = @ + 1]
                              ELSE job[j]]
    /\ worker' = [worker EXCEPT ![w] = [plan |-> plan, known |-> [j \in js |-> job[j].tries],
                                        save |-> <<>>]]
    /\ UNCHANGED <<device, note, writing, tickets, receipts,
                   credit, faults>>

\* All due phones in one request, the project of none of them being known.
ClaimPhones(w) ==
    LET js == {j \in PhoneJobs : Due(j)} IN js # {} /\ Take(w, js, <<SetToSeq(js)>>)

\* Browsers are sent to one by one, several at a time.
ClaimBrowsers(w) ==
    LET js == {j \in Jobs \ PhoneJobs : Due(j)} IN
    js # {} /\ \E order \in SetToSeqs({<<j>> : j \in js}) : Take(w, js, order)

\* A pass with nothing left to send or to save is over; the attempts of what it
\* saved are forgotten.
Goto(w, rest, answers) ==
    LET left == (UNION {ToSet(rest[i]) : i \in DOMAIN rest}) \cup {a[1] : a \in ToSet(answers)} IN
    worker' = [worker EXCEPT ![w] = [plan |-> rest, save |-> answers,
                                     known |-> Restrict(worker[w].known, left)]]

\* Expo answers 400 to a request with a malformed token or tokens of two projects.
Refused(js) ==
    LET ps == {j[2] : j \in js} IN ps \cap Bad # {} \/ (ps \cap Odd # {} /\ ~(ps \subseteq Odd))

Sending(w) == worker[w].save = <<>> /\ worker[w].plan # <<>>
Request(w) == ToSet(Head(worker[w].plan))
Rest(w) == Tail(worker[w].plan)

\* The same answer for every job of the request.
ForAll(w, answer) ==
    [i \in DOMAIN Head(worker[w].plan) |-> <<Head(worker[w].plan)[i], answer>>]

\* HTTP 400 only: the halves are sent one after the other, a single phone fails.
Split(w) ==
    LET js == Head(worker[w].plan)
        middle == Len(js) \div 2 IN
    /\ Sending(w) /\ Request(w) \subseteq PhoneJobs
    /\ Refused(Request(w))
    /\ IF Len(js) = 1 THEN Goto(w, Rest(w), ForAll(w, "refused"))
       ELSE Goto(w, <<SubSeq(js, 1, middle), SubSeq(js, middle + 1, Len(js))>> \o Rest(w), <<>>)
    /\ UNCHANGED <<device, note, job, writing, tickets, receipts,
                   credit, faults>>

\* Any other status of the whole request (401, 403, 404, 413, a redirect): no half
\* is tried, every phone of it fails at once.  A browser's push service that says
\* so (but for 404 and 410), or a subscription whose keys do not fit: its job fails
\* at once and it stays registered.
Reject(w) ==
    /\ Sending(w)
    /\ Goto(w, Rest(w), ForAll(w, "rejected"))
    /\ UNCHANGED <<device, note, job, writing, tickets, receipts,
                   credit, faults>>

\* 429, 5xx, no answer or one that cannot be read: all are to be tried again,
\* also what was accepted before the answer was lost.
Fail(w) ==
    /\ Sending(w)
    /\ Goto(w, Rest(w), ForAll(w, "retry"))
    /\ UNCHANGED <<device, note, job, writing, tickets, receipts,
                   credit, faults>>

\* Expo answers 200 and for every phone of the request, a browser's push service for
\* one: sent, no longer registered, or refused for now.
Accept(w) ==
    LET js == Request(w)
        order == Head(worker[w].plan) IN
    /\ Sending(w) /\ ~Refused(js)
    /\ \E answer \in [js -> {"sent", "gone", "retry"}] :
         /\ Goto(w, Rest(w), [i \in DOMAIN order |-> <<order[i], answer[order[i]]>>])
         /\ credit' = [j \in Jobs |-> IF j \in js /\ answer[j] = "sent" THEN credit[j] - 1
                                      ELSE credit[j]]
    /\ UNCHANGED <<device, note, job, writing, tickets, receipts, faults>>

Disable(d) == device' = [device EXCEPT ![d].enabled = FALSE]

\* The answers are saved in the order of the request.
Saves(w, a) == worker[w].save # <<>> /\ Head(worker[w].save) = a
Saved(w) == Goto(w, worker[w].plan, Tail(worker[w].save))

\* A ticket counts while its job is sent and unchecked; a job has one at most.
Tickets(j) == {i \in DOMAIN tickets : tickets[i].job = j}
OtherTickets(j) ==
    IF Tickets(j) = {} THEN tickets ELSE RemoveAt(tickets, CHOOSE i \in Tickets(j) : TRUE)
Lost(ts) == {k \in ToSet(ts) : ~k.answered}

SaveSent(w, j) ==
    /\ Saves(w, <<j, "sent">>) /\ Saved(w)
    /\ job' = IF job[j].st = "none" THEN job ELSE Set(j, "sent")
    /\ IF j \in PhoneJobs /\ ~job[j].checked
       THEN \E answered \in BOOLEAN :
              /\ tickets' = Append(OtherTickets(j), [job |-> j, answered |-> answered])
              /\ Cardinality(Lost(tickets')) <= MaxLost
       ELSE UNCHANGED tickets
    /\ UNCHANGED <<device, note, writing, receipts, credit, faults>>

\* A phone that is gone: one transaction.  A browser: its job first, then itself.
SaveGone(w, j) ==
    /\ Saves(w, <<j, "gone">>)
    /\ IF j \in PhoneJobs
       THEN Disable(j[2]) /\ Saved(w) /\ job' = Set(j, "disabled")
       ELSE /\ Goto(w, worker[w].plan, <<<<j, "disable">>>> \o Tail(worker[w].save))
            /\ job' = IF job[j].st = "none" THEN job ELSE Set(j, "failed")
            /\ UNCHANGED device
    /\ tickets' = OtherTickets(j)
    /\ UNCHANGED <<note, writing, receipts, credit, faults>>

SaveDisable(w, j) ==
    /\ Saves(w, <<j, "disable">>)
    /\ Disable(j[2]) /\ Saved(w)
    /\ UNCHANGED <<note, job, writing, tickets, receipts, credit, faults>>

\* To be tried again until the attempts that this pass remembers are used up; a
\* refused phone and a rejected request are not tried again.  Both are 'failed' in
\* the table; "rejected" is the one whose last_error names a status other than 400.
Verdict(w, j, a) ==
    CASE a = "rejected" -> "rejected"
      [] a = "retry" /\ worker[w].known[j] + 1 < MaxAttempts -> "retry"
      [] OTHER -> "failed"

SaveFailure(w, j) ==
    \E a \in {"retry", "refused", "rejected"} :
      /\ Saves(w, <<j, a>>) /\ Saved(w)
      /\ job' = IF job[j].st = "none" THEN job ELSE Set(j, Verdict(w, j, a))
      /\ tickets' = OtherTickets(j)
      /\ UNCHANGED <<device, note, writing, receipts, credit, faults>>

\* A statement fails or the process stops: what is left is not sent, not saved.
Die(w) ==
    /\ worker[w] # Idle /\ faults < MaxFaults
    /\ worker' = [worker EXCEPT ![w] = Idle]
    /\ faults' = faults + 1
    /\ UNCHANGED <<device, note, job, writing, tickets, receipts, credit>>

-----------------------------------------------------------------------------
(* A pass over the receipts *)

Oldest == ToSet(SubSeq(tickets, 1, IF Len(tickets) < ReceiptBatch THEN Len(tickets) ELSE ReceiptBatch))

\* Slip: the pass ends at the first ticket without a receipt (PushesSettle).
FetchToTheFirstMissing ==
    /\ receipts = {} /\ tickets # <<>> /\ Head(tickets).answered
    /\ \E a \in {"ok", "gone", "error"} : receipts' = {<<Head(tickets).job, a>>}
    /\ UNCHANGED <<device, note, job, writing, worker, tickets, credit, faults>>

\* Expo has a receipt for some of the tickets that were asked for.
FetchReceipts ==
    /\ receipts = {}
    /\ \E js \in (SUBSET {k.job : k \in Oldest \ Lost(tickets)}) \ {{}} :
         \E answer \in [js -> {"ok", "gone", "error"}] :
           receipts' = {<<j, answer[j]>> : j \in js}
    /\ UNCHANGED <<device, note, job, writing, worker, tickets, credit, faults>>

\* The row is named by its notification and phone, not by the ticket.
SaveReceipt(j) ==
    \E a \in {"ok", "gone", "error"} :
      /\ <<j, a>> \in receipts
      /\ receipts' = receipts \ {<<j, a>>}
      /\ IF a = "gone"
         THEN Disable(j[2]) /\ job' = Set(j, "disabled")
         ELSE /\ job' = [job EXCEPT ![j].st = IF a = "ok" THEN "delivered" ELSE "failed",
                                    ![j].checked = TRUE]
              /\ UNCHANGED device
      /\ tickets' = OtherTickets(j)
      /\ UNCHANGED <<note, writing, worker, credit, faults>>

DropReceipts ==
    /\ receipts # {} /\ faults < MaxFaults
    /\ receipts' = {} /\ faults' = faults + 1
    /\ UNCHANGED <<device, note, job, writing, worker, tickets, credit>>

-----------------------------------------------------------------------------
Save(w) == \E j \in Jobs : SaveSent(w, j) \/ SaveGone(w, j) \/ SaveDisable(w, j) \/ SaveFailure(w, j)
Pass(w) == Split(w) \/ Reject(w) \/ Fail(w) \/ Accept(w) \/ Save(w)

PushNext ==
    \/ \E n \in Notes :
         \/ \E u \in Users : WriteNotification(n, u)
         \/ \E d \in Devices : TestPush(n, d) \/ TestBrowser(n, d)
         \/ CloseNotification(n)
    \/ CommitNotification \/ Materialize
    \/ \E d \in Devices :
         \/ UnregisterPhone(d) \/ UnregisterBrowser(d)
         \/ \E u \in Users : RegisterPhone(u, d) \/ RegisterBrowser(u, d)
    \/ \E j \in Jobs : Lapse(j) \/ Expire(j) \/ SaveReceipt(j)
    \/ \E w \in Workers : ClaimPhones(w) \/ ClaimBrowsers(w) \/ Pass(w) \/ Die(w)
    \/ FetchReceipts \/ DropReceipts

PushSpec == PushInit /\ [][PushNext]_pushVars

\* Transactions end, passes go on or stop, and the loops start the next pass every
\* few seconds; a claim lapses when nobody settles it.
FairPushSpec ==
    /\ PushSpec
    /\ WF_pushVars(CommitNotification)
    /\ WF_pushVars(\E w \in Workers : Pass(w))
    /\ SF_pushVars(\/ Materialize
               \/ \E w \in Workers : ClaimPhones(w) \/ ClaimBrowsers(w)
               \/ \E j \in Jobs : Lapse(j) /\ UNCHANGED faults)
    /\ SF_pushVars(FetchReceipts) /\ WF_pushVars(\E j \in Jobs : SaveReceipt(j))
-----------------------------------------------------------------------------
PushTypeOK ==
    /\ device \in [Devices -> [user : Users \cup {NoUser}, enabled : BOOLEAN,
                             users : SUBSET Users]]
    /\ note \in [Notes -> [user : Users \cup {NoUser}, open : BOOLEAN]]
    /\ \A j \in Jobs : job[j] \in
         [st : {"none", "pending", "sending", "sent", "delivered", "retry", "failed",
                "rejected", "disabled", "expired", "cancelled"},
          tries : Nat, checked : BOOLEAN]
    /\ \A j \in PhoneJobs : job[j].st \notin {"expired", "cancelled"}
    /\ \A j \in Jobs \ PhoneJobs : job[j].st \notin {"delivered", "disabled"}
    /\ ToSet(tickets) \subseteq [job : PhoneJobs, answered : BOOLEAN]
    /\ \A a \in receipts : a[1] \in PhoneJobs
    /\ faults \in 0 .. MaxFaults

\* No device gets a notification twice unless a claim lapsed in between: every
\* send spends the one send a job has, or one that a lapse gave it (the claims of
\* several replicas, the saves of a pass that lost its claim).  A send whose answer
\* is lost (Fail) counts as none: it is tried again whatever became of it.
CopiesBounded == \A j \in Jobs : credit[j] >= 0

\* A phone whose token Expo accepts is given up only after MaxAttempts claims, on
\* the word of a receipt or because its whole request was answered with a status
\* other than 400: who else was in a request answered 400 costs it nothing (the
\* split in sendPushDeliveries; Reject has none, so a "rejected" phone may be one
\* whose token is fine).
BadNeighboursHarmless ==
    \A j \in PhoneJobs :
      (job[j].st = "failed" /\ ~job[j].checked /\ j[2] \notin Bad) => job[j].tries >= MaxAttempts

\* Queued for a device that is registered; an open notification that is not even
\* queued for a phone of its user; a push whose receipt was not read.
Unsettled(j) ==
    \/ job[j].st \in {"pending", "retry", "sending"} /\ device[j[2]].enabled
    \/ j \in PhoneJobs /\ note[j[1]].open /\ j[2] \in DevicesOf(note[j[1]].user)
       /\ job[j].st = "none"
    \/ [job |-> j, answered |-> TRUE] \in ToSet(tickets)

\* What is queued for a registered device is sent or given up, an open
\* notification reaches every phone of its user however the two transactions
\* met, and the receipt of a push is read in the end: as long as fewer tickets
\* than a batch never get one (Materialize, the lapse of claims, FetchReceipts).
PushesSettle == \A j \in Jobs : Unsettled(j) ~> ~Unsettled(j)

\* One copy for every device, and a phone that works is not given up for another one
\* whose token makes Expo answer 400.
PushRules == CopiesBounded /\ BadNeighboursHarmless
=============================================================================
