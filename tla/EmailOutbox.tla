----------------------------- MODULE EmailOutbox -----------------------------
(***************************************************************************)
(* The durable email queue: rows of email_outbox, the worker replicas that *)
(* claim and deliver them (RunEmailDeliveryBatch), and the SES feedback    *)
(* webhook that puts recipients on the suppression list.                   *)
(*                                                                         *)
(* A claim is a lease of five minutes.  The final UPDATE of a delivery     *)
(* names the row by id only, so a worker whose lease lapsed still          *)
(* overwrites what its successor wrote: the model keeps every such stale   *)
(* job alive.  SMTP may accept a message and lose the answer.              *)
(*                                                                         *)
(* Abstractions.  Clock readings are two booleans of a row: due            *)
(* (next_attempt_at <= now) and lapsed (locked_at over five minutes old).  *)
(* Every mail has a recipient of its own.  copies, lapses and lost are     *)
(* history: the program does not store them.                               *)
(*                                                                         *)
(* A definition introduced by "Slip:" is an operation with one plausible   *)
(* mistake; no behaviour of MailSpec uses it, it shows that the property named *)
(* beside it would notice.                                                 *)
(***************************************************************************)
EXTENDS Integers, FiniteSets

CONSTANTS
    Mails,        \* dedupe keys
    Workers,     \* worker processes
    MaxAttempts,  \* maxEmailAttempts (code: 6)
    BatchLimit,   \* emailBatchLimit (code: 25)
    MaxFaults     \* bound on crashes, failed statements, lost SMTP answers
                  \* and leases that lapse under a live worker

ASSUME LimitsAssumption ==
    /\ MaxAttempts \in Nat \ {0}
    /\ BatchLimit \in Nat \ {0}
    /\ MaxFaults \in Nat

VARIABLES
    row,         \* email_outbox by dedupe key
    suppressed,  \* recipients on email_suppressions, named by their mail
    moved,       \* mails whose account has another address by now
    stage,       \* next statement of the pass of each replica
    jobs,        \* claimed deliveries each replica still works on
    copies,      \* copies the SMTP server accepted
    lapses,      \* times the lease of a mail was recovered
    lost,        \* accepted copies whose answer was lost
    faults

mailVars == <<row, suppressed, moved, stage, jobs, copies, lapses, lost, faults>>
history == <<copies, lapses, lost>>

Waiting == {"pending", "retry"}
Settled == {"sent", "suppressed", "failed"}

NoMail == [status |-> "absent", attempts |-> 0, due |-> FALSE, lapsed |-> FALSE]

\* dirty: the recipient was on the suppression list when the mail was claimed
\* (history).
Job == [mail : Mails, attempt : Nat, dirty : BOOLEAN,
        step : {"owner", "check", "send", "sent", "retry", "fail", "suppress"}]

MailInit ==
    /\ row = [m \in Mails |-> NoMail]
    /\ suppressed = {}
    /\ moved = {}
    /\ stage = [r \in Workers |-> "recover"]
    /\ jobs = [r \in Workers |-> {}]
    /\ copies = [m \in Mails |-> 0]
    /\ lapses = [m \in Mails |-> 0]
    /\ lost = [m \in Mails |-> 0]
    /\ faults = 0

Fault == faults < MaxFaults /\ faults' = faults + 1

\* Some replica still works on m.
Alive(m) == \E r \in Workers : \E j \in jobs[r] : j.mail = m

-----------------------------------------------------------------------------
\* queueUserEmail: one INSERT ... ON CONFLICT (dedupe_key) DO NOTHING.
Queue(m) ==
    /\ row[m] = NoMail
    /\ row' = [row EXCEPT ![m] =
                 [NoMail EXCEPT !.status = IF m \in suppressed THEN "suppressed" ELSE "pending",
                                !.due = TRUE]]
    /\ UNCHANGED <<suppressed, moved, stage, jobs, history, faults>>

\* processNotification: a permanent bounce or a complaint, in one transaction.
\* Mails that are being sent keep their status.
Complain(m) ==
    /\ m \notin suppressed
    /\ suppressed' = suppressed \cup {m}
    /\ row' = [row EXCEPT ![m].status = IF @ \in Waiting THEN "suppressed" ELSE @]
    /\ UNCHANGED <<moved, stage, jobs, history, faults>>

\* The account behind m takes another address.
ChangeAddress(m) ==
    /\ m \notin moved
    /\ moved' = moved \cup {m}
    /\ UNCHANGED <<row, suppressed, stage, jobs, history, faults>>

\* The backoff of a retry is over.
BecomeDue(m) ==
    /\ row[m].status \in Waiting /\ ~row[m].due
    /\ row' = [row EXCEPT ![m].due = TRUE]
    /\ UNCHANGED <<suppressed, moved, stage, jobs, history, faults>>

\* Five minutes have passed since the claim.
Lapse(m) ==
    /\ row[m].status = "sending" /\ ~row[m].lapsed
    /\ IF Alive(m) THEN Fault ELSE UNCHANGED faults
    /\ row' = [row EXCEPT ![m].lapsed = TRUE]
    /\ UNCHANGED <<suppressed, moved, stage, jobs, history>>

-----------------------------------------------------------------------------
\* Slip: leases of dead workers are left alone (MailsSettle).
RecoverNothing(r) ==
    /\ stage[r] = "recover" /\ jobs[r] = {}
    /\ stage' = [stage EXCEPT ![r] = "sweep"]
    /\ UNCHANGED <<row, suppressed, moved, jobs, history, faults>>

\* RunEmailDeliveryBatch, first statement: lapsed leases go back to the queue.
Recover(r) ==
    /\ stage[r] = "recover" /\ jobs[r] = {}
    /\ LET stale == {m \in Mails : row[m].status = "sending" /\ row[m].lapsed} IN
         /\ row' = [m \in Mails |-> IF m \in stale
                      THEN [row[m] EXCEPT !.status = "retry", !.due = TRUE, !.lapsed = FALSE]
                      ELSE row[m]]
         /\ lapses' = [m \in Mails |-> IF m \in stale THEN lapses[m] + 1 ELSE lapses[m]]
    /\ stage' = [stage EXCEPT ![r] = "sweep"]
    /\ UNCHANGED <<suppressed, moved, jobs, copies, lost, faults>>

\* Second statement: waiting mails of suppressed recipients are settled.
Sweep(r) ==
    /\ stage[r] = "sweep"
    /\ row' = [m \in Mails |-> IF m \in suppressed /\ row[m].status \in Waiting
                 THEN [row[m] EXCEPT !.status = "suppressed"] ELSE row[m]]
    /\ stage' = [stage EXCEPT ![r] = "claim"]
    /\ UNCHANGED <<suppressed, moved, jobs, history, faults>>

Claimable == {m \in Mails : row[m].status \in Waiting /\ row[m].due}

\* The claiming transaction: a batch of due mails is leased and counted as an
\* attempt.  The batch is full unless fewer mails are due.
Claim(r) ==
    /\ stage[r] = "claim"
    /\ \E batch \in SUBSET Claimable :
         /\ Cardinality(batch) <= BatchLimit
         /\ Cardinality(batch) = BatchLimit \/ batch = Claimable
         /\ row' = [m \in Mails |-> IF m \in batch
                      THEN [row[m] EXCEPT !.status = "sending", !.attempts = @ + 1,
                                          !.lapsed = FALSE]
                      ELSE row[m]]
         /\ jobs' = [jobs EXCEPT ![r] =
                       {[mail |-> m, attempt |-> row[m].attempts + 1, step |-> "owner",
                         dirty |-> m \in suppressed] : m \in batch}]
    /\ stage' = [stage EXCEPT ![r] = "recover"]
    /\ UNCHANGED <<suppressed, moved, history, faults>>

-----------------------------------------------------------------------------
Advance(r, j, step) ==
    jobs' = [jobs EXCEPT ![r] = (@ \ {j}) \cup {[j EXCEPT !.step = step]}]
Drop(r, j) == jobs' = [jobs EXCEPT ![r] = @ \ {j}]

\* deliverEmail, the owner lookup.  An error of the lookup is taken for a
\* missing owner.
CheckOwner(r, j) ==
    /\ j.step = "owner"
    /\ \/ /\ Advance(r, j, IF j.mail \in moved THEN "fail" ELSE "check")
          /\ UNCHANGED faults
       \/ Fault /\ Advance(r, j, "fail")
    /\ UNCHANGED <<row, suppressed, moved, stage, history>>

\* Slip: the sweep is trusted, the recipient not looked up again
\* (NoMailToSuppressed).
CheckSuppressionNever(r, j) ==
    /\ j.step = "check"
    /\ Advance(r, j, "send")
    /\ UNCHANGED <<row, suppressed, moved, stage, history, faults>>

\* deliverEmail, the suppression lookup.
CheckSuppression(r, j) ==
    /\ j.step = "check"
    /\ \/ /\ Advance(r, j, IF j.mail \in suppressed THEN "suppress" ELSE "send")
          /\ UNCHANGED faults
       \/ Fault /\ Advance(r, j, "retry")
    /\ UNCHANGED <<row, suppressed, moved, stage, history>>

\* SendOutboxTemplate: accepted, refused, or accepted with the answer lost.
Send(r, j) ==
    /\ j.step = "send"
    /\ \/ /\ Advance(r, j, "sent")
          /\ copies' = [copies EXCEPT ![j.mail] = @ + 1]
          /\ UNCHANGED <<lost, faults>>
       \/ /\ Advance(r, j, "retry")
          /\ UNCHANGED <<copies, lost, faults>>
       \/ /\ Fault /\ Advance(r, j, "retry")
          /\ copies' = [copies EXCEPT ![j.mail] = @ + 1]
          /\ lost' = [lost EXCEPT ![j.mail] = @ + 1]
    /\ UNCHANGED <<row, suppressed, moved, stage, lapses>>

\* Slip: what happened is stored in the worker's words, which the table's
\* CHECK refuses (MailTypeOK).
FinalStepName(j) ==
    [row[j.mail] EXCEPT !.status = j.step, !.due = FALSE, !.lapsed = FALSE]

\* The row a finished job writes: failEmail, retryEmail, or deliverEmail's own
\* updates.  It is written whatever the row says by now.
Final(j) ==
    CASE j.step = "sent"     -> [row[j.mail] EXCEPT !.status = "sent", !.lapsed = FALSE]
      [] j.step = "suppress" -> [row[j.mail] EXCEPT !.status = "suppressed", !.lapsed = FALSE]
      [] j.step = "fail"     -> [row[j.mail] EXCEPT !.status = "failed", !.lapsed = FALSE]
      [] OTHER -> [row[j.mail] EXCEPT
                     !.status = IF j.attempt >= MaxAttempts THEN "failed" ELSE "retry",
                     !.due = FALSE, !.lapsed = FALSE]

\* The final update of a delivery; when it fails the row stays "sending".
Record(r, j) ==
    /\ j.step \in {"sent", "retry", "fail", "suppress"}
    /\ \/ row' = [row EXCEPT ![j.mail] = Final(j)] /\ UNCHANGED faults
       \/ Fault /\ UNCHANGED row
    /\ Drop(r, j)
    /\ UNCHANGED <<suppressed, moved, stage, history>>

\* The replica stops, or a statement of its pass fails: what it held is lost.
Crash(r) ==
    /\ Fault
    /\ stage' = [stage EXCEPT ![r] = "recover"]
    /\ jobs' = [jobs EXCEPT ![r] = {}]
    /\ UNCHANGED <<row, suppressed, moved, history>>

Deliver(r) ==
    \E j \in jobs[r] :
       CheckOwner(r, j) \/ CheckSuppression(r, j) \/ Send(r, j) \/ Record(r, j)

Pass(r) == Recover(r) \/ Sweep(r) \/ Claim(r)

MailNext ==
    \/ \E m \in Mails : \/ Queue(m) \/ Complain(m) \/ ChangeAddress(m)
                        \/ BecomeDue(m) \/ Lapse(m)
    \/ \E r \in Workers : Pass(r) \/ Deliver(r) \/ Crash(r)

MailSpec == MailInit /\ [][MailNext]_mailVars

\* Time passes, the worker's ticker fires every five seconds, and a goroutine
\* with a claimed mail runs on: its SMTP connection has a deadline.
FairMailSpec ==
    /\ MailSpec
    /\ \A m \in Mails : WF_mailVars(BecomeDue(m)) /\ WF_mailVars(Lapse(m))
    /\ \A r \in Workers : WF_mailVars(Pass(r)) /\ WF_mailVars(Deliver(r))
-----------------------------------------------------------------------------
MailTypeOK ==
    /\ row \in [Mails -> [status : Waiting \cup Settled \cup {"absent", "sending"},
                          attempts : Nat, due : BOOLEAN, lapsed : BOOLEAN]]
    /\ suppressed \subseteq Mails /\ moved \subseteq Mails
    /\ stage \in [Workers -> {"recover", "sweep", "claim"}]
    /\ jobs \in [Workers -> SUBSET Job]
    /\ copies \in [Mails -> Nat] /\ lapses \in [Mails -> Nat] /\ lost \in [Mails -> Nat]
    /\ faults \in 0 .. MaxFaults

\* A person gets a second copy of a mail only for a lease that lapsed or an
\* SMTP answer that was lost, one copy for each (deliverEmail's unconditional
\* updates let a stale worker put a sent mail back in the queue, but never
\* more often than that).
CopiesBounded ==
    \A m \in Mails : copies[m] <= 1 + lapses[m] + lost[m]

\* maxEmailAttempts bounds the attempts, although it is compared with the
\* number the worker remembers: each recovered lease can add one, no more.
AttemptsBounded ==
    \A m \in Mails : row[m].attempts <= MaxAttempts + lapses[m]

\* A mail claimed after its recipient complained is not sent, even when the
\* complaint landed between another worker's sweep and its claim.
NoMailToSuppressed ==
    \A r \in Workers : \A j \in jobs[r] : j.dirty => j.step \notin {"send", "sent"}

\* Every queued mail is eventually settled for good: sent, refused by the
\* suppression list, or failed, whatever crashes and lapses it lived through.
MailsSettle ==
    \A m \in Mails : row[m].status # "absent" ~> [](row[m].status \in Settled)

\* Copies and attempts are accounted for by faults, and no complaint is ignored.
MailRules == CopiesBounded /\ AttemptsBounded /\ NoMailToSuppressed
=============================================================================
