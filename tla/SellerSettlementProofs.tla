------------------------ MODULE SellerSettlementProofs ------------------------
(***************************************************************************)
(* Proofs about SellerSettlement, for any number of charges, settlements,  *)
(* workers, requests and faults.                                           *)
(*                                                                         *)
(* That a recorded payout happened cannot be shown from the tables alone:  *)
(* Apply writes what a worker read earlier, when the gateway may have said *)
(* something else.  Inv therefore says of every page in memory that it was *)
(* true once (PagesTrue), and of the gateway that it calls successful only *)
(* what it paid (GatewayTrue).                                             *)
(***************************************************************************)
EXTENDS SellerSettlement, TLAPS

GatewayRow == [word : Words \cup {"unknown"}, at : Stamps, when : Stamps]
PaymentRow == [status : {"processing", "succeeded"}, settlement : States,
               id : Settlements \cup {NoSettlement}, at : Stamps, when : Stamps]
EntryRow == [status : {"absent", "available", "paid", "reversed"}, settlement : States,
             id : Settlements \cup {NoSettlement}]
JobRow == [exists : BOOLEAN, lease : Workers \cup {NoWorker}, cursor : Cursor]
Memory == [step : {"idle", "ask", "apply"}, cursor : Cursor, left : 0 .. MaxRequests,
           page : SUBSET Page]

\* A scan stands only at settlements the gateway has listed.
At(cursor) == cursor.head = NoSettlement \/ gateway[cursor.head].word # "unknown"
HeadsOpened == At(job.cursor) /\ \A w \in Workers : At(worker[w].cursor)

\* What a worker read was true when it read it.
PagesTrue ==
    \A w \in Workers : \A page \in worker[w].page :
       /\ page.of \in members[page.id]
       /\ page.word = "successful" => <<page.id, page.at>> \in payouts

\* The gateway calls successful what it paid.
GatewayTrue ==
    \A b \in Settlements : gateway[b].word = "successful" => <<b, gateway[b].at>> \in payouts

Inv == /\ TypeOK
       /\ HeadsOpened
       /\ PagesTrue
       /\ GatewayTrue
       /\ LedgerAgrees
       /\ RecordedPayoutsHappened

-----------------------------------------------------------------------------
(* Answers of the gateway *)

\* Every word of the gateway has a state of its own.
LEMMA NormalizeStates ==
    ASSUME NEW word \in Words
    PROVE  /\ Normalize(word) \in States
           /\ Normalize(word) = "settled" <=> word = "successful"
           /\ Normalize(word) = "reversed" <=> word = "reversed"
BY WaitsAssumption DEF Words, States, Normalize

\* A payout or a reversal on record yields only to a payout or a reversal.
LEMMA AcceptedNews ==
    ASSUME NEW pay \in PaymentRow, NEW page \in Page, Acceptable(pay, page),
           pay.settlement \in {"settled", "reversed"}
    PROVE  Normalize(page.word) \in {"settled", "reversed"}
BY DEF Acceptable

\* The date stored with a payout is the one of the answer; without one it may
\* be the date on record or the present.
LEMMA StoredDate ==
    ASSUME NEW pay \in PaymentRow, NEW page \in Page, clock \in Stamps
    PROVE  /\ SettledAt(pay, page) \in Stamps
           /\ Normalize(page.word) = "settled" /\ page.at # 0 => SettledAt(pay, page) = page.at
BY DEF SettledAt, PaymentRow, Page

\* The ledger row after an accepted answer says what the payment says.
LEMMA RowFollows ==
    ASSUME NEW row \in EntryRow, NEW page \in Page,
           row.status # "absent",
           row.status \in {"paid", "reversed"} => Normalize(page.word) \in {"settled", "reversed"}
    PROVE  /\ LedgerRow(row, page) \in EntryRow
           /\ LedgerRow(row, page).settlement = Normalize(page.word)
           /\ LedgerRow(row, page).id = page.id
           /\ LedgerRow(row, page).status # "absent"
           /\ (LedgerRow(row, page).status = "paid") = (Normalize(page.word) = "settled")
           /\ (LedgerRow(row, page).status = "reversed") = (Normalize(page.word) = "reversed")
<1>1. page.word \in Words /\ page.id \in Settlements
  BY DEF Page
<1>2. Normalize(page.word) \in States
  BY <1>1, NormalizeStates
<1>3. CASE Normalize(page.word) = "reversed"
  BY <1>1, <1>2, <1>3 DEF LedgerRow, EntryRow
<1>4. CASE Normalize(page.word) = "settled"
  BY <1>1, <1>2, <1>4 DEF LedgerRow, EntryRow
<1>5. CASE Normalize(page.word) \notin {"settled", "reversed"}
  BY <1>1, <1>2, <1>5 DEF LedgerRow, EntryRow
<1>6. QED BY <1>3, <1>4, <1>5

-----------------------------------------------------------------------------
(* Leases and cursors *)

LEMMA StartCursor == Start \in Cursor /\ Start.head = NoSettlement
BY DEF Start, Cursor

LEMMA IdleMemory == Idle \in Memory /\ Idle.page = {} /\ Idle.cursor = Start
<1>1. 0 \in 0 .. MaxRequests
  BY BoundsAssumption
<1>2. QED BY <1>1, StartCursor DEF Idle, Memory

\* A request used up leaves a count of requests.
LEMMA CountDown == ASSUME NEW n \in 0 .. MaxRequests, n > 1 PROVE n - 1 \in 0 .. MaxRequests
BY BoundsAssumption

\* Whatever becomes of the lease, a step that saves a cursor leaves every
\* worker with a cursor it had, this one, or none, and with no new page.
LEMMA SaveKeeps ==
    ASSUME job \in JobRow, worker \in [Workers -> Memory],
           NEW w \in Workers, NEW cursor \in Cursor, Save(w, cursor)
    PROVE  /\ job' \in JobRow
           /\ job'.cursor \in {job.cursor, cursor}
           /\ worker' \in [Workers -> Memory]
           /\ \A v \in Workers : /\ worker'[v].page \subseteq worker[v].page
                                 /\ worker'[v].cursor \in {worker[v].cursor, cursor, Start}
<1>1. CASE GiveUp(w)
  BY <1>1, IdleMemory DEF GiveUp, JobRow, Memory
<1>2. CASE /\ worker[w].left > 1
           /\ job' = [job EXCEPT !.cursor = cursor]
           /\ worker' = [worker EXCEPT ![w] = [step |-> "ask", cursor |-> cursor,
                                               left |-> @.left - 1, page |-> {}]]
  <2>1. worker[w].left \in 0 .. MaxRequests
    BY DEF Memory
  <2>2. worker[w].left - 1 \in 0 .. MaxRequests
    BY <1>2, <2>1, CountDown
  <2>3. [step |-> "ask", cursor |-> cursor, left |-> worker[w].left - 1, page |-> {}] \in Memory
    BY <2>2 DEF Memory
  <2>4. QED BY <1>2, <2>3 DEF JobRow
<1>3. CASE /\ job' = [job EXCEPT !.cursor = cursor, !.lease = NoWorker]
           /\ worker' = [worker EXCEPT ![w] = Idle]
  BY <1>3, IdleMemory DEF JobRow
<1>4. QED BY <1>1, <1>2, <1>3 DEF Save

\* A step that leaves the gateway alone and gives no worker a new page keeps
\* what is known of the workers, if the cursors it leaves are sound.
LEMMA WorkersKept ==
    ASSUME HeadsOpened, PagesTrue, GatewayTrue,
           UNCHANGED <<members, gateway, payouts>>,
           At(job'.cursor),
           \A w \in Workers : /\ worker'[w].page \subseteq worker[w].page
                              /\ At(worker'[w].cursor)
    PROVE  HeadsOpened' /\ PagesTrue' /\ GatewayTrue'
<1>1. \A c : At(c)' <=> (c'.head = NoSettlement \/ gateway[c'.head].word # "unknown")
  BY DEF At
<1>2. HeadsOpened'
  BY <1>1 DEF HeadsOpened, At
<1>3. PagesTrue'
  BY DEF PagesTrue
<1>4. GatewayTrue'
  BY DEF GatewayTrue
<1>5. QED BY <1>2, <1>3, <1>4

\* The books agree as long as nobody writes them.
LEMMA BooksKept ==
    ASSUME LedgerAgrees, RecordedPayoutsHappened,
           UNCHANGED <<payment, entry, members>>, payouts \subseteq payouts'
    PROVE  LedgerAgrees' /\ RecordedPayoutsHappened'
BY DEF LedgerAgrees, RecordedPayoutsHappened

\* A step that saves a cursor and writes no book keeps the invariant.
LEMMA SaveStep ==
    ASSUME Inv, NEW w \in Workers, NEW cursor \in Cursor, At(cursor), Save(w, cursor),
           UNCHANGED <<clock, members, gateway, payment, entry, payouts, lapsed, faults>>
    PROVE  Inv'
<1>1. job \in JobRow /\ worker \in [Workers -> Memory]
  BY DEF Inv, TypeOK, JobRow, Memory
<1>2. /\ job' \in JobRow
      /\ job'.cursor \in {job.cursor, cursor}
      /\ worker' \in [Workers -> Memory]
      /\ \A v \in Workers : /\ worker'[v].page \subseteq worker[v].page
                            /\ worker'[v].cursor \in {worker[v].cursor, cursor, Start}
  BY <1>1, SaveKeeps
<1>3. TypeOK'
  BY <1>2 DEF Inv, TypeOK, JobRow, Memory, GatewayRow, PaymentRow, EntryRow
<1>4. At(Start)
  BY StartCursor DEF At
<1>5. At(job'.cursor) /\ \A v \in Workers : At(worker'[v].cursor)
  BY <1>2, <1>4 DEF Inv, HeadsOpened
<1>6. HeadsOpened' /\ PagesTrue' /\ GatewayTrue'
  BY <1>2, <1>5, WorkersKept DEF Inv
<1>7. LedgerAgrees' /\ RecordedPayoutsHappened'
  BY BooksKept DEF Inv
<1>8. QED BY <1>3, <1>6, <1>7 DEF Inv

\* So does a worker that gives up.
LEMMA GiveUpStep ==
    ASSUME Inv, NEW w \in Workers, GiveUp(w),
           UNCHANGED <<clock, members, gateway, payment, entry, payouts, lapsed>>,
           faults' \in 0 .. MaxFaults
    PROVE  Inv'
<1>1. /\ job' \in JobRow
      /\ job'.cursor = job.cursor
      /\ worker' \in [Workers -> Memory]
      /\ \A v \in Workers : /\ worker'[v].page \subseteq worker[v].page
                            /\ worker'[v].cursor \in {worker[v].cursor, Start}
  BY IdleMemory DEF Inv, TypeOK, GiveUp, JobRow, Memory
<1>2. TypeOK'
  BY <1>1 DEF Inv, TypeOK, JobRow, Memory
<1>3. At(job'.cursor) /\ \A v \in Workers : At(worker'[v].cursor)
  BY <1>1, StartCursor DEF Inv, HeadsOpened, At
<1>4. HeadsOpened' /\ PagesTrue' /\ GatewayTrue'
  BY <1>1, <1>3, WorkersKept DEF Inv
<1>5. LedgerAgrees' /\ RecordedPayoutsHappened'
  BY BooksKept DEF Inv
<1>6. QED BY <1>2, <1>4, <1>5 DEF Inv

-----------------------------------------------------------------------------
(* Outside the workers *)

LEMMA ChargeStep == ASSUME Inv, NEW p \in Payments, Charge(p) PROVE Inv'
<1>1. TypeOK'
  <2>1. payment \in [Payments -> PaymentRow] /\ entry \in [Payments -> EntryRow] /\ job \in JobRow
    BY DEF Inv, TypeOK, PaymentRow, EntryRow, JobRow
  <2>2. payment' \in [Payments -> PaymentRow]
    BY <2>1 DEF Charge, PaymentRow
  <2>3. entry' \in [Payments -> EntryRow]
    BY <2>1 DEF Charge, EntryRow
  <2>4. job' \in JobRow
    BY <2>1 DEF Charge, JobRow
  <2>5. QED BY <2>2, <2>3, <2>4 DEF Inv, TypeOK, Charge, PaymentRow, EntryRow, JobRow
<1>2. /\ \A q \in Payments : q # p => payment'[q] = payment[q] /\ entry'[q] = entry[q]
      /\ payment'[p] = [payment[p] EXCEPT !.status = "succeeded"]
      /\ entry'[p] = [entry[p] EXCEPT !.status = "available"]
      /\ payment[p].status = "processing"
  BY DEF Inv, TypeOK, Charge
<1>3. payment[p].settlement \notin {"settled", "reversed"}
  BY <1>2 DEF Inv, LedgerAgrees
<1>4. /\ payment'[p].status = "succeeded" /\ entry'[p].status = "available"
      /\ payment'[p].settlement = payment[p].settlement /\ payment'[p].id = payment[p].id
      /\ entry'[p].settlement = entry[p].settlement /\ entry'[p].id = entry[p].id
  BY <1>2 DEF Inv, TypeOK
<1>5. LedgerAgrees'
  <2>1. ASSUME NEW q \in Payments, q # p PROVE payment'[q] = payment[q] /\ entry'[q] = entry[q]
    BY <1>2, <2>1
  <2>2. entry[p].settlement = payment[p].settlement /\ entry[p].id = payment[p].id
    BY DEF Inv, LedgerAgrees
  <2>3. payment'[p].settlement \notin {"settled", "reversed"}
    BY <1>3, <1>4
  <2>4. QED BY <1>4, <2>1, <2>2, <2>3 DEF Inv, LedgerAgrees
<1>6. RecordedPayoutsHappened'
  BY <1>2, <1>3, <1>4 DEF Inv, RecordedPayoutsHappened, Charge
<1>7. HeadsOpened' /\ PagesTrue' /\ GatewayTrue'
  BY DEF Inv, Charge, TypeOK, HeadsOpened, At, PagesTrue, GatewayTrue
<1>8. QED BY <1>1, <1>5, <1>6, <1>7 DEF Inv

LEMMA AnnounceStep ==
    ASSUME Inv, NEW b \in Settlements, NEW word \in Waits, Announce(b, word) PROVE Inv'
<1>1. word # "successful" /\ word # "unknown" /\ word \in Words
  BY WaitsAssumption DEF Words
<1>2. gateway' = [gateway EXCEPT ![b].word = word]
      /\ UNCHANGED <<clock, members, payment, entry, job, worker, payouts, lapsed, faults>>
  BY DEF Announce, local
<1>3. gateway \in [Settlements -> GatewayRow]
  BY DEF Inv, TypeOK, GatewayRow
<1>4. gateway' \in [Settlements -> GatewayRow]
  BY <1>1, <1>2, <1>3 DEF GatewayRow
<1>5. TypeOK'
  BY <1>2, <1>4 DEF Inv, TypeOK, GatewayRow, Cursor, Page
<1>6. \A c \in Settlements : gateway'[c].word = (IF c = b THEN word ELSE gateway[c].word)
                             /\ gateway'[c].at = gateway[c].at
  BY <1>2, <1>3 DEF GatewayRow
<1>7. job.cursor.head \in Settlements \cup {NoSettlement}
      /\ \A w \in Workers : worker[w].cursor.head \in Settlements \cup {NoSettlement}
  BY DEF Inv, TypeOK, Cursor
<1>8. HeadsOpened'
  BY <1>1, <1>2, <1>6, <1>7 DEF Inv, HeadsOpened, At
<1>9. PagesTrue' /\ GatewayTrue'
  BY <1>1, <1>2, <1>6 DEF Inv, PagesTrue, GatewayTrue
<1>10. LedgerAgrees' /\ RecordedPayoutsHappened'
  BY <1>2, BooksKept DEF Inv
<1>11. QED BY <1>5, <1>8, <1>9, <1>10 DEF Inv

LEMMA PayOutStep == ASSUME Inv, NEW b \in Settlements, PayOut(b) PROVE Inv'
<1>1. PICK at \in {0, clock'} :
          /\ gateway' = [gateway EXCEPT ![b] =
                           [word |-> "successful", at |-> at, when |-> clock']]
          /\ payouts' = payouts \cup {<<b, at>>}
  BY DEF PayOut
<1>2. UNCHANGED <<members, payment, entry, job, worker, lapsed, faults>>
  BY DEF PayOut
<1>3. clock' \in Stamps /\ at \in Stamps
  BY BoundsAssumption DEF PayOut, Inv, TypeOK, Stamps
<1>4. gateway \in [Settlements -> GatewayRow]
  BY DEF Inv, TypeOK, GatewayRow
<1>5. gateway' \in [Settlements -> GatewayRow]
  BY <1>1, <1>3, <1>4 DEF GatewayRow, Words
<1>6. TypeOK'
  BY <1>1, <1>2, <1>3, <1>5 DEF Inv, TypeOK, GatewayRow
<1>7. \A c \in Settlements :
         gateway'[c] = IF c = b THEN [word |-> "successful", at |-> at, when |-> clock']
                                ELSE gateway[c]
  BY <1>1, <1>4
<1>8. job.cursor.head \in Settlements \cup {NoSettlement}
      /\ \A w \in Workers : worker[w].cursor.head \in Settlements \cup {NoSettlement}
  BY DEF Inv, TypeOK, Cursor
<1>9. HeadsOpened'
  BY <1>2, <1>7, <1>8 DEF Inv, HeadsOpened, At
<1>10. PagesTrue' /\ GatewayTrue'
  BY <1>1, <1>2, <1>7 DEF Inv, PagesTrue, GatewayTrue
<1>11. LedgerAgrees' /\ RecordedPayoutsHappened'
  BY <1>1, <1>2, BooksKept DEF Inv
<1>12. QED BY <1>6, <1>9, <1>10, <1>11 DEF Inv

LEMMA ReverseStep == ASSUME Inv, NEW b \in Settlements, Reverse(b) PROVE Inv'
<1>1. gateway' = [gateway EXCEPT ![b].word = "reversed"]
      /\ UNCHANGED <<clock, members, payment, entry, job, worker, payouts, lapsed, faults>>
  BY DEF Reverse, local
<1>2. gateway \in [Settlements -> GatewayRow]
  BY DEF Inv, TypeOK, GatewayRow
<1>3. gateway' \in [Settlements -> GatewayRow]
  BY <1>1, <1>2 DEF GatewayRow, Words
<1>4. TypeOK'
  BY <1>1, <1>3 DEF Inv, TypeOK, GatewayRow
<1>5. \A c \in Settlements : gateway'[c].word = (IF c = b THEN "reversed" ELSE gateway[c].word)
                             /\ gateway'[c].at = gateway[c].at
  BY <1>1, <1>2 DEF GatewayRow
<1>6. job.cursor.head \in Settlements \cup {NoSettlement}
      /\ \A w \in Workers : worker[w].cursor.head \in Settlements \cup {NoSettlement}
  BY DEF Inv, TypeOK, Cursor
<1>7. HeadsOpened'
  BY <1>1, <1>5, <1>6 DEF Inv, HeadsOpened, At
<1>8. PagesTrue' /\ GatewayTrue'
  BY <1>1, <1>5 DEF Inv, PagesTrue, GatewayTrue
<1>9. LedgerAgrees' /\ RecordedPayoutsHappened'
  BY <1>1, BooksKept DEF Inv
<1>10. QED BY <1>4, <1>7, <1>8, <1>9 DEF Inv

\* One fault more is still within the bound.
LEMMA FaultCounted == ASSUME TypeOK, Fault PROVE faults' \in 0 .. MaxFaults
BY BoundsAssumption DEF TypeOK, Fault

LEMMA LapseStep == ASSUME Inv, Lapse PROVE Inv'
<1>1. job' = [job EXCEPT !.lease = NoWorker]
      /\ UNCHANGED <<clock, members, gateway, payment, entry, worker, payouts>>
  BY DEF Lapse
<1>2. faults' \in 0 .. MaxFaults /\ lapsed' \in BOOLEAN
  BY FaultCounted DEF Lapse, Inv, TypeOK
<1>3. TypeOK'
  BY <1>1, <1>2 DEF Inv, TypeOK
<1>4. job'.cursor = job.cursor
  BY <1>1 DEF Inv, TypeOK
<1>5. HeadsOpened' /\ PagesTrue' /\ GatewayTrue'
  BY <1>1, <1>4, WorkersKept DEF Inv, HeadsOpened
<1>6. LedgerAgrees' /\ RecordedPayoutsHappened'
  BY <1>1, BooksKept DEF Inv
<1>7. QED BY <1>3, <1>5, <1>6 DEF Inv

-----------------------------------------------------------------------------
(* Workers *)

LEMMA ClaimStep == ASSUME Inv, NEW w \in Workers, Claim(w) PROVE Inv'
<1> DEFINE m == [Idle EXCEPT !.step = "ask", !.cursor = job.cursor, !.left = MaxRequests]
<1>1. job \in JobRow /\ worker \in [Workers -> Memory]
  BY DEF Inv, TypeOK, JobRow, Memory
<1>2. MaxRequests \in 0 .. MaxRequests
  BY BoundsAssumption
<1>3. m \in Memory /\ m.page = {} /\ m.cursor = job.cursor
  BY <1>1, <1>2 DEF Idle, Memory, JobRow
<1>4. job' = [job EXCEPT !.lease = w] /\ worker' = [worker EXCEPT ![w] = m]
      /\ UNCHANGED <<clock, members, gateway, payment, entry, payouts, lapsed, faults>>
  BY DEF Claim
<1> HIDE DEF m
<1>5. /\ job' \in JobRow /\ job'.cursor = job.cursor
      /\ worker' \in [Workers -> Memory]
      /\ \A v \in Workers : /\ worker'[v].page \subseteq worker[v].page
                            /\ worker'[v].cursor \in {worker[v].cursor, job.cursor}
  BY <1>1, <1>3, <1>4 DEF JobRow
<1>6. TypeOK'
  BY <1>4, <1>5 DEF Inv, TypeOK, JobRow, Memory
<1>7. HeadsOpened' /\ PagesTrue' /\ GatewayTrue'
  BY <1>4, <1>5, WorkersKept DEF Inv, HeadsOpened
<1>8. LedgerAgrees' /\ RecordedPayoutsHappened'
  BY <1>4, BooksKept DEF Inv
<1>9. QED BY <1>6, <1>7, <1>8 DEF Inv

LEMMA FinishStep == ASSUME Inv, NEW w \in Workers, Finish(w) PROVE Inv'
<1>1. CASE GiveUp(w)
  BY <1>1, GiveUpStep DEF Finish, Inv, TypeOK
<1>2. CASE /\ job' = [job EXCEPT !.lease = NoWorker, !.cursor = Start]
           /\ worker' = [worker EXCEPT ![w] = Idle]
  <2>1. job \in JobRow /\ worker \in [Workers -> Memory]
    BY DEF Inv, TypeOK, JobRow, Memory
  <2>2. /\ job' \in JobRow /\ job'.cursor = Start
        /\ worker' \in [Workers -> Memory]
        /\ \A v \in Workers : /\ worker'[v].page \subseteq worker[v].page
                              /\ worker'[v].cursor \in {worker[v].cursor, Start}
    BY <1>2, <2>1, StartCursor, IdleMemory DEF JobRow
  <2>3. TypeOK'
    BY <2>2 DEF Inv, TypeOK, JobRow, Memory, Finish
  <2>4. At(Start)
    BY StartCursor DEF At
  <2>5. HeadsOpened' /\ PagesTrue' /\ GatewayTrue'
    BY <2>2, <2>4, WorkersKept DEF Inv, HeadsOpened, Finish
  <2>6. LedgerAgrees' /\ RecordedPayoutsHappened'
    BY BooksKept DEF Inv, Finish
  <2>7. QED BY <2>3, <2>5, <2>6 DEF Inv
<1>3. QED BY <1>1, <1>2 DEF Finish

LEMMA ListStep == ASSUME Inv, NEW w \in Workers, List(w) PROVE Inv'
<1>1. worker[w].cursor \in Cursor
  BY DEF Inv, TypeOK
<1>2. UNCHANGED <<clock, members, gateway, payment, entry, payouts, lapsed, faults>>
      /\ worker[w].cursor.head = NoSettlement
  BY DEF List
<1>3. CASE Save(w, [worker[w].cursor EXCEPT !.finished = TRUE])
  <2>1. [worker[w].cursor EXCEPT !.finished = TRUE] \in Cursor
    BY <1>1 DEF Cursor
  <2>2. At([worker[w].cursor EXCEPT !.finished = TRUE])
    BY <1>1, <1>2 DEF At, Cursor
  <2>3. QED BY <1>2, <1>3, <2>1, <2>2, SaveStep
<1>4. ASSUME NEW b \in Opened \ worker[w].cursor.walked,
             Save(w, [worker[w].cursor EXCEPT !.head = b, !.walked = @ \cup {b},
                        !.finished = (Opened \ worker[w].cursor.walked = {b})])
      PROVE  Inv'
  <2>1. b \in Settlements /\ gateway[b].word # "unknown"
    BY DEF Opened
  <2>2. PICK c : c = [worker[w].cursor EXCEPT !.head = b, !.walked = @ \cup {b},
                        !.finished = (Opened \ worker[w].cursor.walked = {b})]
    OBVIOUS
  <2>3. c \in Cursor /\ c.head = b
    BY <1>1, <2>1, <2>2 DEF Cursor
  <2>4. At(c)
    BY <2>1, <2>3 DEF At
  <2>5. Save(w, c)
    BY <1>4, <2>2
  <2>6. QED BY <1>2, <2>3, <2>4, <2>5, SaveStep
<1>5. QED BY <1>3, <1>4 DEF List

LEMMA FetchStep == ASSUME Inv, NEW w \in Workers, Fetch(w) PROVE Inv'
<1> DEFINE b == worker[w].cursor.head
<1>1. PICK p \in members[b] \ worker[w].cursor.seen :
         worker' = [worker EXCEPT
                      ![w].step = "apply",
                      ![w].page = {[of |-> p, id |-> b, word |-> gateway[b].word,
                                    at |-> gateway[b].at, when |-> gateway[b].when]}]
  BY DEF Fetch
<1>2. UNCHANGED <<clock, members, gateway, payment, entry, job, payouts, lapsed, faults>>
  BY DEF Fetch
<1>3. b \in Settlements /\ gateway[b].word # "unknown"
  BY DEF Fetch, Inv, TypeOK, Cursor, HeadsOpened, At
<1>4. worker \in [Workers -> Memory] /\ gateway[b] \in GatewayRow
  BY <1>3 DEF Inv, TypeOK, Memory, GatewayRow
<1>5. p \in Payments /\ p \in members[b]
  BY <1>3, LayoutsAssumption DEF Inv, TypeOK
<1>6. PICK page : page = [of |-> p, id |-> b, word |-> gateway[b].word,
                          at |-> gateway[b].at, when |-> gateway[b].when]
  OBVIOUS
<1>7. page \in Page
  BY <1>3, <1>4, <1>5, <1>6 DEF Page, GatewayRow
<1>8. /\ worker' \in [Workers -> Memory]
      /\ \A v \in Workers : /\ worker'[v].cursor = worker[v].cursor
                            /\ worker'[v].page = IF v = w THEN {page} ELSE worker[v].page
  BY <1>1, <1>4, <1>6, <1>7 DEF Memory
<1>9. TypeOK'
  BY <1>2, <1>8 DEF Inv, TypeOK, Memory
<1>10. HeadsOpened' /\ GatewayTrue'
  BY <1>2, <1>8 DEF Inv, HeadsOpened, At, GatewayTrue
<1>11. page.of \in members[page.id]
       /\ (page.word = "successful" => <<page.id, page.at>> \in payouts)
  BY <1>3, <1>5, <1>6 DEF Inv, GatewayTrue
<1>12. PagesTrue'
  BY <1>2, <1>8, <1>11 DEF Inv, PagesTrue
<1>13. LedgerAgrees' /\ RecordedPayoutsHappened'
  BY <1>2, BooksKept DEF Inv
<1>14. QED BY <1>9, <1>10, <1>12, <1>13 DEF Inv

LEMMA FailStep == ASSUME Inv, NEW w \in Workers, Fail(w) PROVE Inv'
BY GiveUpStep, FaultCounted DEF Fail, Inv

LEMMA CrashStep == ASSUME Inv, NEW w \in Workers, Crash(w) PROVE Inv'
<1>1. /\ worker' \in [Workers -> Memory]
      /\ \A v \in Workers : /\ worker'[v].page \subseteq worker[v].page
                            /\ worker'[v].cursor \in {worker[v].cursor, Start}
  BY IdleMemory DEF Crash, Inv, TypeOK, Memory
<1>2. TypeOK'
  BY <1>1, FaultCounted DEF Crash, Inv, TypeOK, Memory
<1>3. HeadsOpened' /\ PagesTrue' /\ GatewayTrue'
  BY <1>1, WorkersKept, StartCursor DEF Crash, Inv, HeadsOpened, At
<1>4. LedgerAgrees' /\ RecordedPayoutsHappened'
  BY BooksKept DEF Crash, Inv
<1>5. QED BY <1>2, <1>3, <1>4 DEF Inv

-----------------------------------------------------------------------------
(* Apply *)

\* The two UPDATEs of applyFlutterwaveSettlement.
Write(page) ==
    /\ payment' = [payment EXCEPT ![page.of] =
            [status |-> "succeeded", settlement |-> Normalize(page.word),
             id |-> page.id, at |-> SettledAt(payment[page.of], page),
             when |-> page.when]]
    /\ entry' = [entry EXCEPT ![page.of] = LedgerRow(@, page)]

\* Writing an accepted answer that was true once keeps the books.
LEMMA WriteKeepsBooks ==
    ASSUME Inv, NEW page \in Page,
           page.of \in members[page.id],
           page.word = "successful" => <<page.id, page.at>> \in payouts,
           payment[page.of].status = "succeeded", Acceptable(payment[page.of], page),
           Write(page), UNCHANGED <<members, payouts>>
    PROVE  /\ payment' \in [Payments -> PaymentRow]
           /\ entry' \in [Payments -> EntryRow]
           /\ LedgerAgrees'
           /\ RecordedPayoutsHappened'
<1> DEFINE p == page.of
<1>1. /\ p \in Payments /\ page.id \in Settlements /\ page.word \in Words
      /\ page.at \in Stamps /\ page.when \in Stamps
  BY DEF Page
<1>2. payment \in [Payments -> PaymentRow] /\ entry \in [Payments -> EntryRow] /\ clock \in Stamps
  BY DEF Inv, TypeOK, PaymentRow, EntryRow
<1>3. payment[p] \in PaymentRow /\ entry[p] \in EntryRow
  BY <1>1, <1>2
<1>4. /\ Normalize(page.word) \in States
      /\ Normalize(page.word) = "settled" <=> page.word = "successful"
  BY <1>1, NormalizeStates
<1>5. /\ SettledAt(payment[p], page) \in Stamps
      /\ Normalize(page.word) = "settled" /\ page.at # 0
           => SettledAt(payment[p], page) = page.at
  BY <1>2, <1>3, StoredDate
<1>6. entry[p].status # "absent"
  BY <1>1 DEF Inv, LedgerAgrees
<1>7. entry[p].status \in {"paid", "reversed"} => Normalize(page.word) \in {"settled", "reversed"}
  BY <1>1, <1>3, AcceptedNews DEF Inv, LedgerAgrees
<1>8. /\ LedgerRow(entry[p], page) \in EntryRow
      /\ LedgerRow(entry[p], page).settlement = Normalize(page.word)
      /\ LedgerRow(entry[p], page).id = page.id
      /\ LedgerRow(entry[p], page).status # "absent"
      /\ (LedgerRow(entry[p], page).status = "paid") = (Normalize(page.word) = "settled")
      /\ (LedgerRow(entry[p], page).status = "reversed") = (Normalize(page.word) = "reversed")
  BY <1>3, <1>6, <1>7, RowFollows
<1>9. PICK pay : pay = [status |-> "succeeded", settlement |-> Normalize(page.word),
                        id |-> page.id, at |-> SettledAt(payment[p], page),
                        when |-> page.when]
  OBVIOUS
<1>10. PICK row : row = LedgerRow(entry[p], page)
  OBVIOUS
<1>11. pay \in PaymentRow
  BY <1>1, <1>4, <1>5, <1>9 DEF PaymentRow
<1>12. payment' = [payment EXCEPT ![p] = pay] /\ entry' = [entry EXCEPT ![p] = row]
  BY <1>9, <1>10 DEF Write
<1>13. /\ payment' \in [Payments -> PaymentRow] /\ entry' \in [Payments -> EntryRow]
       /\ payment'[p] = pay /\ entry'[p] = row
       /\ \A q \in Payments : q # p => payment'[q] = payment[q] /\ entry'[q] = entry[q]
  BY <1>1, <1>2, <1>8, <1>10, <1>11, <1>12
<1>14. LedgerAgrees'
  <2>1. ASSUME NEW q \in Payments, q # p PROVE payment'[q] = payment[q] /\ entry'[q] = entry[q]
    BY <1>13, <2>1
  <2>2. /\ row.settlement = pay.settlement /\ row.id = pay.id
        /\ row.status # "absent" /\ pay.status = "succeeded"
        /\ (row.status = "paid") = (pay.settlement = "settled")
        /\ (row.status = "reversed") = (pay.settlement = "reversed")
    BY <1>8, <1>9, <1>10
  <2>3. QED BY <1>13, <2>1, <2>2 DEF Inv, LedgerAgrees
<1>15. RecordedPayoutsHappened'
  <2>1. ASSUME pay.settlement = "settled"
        PROVE  /\ p \in members[pay.id]
               /\ <<pay.id, pay.at>> \in payouts \/ <<pay.id, 0>> \in payouts
    <3>1. pay.id = page.id /\ pay.at = SettledAt(payment[p], page)
          /\ Normalize(page.word) = "settled"
      BY <1>9, <2>1
    <3>2. page.word = "successful"
      BY <1>4, <3>1
    <3>3. QED BY <1>5, <3>1, <3>2
  <2>2. QED BY <1>13, <2>1 DEF Inv, RecordedPayoutsHappened
<1>16. QED BY <1>13, <1>14, <1>15

LEMMA ApplyStep == ASSUME Inv, NEW w \in Workers, Apply(w) PROVE Inv'
<1>1. PICK page \in worker[w].page :
         LET p      == page.of
             cursor == worker[w].cursor
             seen   == cursor.seen \cup {p}
         IN  /\ IF payment[p].status = "succeeded" /\ Acceptable(payment[p], page)
                  THEN Write(page)
                  ELSE UNCHANGED <<payment, entry>>
             /\ Save(w, IF seen = members[cursor.head]
                          THEN [cursor EXCEPT !.head = NoSettlement, !.seen = {}]
                          ELSE [cursor EXCEPT !.seen = seen])
             /\ UNCHANGED <<clock, members, gateway, payouts, lapsed, faults>>
  BY DEF Apply, Write
<1>2. page \in Page
  BY DEF Inv, TypeOK
<1>3. PICK c : c = IF worker[w].cursor.seen \cup {page.of} = members[worker[w].cursor.head]
                     THEN [worker[w].cursor EXCEPT !.head = NoSettlement, !.seen = {}]
                     ELSE [worker[w].cursor EXCEPT !.seen = worker[w].cursor.seen \cup {page.of}]
  OBVIOUS
<1>4. Save(w, c) /\ UNCHANGED <<clock, members, gateway, payouts, lapsed, faults>>
  BY <1>1, <1>3
<1>5. worker[w].cursor \in Cursor /\ page.of \in Payments
  BY <1>2 DEF Inv, TypeOK, Page
<1>6. c \in Cursor /\ c.head \in {NoSettlement, worker[w].cursor.head}
  BY <1>3, <1>5 DEF Cursor
<1>7. At(c)
  BY <1>6 DEF At, Inv, HeadsOpened
<1>8. job \in JobRow /\ worker \in [Workers -> Memory]
  BY DEF Inv, TypeOK, JobRow, Memory
<1>9. /\ job' \in JobRow
      /\ job'.cursor \in {job.cursor, c}
      /\ worker' \in [Workers -> Memory]
      /\ \A v \in Workers : /\ worker'[v].page \subseteq worker[v].page
                            /\ worker'[v].cursor \in {worker[v].cursor, c, Start}
  BY <1>4, <1>6, <1>8, SaveKeeps
<1>10. At(Start)
  BY StartCursor DEF At
<1>11. HeadsOpened' /\ PagesTrue' /\ GatewayTrue'
  BY <1>4, <1>7, <1>9, <1>10, WorkersKept DEF Inv, HeadsOpened
<1>12. /\ page.of \in members[page.id]
       /\ page.word = "successful" => <<page.id, page.at>> \in payouts
  BY DEF Inv, PagesTrue
<1>13. /\ payment' \in [Payments -> PaymentRow]
       /\ entry' \in [Payments -> EntryRow]
       /\ LedgerAgrees'
       /\ RecordedPayoutsHappened'
  <2>1. CASE Write(page) /\ payment[page.of].status = "succeeded"
             /\ Acceptable(payment[page.of], page)
    BY <1>2, <1>4, <1>12, <2>1, WriteKeepsBooks
  <2>2. CASE UNCHANGED <<payment, entry>>
    BY <1>4, <2>2, BooksKept DEF Inv, TypeOK, PaymentRow, EntryRow
  <2>3. QED BY <1>1, <2>1, <2>2
<1>14. TypeOK'
  BY <1>4, <1>9, <1>13 DEF Inv, TypeOK, JobRow, Memory, PaymentRow, EntryRow
<1>15. QED BY <1>11, <1>13, <1>14 DEF Inv

-----------------------------------------------------------------------------
(* Theorems *)

LEMMA InitInv == ASSUME Init PROVE Inv
<1>1. 0 \in Stamps /\ 0 \in 0 .. MaxFaults
  BY BoundsAssumption DEF Stamps
<1>2. TypeOK
  <2>1. gateway \in [Settlements -> GatewayRow]
    BY <1>1 DEF Init, GatewayRow
  <2>2. payment \in [Payments -> PaymentRow] /\ entry \in [Payments -> EntryRow]
    BY <1>1 DEF Init, PaymentRow, EntryRow, States
  <2>3. job \in JobRow
    BY StartCursor DEF Init, JobRow
  <2>4. worker \in [Workers -> Memory]
    BY IdleMemory DEF Init
  <2>5. QED
    BY <1>1, <2>1, <2>2, <2>3, <2>4
       DEF Init, TypeOK, GatewayRow, PaymentRow, EntryRow, JobRow, Memory
<1>3. HeadsOpened /\ PagesTrue /\ GatewayTrue
  BY StartCursor, IdleMemory DEF Init, HeadsOpened, At, PagesTrue, GatewayTrue
<1>4. LedgerAgrees /\ RecordedPayoutsHappened
  BY DEF Init, LedgerAgrees, RecordedPayoutsHappened
<1>5. QED BY <1>2, <1>3, <1>4 DEF Inv

LEMMA NextInv == ASSUME Inv, [Next]_vars PROVE Inv'
<1>1. CASE UNCHANGED vars
  BY <1>1 DEF vars, Inv, TypeOK, HeadsOpened, At, PagesTrue, GatewayTrue, LedgerAgrees,
              RecordedPayoutsHappened
<1>2. ASSUME NEW p \in Payments, Charge(p) PROVE Inv'
  BY <1>2, ChargeStep
<1>3. ASSUME NEW b \in Settlements,
             (\E word \in Waits : Announce(b, word)) \/ PayOut(b) \/ Reverse(b)
      PROVE  Inv'
  BY <1>3, AnnounceStep, PayOutStep, ReverseStep
<1>4. CASE Lapse
  BY <1>4, LapseStep
<1>5. ASSUME NEW w \in Workers, Claim(w) \/ Work(w) \/ Fail(w) \/ Crash(w) PROVE Inv'
  BY <1>5, ClaimStep, FinishStep, ListStep, FetchStep, ApplyStep, FailStep, CrashStep DEF Work
<1>6. QED BY <1>1, <1>2, <1>3, <1>4, <1>5 DEF Next

\* The invariant holds in every reachable state: what the workers hold was
\* once true, and the two tables of applyFlutterwaveSettlement agree.
THEOREM Invariance == Spec => []Inv
<1>1. Init => Inv
  BY InitInv
<1>2. Inv /\ [Next]_vars => Inv'
  BY NextInv
<1>3. QED BY <1>1, <1>2, PTL DEF Spec

\* The tables, the lease and the workers' memory keep their types, and every
\* word of the gateway is stored as one of the states the columns allow.
THEOREM TypeCorrect == Spec => []TypeOK
<1>1. Inv => TypeOK
  BY DEF Inv
<1>2. QED BY <1>1, Invariance, PTL

\* payments and merchant_ledger say the same of every charge.
THEOREM LedgersAgree == Spec => []LedgerAgrees
<1>1. Inv => LedgerAgrees
  BY DEF Inv
<1>2. QED BY <1>1, Invariance, PTL

\* A payout on record is one the gateway made, under its settlement and date,
\* although it may be written long after it was read.
THEOREM RecordsAreTrue == Spec => []RecordedPayoutsHappened
<1>1. Inv => RecordedPayoutsHappened
  BY DEF Inv
<1>2. QED BY <1>1, Invariance, PTL

Sticks(p) == payment[p].settlement \in {"settled", "reversed"}
               => payment'[p].settlement \in {"settled", "reversed"}

\* A page of a worker whose lease is long gone takes no payout back.
LEMMA ApplySticks ==
    ASSUME Inv, NEW w \in Workers, Apply(w), NEW p \in Payments PROVE Sticks(p)
<1>1. PICK page \in worker[w].page :
         IF payment[page.of].status = "succeeded" /\ Acceptable(payment[page.of], page)
           THEN Write(page)
           ELSE UNCHANGED <<payment, entry>>
  BY DEF Apply, Write
<1>2. page \in Page /\ payment \in [Payments -> PaymentRow]
  BY DEF Inv, TypeOK, PaymentRow
<1>3. page.of \in Payments /\ payment[page.of] \in PaymentRow
  BY <1>2 DEF Page
<1>4. CASE UNCHANGED <<payment, entry>>
  BY <1>4 DEF Sticks
<1>5. CASE Write(page) /\ Acceptable(payment[page.of], page)
  <2>1. PICK pay : pay = [status |-> "succeeded", settlement |-> Normalize(page.word),
                          id |-> page.id, at |-> SettledAt(payment[page.of], page),
                          when |-> page.when]
    OBVIOUS
  <2>2. payment' = [payment EXCEPT ![page.of] = pay] /\ pay.settlement = Normalize(page.word)
    BY <1>5, <2>1 DEF Write
  <2>3. CASE p # page.of
    BY <1>2, <2>2, <2>3 DEF Sticks
  <2>4. CASE p = page.of
    <3>1. payment'[p].settlement = Normalize(page.word)
      BY <1>2, <2>2, <2>4
    <3>2. QED BY <1>2, <1>3, <1>5, <2>4, <3>1, AcceptedNews DEF Sticks
  <2>5. QED BY <2>3, <2>4
<1>6. QED BY <1>1, <1>4, <1>5

\* No answer of the gateway, however old, turns a recorded payout or reversal
\* back into a hold, a failure or a wait.
THEOREM PayoutsNeverDowngraded == Spec => PayoutsStick
<1>1. ASSUME Inv, [Next]_vars, NEW p \in Payments PROVE Sticks(p)
  <2>1. CASE UNCHANGED payment
    BY <2>1 DEF Sticks
  <2>2. ASSUME NEW q \in Payments, Charge(q) PROVE Sticks(p)
    <3>1. payment \in [Payments -> PaymentRow]
      BY <1>1 DEF Inv, TypeOK, PaymentRow
    <3>2. payment' = [payment EXCEPT ![q].status = "succeeded"]
      BY <2>2 DEF Charge
    <3>3. payment'[p].settlement = payment[p].settlement
      BY <3>1, <3>2 DEF PaymentRow
    <3>4. QED BY <3>3 DEF Sticks
  <2>3. ASSUME NEW w \in Workers, Apply(w) PROVE Sticks(p)
    BY <1>1, <2>3, ApplySticks
  <2>4. ASSUME NEW b \in Settlements,
               (\E word \in Waits : Announce(b, word)) \/ PayOut(b) \/ Reverse(b)
        PROVE  UNCHANGED payment
    BY <2>4 DEF Announce, PayOut, Reverse, local
  <2>5. ASSUME NEW w \in Workers,
               Claim(w) \/ Finish(w) \/ List(w) \/ Fetch(w) \/ Fail(w) \/ Crash(w)
        PROVE  UNCHANGED payment
    BY <2>5 DEF Claim, Finish, List, Fetch, Fail, Crash
  <2>6. Lapse \/ UNCHANGED vars => UNCHANGED payment
    BY DEF Lapse, vars
  <2>7. QED BY <1>1, <2>1, <2>2, <2>3, <2>4, <2>5, <2>6 DEF Next, Work
<1>2. Inv /\ [Next]_vars =>
        [\A p \in Payments : payment[p].settlement \in {"settled", "reversed"}
           => payment'[p].settlement \in {"settled", "reversed"}]_vars
  BY <1>1 DEF Sticks
<1>3. QED BY <1>2, Invariance, PTL DEF Spec, PayoutsStick

\* Both tables tell the truth about payouts, for any charges, payouts and
\* workers.
THEOREM RecordsTellTheTruth == Spec => []RecordsTrue
BY RecordsAreTrue, LedgersAgree, PTL DEF RecordsTrue

-----------------------------------------------------------------------------
(* Reversals                                                               *)
(*                                                                         *)
(* A worker under a lease is alone, so between its read and its write no   *)
(* other worker records a reversal, and what it read then is newer than    *)
(* the reversal on record.  The second half needs that the gateway pays a  *)
(* charge in one settlement at a time (LatestPaid): the reversal on record *)
(* may be one of another settlement.                                       *)

\* A worker that works holds the lease until the lease lapses; only one about
\* to apply has a page.
Held ==
    \A w \in Workers :
       /\ worker[w].step # "apply" => worker[w].page = {}
       /\ worker[w].step # "idle" /\ ~lapsed => job.lease = w

\* Of the settlements of a charge, the one that is paid was paid last.
LatestPaid ==
    \A b \in Settlements :
       /\ gateway[b].when <= clock
       /\ gateway[b].word = "successful" =>
            \A c \in Settlements \ {b} :
               members[b] \cap members[c] # {} => gateway[c].when < gateway[b].when

\* The settlement was paid again since these news, or is still reversed.
Before(news, b) ==
    \/ news.when < gateway[b].when
    \/ news.when = gateway[b].when /\ gateway[b].word = "reversed"

PagesAged ==
    \A w \in Workers : \A page \in worker[w].page :
       page.word = "reversed" => Before(page, page.id)

ReversalsAged ==
    \A p \in Payments : payment[p].settlement = "reversed" =>
       /\ payment[p].id \in Settlements /\ p \in members[payment[p].id]
       /\ Before(payment[p], payment[p].id)

\* A payout a worker read under its lease is newer than a reversal on record.
PagesFresh ==
    ~lapsed => \A w \in Workers : \A page \in worker[w].page :
       page.word = "successful" /\ payment[page.of].settlement = "reversed"
         => page.when > payment[page.of].when

Aged == Held /\ LatestPaid /\ PagesAged /\ ReversalsAged /\ PagesFresh

\* A gateway that only moves forward leaves old news old.
LEMMA GatewayForward ==
    ASSUME Inv, Aged,
           UNCHANGED <<members, payment, job, worker, lapsed>>,
           \A b \in Settlements : \/ gateway'[b].when > gateway[b].when
                                  \/ /\ gateway'[b].when = gateway[b].when
                                     /\ gateway[b].word = "reversed"
                                          => gateway'[b].word = "reversed",
           gateway' \in [Settlements -> GatewayRow],
           LatestPaid'
    PROVE  Aged'
<1>1. gateway \in [Settlements -> GatewayRow]
  BY DEF Inv, TypeOK, GatewayRow
<1>2. \A b \in Settlements : gateway[b].when \in Nat /\ gateway'[b].when \in Nat
  BY <1>1, BoundsAssumption DEF GatewayRow, Stamps
<1>3. Held' /\ PagesFresh'
  BY DEF Aged, Held, PagesFresh
<1>4. PagesAged'
  <2>1. ASSUME NEW w \in Workers, NEW page \in worker[w].page, page.word = "reversed"
        PROVE  \/ page.when < gateway'[page.id].when
               \/ page.when = gateway'[page.id].when /\ gateway'[page.id].word = "reversed"
    <3>1. page \in Page
      BY DEF Inv, TypeOK
    <3>2. page.id \in Settlements /\ page.when \in Nat
      BY <3>1, BoundsAssumption DEF Page, Stamps
    <3>3. Before(page, page.id)
      BY <2>1 DEF Aged, PagesAged
    <3>4. QED BY <1>2, <3>2, <3>3 DEF Before
  <2>2. QED BY <2>1 DEF PagesAged, Before
<1>5. ReversalsAged'
  <2>1. ASSUME NEW p \in Payments, payment[p].settlement = "reversed"
        PROVE  \/ payment[p].when < gateway'[payment[p].id].when
               \/ /\ payment[p].when = gateway'[payment[p].id].when
                  /\ gateway'[payment[p].id].word = "reversed"
    <3>1. payment[p].when \in Nat
      BY BoundsAssumption DEF Inv, TypeOK, Stamps
    <3>2. payment[p].id \in Settlements /\ Before(payment[p], payment[p].id)
      BY <2>1 DEF Aged, ReversalsAged
    <3>3. QED BY <1>2, <3>1, <3>2 DEF Before
  <2>2. QED BY <2>1 DEF Aged, ReversalsAged, Before
<1>6. QED BY <1>3, <1>4, <1>5 DEF Aged

LEMMA AnnounceAged ==
    ASSUME Inv, Aged, NEW b \in Settlements, NEW word \in Waits, Announce(b, word) PROVE Aged'
<1>1. gateway' = [gateway EXCEPT ![b].word = word]
      /\ UNCHANGED <<clock, members, payment, entry, job, worker, payouts, lapsed, faults>>
      /\ gateway[b].word \in Waits \cup {"unknown"}
  BY DEF Announce, local
<1>2. gateway \in [Settlements -> GatewayRow]
  BY DEF Inv, TypeOK, GatewayRow
<1>3. word \notin {"successful", "reversed", "unknown"} /\ word \in Words
  BY WaitsAssumption DEF Words
<1>4. gateway[b].word # "reversed"
  BY <1>1, WaitsAssumption
<1>5. gateway' \in [Settlements -> GatewayRow]
  BY <1>1, <1>2, <1>3 DEF GatewayRow
<1>6. \A c \in Settlements : /\ gateway'[c].when = gateway[c].when
                             /\ gateway'[c].word = IF c = b THEN word ELSE gateway[c].word
  BY <1>1, <1>2 DEF GatewayRow
<1>7. LatestPaid'
  BY <1>1, <1>3, <1>6 DEF Aged, LatestPaid
<1>8. QED BY <1>1, <1>4, <1>5, <1>6, <1>7, GatewayForward

\* The next payout is later than all before, and no other settlement of its
\* charges is paid.
LEMMA PayOutAged == ASSUME Inv, Aged, NEW b \in Settlements, PayOut(b) PROVE Aged'
<1>1. PICK at \in {0, clock'} :
          gateway' = [gateway EXCEPT ![b] =
                           [word |-> "successful", at |-> at, when |-> clock']]
  BY DEF PayOut
<1>2. /\ clock' = clock + 1 /\ clock < MaxTime
      /\ \A c \in Settlements \ {b} :
            members[b] \cap members[c] # {} => gateway[c].word # "successful"
      /\ UNCHANGED <<members, payment, entry, job, worker, lapsed, faults>>
  BY DEF PayOut
<1>3. gateway \in [Settlements -> GatewayRow] /\ clock \in Nat
  BY BoundsAssumption DEF Inv, TypeOK, GatewayRow, Stamps
<1>4. clock' \in Stamps /\ at \in Stamps
  BY <1>2, <1>3, BoundsAssumption DEF Stamps
<1>5. gateway' \in [Settlements -> GatewayRow]
  BY <1>1, <1>3, <1>4 DEF GatewayRow, Words
<1>6. /\ \A c \in Settlements : c # b => gateway'[c] = gateway[c]
      /\ gateway'[b].when = clock + 1 /\ gateway'[b].word = "successful"
  BY <1>1, <1>2, <1>3
<1>7. \A c \in Settlements : gateway[c].when \in Nat /\ gateway[c].when <= clock
  BY <1>3, BoundsAssumption DEF Aged, LatestPaid, GatewayRow, Stamps
<1>8. LatestPaid'
  <2>1. ASSUME NEW c \in Settlements PROVE gateway'[c].when <= clock'
    <3>1. CASE c = b
      BY <1>2, <1>3, <1>6, <3>1
    <3>2. CASE c # b
      BY <1>2, <1>3, <1>6, <1>7, <3>2
    <3>3. QED BY <3>1, <3>2
  <2>2. ASSUME NEW c \in Settlements, NEW d \in Settlements \ {c},
               gateway'[c].word = "successful", members[c] \cap members[d] # {}
        PROVE  gateway'[d].when < gateway'[c].when
    <3>1. CASE c = b
      BY <1>3, <1>6, <1>7, <2>2, <3>1
    <3>2. CASE d = b
      <4>1. members[b] \cap members[c] # {}
        BY <2>2, <3>2
      <4>2. QED BY <1>2, <1>6, <2>2, <3>2, <4>1
    <3>3. CASE c # b /\ d # b
      BY <1>6, <2>2, <3>3 DEF Aged, LatestPaid
    <3>4. QED BY <3>1, <3>2, <3>3
  <2>3. QED BY <1>2, <2>1, <2>2 DEF LatestPaid
<1>9. ASSUME NEW c \in Settlements
      PROVE  gateway'[c].when > gateway[c].when \/ gateway'[c] = gateway[c]
  BY <1>3, <1>6, <1>7
<1>10. QED BY <1>2, <1>5, <1>8, <1>9, GatewayForward

LEMMA ReverseAged == ASSUME Inv, Aged, NEW b \in Settlements, Reverse(b) PROVE Aged'
<1>1. gateway' = [gateway EXCEPT ![b].word = "reversed"]
      /\ UNCHANGED <<clock, members, payment, entry, job, worker, payouts, lapsed, faults>>
  BY DEF Reverse, local
<1>2. gateway \in [Settlements -> GatewayRow]
  BY DEF Inv, TypeOK, GatewayRow
<1>3. gateway' \in [Settlements -> GatewayRow]
  BY <1>1, <1>2 DEF GatewayRow, Words
<1>4. \A c \in Settlements :
         /\ gateway'[c].when = gateway[c].when
         /\ gateway'[c].word = IF c = b THEN "reversed" ELSE gateway[c].word
  BY <1>1, <1>2 DEF GatewayRow
<1>5. LatestPaid'
  BY <1>1, <1>4 DEF Aged, LatestPaid
<1>6. QED BY <1>1, <1>3, <1>4, <1>5, GatewayForward

\* A step that writes no payment and gives nobody a page keeps news in order.
LEMMA NewsKept ==
    ASSUME Aged, UNCHANGED <<clock, members, gateway, payment>>, lapsed => lapsed',
           \A w \in Workers : worker'[w].page \subseteq worker[w].page
    PROVE  LatestPaid' /\ PagesAged' /\ ReversalsAged' /\ PagesFresh'
<1>1. LatestPaid' /\ ReversalsAged'
  BY DEF Aged, LatestPaid, ReversalsAged, Before
<1>2. PagesAged'
  BY DEF Aged, PagesAged, Before
<1>3. PagesFresh'
  BY DEF Aged, PagesFresh
<1>4. QED BY <1>1, <1>2, <1>3

LEMMA ChargeAged == ASSUME Inv, Aged, NEW p \in Payments, Charge(p) PROVE Aged'
<1>1. payment \in [Payments -> PaymentRow] /\ job \in JobRow
  BY DEF Inv, TypeOK, PaymentRow, JobRow
<1>2. /\ payment' = [payment EXCEPT ![p].status = "succeeded"]
      /\ job' = [job EXCEPT !.exists = TRUE]
      /\ UNCHANGED <<clock, members, gateway, worker, lapsed>>
  BY DEF Charge
<1>3. \A q \in Payments : /\ payment'[q].settlement = payment[q].settlement
                          /\ payment'[q].id = payment[q].id
                          /\ payment'[q].when = payment[q].when
  BY <1>1, <1>2 DEF PaymentRow
<1>4. job'.lease = job.lease
  BY <1>1, <1>2 DEF JobRow
<1>5. Held' /\ LatestPaid' /\ PagesAged'
  BY <1>2, <1>4 DEF Aged, Held, LatestPaid, PagesAged, Before
<1>6. ReversalsAged'
  BY <1>2, <1>3 DEF Aged, ReversalsAged, Before
<1>7. \A w \in Workers : \A page \in worker[w].page : page.of \in Payments
  BY DEF Inv, TypeOK, Page
<1>8. PagesFresh'
  BY <1>2, <1>3, <1>7 DEF Aged, PagesFresh
<1>9. QED BY <1>5, <1>6, <1>8 DEF Aged

LEMMA LapseAged == ASSUME Inv, Aged, Lapse PROVE Aged'
<1>1. job \in JobRow /\ job.lease \in Workers
  BY DEF Inv, TypeOK, JobRow, Lapse
<1>2. UNCHANGED <<clock, members, gateway, payment, worker>> /\ lapsed \in BOOLEAN
      /\ lapsed' \in {lapsed, TRUE}
  BY DEF Lapse, Inv, TypeOK
<1>3. Held'
  <2>1. CASE worker[job.lease].step = "idle"
    <3>1. lapsed' = lapsed
      BY <2>1 DEF Lapse
    <3>2. ASSUME NEW w \in Workers, worker[w].step # "idle" PROVE lapsed
      BY <2>1, <3>2 DEF Aged, Held
    <3>3. QED BY <1>2, <3>1, <3>2 DEF Aged, Held
  <2>2. CASE worker[job.lease].step # "idle"
    BY <1>2, <2>2 DEF Aged, Held, Lapse
  <2>3. QED BY <2>1, <2>2
<1>4. QED BY <1>2, <1>3, NewsKept DEF Aged

\* The worker that saves or gives up is left with no page, and nobody else
\* works under the lease it frees.
LEMMA ReturnHeld ==
    ASSUME Inv, Held, NEW w \in Workers, worker[w].step # "idle", lapsed' = lapsed,
           GiveUp(w) \/ \E cursor \in Cursor : Save(w, cursor)
    PROVE  /\ Held'
           /\ worker'[w].page = {}
           /\ \A v \in Workers : v # w => worker'[v] = worker[v]
<1>1. job \in JobRow /\ worker \in [Workers -> Memory]
  BY DEF Inv, TypeOK, JobRow, Memory
<1>2. \A v \in Workers : v # w /\ worker[v].step # "idle" => lapsed
  BY DEF Held
<1>3. CASE worker' = [worker EXCEPT ![w] = Idle]
  <2>1. /\ worker'[w] = Idle
        /\ \A v \in Workers : v # w => worker'[v] = worker[v]
    BY <1>1, <1>3
  <2>2. Idle.page = {} /\ Idle.step = "idle"
    BY DEF Idle
  <2>3. Held'
    BY <1>2, <2>1, <2>2 DEF Held
  <2>4. QED BY <2>1, <2>2, <2>3
<1>4. ASSUME NEW cursor \in Cursor, job.lease = w,
             job' = [job EXCEPT !.cursor = cursor],
             worker' = [worker EXCEPT ![w] = [step |-> "ask", cursor |-> cursor,
                                               left |-> @.left - 1, page |-> {}]]
      PROVE  /\ Held'
             /\ worker'[w].page = {}
             /\ \A v \in Workers : v # w => worker'[v] = worker[v]
  <2>1. /\ worker'[w].page = {} /\ worker'[w].step = "ask"
        /\ \A v \in Workers : v # w => worker'[v] = worker[v]
    BY <1>1, <1>4
  <2>2. job'.lease = w
    BY <1>1, <1>4 DEF JobRow
  <2>3. QED BY <1>2, <2>1, <2>2 DEF Held
<1>5. QED BY <1>3, <1>4 DEF GiveUp, Save, Owns

LEMMA ReturnAged ==
    ASSUME Inv, Aged, NEW w \in Workers, worker[w].step # "idle",
           UNCHANGED <<clock, members, gateway, payment, lapsed>>,
           GiveUp(w) \/ \E cursor \in Cursor : Save(w, cursor)
    PROVE  Aged'
<1>1. /\ Held'
      /\ worker'[w].page = {}
      /\ \A v \in Workers : v # w => worker'[v] = worker[v]
  BY ReturnHeld DEF Aged
<1>2. \A v \in Workers : worker'[v].page \subseteq worker[v].page
  BY <1>1
<1>3. QED BY <1>1, <1>2, NewsKept DEF Aged

LEMMA ClaimAged == ASSUME Inv, Aged, NEW w \in Workers, Claim(w) PROVE Aged'
<1>1. job \in JobRow /\ worker \in [Workers -> Memory]
  BY DEF Inv, TypeOK, JobRow, Memory
<1>2. PICK m : m = [Idle EXCEPT !.step = "ask", !.cursor = job.cursor, !.left = MaxRequests]
  OBVIOUS
<1>3. m.page = {} /\ m.step = "ask"
  BY <1>2 DEF Idle
<1>4. /\ job' = [job EXCEPT !.lease = w] /\ worker' = [worker EXCEPT ![w] = m]
      /\ job.lease = NoWorker
      /\ UNCHANGED <<clock, members, gateway, payment, lapsed>>
  BY <1>2 DEF Claim
<1>5. /\ job'.lease = w /\ worker'[w] = m
      /\ \A v \in Workers : v # w => worker'[v] = worker[v]
  BY <1>1, <1>4 DEF JobRow
<1>6. \A v \in Workers : worker[v].step # "idle" => lapsed
  BY <1>4, NoneAssumption DEF Aged, Held
<1>7. Held'
  BY <1>3, <1>4, <1>5, <1>6 DEF Aged, Held
<1>8. \A v \in Workers : worker'[v].page \subseteq worker[v].page
  BY <1>3, <1>5
<1>9. QED BY <1>4, <1>7, <1>8, NewsKept DEF Aged

LEMMA FinishAged == ASSUME Inv, Aged, NEW w \in Workers, Finish(w) PROVE Aged'
<1>1. CASE GiveUp(w)
  BY <1>1, ReturnAged DEF Finish
<1>2. CASE /\ job' = [job EXCEPT !.lease = NoWorker, !.cursor = Start]
           /\ worker' = [worker EXCEPT ![w] = Idle] /\ Owns(w)
  <2>1. worker \in [Workers -> Memory]
    BY DEF Inv, TypeOK, Memory
  <2>2. /\ worker'[w] = Idle
        /\ \A v \in Workers : v # w => worker'[v] = worker[v]
    BY <1>2, <2>1
  <2>3. Idle.page = {} /\ Idle.step = "idle"
    BY DEF Idle
  <2>4. \A v \in Workers : v # w /\ worker[v].step # "idle" => lapsed
    BY <1>2 DEF Aged, Held, Owns
  <2>5. Held'
    BY <2>2, <2>3, <2>4 DEF Aged, Held, Finish
  <2>6. \A v \in Workers : worker'[v].page \subseteq worker[v].page
    BY <2>2, <2>3
  <2>7. QED BY <2>5, <2>6, NewsKept DEF Aged, Finish
<1>3. QED BY <1>1, <1>2 DEF Finish

LEMMA ListAged == ASSUME Inv, Aged, NEW w \in Workers, List(w) PROVE Aged'
<1>1. worker[w].cursor \in Cursor
  BY DEF Inv, TypeOK
<1>2. \E cursor \in Cursor : Save(w, cursor)
  <2>1. CASE Save(w, [worker[w].cursor EXCEPT !.finished = TRUE])
    <3>1. [worker[w].cursor EXCEPT !.finished = TRUE] \in Cursor
      BY <1>1 DEF Cursor
    <3>2. QED BY <2>1, <3>1
  <2>2. ASSUME NEW b \in Opened \ worker[w].cursor.walked,
               Save(w, [worker[w].cursor EXCEPT !.head = b, !.walked = @ \cup {b},
                          !.finished = (Opened \ worker[w].cursor.walked = {b})])
        PROVE  \E cursor \in Cursor : Save(w, cursor)
    <3>1. b \in Settlements
      BY DEF Opened
    <3>2. PICK c : c = [worker[w].cursor EXCEPT !.head = b, !.walked = @ \cup {b},
                          !.finished = (Opened \ worker[w].cursor.walked = {b})]
      OBVIOUS
    <3>3. c \in Cursor
      BY <1>1, <3>1, <3>2 DEF Cursor
    <3>4. Save(w, c)
      BY <2>2, <3>2
    <3>5. QED BY <3>3, <3>4
  <2>3. QED BY <2>1, <2>2 DEF List
<1>3. QED BY <1>2, ReturnAged DEF List

LEMMA FetchAged == ASSUME Inv, Aged, NEW w \in Workers, Fetch(w) PROVE Aged'
<1>1. PICK b : b = worker[w].cursor.head
  OBVIOUS
<1>2. PICK p \in members[b] :
         worker' = [worker EXCEPT
                      ![w].step = "apply",
                      ![w].page = {[of |-> p, id |-> b, word |-> gateway[b].word,
                                    at |-> gateway[b].at, when |-> gateway[b].when]}]
  BY <1>1 DEF Fetch
<1>3. UNCHANGED <<clock, members, gateway, payment, job, lapsed>> /\ worker[w].step = "ask"
  BY DEF Fetch
<1>4. b \in Settlements /\ gateway \in [Settlements -> GatewayRow]
      /\ worker \in [Workers -> Memory]
  BY <1>1 DEF Fetch, Inv, TypeOK, Cursor, GatewayRow, Memory
<1>5. p \in Payments /\ members \in [Settlements -> SUBSET Payments]
  BY <1>4, LayoutsAssumption DEF Inv, TypeOK
<1>6. PICK page : page = [of |-> p, id |-> b, word |-> gateway[b].word,
                          at |-> gateway[b].at, when |-> gateway[b].when]
  OBVIOUS
<1>7. /\ worker'[w].step = "apply" /\ worker'[w].page = {page}
      /\ \A v \in Workers : v # w => worker'[v] = worker[v]
  BY <1>2, <1>4, <1>6 DEF Memory
<1>8. Held'
  BY <1>3, <1>7 DEF Aged, Held
<1>9. LatestPaid' /\ ReversalsAged'
  BY <1>3 DEF Aged, LatestPaid, ReversalsAged, Before
<1>10. PagesAged'
  <2>1. page.word = "reversed" => Before(page, page.id)
    BY <1>6 DEF Before
  <2>2. QED BY <1>3, <1>7, <2>1 DEF Aged, PagesAged, Before
<1>11. ASSUME gateway[b].word = "successful", payment[p].settlement = "reversed"
       PROVE  gateway[b].when > payment[p].when
  <2>1. PICK c : c = payment[p].id
    OBVIOUS
  <2>2. c \in Settlements /\ p \in members[c] /\ Before(payment[p], c)
    BY <1>5, <1>11, <2>1 DEF Aged, ReversalsAged
  <2>3. gateway[b].when \in Nat /\ gateway[c].when \in Nat /\ payment[p].when \in Nat
    BY <1>4, <1>5, <2>2, BoundsAssumption DEF GatewayRow, Stamps, Inv, TypeOK
  <2>4. CASE c = b
    BY <1>11, <2>2, <2>3, <2>4 DEF Before
  <2>5. CASE c # b
    <3>1. members[b] \cap members[c] # {}
      BY <1>2, <2>2
    <3>2. gateway[c].when < gateway[b].when
      BY <1>4, <1>11, <2>2, <2>5, <3>1 DEF Aged, LatestPaid
    <3>3. QED BY <2>2, <2>3, <3>2 DEF Before
  <2>6. QED BY <2>4, <2>5
<1>12. PagesFresh'
  <2>1. ASSUME page.word = "successful", payment[page.of].settlement = "reversed"
        PROVE  page.when > payment[page.of].when
    BY <1>6, <1>11, <2>1
  <2>2. QED BY <1>3, <1>7, <2>1 DEF Aged, PagesFresh
<1>13. QED BY <1>8, <1>9, <1>10, <1>12 DEF Aged

\* What Apply writes was read under the lease, if it has not lapsed.
LEMMA Applied ==
    ASSUME Inv, NEW w \in Workers, Apply(w)
    PROVE  \E page \in worker[w].page :
              /\ page \in Page /\ page.of \in Payments
              /\ \/ Write(page)
                 \/ UNCHANGED <<payment, entry>>
              /\ \E cursor \in Cursor : Save(w, cursor)
              /\ UNCHANGED <<clock, members, gateway, payouts, lapsed, faults>>
<1>1. PICK page \in worker[w].page :
         LET p      == page.of
             cursor == worker[w].cursor
             seen   == cursor.seen \cup {p}
         IN  /\ IF payment[p].status = "succeeded" /\ Acceptable(payment[p], page)
                  THEN Write(page)
                  ELSE UNCHANGED <<payment, entry>>
             /\ Save(w, IF seen = members[cursor.head]
                          THEN [cursor EXCEPT !.head = NoSettlement, !.seen = {}]
                          ELSE [cursor EXCEPT !.seen = seen])
             /\ UNCHANGED <<clock, members, gateway, payouts, lapsed, faults>>
  BY DEF Apply, Write
<1>2. page \in Page /\ page.of \in Payments /\ worker[w].cursor \in Cursor
  BY DEF Inv, TypeOK, Page
<1>3. PICK c : c = IF worker[w].cursor.seen \cup {page.of} = members[worker[w].cursor.head]
                     THEN [worker[w].cursor EXCEPT !.head = NoSettlement, !.seen = {}]
                     ELSE [worker[w].cursor EXCEPT !.seen = worker[w].cursor.seen \cup {page.of}]
  OBVIOUS
<1>4. c \in Cursor
  BY <1>2, <1>3 DEF Cursor
<1>5. Save(w, c)
  BY <1>1, <1>3
<1>6. QED BY <1>1, <1>2, <1>4, <1>5

\* The row an accepted answer leaves.
LEMMA Written ==
    ASSUME Inv, NEW page \in Page, Write(page)
    PROVE  /\ payment'[page.of].settlement = Normalize(page.word)
           /\ payment'[page.of].id = page.id
           /\ payment'[page.of].when = page.when
           /\ \A q \in Payments : q # page.of => payment'[q] = payment[q]
<1>1. PICK pay : pay = [status |-> "succeeded", settlement |-> Normalize(page.word),
                        id |-> page.id, at |-> SettledAt(payment[page.of], page),
                        when |-> page.when]
  OBVIOUS
<1>2. payment' = [payment EXCEPT ![page.of] = pay]
  BY <1>1 DEF Write
<1>3. payment \in [Payments -> PaymentRow] /\ page.of \in Payments
  BY DEF Inv, TypeOK, PaymentRow, Page
<1>4. /\ payment'[page.of] = pay
      /\ \A q \in Payments : q # page.of => payment'[q] = payment[q]
  BY <1>2, <1>3
<1>5. QED BY <1>1, <1>4

LEMMA ApplyAged == ASSUME Inv, Aged, NEW w \in Workers, Apply(w) PROVE Aged'
<1>1. PICK page \in worker[w].page :
         /\ page \in Page /\ page.of \in Payments
         /\ \/ Write(page)
            \/ UNCHANGED <<payment, entry>>
         /\ \E cursor \in Cursor : Save(w, cursor)
         /\ UNCHANGED <<clock, members, gateway, payouts, lapsed, faults>>
  BY Applied
<1>2. worker[w].step = "apply"
  BY DEF Apply
<1>3. CASE UNCHANGED <<payment, entry>>
  BY <1>1, <1>2, <1>3, ReturnAged
<1>4. CASE Write(page)
  <2>1. /\ Held'
        /\ worker'[w].page = {}
        /\ \A v \in Workers : v # w => worker'[v] = worker[v]
    BY <1>1, <1>2, ReturnHeld DEF Aged
  <2>2. LatestPaid' /\ PagesAged'
    BY <1>1, <2>1 DEF Aged, LatestPaid, PagesAged, Before
  <2>3. ~lapsed => \A v \in Workers : worker'[v].page = {}
    <3>1. ASSUME ~lapsed, NEW v \in Workers, v # w PROVE worker[v].page = {}
      BY <1>2, <3>1 DEF Aged, Held
    <3>2. QED BY <2>1, <3>1
  <2>4. PagesFresh'
    BY <1>1, <2>3 DEF PagesFresh
  <2>5. ReversalsAged'
    <3>1. ASSUME NEW p \in Payments, payment'[p].settlement = "reversed"
          PROVE  /\ payment'[p].id \in Settlements /\ p \in members[payment'[p].id]
                 /\ \/ payment'[p].when < gateway[payment'[p].id].when
                    \/ /\ payment'[p].when = gateway[payment'[p].id].when
                       /\ gateway[payment'[p].id].word = "reversed"
      <4>1. CASE p # page.of
        BY <1>1, <1>4, <3>1, <4>1, Written DEF Aged, ReversalsAged, Before
      <4>2. CASE p = page.of
        <5>1. Normalize(page.word) = "reversed" /\ payment'[p].id = page.id
              /\ payment'[p].when = page.when
          BY <1>1, <1>4, <3>1, <4>2, Written
        <5>2. page.word = "reversed" /\ page.id \in Settlements
          BY <1>1, <5>1, NormalizeStates DEF Page
        <5>3. Before(page, page.id) /\ page.of \in members[page.id]
          BY <5>2 DEF Aged, PagesAged, Inv, PagesTrue
        <5>4. QED BY <4>2, <5>1, <5>2, <5>3 DEF Before
      <4>3. QED BY <4>1, <4>2
    <3>2. QED BY <1>1, <3>1 DEF ReversalsAged, Before
  <2>6. QED BY <2>1, <2>2, <2>4, <2>5 DEF Aged
<1>5. QED BY <1>1, <1>3, <1>4

LEMMA CrashAged ==
    ASSUME Inv, Aged, NEW w \in Workers, Crash(w) PROVE Aged'
<1>1. worker' = [worker EXCEPT ![w] = Idle]
      /\ UNCHANGED <<clock, members, gateway, payment, job, lapsed>>
  BY DEF Crash
<1>2. /\ worker'[w] = Idle
      /\ \A v \in Workers : v # w => worker'[v] = worker[v]
  BY <1>1 DEF Inv, TypeOK
<1>3. Idle.page = {} /\ Idle.step = "idle"
  BY DEF Idle
<1>4. Held'
  BY <1>1, <1>2, <1>3 DEF Aged, Held
<1>5. \A v \in Workers : worker'[v].page \subseteq worker[v].page
  BY <1>2, <1>3
<1>6. QED BY <1>1, <1>4, <1>5, NewsKept DEF Aged

LEMMA InitAged == ASSUME Init PROVE Aged
<1>1. 0 <= clock
  BY DEF Init
<1>2. Held /\ PagesAged /\ PagesFresh
  BY IdleMemory DEF Init, Held, PagesAged, PagesFresh, Idle
<1>3. LatestPaid /\ ReversalsAged
  BY <1>1 DEF Init, LatestPaid, ReversalsAged
<1>4. QED BY <1>2, <1>3 DEF Aged

LEMMA NextAged == ASSUME Inv, Aged, [Next]_vars PROVE Aged'
<1>1. CASE UNCHANGED vars
  BY <1>1 DEF vars, Aged, Held, LatestPaid, PagesAged, ReversalsAged, PagesFresh, Before
<1>2. ASSUME NEW p \in Payments, Charge(p) PROVE Aged'
  BY <1>2, ChargeAged
<1>3. ASSUME NEW b \in Settlements,
             (\E word \in Waits : Announce(b, word)) \/ PayOut(b) \/ Reverse(b)
      PROVE  Aged'
  BY <1>3, AnnounceAged, PayOutAged, ReverseAged
<1>4. CASE Lapse
  BY <1>4, LapseAged
<1>5. ASSUME NEW w \in Workers, Claim(w) \/ Work(w) \/ Crash(w) PROVE Aged'
  BY <1>5, ClaimAged, FinishAged, ListAged, FetchAged, ApplyAged, CrashAged DEF Work
<1>6. ASSUME NEW w \in Workers, Fail(w) PROVE Aged'
  BY <1>6, ReturnAged DEF Fail
<1>7. QED BY <1>1, <1>2, <1>3, <1>4, <1>5, <1>6 DEF Next

\* While no lease lapsed, a worker that works holds the lease, and what it
\* holds in memory is newer than every reversal on record for its charge.
THEOREM NewsInOrder == Spec => []Aged
<1>1. Init => Aged
  BY InitAged
<1>2. Inv /\ Aged /\ [Next]_vars => Aged'
  BY NextAged
<1>3. QED BY <1>1, <1>2, Invariance, PTL DEF Spec

\* "A stale successful replay cannot erase a reversal"
\* (docs/SELLER_SETTLEMENTS.md:99), whenever every lease outlives its worker:
\* a recorded reversal gives way only to a payout made after it.
THEOREM ReversalsNotErased == Spec => ReversalsStick
<1>1. ASSUME Inv, Aged, [Next]_vars, ~lapsed, NEW p \in Payments PROVE NewerPayout(p)
  <2>1. CASE UNCHANGED payment
    BY <2>1 DEF NewerPayout
  <2>2. ASSUME NEW q \in Payments, Charge(q) PROVE NewerPayout(p)
    <3>1. payment \in [Payments -> PaymentRow]
      BY <1>1 DEF Inv, TypeOK, PaymentRow
    <3>2. payment' = [payment EXCEPT ![q].status = "succeeded"]
      BY <2>2 DEF Charge
    <3>3. payment'[p].settlement = payment[p].settlement
      BY <3>1, <3>2 DEF PaymentRow
    <3>4. QED BY <3>3 DEF NewerPayout
  <2>3. ASSUME NEW w \in Workers, Apply(w) PROVE NewerPayout(p)
    <3>1. PICK page \in worker[w].page :
             /\ page \in Page /\ page.of \in Payments
             /\ Write(page) \/ UNCHANGED <<payment, entry>>
      BY <1>1, <2>3, Applied
    <3>2. CASE UNCHANGED <<payment, entry>> \/ (Write(page) /\ p # page.of)
      BY <1>1, <3>1, <3>2, Written DEF NewerPayout
    <3>3. CASE Write(page) /\ p = page.of
      <4>1. payment'[p].settlement = Normalize(page.word) /\ payment'[p].when = page.when
        BY <1>1, <3>1, <3>3, Written
      <4>2. payment'[p].settlement = "settled" => page.word = "successful"
        BY <3>1, <4>1, NormalizeStates DEF Page
      <4>3. QED BY <1>1, <3>3, <4>1, <4>2 DEF NewerPayout, Aged, PagesFresh
    <3>4. QED BY <3>1, <3>2, <3>3
  <2>4. ASSUME NEW b \in Settlements,
               (\E word \in Waits : Announce(b, word)) \/ PayOut(b) \/ Reverse(b)
        PROVE  UNCHANGED payment
    BY <2>4 DEF Announce, PayOut, Reverse, local
  <2>5. ASSUME NEW w \in Workers,
               Claim(w) \/ Finish(w) \/ List(w) \/ Fetch(w) \/ Fail(w) \/ Crash(w)
        PROVE  UNCHANGED payment
    BY <2>5 DEF Claim, Finish, List, Fetch, Fail, Crash
  <2>6. Lapse \/ UNCHANGED vars => UNCHANGED payment
    BY DEF Lapse, vars
  <2>7. QED BY <1>1, <2>1, <2>2, <2>3, <2>4, <2>5, <2>6 DEF Next, Work
<1>2. Inv /\ Aged /\ [Next]_vars => [~lapsed => \A p \in Payments : NewerPayout(p)]_vars
  BY <1>1
<1>3. QED BY <1>2, Invariance, NewsInOrder, PTL DEF Spec, ReversalsStick

\* What is on record is not undone by an older answer: payouts and reversals
\* never turn into holds, and reversals yield only to newer payouts.
THEOREM RecordsAreNotUndone == Spec => RecordsStick
BY PayoutsNeverDowngraded, ReversalsNotErased, PTL DEF RecordsStick
=============================================================================
