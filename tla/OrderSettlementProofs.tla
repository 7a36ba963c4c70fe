------------------------ MODULE OrderSettlementProofs ------------------------
(***************************************************************************)
(* Proofs about OrderSettlement, for any number of orders, attempts,       *)
(* charges, concurrent webhooks, confirmations and faults.                 *)
(*                                                                         *)
(* What settles an order once is that a handler which found it payable     *)
(* holds its lock, and that nothing it found changes before it commits     *)
(* (HandlerTrue).  What makes processed reliable is that a handler that    *)
(* will write it knows of a charge that has paid its order.                *)
(***************************************************************************)
EXTENDS OrderSettlement, TLAPS

\* A charge or a payment is of an attempt of an order, announced when made.
ChargesMade ==
    /\ \A t \in Charges : charge[t].status # "none" =>
         charge[t].ref \in Refs /\ orderOf[charge[t].ref] \in Orders
    /\ \A e \in sent : charge[e.charge].status # "none"
    /\ \A r \in Refs : payment[r].status = "succeeded" => orderOf[r] \in Orders

PaidWith(t) ==
    /\ charge[t].status # "none"
    /\ order[orderOf[charge[t].ref]].status # "Pending"
    /\ order[orderOf[charge[t].ref]].charge = t

\* What a handler relies on.
HandlerTrue(h) ==
    /\ handler[h].step # "idle" =>
         handler[h].charge \in Charges /\ charge[handler[h].charge].status # "none"
    /\ handler[h].step \in {"settle", "commit", "notify"} =>
         charge[handler[h].charge].status = "successful"
    /\ handler[h].step = "commit" => order[OrderAt(h)].lock = h /\ Payable(h)
    /\ handler[h].step = "notify" => PaidWith(handler[h].charge)
    /\ handler[h].out = "processed" =>
         handler[h].charge \in Charges /\ PaidWith(handler[h].charge)

HandlersTrue == \A h \in Handlers : HandlerTrue(h)

EventsTrue == \A t \in Charges : event[t] = "processed" => PaidWith(t)

Inv == /\ TypeOK
       /\ ChargesMade
       /\ HandlersTrue
       /\ EventsTrue
       /\ SettledOnce

\* The steps that touch the gateway, and those of a handler that change
\* neither an order nor a payment nor the gateway.
Outside ==
    \/ \E t \in Charges, r \in Refs : Charge(t, r)
    \/ \E t \in Charges : AnnounceEarly(t)
    \/ \E t \in Charges, full \in BOOLEAN : Conclude(t, "successful", full)
    \/ \E t \in Charges : Conclude(t, "failed", FALSE)
Quiet(h) ==
    \/ \E e \in Event : Receive(h, e)
    \/ \E o \in Orders, t \in Charges \cup {Nothing}, r \in Refs \cup {Nothing} :
          Verify(h, o, t, r)
    \/ LookUp(h) \/ Outage(h) \/ NotifyFails(h) \/ Finish(h)
Loud(h) == Check(h) \/ Commit(h) \/ Rollback(h) \/ Notify(h) \/ Crash(h)

-----------------------------------------------------------------------------
(* Steps by what they touch *)

LEMMA Cases == Next => Outside \/ \E h \in Handlers : Quiet(h) \/ Loud(h)
<1>1. ASSUME NEW h \in Confirms, NEW o \in Orders, NEW t \in Charges \cup {Nothing},
             NEW r \in Refs \cup {Nothing}, Verify(h, o, t, r) \/ Reconcile(h, o, t, r)
      PROVE  h \in Handlers /\ Quiet(h)
  BY <1>1 DEF Reconcile, Quiet, Handlers
<1>2. ASSUME NEW h \in Hooks, NEW e \in Event, Receive(h, e)
      PROVE  h \in Handlers /\ Quiet(h)
  BY <1>2 DEF Quiet, Handlers
<1>3. ASSUME NEW h \in Handlers,
             Serve(h) \/ Outage(h) \/ Rollback(h) \/ NotifyFails(h) \/ Crash(h)
      PROVE  Quiet(h) \/ Loud(h)
  BY <1>3 DEF Serve, Quiet, Loud
<1>4. QED BY <1>1, <1>2, <1>3 DEF Next, Outside

\* What the gateway once said of a charge stays true.
LEMMA ChargesStay ==
    ASSUME TypeOK, Next
    PROVE  /\ orderOf' = orderOf
           /\ \A t \in Charges : charge[t].status # "none" =>
                /\ charge'[t].status # "none" /\ charge'[t].ref = charge[t].ref
                /\ charge[t].status = "successful" => charge'[t] = charge[t]
<1>1. CASE Outside
  <2>1. ASSUME NEW t \in Charges, NEW r \in Refs, Charge(t, r)
        PROVE  /\ orderOf' = orderOf
               /\ \A s \in Charges : charge[s].status # "none" => charge'[s] = charge[s]
    BY <2>1 DEF Charge, TypeOK
  <2>2. ASSUME NEW t \in Charges, NEW result \in {"successful", "failed"},
               NEW full \in BOOLEAN, Conclude(t, result, full)
        PROVE  /\ orderOf' = orderOf
               /\ \A s \in Charges :
                    /\ charge'[s].ref = charge[s].ref
                    /\ charge[s].status # "none" => charge'[s].status # "none"
                    /\ charge[s].status = "successful" => charge'[s] = charge[s]
    BY <2>2 DEF Conclude, TypeOK, ChargeRow
  <2>3. ASSUME NEW t \in Charges, AnnounceEarly(t)
        PROVE  orderOf' = orderOf /\ charge' = charge
    BY <2>3 DEF AnnounceEarly
  <2>4. QED BY <1>1, <2>1, <2>2, <2>3 DEF Outside
<1>2. ASSUME NEW h \in Handlers, Quiet(h) \/ Loud(h)
      PROVE  orderOf' = orderOf /\ charge' = charge
  BY <1>2 DEF Quiet, Loud, Receive, Verify, LookUp, Outage, NotifyFails, Finish,
              Check, Commit, Rollback, Notify, Crash
<1>3. QED BY <1>1, <1>2, Cases

\* A handler changes no task but its own.
LEMMA OneHandler ==
    ASSUME TypeOK, NEW h \in Handlers, Quiet(h) \/ Loud(h)
    PROVE  \A g \in Handlers \ {h} : handler'[g] = handler[g]
BY DEF Quiet, Loud, Receive, Verify, LookUp, Outage, NotifyFails, Finish,
       Check, Commit, Rollback, Notify, Crash, TypeOK

LEMMA OutsideKeeps ==
    ASSUME Outside
    PROVE  UNCHANGED <<order, payment, event, handler, orderOf, faults, answered>>
BY DEF Outside, Charge, AnnounceEarly, Conclude

LEMMA QuietKeeps ==
    ASSUME NEW h \in Handlers, Quiet(h)
    PROVE  UNCHANGED <<order, payment, charge, sent, orderOf>>
BY DEF Quiet, Receive, Verify, LookUp, Outage, NotifyFails, Finish

-----------------------------------------------------------------------------
(* Types *)

LEMMA IdleTask == Idle \in Task
BY DEF Idle, Task, EventStates

\* The rows and the task of a handler, field by field.
LEMMA Rows ==
    ASSUME TypeOK
    PROVE  /\ \A o \in Orders : order[o] \in OrderRow
           /\ \A h \in Handlers : handler[h] \in Task
           /\ \A h \in Handlers : Refused(h) \in Task
           /\ \A h \in Handlers, out \in EventStates : Done(h, out) \in Task
<1>1. ASSUME NEW h \in Handlers, NEW out \in EventStates
      PROVE  [handler[h] EXCEPT !.step = "finish", !.out = out] \in Task
  BY DEF TypeOK, Task
<1>2. "failed" \in EventStates
  BY DEF EventStates
<1>3. QED BY <1>1, <1>2, IdleTask DEF TypeOK, Refused, Done

\* A refused or finished request is at its end.
LEMMA Ends ==
    ASSUME TypeOK, NEW h \in Handlers, NEW out \in EventStates
    PROVE  /\ Idle.step = "idle" /\ Idle.out = "none"
           /\ Refused(h).step \in {"finish", "idle"} /\ Done(h, out).step \in {"finish", "idle"}
           /\ Refused(h).out # "processed" /\ Done(h, out).out \in {out, "none"}
           /\ Refused(h).step = "finish" => Refused(h).charge = handler[h].charge
           /\ Done(h, out).step = "finish" => Done(h, out).charge = handler[h].charge
<1>1. handler[h] \in Task
  BY DEF TypeOK
<1>2. Idle.step = "idle" /\ Idle.out = "none"
  BY DEF Idle
<1>3. CASE h \in Hooks
  BY <1>1, <1>2, <1>3 DEF Refused, Done, Task
<1>4. CASE h \notin Hooks
  BY <1>2, <1>4 DEF Refused, Done
<1>5. QED BY <1>3, <1>4

LEMMA ReleasedRows ==
    ASSUME TypeOK, NEW h \in Handlers
    PROVE  /\ Released(h) \in [Orders -> OrderRow]
           /\ \A o \in Orders :
                /\ Released(h)[o] = [order[o] EXCEPT !.lock = Released(h)[o].lock]
                /\ \A g \in Handlers \ {h} : order[o].lock = g => Released(h)[o].lock = g
<1>1. ASSUME NEW o \in Orders
      PROVE  /\ Released(h)[o] \in OrderRow
             /\ Released(h)[o] = [order[o] EXCEPT !.lock = Released(h)[o].lock]
             /\ \A g \in Handlers \ {h} : order[o].lock = g => Released(h)[o].lock = g
  <2>1. Released(h)[o] = IF order[o].lock = h THEN [order[o] EXCEPT !.lock = Nothing]
                         ELSE order[o]
    BY DEF Released
  <2>2. order[o] \in OrderRow
    BY DEF TypeOK
  <2>3. QED BY <2>1, <2>2 DEF OrderRow
<1>2. QED BY <1>1 DEF Released

\* Settling leaves an order, sold once more at most.
LEMMA PaidRow ==
    ASSUME NEW row \in OrderRow, NEW t \in Charges, NEW r \in Refs
    PROVE  /\ Paid(row, t, r) \in OrderRow
           /\ Paid(row, t, r).status = "Paid"
           /\ row.status # "Pending" =>
                Paid(row, t, r) = [row EXCEPT !.lock = Nothing]
           /\ row.status = "Pending" =>
                /\ Paid(row, t, r).ref = r /\ Paid(row, t, r).charge = t
                /\ Paid(row, t, r).sold = row.sold + 1
                /\ Paid(row, t, r).ledger /\ Paid(row, t, r).job
                /\ Paid(row, t, r).xp # "reserved"
<1>1. CASE row.status # "Pending"
  BY <1>1 DEF Paid, OrderRow
<1>2. CASE row.status = "Pending"
  <2>1. row = [status |-> "Pending", ref |-> row.ref, charge |-> row.charge,
               sold |-> row.sold, ledger |-> row.ledger, job |-> row.job,
               xp |-> row.xp, told |-> row.told, lock |-> row.lock]
    BY <1>2 DEF OrderRow
  <2>2. Paid(row, t, r) =
           [status |-> "Paid", ref |-> r, charge |-> t,
            sold |-> row.sold + 1, ledger |-> TRUE, job |-> TRUE,
            xp |-> IF row.xp = "reserved" THEN "consumed" ELSE row.xp,
            told |-> row.told, lock |-> Nothing]
    BY <1>2, <2>1 DEF Paid
  <2>3. /\ row.sold + 1 \in Nat /\ row.told \in BOOLEAN
        /\ (IF row.xp = "reserved" THEN "consumed" ELSE row.xp) \in {"none", "consumed"}
    BY DEF OrderRow
  <2>4. QED BY <1>2, <2>2, <2>3 DEF OrderRow
<1>3. QED BY <1>1, <1>2

LEMMA TypeKept == ASSUME Inv, Next PROVE TypeOK'
<1> USE DEF Inv
<1>1. CASE Outside
  <2>1. ASSUME NEW t \in Charges, NEW r \in Refs, Charge(t, r)
        PROVE  TypeOK'
    <3>1. [status |-> "pending", ref |-> r, full |-> FALSE] \in ChargeRow
      BY DEF ChargeRow
    <3>2. charge' \in [Charges -> ChargeRow]
      BY <2>1, <3>1 DEF Charge, TypeOK
    <3>3. QED BY <2>1, <3>2 DEF Charge, TypeOK
  <2>2. ASSUME NEW t \in Charges, NEW result \in {"successful", "failed"},
               NEW full \in BOOLEAN, Conclude(t, result, full)
        PROVE  TypeOK'
    <3>1. [charge[t] EXCEPT !.status = result, !.full = full] \in ChargeRow
      BY DEF TypeOK, ChargeRow
    <3>2. charge' \in [Charges -> ChargeRow]
      <4>1. charge' = [charge EXCEPT ![t] = [charge[t] EXCEPT !.status = result,
                                                              !.full = full]]
        BY <2>2 DEF Conclude, TypeOK
      <4>2. QED BY <3>1, <4>1 DEF TypeOK
    <3>3. [charge |-> t, success |-> result = "successful"] \in Event
      BY DEF Event
    <3>4. sent' \subseteq Event
      BY <2>2, <3>3 DEF Conclude, TypeOK
    <3>5. QED BY <2>2, <3>2, <3>4 DEF Conclude, TypeOK
  <2>3. ASSUME NEW t \in Charges, AnnounceEarly(t)
        PROVE  TypeOK'
    <3>1. [charge |-> t, success |-> FALSE] \in Event
      BY DEF Event
    <3>2. QED BY <2>3, <3>1 DEF AnnounceEarly, TypeOK
  <2>4. QED BY <1>1, <2>1, <2>2, <2>3, ZenonT(30) DEF Outside
<1>2. ASSUME NEW h \in Handlers, Quiet(h)
      PROVE  TypeOK'
  <2>1. ASSUME NEW e \in Event, Receive(h, e)
        PROVE  TypeOK'
    <3>1. e.charge \in Charges /\ e.success \in BOOLEAN
      BY DEF Event
    <3>2. answered' \subseteq Charges
      BY <2>1, <3>1 DEF Receive, Answered, TypeOK
    <3>3. event' \in [Charges -> EventStates]
      BY <2>1, <3>1 DEF Receive, TypeOK, EventStates
    <3>4. [Idle EXCEPT !.charge = e.charge, !.success = e.success,
                       !.step = IF e.success THEN "verify" ELSE "finish",
                       !.out = "ignored"] \in Task
      BY <3>1 DEF Idle, Task, EventStates
    <3>5. handler' \in [Handlers -> Task]
      BY <2>1, <3>4 DEF Receive, TypeOK
    <3>6. QED BY <2>1, <3>2, <3>3, <3>5 DEF Receive, TypeOK
  <2>2. ASSUME NEW o \in Orders, NEW t \in Charges \cup {Nothing},
               NEW r \in Refs \cup {Nothing}, Verify(h, o, t, r)
        PROVE  TypeOK'
    <3>1. PICK found \in Found(t, IF r # Nothing THEN r ELSE order[o].ref) :
             /\ charge[found].status = "successful"
             /\ handler' = [handler EXCEPT ![h] = [Idle EXCEPT !.step = "settle",
                                                             !.charge = found]]
      BY <2>2 DEF Verify
    <3>2. found \in Charges \cup {Nothing}
      BY DEF Found
    <3>3. [Idle EXCEPT !.step = "settle", !.charge = found] \in Task
      BY <3>2 DEF Idle, Task, EventStates
    <3>4. QED BY <2>2, <3>1, <3>3 DEF Verify, TypeOK
  <2>3. CASE LookUp(h)
    <3>1. [handler[h] EXCEPT !.step = "settle"] \in Task
      BY DEF TypeOK, Task
    <3>2. Done(h, "ignored") \in Task
      BY Rows DEF EventStates
    <3>3. QED BY <2>3, <3>1, <3>2 DEF LookUp, TypeOK
  <2>4. CASE Outage(h)
    BY <2>4, Rows, BoundsAssumption DEF Outage, Fault, TypeOK
  <2>5. CASE NotifyFails(h)
    BY <2>5, Rows, BoundsAssumption DEF NotifyFails, Fault, TypeOK
  <2>6. CASE Finish(h)
    <3>1. handler[h].charge \in Charges /\ handler[h].out \in EventStates
      BY <2>6 DEF Finish, HandlersTrue, HandlerTrue, TypeOK, Task
    <3>2. answered' \subseteq Charges
      BY <2>6, <3>1 DEF Finish, Answered, TypeOK
    <3>3. event' \in [Charges -> EventStates]
      BY <2>6, <3>1 DEF Finish, TypeOK
    <3>4. faults' \in 0 .. MaxFaults
      BY <2>6, BoundsAssumption DEF Finish, Fault, TypeOK
    <3>5. QED BY <2>6, <3>2, <3>3, <3>4, IdleTask DEF Finish, TypeOK
  <2>7. QED BY <1>2, <2>1, <2>2, <2>3, <2>4, <2>5, <2>6 DEF Quiet
<1>3. ASSUME NEW h \in Handlers, Loud(h)
      PROVE  TypeOK'
  <2>1. handler[h].step \in {"settle", "commit", "notify"} =>
           /\ handler[h].charge \in Charges /\ RefAt(h) \in Refs /\ OrderAt(h) \in Orders
    BY DEF HandlersTrue, HandlerTrue, ChargesMade, RefAt, OrderAt
  <2>2. CASE Check(h)
    <3>0. order[OrderAt(h)] \in OrderRow
      BY <2>1, <2>2 DEF Check, TypeOK
    <3>1. [order[OrderAt(h)] EXCEPT !.lock = h] \in OrderRow
      BY <3>0 DEF OrderRow
    <3>2. order' \in [Orders -> OrderRow]
      BY <2>2, <3>1 DEF Check, TypeOK
    <3>3. [handler[h] EXCEPT !.step = "commit"] \in Task
      BY DEF TypeOK, Task
    <3>4. handler' \in [Handlers -> Task]
      BY <2>2, <3>3, Rows DEF Check, TypeOK
    <3>5. QED BY <2>2, <3>2, <3>4 DEF Check, TypeOK
  <2>3. CASE Commit(h)
    <3>1. order' \in [Orders -> OrderRow]
      BY <2>1, <2>3, Rows, PaidRow DEF Commit, TypeOK
    <3>2. payment' \in [Refs -> PaymentRow]
      BY <2>1, <2>3 DEF Commit, TypeOK, PaymentRow
    <3>3. [handler[h] EXCEPT !.step = "notify"] \in Task
      BY DEF TypeOK, Task
    <3>4. handler' \in [Handlers -> Task]
      BY <2>3, <3>3, Rows DEF Commit, TypeOK
    <3>5. faults' \in 0 .. MaxFaults
      BY <2>3, BoundsAssumption DEF Commit, Fault, TypeOK
    <3>6. QED BY <2>3, <3>1, <3>2, <3>4, <3>5 DEF Commit, TypeOK
  <2>4. CASE Rollback(h)
    <3>1. order' \in [Orders -> OrderRow]
      BY <2>4, ReleasedRows DEF Rollback
    <3>2. handler' \in [Handlers -> Task]
      BY <2>4, Rows DEF Rollback, TypeOK
    <3>3. faults' \in 0 .. MaxFaults
      BY <2>4, BoundsAssumption DEF Rollback, Fault, TypeOK
    <3>4. QED BY <2>4, <3>1, <3>2, <3>3 DEF Rollback, TypeOK
  <2>5. CASE Notify(h)
    <3>0. order[OrderAt(h)] \in OrderRow
      BY <2>1, <2>5 DEF Notify, TypeOK
    <3>1. [order[OrderAt(h)] EXCEPT !.told = TRUE] \in OrderRow
      BY <3>0 DEF OrderRow
    <3>2. Done(h, "processed") \in Task
      BY Rows DEF EventStates
    <3>3. faults' \in 0 .. MaxFaults
      BY <2>5, BoundsAssumption DEF Notify, Fault, TypeOK
    <3>4. QED BY <2>5, <3>1, <3>2, <3>3 DEF Notify, TypeOK
  <2>6. CASE Crash(h)
    <3>1. order' \in [Orders -> OrderRow]
      BY <2>6, ReleasedRows DEF Crash
    <3>2. handler' \in [Handlers -> Task]
      BY <2>6, IdleTask DEF Crash, TypeOK
    <3>3. faults' \in 0 .. MaxFaults
      BY <2>6, BoundsAssumption DEF Crash, Fault, TypeOK
    <3>4. QED BY <2>6, <3>1, <3>2, <3>3 DEF Crash, TypeOK
  <2>7. QED BY <1>3, <2>2, <2>3, <2>4, <2>5, <2>6 DEF Loud
<1>4. QED BY <1>1, <1>2, <1>3, Cases

-----------------------------------------------------------------------------
(* Orders and payments *)

\* A handler past verification settles a charge of an order.
LEMMA Settling ==
    ASSUME Inv, NEW h \in Handlers, handler[h].step \in {"settle", "commit", "notify"}
    PROVE  /\ handler[h].charge \in Charges /\ charge[handler[h].charge].status = "successful"
           /\ RefAt(h) \in Refs /\ OrderAt(h) \in Orders
           /\ RefAt(h) = charge[handler[h].charge].ref /\ orderOf[RefAt(h)] = OrderAt(h)
BY DEF Inv, HandlersTrue, HandlerTrue, ChargesMade, RefAt, OrderAt

Kept(o) ==
    /\ order'[o].status = order[o].status
    /\ order'[o].ref = order[o].ref /\ order'[o].charge = order[o].charge
    /\ order'[o].sold = order[o].sold
    /\ order'[o].ledger = order[o].ledger /\ order'[o].job = order[o].job
    /\ order'[o].xp = order[o].xp
    /\ order[o].told => order'[o].told
    /\ order[o].status = "Pending" => order'[o].told = order[o].told

\* Only the commit that pays an order changes what it was paid with.
LEMMA OrdersKept ==
    ASSUME Inv, Next, NEW o \in Orders
    PROVE  \/ Kept(o)
           \/ \E h \in Handlers : Commit(h) /\ OrderAt(h) = o /\ order[o].status = "Pending"
<1>0. order[o] \in OrderRow /\ TypeOK
  BY Rows DEF Inv
<1>1. ASSUME order' = order
      PROVE  Kept(o)
  BY <1>1 DEF Kept
<1>2. ASSUME NEW h \in Handlers, Check(h)
      PROVE  Kept(o)
  <2>1. CASE order' = [order EXCEPT ![OrderAt(h)].lock = h]
    BY <1>0, <2>1 DEF Kept, OrderRow, TypeOK
  <2>2. QED BY <1>1, <1>2, <2>1 DEF Check, Kept
<1>3. ASSUME NEW h \in Handlers, Rollback(h) \/ Crash(h)
      PROVE  Kept(o)
  <2>1. order'[o] = [order[o] EXCEPT !.lock = Released(h)[o].lock]
    BY <1>0, <1>3, ReleasedRows DEF Rollback, Crash
  <2>2. QED BY <1>0, <2>1 DEF Kept, OrderRow
<1>4. ASSUME NEW h \in Handlers, Notify(h)
      PROVE  Kept(o)
  <2>1. order[OrderAt(h)].status # "Pending"
    BY <1>4 DEF Notify, Inv, HandlersTrue, HandlerTrue, PaidWith, OrderAt
  <2>2. order' = order \/ order' = [order EXCEPT ![OrderAt(h)].told = TRUE]
    BY <1>4 DEF Notify
  <2>3. CASE o = OrderAt(h) /\ order' # order
    <3>1. order'[o] = [order[o] EXCEPT !.told = TRUE]
      BY <1>0, <2>2, <2>3 DEF TypeOK
    <3>2. QED BY <1>0, <2>1, <2>3, <3>1 DEF Kept, OrderRow
  <2>4. CASE o # OrderAt(h) \/ order' = order
    BY <1>0, <2>2, <2>4 DEF Kept, TypeOK
  <2>5. QED BY <2>3, <2>4
<1>5. ASSUME NEW h \in Handlers, Commit(h),
             OrderAt(h) # o \/ order[o].status # "Pending"
      PROVE  Kept(o)
  <2>1. order' = [order EXCEPT ![OrderAt(h)] = Paid(@, handler[h].charge, RefAt(h))]
    BY <1>5 DEF Commit
  <2>2. CASE OrderAt(h) = o
    <3>1. handler[h].charge \in Charges /\ RefAt(h) \in Refs
      BY <1>5, Settling DEF Commit
    <3>2. order'[o] = Paid(order[o], handler[h].charge, RefAt(h))
      BY <1>0, <2>1, <2>2 DEF TypeOK
    <3>3. order'[o] = [order[o] EXCEPT !.lock = Nothing]
      BY <1>0, <1>5, <2>2, <3>1, <3>2, PaidRow
    <3>4. QED BY <1>0, <3>3 DEF Kept, OrderRow
  <2>3. CASE OrderAt(h) # o
    BY <1>0, <2>1, <2>3 DEF Kept, TypeOK
  <2>4. QED BY <2>2, <2>3
<1>6. CASE Outside
  BY <1>1, <1>6, OutsideKeeps
<1>7. ASSUME NEW h \in Handlers, Quiet(h)
      PROVE  Kept(o)
  BY <1>1, <1>7, QuietKeeps
<1>8. QED BY <1>2, <1>3, <1>4, <1>5, <1>6, <1>7, Cases DEF Loud

\* A payment is written by a commit only.
LEMMA PaymentsKept ==
    ASSUME Inv, Next
    PROVE  payment' = payment \/ \E h \in Handlers : Commit(h)
<1>1. ASSUME NEW h \in Handlers, Loud(h)
      PROVE  payment' = payment \/ Commit(h)
  BY <1>1 DEF Loud, Check, Rollback, Notify, Crash
<1>2. QED BY <1>1, Cases, OutsideKeeps, QuietKeeps

\* An order paid with a charge remains so.
LEMMA PaidStays ==
    ASSUME Inv, Next, NEW t \in Charges, PaidWith(t)
    PROVE  PaidWith(t)'
<1>1. charge[t].status # "none" /\ charge[t].ref \in Refs /\ orderOf[charge[t].ref] \in Orders
  BY DEF PaidWith, Inv, ChargesMade
<1>2. orderOf' = orderOf /\ charge'[t].status # "none" /\ charge'[t].ref = charge[t].ref
  BY <1>1, ChargesStay DEF Inv
<1>3. PICK o \in Orders : o = orderOf[charge[t].ref]
  BY <1>1
<1>4. order[o].status # "Pending" /\ order[o].charge = t
  BY <1>3 DEF PaidWith
<1>5. Kept(o)
  BY <1>4, OrdersKept
<1>6. orderOf'[charge'[t].ref] = o
  BY <1>2, <1>3
<1>7. QED BY <1>2, <1>4, <1>5, <1>6 DEF Kept, PaidWith

-----------------------------------------------------------------------------
(* What a commit brings about *)

LEMMA CommitSettles ==
    ASSUME Inv, NEW h \in Handlers, Commit(h),
           NEW o \in Orders, NEW t \in Charges, NEW r \in Refs,
           o = OrderAt(h), t = handler[h].charge, r = RefAt(h)
    PROVE  /\ order'[o].status = "Paid" /\ order'[o].charge = t /\ order'[o].ref = r
           /\ PaidBy(o, order[o], t)'
           /\ order[o].status # "Pending" =>
                payment' = payment /\ order[o].charge = t /\ order[o].ref = r
           /\ \A s \in Refs \ {r} : payment'[s] = payment[s]
<1>1. charge[t].status = "successful" /\ charge[t].ref = r /\ orderOf[r] = o
  BY Settling DEF Commit
<1>2. Payable(h)
  BY DEF Commit, Inv, HandlersTrue, HandlerTrue
<1>3. charge[t].full
  BY <1>2 DEF Payable
<1>4. /\ order' = [order EXCEPT ![o] = Paid(order[o], t, r)]
      /\ payment' = [payment EXCEPT ![r] = [status |-> "succeeded", charge |-> t]]
      /\ charge' = charge /\ orderOf' = orderOf
  BY DEF Commit, Inv, TypeOK
<1>5. /\ order'[o] = Paid(order[o], t, r)
      /\ payment'[r] = [status |-> "succeeded", charge |-> t]
      /\ \A s \in Refs \ {r} : payment'[s] = payment[s]
  BY <1>4 DEF Inv, TypeOK
<1>6. order[o] \in OrderRow
  BY Rows DEF Inv
<1>7. CASE order[o].status = "Pending"
  <2>1. order[o].sold = 0
    BY <1>7 DEF Inv, SettledOnce, Untouched
  <2>2. /\ order'[o].status = "Paid" /\ order'[o].ref = r /\ order'[o].charge = t
        /\ order'[o].sold = 1 /\ order'[o].ledger /\ order'[o].job
        /\ order'[o].xp # "reserved"
    BY <1>5, <1>6, <1>7, <2>1, PaidRow
  <2>3. PaidBy(o, order[o], t)'
    BY <1>1, <1>3, <1>4, <1>5, <2>2 DEF PaidBy
  <2>4. QED BY <1>5, <1>7, <2>2, <2>3
<1>8. CASE order[o].status # "Pending"
  <2>1. order[o].charge # Nothing /\ PaidBy(o, order[o], order[o].charge)
    BY <1>8 DEF Inv, SettledOnce
  <2>2. order[o].ref = r
    BY <1>2, <1>8 DEF Payable
  <2>3. order[o].charge = t
    BY <1>2, <2>1, <2>2 DEF Payable, PaidBy
  <2>4. payment[r] = [status |-> "succeeded", charge |-> t]
    BY <2>1, <2>2, <2>3 DEF PaidBy
  <2>5. payment' = payment
    BY <1>4, <2>4 DEF Inv, TypeOK
  <2>6. order'[o] = [order[o] EXCEPT !.lock = Nothing]
    BY <1>5, <1>6, <1>8, PaidRow
  <2>7. /\ order[o].sold = 1 /\ order[o].ledger /\ order[o].job
        /\ order[o].xp # "reserved"
    BY <2>1 DEF PaidBy
  <2>8. /\ order'[o].status = "Paid" /\ order'[o].ref = r /\ order'[o].charge = t
        /\ order'[o].sold = 1 /\ order'[o].ledger /\ order'[o].job
        /\ order'[o].xp # "reserved"
    BY <1>6, <1>8, <2>2, <2>3, <2>6, <2>7 DEF OrderRow
  <2>9. PaidBy(o, order[o], t)'
    BY <1>1, <1>3, <1>4, <1>5, <2>8 DEF PaidBy
  <2>10. QED BY <1>5, <2>2, <2>3, <2>5, <2>8, <2>9
<1>9. QED BY <1>7, <1>8

LEMMA SettledKept == ASSUME Inv, Next PROVE SettledOnce'
<1>1. ASSUME NEW o \in Orders, order[o].status = "Pending", Kept(o)
      PROVE  order'[o].status = "Pending" /\ Untouched(order[o])'
  <2>1. Untouched(order[o])
    BY <1>1 DEF Inv, SettledOnce
  <2>2. QED BY <1>1, <2>1 DEF Kept, Untouched
<1>2. ASSUME NEW h \in Handlers, Commit(h), NEW o \in Orders, o = OrderAt(h)
      PROVE  /\ order'[o].status = "Paid" /\ order'[o].charge # Nothing
             /\ PaidBy(o, order[o], order[o].charge)'
  <2>1. PICK t \in Charges, r \in Refs : t = handler[h].charge /\ r = RefAt(h)
    BY <1>2, Settling DEF Commit
  <2>2. /\ order'[o].status = "Paid" /\ order'[o].charge = t
        /\ PaidBy(o, order[o], t)'
    BY <1>2, <2>1, CommitSettles
  <2>3. QED BY <2>2, NothingAssumption DEF PaidBy
<1>3. ASSUME NEW o \in Orders, order[o].status # "Pending"
      PROVE  /\ order'[o].status # "Pending" /\ order'[o].charge # Nothing
             /\ PaidBy(o, order[o], order[o].charge)'
  <2>1. Kept(o)
    BY <1>3, OrdersKept
  <2>2. order[o].charge # Nothing /\ PaidBy(o, order[o], order[o].charge)
    BY <1>3 DEF Inv, SettledOnce
  <2>3. order[o] \in OrderRow /\ TypeOK
    BY Rows DEF Inv
  <2>4. order[o].charge \in Charges
    BY <2>2, <2>3 DEF OrderRow
  <2>5. charge'[order[o].charge] = charge[order[o].charge] /\ orderOf' = orderOf
    BY <2>2, <2>3, <2>4, ChargesStay DEF PaidBy
  <2>6. payment'[order[o].ref] = payment[order[o].ref]
    <3>1. ASSUME NEW h \in Handlers, Commit(h)
          PROVE  payment'[order[o].ref] = payment[order[o].ref]
      <4>1. /\ RefAt(h) \in Refs /\ orderOf[RefAt(h)] = OrderAt(h)
            /\ OrderAt(h) \in Orders /\ handler[h].charge \in Charges
        BY <3>1, Settling DEF Commit
      <4>2. CASE RefAt(h) = order[o].ref
        <5>1. OrderAt(h) = o
          BY <2>2, <4>1, <4>2 DEF PaidBy
        <5>2. payment' = payment
          BY <1>3, <3>1, <4>1, <5>1, CommitSettles
        <5>3. QED BY <5>2
      <4>3. CASE RefAt(h) # order[o].ref
        <5>1. order[o].ref \in Refs
          BY <2>2, <2>4 DEF Inv, ChargesMade, PaidBy
        <5>2. QED BY <3>1, <4>1, <4>3, <5>1, CommitSettles
      <4>4. QED BY <4>2, <4>3
    <3>2. QED BY <3>1, PaymentsKept
  <2>7. /\ order'[o].charge = order[o].charge /\ order'[o].ref = order[o].ref
        /\ order'[o].sold = order[o].sold /\ order'[o].ledger = order[o].ledger
        /\ order'[o].job = order[o].job /\ order'[o].xp = order[o].xp
        /\ order'[o].status = order[o].status
    BY <2>1 DEF Kept
  <2>8. QED BY <1>3, <2>2, <2>5, <2>6, <2>7 DEF PaidBy
<1>4. ASSUME NEW r \in Refs, payment'[r].status = "succeeded"
      PROVE  order'[orderOf'[r]].ref = r /\ order'[orderOf'[r]].status # "Pending"
  <2>1. orderOf' = orderOf
    BY ChargesStay DEF Inv
  <2>2. CASE payment'[r] = payment[r]
    <3>1. PICK o \in Orders : o = orderOf[r]
      BY <1>4, <2>2 DEF Inv, ChargesMade
    <3>2. order[o].ref = r /\ order[o].status # "Pending"
      BY <1>4, <2>2, <3>1 DEF Inv, SettledOnce
    <3>3. Kept(o)
      BY <3>2, OrdersKept
    <3>4. QED BY <2>1, <3>1, <3>2, <3>3 DEF Kept
  <2>3. ASSUME NEW h \in Handlers, Commit(h), payment'[r] # payment[r]
        PROVE  order'[orderOf[r]].ref = r /\ order'[orderOf[r]].status # "Pending"
    <3>1. /\ RefAt(h) \in Refs /\ orderOf[RefAt(h)] = OrderAt(h)
          /\ OrderAt(h) \in Orders /\ handler[h].charge \in Charges
      BY <2>3, Settling DEF Commit
    <3>2. r = RefAt(h)
      BY <2>3, <3>1, CommitSettles
    <3>3. QED BY <2>3, <3>1, <3>2, CommitSettles
  <2>4. QED BY <2>1, <2>2, <2>3, PaymentsKept
<1>5. ASSUME NEW o \in Orders
      PROVE  IF order'[o].status = "Pending" THEN Untouched(order[o])'
             ELSE order'[o].charge # Nothing /\ PaidBy(o, order[o], order[o].charge)'
  BY <1>1, <1>2, <1>3, OrdersKept
<1>6. QED BY <1>4, <1>5 DEF SettledOnce

-----------------------------------------------------------------------------
(* What a handler relies on *)

\* While a handler holds the lock, nothing it has checked changes.
LEMMA LocksKept ==
    ASSUME Inv, Next, NEW g \in Handlers, handler[g].step = "commit",
           handler'[g] = handler[g],
           NEW o \in Orders, NEW t \in Charges, NEW r \in Refs,
           o = OrderAt(g), t = handler[g].charge, r = RefAt(g)
    PROVE  /\ order'[o].lock = g /\ Kept(o)
           /\ payment'[r] = payment[r]
<1>1. order[o].lock = g /\ orderOf[r] = o
  BY Settling DEF Inv, HandlersTrue, HandlerTrue
<1>2. TypeOK /\ order[o] \in OrderRow /\ g # Nothing
  BY Rows, HandlersAssumption DEF Inv
<1>3. ASSUME NEW h \in Handlers, Commit(h)
      PROVE  /\ OrderAt(h) # o /\ OrderAt(h) \in Orders
             /\ RefAt(h) # r /\ RefAt(h) \in Refs /\ handler[h].charge \in Charges
  <2>1. h # g
    <3>1. ASSUME h = g PROVE FALSE
      <4>1. handler' = [handler EXCEPT ![g].step = "notify"]
            \/ handler' = [handler EXCEPT ![g] = Refused(g)]
        BY <1>3, <3>1 DEF Commit
      <4>2. handler'[g].step # "commit"
        BY <1>2, <4>1, Ends DEF TypeOK, Task
      <4>3. QED BY <4>2
    <3>2. QED BY <3>1
  <2>2. order[OrderAt(h)].lock = h
    BY <1>3 DEF Commit, Inv, HandlersTrue, HandlerTrue
  <2>3. /\ OrderAt(h) \in Orders /\ RefAt(h) \in Refs
        /\ handler[h].charge \in Charges /\ orderOf[RefAt(h)] = OrderAt(h)
    BY <1>3, Settling DEF Commit
  <2>4. QED BY <1>1, <2>1, <2>2, <2>3
<1>4. Kept(o)
  BY <1>3, OrdersKept
<1>5. payment'[r] = payment[r]
  BY <1>3, CommitSettles, PaymentsKept
<1>6. order'[o].lock = g
  <2>1. ASSUME NEW h \in Handlers, Check(h)
        PROVE  order'[o].lock = g
    <3>1. CASE OrderAt(h) = o
      BY <1>1, <1>2, <2>1, <3>1 DEF Check
    <3>2. CASE OrderAt(h) # o
      BY <1>1, <1>2, <2>1, <3>2 DEF Check, TypeOK
    <3>3. QED BY <3>1, <3>2
  <2>2. ASSUME NEW h \in Handlers, Commit(h)
        PROVE  order'[o].lock = g
    <3>1. order' = [order EXCEPT ![OrderAt(h)] = Paid(@, handler[h].charge, RefAt(h))]
      BY <2>2 DEF Commit
    <3>2. OrderAt(h) # o
      BY <1>3, <2>2
    <3>3. QED BY <1>1, <1>2, <3>1, <3>2 DEF TypeOK
  <2>3. ASSUME NEW h \in Handlers, Rollback(h) \/ Crash(h)
        PROVE  order'[o].lock = g
    <3>1. order' = Released(h)
      BY <2>3 DEF Rollback, Crash
    <3>2. CASE h = g
      <4>1. handler'[g] = Refused(g) \/ handler'[g] = Idle
        BY <1>2, <2>3, <3>2 DEF Rollback, Crash, TypeOK
      <4>2. handler'[g].step # "commit"
        BY <1>2, <4>1, Ends DEF EventStates
      <4>3. QED BY <4>2
    <3>3. CASE h # g
      BY <1>1, <3>1, <3>3 DEF Released
    <3>4. QED BY <3>2, <3>3
  <2>4. ASSUME NEW h \in Handlers, Notify(h)
        PROVE  order'[o].lock = g
    <3>1. order' = order \/ order' = [order EXCEPT ![OrderAt(h)].told = TRUE]
      BY <2>4 DEF Notify
    <3>2. QED BY <1>1, <1>2, <3>1 DEF TypeOK, OrderRow
  <2>5. ASSUME order' = order
        PROVE  order'[o].lock = g
    BY <1>1, <2>5
  <2>6. CASE Outside
    BY <2>5, <2>6, OutsideKeeps
  <2>7. ASSUME NEW h \in Handlers, Quiet(h)
        PROVE  order'[o].lock = g
    BY <2>5, <2>7, QuietKeeps
  <2>8. QED BY <2>1, <2>2, <2>3, <2>4, <2>6, <2>7, Cases DEF Loud
<1>7. QED BY <1>4, <1>5, <1>6

\* A handler that does not move may go on relying on what it relied on.
LEMMA OthersTrue ==
    ASSUME Inv, Next, NEW g \in Handlers, handler'[g] = handler[g]
    PROVE  HandlerTrue(g)'
<1>1. HandlerTrue(g)
  BY DEF Inv, HandlersTrue
<1>2. CASE handler[g].step = "idle" /\ handler[g].out # "processed"
  BY <1>2 DEF HandlerTrue
<1>3. CASE handler[g].step # "idle" \/ handler[g].out = "processed"
  <2>1. PICK t \in Charges : t = handler[g].charge
    BY <1>1, <1>3 DEF HandlerTrue
  <2>2. charge[t].status # "none"
    BY <1>1, <1>3, <2>1 DEF HandlerTrue, PaidWith
  <2>3. /\ charge'[t].status # "none" /\ charge'[t].ref = charge[t].ref
        /\ charge[t].status = "successful" => charge'[t] = charge[t]
        /\ orderOf' = orderOf
    BY <2>2, ChargesStay DEF Inv
  <2>4. handler'[g].charge = t
    BY <2>1
  <2>5. handler'[g].step # "idle" =>
           handler'[g].charge \in Charges /\ charge'[handler'[g].charge].status # "none"
    BY <2>3, <2>4
  <2>6. handler'[g].step \in {"settle", "commit", "notify"} =>
           charge'[handler'[g].charge].status = "successful"
    BY <1>1, <2>1, <2>3 DEF HandlerTrue
  <2>7. ASSUME handler'[g].step = "commit"
        PROVE  (order[OrderAt(g)].lock = g /\ Payable(g))'
    <3>1. PICK o \in Orders, r \in Refs : o = OrderAt(g) /\ r = RefAt(g)
      BY <2>7, Settling
    <3>2. /\ order'[o].lock = g /\ payment'[r] = payment[r]
          /\ order'[o].status = order[o].status /\ order'[o].ref = order[o].ref
          /\ order'[o].xp = order[o].xp
      BY <2>1, <2>7, <3>1, LocksKept DEF Kept
    <3>3. Payable(g) /\ charge[t].status = "successful"
      BY <1>1, <2>1, <2>7 DEF HandlerTrue
    <3>4. charge'[t] = charge[t]
      BY <2>3, <3>3
    <3>5. OrderAt(g)' = o /\ RefAt(g)' = r
      BY <2>1, <2>3, <3>1, <3>4 DEF OrderAt, RefAt
    <3>6. /\ charge[t].full
          /\ order[o].status = "Pending" \/ order[o].ref = r
          /\ payment[r].charge \in {Nothing, t}
          /\ order[o].status = "Pending" => order[o].xp # "consumed"
      BY <2>1, <3>1, <3>3 DEF Payable
    <3>7. Payable(g)'
      BY <2>4, <3>2, <3>4, <3>5, <3>6 DEF Payable
    <3>8. QED BY <3>2, <3>5, <3>7
  <2>8. ASSUME handler'[g].step = "notify"
        PROVE  PaidWith(handler[g].charge)'
    <3>1. PaidWith(t)
      BY <1>1, <2>1, <2>8 DEF HandlerTrue
    <3>2. PaidWith(t)'
      BY <3>1, PaidStays
    <3>3. QED BY <2>4, <3>2 DEF PaidWith
  <2>9. ASSUME handler'[g].out = "processed"
        PROVE  handler'[g].charge \in Charges /\ PaidWith(handler[g].charge)'
    <3>1. PaidWith(t)
      BY <1>1, <2>1, <2>9 DEF HandlerTrue
    <3>2. PaidWith(t)'
      BY <3>1, PaidStays
    <3>3. QED BY <2>4, <3>2 DEF PaidWith
  <2>10. QED BY <2>5, <2>6, <2>7, <2>8, <2>9 DEF HandlerTrue
<1>4. QED BY <1>2, <1>3

\* A task that is over, or that claims nothing, relies on little.
LEMMA QuietTask ==
    ASSUME Inv, Next, NEW h \in Handlers, NEW task, handler'[h] = task,
           task.out # "processed",
           \/ task.step = "idle"
           \/ /\ task.step \in {"verify", "settle", "finish"}
              /\ task.charge \in Charges /\ charge[task.charge].status # "none"
              /\ task.step = "settle" => charge[task.charge].status = "successful"
    PROVE  HandlerTrue(h)'
<1>1. CASE task.step = "idle"
  BY <1>1 DEF HandlerTrue
<1>2. CASE task.step # "idle"
  <2>1. /\ charge'[task.charge].status # "none"
        /\ charge[task.charge].status = "successful" =>
             charge'[task.charge] = charge[task.charge]
    BY <1>2, ChargesStay DEF Inv
  <2>2. QED BY <1>2, <2>1 DEF HandlerTrue
<1>3. QED BY <1>1, <1>2

\* What a handler relies on holds of the one that moved.
LEMMA MoverTrue ==
    ASSUME Inv, Next, NEW h \in Handlers, Quiet(h) \/ Loud(h)
    PROVE  HandlerTrue(h)'
<1>0. /\ TypeOK /\ handler[h] \in Task /\ HandlerTrue(h)
      /\ Refused(h).out # "processed" /\ Idle.out # "processed" /\ Idle.step = "idle"
      /\ Refused(h).step \in {"finish", "idle"}
      /\ Refused(h).step = "finish" => Refused(h).charge = handler[h].charge
  BY Rows, Ends DEF Inv, HandlersTrue, EventStates
<1>1. ASSUME handler[h].step # "idle", handler' = [handler EXCEPT ![h] = Refused(h)]
      PROVE  HandlerTrue(h)'
  <2>1. handler[h].charge \in Charges /\ charge[handler[h].charge].status # "none"
    BY <1>0, <1>1 DEF HandlerTrue
  <2>2. handler'[h] = Refused(h)
    BY <1>0, <1>1 DEF TypeOK
  <2>3. QED BY <1>0, <2>1, <2>2, QuietTask
<1>2. ASSUME handler' = [handler EXCEPT ![h] = Idle]
      PROVE  HandlerTrue(h)'
  <2>1. handler'[h] = Idle
    BY <1>0, <1>2 DEF TypeOK
  <2>2. QED BY <1>0, <2>1, QuietTask
<1>3. ASSUME NEW e \in Event, Receive(h, e)
      PROVE  HandlerTrue(h)'
  <2>1. /\ e.charge \in Charges /\ charge[e.charge].status # "none"
    BY <1>3 DEF Receive, Event, Inv, ChargesMade
  <2>2. CASE handler' = handler
    BY <2>2, OthersTrue
  <2>3. CASE handler' # handler
    <3>1. PICK task : /\ handler' = [handler EXCEPT ![h] = task]
                      /\ task = [Idle EXCEPT !.charge = e.charge, !.success = e.success,
                                    !.step = IF e.success THEN "verify" ELSE "finish",
                                    !.out = "ignored"]
      BY <1>3, <2>3 DEF Receive
    <3>2. task.step \in {"verify", "finish"} /\ task.charge = e.charge /\ task.out = "ignored"
      BY <3>1 DEF Idle
    <3>3. handler'[h] = task
      BY <1>0, <3>1 DEF TypeOK
    <3>4. QED BY <2>1, <3>2, <3>3, QuietTask
  <2>4. QED BY <2>2, <2>3
<1>4. ASSUME NEW o \in Orders, NEW t \in Charges \cup {Nothing},
             NEW r \in Refs \cup {Nothing}, Verify(h, o, t, r)
      PROVE  HandlerTrue(h)'
  <2>1. PICK found \in Found(t, IF r # Nothing THEN r ELSE order[o].ref) :
           /\ charge[found].status = "successful"
           /\ handler' = [handler EXCEPT ![h] = [Idle EXCEPT !.step = "settle",
                                                           !.charge = found]]
    BY <1>4 DEF Verify
  <2>2. found \in Charges
    BY DEF Found
  <2>3. handler'[h] = [Idle EXCEPT !.step = "settle", !.charge = found]
    BY <1>0, <2>1 DEF TypeOK
  <2>4. /\ handler'[h].step = "settle" /\ handler'[h].charge = found
        /\ handler'[h].out = "none"
    BY <2>3 DEF Idle
  <2>5. QED BY <2>1, <2>2, <2>4, QuietTask
<1>5. CASE LookUp(h)
  <2>1. handler[h].step = "verify" /\ handler[h].charge \in Charges
        /\ charge[handler[h].charge].status # "none"
    BY <1>0, <1>5 DEF LookUp, HandlerTrue
  <2>2. CASE charge[handler[h].charge].status = "successful"
    <3>1. handler'[h] = [handler[h] EXCEPT !.step = "settle"]
      BY <1>0, <1>5, <2>2 DEF LookUp, TypeOK
    <3>2. /\ handler'[h].step = "settle" /\ handler'[h].charge = handler[h].charge
          /\ handler'[h].out = handler[h].out
      BY <1>0, <3>1 DEF Task
    <3>3. CASE handler[h].out = "processed"
      <4>1. PaidWith(handler[h].charge)
        BY <1>0, <3>3 DEF HandlerTrue
      <4>2. PICK t \in Charges : t = handler[h].charge
        BY <2>1
      <4>3. PaidWith(t)' /\ charge' = charge
        BY <1>5, <4>1, <4>2, PaidStays DEF LookUp
      <4>4. QED BY <2>2, <3>2, <4>2, <4>3 DEF HandlerTrue, PaidWith
    <3>4. CASE handler[h].out # "processed"
      BY <2>1, <2>2, <3>2, <3>4, QuietTask
    <3>5. QED BY <3>3, <3>4
  <2>3. CASE charge[handler[h].charge].status # "successful"
    <3>1. handler'[h] = Done(h, "ignored")
      BY <1>0, <1>5, <2>3 DEF LookUp, TypeOK
    <3>2. /\ Done(h, "ignored").out # "processed"
          /\ Done(h, "ignored").step \in {"finish", "idle"}
          /\ Done(h, "ignored").step = "finish" =>
               Done(h, "ignored").charge = handler[h].charge
      BY <1>0, Ends DEF EventStates
    <3>3. QED BY <2>1, <3>1, <3>2, QuietTask
  <2>4. QED BY <2>2, <2>3
<1>6. CASE Outage(h) \/ NotifyFails(h) \/ Rollback(h)
  BY <1>1, <1>6 DEF Outage, NotifyFails, Rollback
<1>7. CASE Finish(h) \/ Crash(h)
  BY <1>2, <1>7 DEF Finish, Crash
<1>8. CASE Check(h)
  <2>1. PICK o \in Orders, t \in Charges, r \in Refs :
          /\ o = OrderAt(h) /\ t = handler[h].charge /\ r = RefAt(h)
          /\ r = charge[t].ref /\ o = orderOf[r] /\ charge[t].status = "successful"
    BY <1>8, Settling DEF Check
  <2>2. CASE Payable(h)
    <3>1. /\ handler'[h] = [handler[h] EXCEPT !.step = "commit"]
          /\ order'[o] = [order[o] EXCEPT !.lock = h]
          /\ UNCHANGED <<orderOf, payment, charge>>
      BY <1>0, <1>8, <2>1, <2>2 DEF Check, TypeOK
    <3>2. /\ handler'[h].step = "commit" /\ handler'[h].charge = t
          /\ handler'[h].out = handler[h].out
      BY <1>0, <2>1, <3>1 DEF Task
    <3>3. /\ order'[o].lock = h /\ order'[o].status = order[o].status
          /\ order'[o].ref = order[o].ref /\ order'[o].xp = order[o].xp
      BY <1>0, <3>1, Rows DEF OrderRow
    <3>4. OrderAt(h)' = o /\ RefAt(h)' = r
      BY <2>1, <3>1, <3>2 DEF OrderAt, RefAt
    <3>5. /\ charge[t].full
          /\ order[o].status = "Pending" \/ order[o].ref = r
          /\ payment[r].charge \in {Nothing, t}
          /\ order[o].status = "Pending" => order[o].xp # "consumed"
      BY <2>1, <2>2 DEF Payable
    <3>6. Payable(h)'
      <4>1. /\ charge'[handler'[h].charge].full
            /\ order'[o].status = "Pending" \/ order'[o].ref = r
            /\ payment'[r].charge \in {Nothing, handler'[h].charge}
            /\ order'[o].status = "Pending" => order'[o].xp # "consumed"
        BY <3>1, <3>2, <3>3, <3>5
      <4>2. QED BY <3>4, <4>1 DEF Payable
    <3>7. ASSUME handler[h].out = "processed"
          PROVE  PaidWith(t)'
      BY <1>0, <2>1, <3>7, PaidStays DEF HandlerTrue
    <3>8. PaidWith(t)' => PaidWith(handler[h].charge)'
      BY <3>2 DEF PaidWith
    <3>9. QED BY <2>1, <3>1, <3>2, <3>3, <3>4, <3>6, <3>7, <3>8 DEF HandlerTrue
  <2>3. CASE ~Payable(h)
    BY <1>1, <1>8, <2>3 DEF Check
  <2>4. QED BY <2>2, <2>3
<1>9. CASE Commit(h)
  <2>1. PICK o \in Orders, t \in Charges, r \in Refs :
          /\ o = OrderAt(h) /\ t = handler[h].charge /\ r = RefAt(h)
          /\ r = charge[t].ref /\ o = orderOf[r] /\ charge[t].status = "successful"
    BY <1>9, Settling DEF Commit
  <2>2. CASE handler' = [handler EXCEPT ![h].step = "notify"]
    <3>1. handler'[h] = [handler[h] EXCEPT !.step = "notify"]
      BY <1>0, <2>2 DEF TypeOK
    <3>2. /\ handler'[h].step = "notify" /\ handler'[h].charge = t
          /\ handler'[h].out = handler[h].out
      BY <1>0, <2>1, <3>1 DEF Task
    <3>3. orderOf' = orderOf /\ charge' = charge
      BY <1>9 DEF Commit
    <3>4. order'[o].status = "Paid" /\ order'[o].charge = t
      <4>1. o = OrderAt(h) /\ t = handler[h].charge /\ r = RefAt(h)
        BY <2>1
      <4>2. QED BY <1>9, <4>1, CommitSettles
    <3>5. PaidWith(t)'
      BY <2>1, <3>3, <3>4 DEF PaidWith
    <3>6. ASSUME handler[h].out = "processed"
          PROVE  PaidWith(t)'
      BY <1>0, <2>1, <3>6, PaidStays DEF HandlerTrue
    <3>7. PaidWith(handler[h].charge)'
      BY <3>2, <3>5 DEF PaidWith
    <3>8. QED BY <2>1, <3>2, <3>3, <3>6, <3>7 DEF HandlerTrue
  <2>3. QED BY <1>1, <1>9, <2>2 DEF Commit
<1>10. CASE Notify(h)
  <2>1. PICK o \in Orders, t \in Charges, r \in Refs :
          /\ o = OrderAt(h) /\ t = handler[h].charge /\ r = RefAt(h)
          /\ r = charge[t].ref /\ o = orderOf[r] /\ charge[t].status = "successful"
    BY <1>10, Settling DEF Notify
  <2>2. handler'[h] = Done(h, "processed")
    BY <1>0, <1>10 DEF Notify, TypeOK
  <2>3. /\ Done(h, "processed").step \in {"finish", "idle"}
        /\ Done(h, "processed").step = "finish" => Done(h, "processed").charge = t
        /\ Done(h, "processed").out = "processed" => Done(h, "processed").step = "finish"
    BY <1>0, <2>1, Ends DEF EventStates, Done, Idle
  <2>4. PaidWith(t)'
    BY <1>0, <1>10, <2>1, PaidStays DEF Notify, HandlerTrue
  <2>5. orderOf' = orderOf /\ charge' = charge
    BY <1>10 DEF Notify
  <2>6. handler'[h].out = "processed" => PaidWith(handler[h].charge)'
    BY <2>2, <2>3, <2>4 DEF PaidWith
  <2>7. QED BY <2>1, <2>2, <2>3, <2>5, <2>6 DEF HandlerTrue
<1>11. QED BY <1>3, <1>4, <1>5, <1>6, <1>7, <1>8, <1>9, <1>10 DEF Quiet, Loud

LEMMA HandlersKept == ASSUME Inv, Next PROVE HandlersTrue'
<1>1. ASSUME NEW g \in Handlers, NEW h \in Handlers, Quiet(h) \/ Loud(h)
      PROVE  HandlerTrue(g)'
  <2>1. CASE g = h
    BY <1>1, <2>1, MoverTrue
  <2>2. CASE g # h
    <3>1. handler'[g] = handler[g]
      BY <1>1, <2>2, OneHandler DEF Inv
    <3>2. QED BY <3>1, OthersTrue
  <2>3. QED BY <2>1, <2>2
<1>2. ASSUME NEW g \in Handlers, Outside
      PROVE  HandlerTrue(g)'
  BY <1>2, OutsideKeeps, OthersTrue
<1>3. QED BY <1>1, <1>2, Cases DEF HandlersTrue

\* Only the end of a request marks an event as processed.
LEMMA EventsKept == ASSUME Inv, Next PROVE EventsTrue'
<1>1. SUFFICES ASSUME NEW t \in Charges, event'[t] = "processed"
               PROVE  PaidWith(t)'
  BY DEF EventsTrue
<1>2. CASE event[t] = "processed"
  BY <1>2, PaidStays DEF Inv, EventsTrue
<1>3. CASE event[t] # "processed"
  <2>1. event' # event
    BY <1>1, <1>3
  <2>2. ASSUME NEW h \in Handlers, Finish(h)
        PROVE  PaidWith(t)
    <3>1. event' = [event EXCEPT ![handler[h].charge] = handler[h].out]
      BY <2>1, <2>2 DEF Finish
    <3>2. handler[h].charge = t /\ handler[h].out = "processed"
      BY <1>1, <1>3, <3>1 DEF Inv, TypeOK
    <3>3. QED BY <3>2 DEF Inv, HandlersTrue, HandlerTrue
  <2>3. ASSUME NEW h \in Handlers, NEW e \in Event, Receive(h, e)
        PROVE  FALSE
    BY <1>1, <1>3, <2>3 DEF Receive, Inv, TypeOK
  <2>4. PICK h \in Handlers : Quiet(h) \/ Loud(h)
    BY <2>1, Cases, OutsideKeeps
  <2>5. Finish(h)
    BY <2>1, <2>3, <2>4 DEF Quiet, Loud, Verify, LookUp, Outage, NotifyFails,
                            Check, Commit, Rollback, Notify, Crash
  <2>6. QED BY <2>2, <2>5, PaidStays
<1>4. QED BY <1>2, <1>3

LEMMA ChargesKept == ASSUME Inv, Next PROVE ChargesMade'
<1>0. TypeOK /\ ChargesMade /\ orderOf' = orderOf
  BY ChargesStay DEF Inv
<1>1. ASSUME NEW t \in Charges, charge'[t].status # "none"
      PROVE  charge'[t].ref \in Refs /\ orderOf[charge'[t].ref] \in Orders
  <2>1. CASE charge[t].status # "none"
    BY <1>0, <2>1, ChargesStay DEF ChargesMade
  <2>2. CASE charge[t].status = "none"
    <3>1. ASSUME NEW s \in Charges, NEW r \in Refs, Charge(s, r)
          PROVE  charge'[t].ref \in Refs /\ orderOf[charge'[t].ref] \in Orders
      BY <1>0, <1>1, <2>2, <3>1 DEF Charge, TypeOK
    <3>2. ASSUME NEW s \in Charges, NEW result, NEW full, Conclude(s, result, full)
          PROVE  FALSE
      <4>1. s # t
        BY <2>2, <3>2 DEF Conclude
      <4>2. QED BY <1>0, <1>1, <2>2, <3>2, <4>1 DEF Conclude, TypeOK
    <3>3. charge' # charge
      BY <1>1, <2>2
    <3>4. QED BY <3>1, <3>2, <3>3, Cases, QuietKeeps
                 DEF Outside, AnnounceEarly, Loud, Check, Commit, Rollback, Notify, Crash
  <2>3. QED BY <2>1, <2>2
<1>2. ASSUME NEW e \in sent'
      PROVE  charge'[e.charge].status # "none"
  <2>1. CASE e \in sent
    <3>1. e.charge \in Charges /\ charge[e.charge].status # "none"
      BY <1>0, <2>1 DEF TypeOK, ChargesMade, Event
    <3>2. QED BY <1>0, <3>1, ChargesStay
  <2>2. ASSUME NEW t \in Charges, charge[t].status = "pending", e.charge = t
        PROVE  charge'[e.charge].status # "none"
    BY <1>0, <2>2, ChargesStay
  <2>3. ASSUME NEW t \in Charges, NEW result, NEW full,
               Conclude(t, result, full) \/ AnnounceEarly(t), e \notin sent
        PROVE  charge[t].status = "pending" /\ e.charge = t
    BY <1>2, <2>3 DEF Conclude, AnnounceEarly
  <2>4. CASE e \notin sent
    <3>1. sent' # sent
      BY <1>2, <2>4
    <3>2. \E t \in Charges : \E result, full : Conclude(t, result, full) \/ AnnounceEarly(t)
      BY <3>1, Cases, QuietKeeps
         DEF Outside, Charge, Loud, Check, Commit, Rollback, Notify, Crash
    <3>3. QED BY <2>2, <2>3, <2>4, <3>2
  <2>5. QED BY <2>1, <2>4
<1>3. ASSUME NEW r \in Refs, payment'[r].status = "succeeded"
      PROVE  orderOf[r] \in Orders
  <2>1. CASE payment[r].status = "succeeded"
    BY <1>0, <2>1 DEF ChargesMade
  <2>2. ASSUME NEW h \in Handlers, Commit(h), payment[r].status # "succeeded"
        PROVE  orderOf[r] \in Orders
    <3>1. /\ RefAt(h) \in Refs /\ orderOf[RefAt(h)] = OrderAt(h)
          /\ OrderAt(h) \in Orders /\ handler[h].charge \in Charges
      BY <2>2, Settling DEF Commit
    <3>2. r = RefAt(h)
      BY <1>3, <2>2, <3>1, CommitSettles
    <3>3. QED BY <3>1, <3>2
  <2>3. QED BY <1>3, <2>1, <2>2, PaymentsKept
<1>4. QED BY <1>0, <1>1, <1>2, <1>3 DEF ChargesMade

-----------------------------------------------------------------------------
(* The theorems *)

LEMMA InitInv == Init => Inv
<1>1. SUFFICES ASSUME Init
               PROVE  Inv
  OBVIOUS
<1>2. PICK layout \in Layouts, stored \in [Orders -> Refs \cup {Nothing}] :
        /\ orderOf = layout.of
        /\ order = [o \in Orders |->
              [status |-> "Pending", ref |-> stored[o], charge |-> Nothing,
               sold |-> 0, ledger |-> FALSE, job |-> FALSE,
               xp |-> IF o \in layout.discounted THEN "reserved" ELSE "none",
               told |-> FALSE, lock |-> Nothing]]
  BY <1>1 DEF Init
<1>3. order \in [Orders -> OrderRow]
  <2>1. ASSUME NEW o \in Orders
        PROVE  [status |-> "Pending", ref |-> stored[o], charge |-> Nothing,
                sold |-> 0, ledger |-> FALSE, job |-> FALSE,
                xp |-> IF o \in layout.discounted THEN "reserved" ELSE "none",
                told |-> FALSE, lock |-> Nothing] \in OrderRow
    BY DEF OrderRow
  <2>2. QED BY <1>2, <2>1
<1>4. orderOf \in [Refs -> Orders \cup {Nothing}]
  BY <1>2, LayoutsAssumption
<1>5. TypeOK
  BY <1>1, <1>3, <1>4, IdleTask, BoundsAssumption
     DEF Init, TypeOK, PaymentRow, ChargeRow, EventStates
<1>6. ChargesMade /\ EventsTrue
  BY <1>1 DEF Init, ChargesMade, EventsTrue
<1>7. HandlersTrue
  BY <1>1 DEF Init, HandlersTrue, HandlerTrue, Idle
<1>8. SettledOnce
  <2>1. \A o \in Orders : order[o].status = "Pending" /\ Untouched(order[o])
    BY <1>2 DEF Untouched
  <2>2. \A r \in Refs : payment[r].status # "succeeded"
    BY <1>1 DEF Init
  <2>3. QED BY <2>1, <2>2 DEF SettledOnce
<1>9. QED BY <1>5, <1>6, <1>7, <1>8 DEF Inv

\* The inductive invariant: every handler is right about the charge it
\* settles, and the one that holds an order's lock about all it has checked.
THEOREM Invariance == Spec => []Inv
<1>1. Inv /\ [Next]_vars => Inv'
  <2>1. Inv /\ Next => Inv'
    BY TypeKept, ChargesKept, HandlersKept, EventsKept, SettledKept DEF Inv
  <2>2. ASSUME Inv, UNCHANGED vars
        PROVE  Inv'
    <3>1. TypeOK'
      BY <2>2 DEF vars, Inv, TypeOK
    <3>2. ChargesMade' /\ EventsTrue'
      BY <2>2 DEF vars, Inv, ChargesMade, EventsTrue, PaidWith
    <3>3. HandlersTrue'
      <4>1. ASSUME NEW h \in Handlers
            PROVE  HandlerTrue(h)' <=> HandlerTrue(h)
        BY <2>2 DEF vars, HandlerTrue, PaidWith, Payable, OrderAt, RefAt
      <4>2. QED BY <2>2, <4>1 DEF Inv, HandlersTrue
    <3>4. SettledOnce'
      BY <2>2 DEF vars, Inv, SettledOnce, PaidBy, Untouched
    <3>5. QED BY <3>1, <3>2, <3>3, <3>4 DEF Inv
  <2>3. QED BY <2>1, <2>2
<1>2. QED BY InitInv, <1>1, PTL DEF Spec

\* Every row and every request keeps its shape.
THEOREM TypeCorrect == Spec => []TypeOK
<1>1. Inv => TypeOK
  BY DEF Inv
<1>2. QED BY Invariance, <1>1, PTL

\* A paid order was paid by one successful charge of its own that covers it,
\* and its sale, ledger entry, settlement job and XP happened once, however many
\* webhooks, confirmations, crashes and outages interleave (settleOrderPayment).
THEOREM OrdersSettleOnce == Spec => []SettledOnce
<1>1. Inv => SettledOnce
  BY DEF Inv
<1>2. QED BY Invariance, <1>1, PTL

\* A webhook event whose repetition has ended as processed has paid its order
\* with its own charge (FlutterwaveWebhook, finishPaymentWebhook).
THEOREM ProcessedEventsArePaid == Spec => []ProcessedMeansPaid
<1>1. Inv => ProcessedMeansPaid
  BY DEF Inv, EventsTrue, PaidWith, ProcessedMeansPaid
<1>2. QED BY Invariance, <1>1, PTL

\* No later charge, event or confirmation changes what an order was paid with
\* (the repetition branch of settleOrderPayment).
THEOREM PaymentsAreFinal == Spec => PaymentIsFinal
<1>1. Inv /\ [Next]_vars =>
        \A o \in Orders :
           order[o].status # "Pending" =>
             /\ order'[o].status # "Pending"
             /\ order'[o].ref = order[o].ref /\ order'[o].charge = order[o].charge
             /\ order'[o].sold = order[o].sold
  <2>1. ASSUME Inv, Next, NEW o \in Orders, order[o].status # "Pending"
        PROVE  /\ order'[o].status # "Pending"
               /\ order'[o].ref = order[o].ref /\ order'[o].charge = order[o].charge
               /\ order'[o].sold = order[o].sold
    BY <2>1, OrdersKept DEF Kept
  <2>2. QED BY <2>1 DEF vars
<1>2. QED BY Invariance, <1>1, PTL DEF Spec, PaymentIsFinal

\* Settled once by its own charge, and only that ends an event, for any number
\* of orders, charges, webhooks and confirmations.
THEOREM SettlementIsRight == Spec => []SettlesRight
BY OrdersSettleOnce, ProcessedEventsArePaid, PTL DEF SettlesRight
=============================================================================
