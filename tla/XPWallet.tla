------------------------------- MODULE XPWallet -------------------------------
(***************************************************************************)
(* The XP wallet: the signed ledger xp_transactions, the reservations      *)
(* xp_redemptions that older checkouts left on orders, and the bank        *)
(* withdrawals of xp_withdrawals.                                          *)
(*                                                                         *)
(* Every handler that reads a balance before writing runs in a database    *)
(* transaction that first takes an advisory lock of the user               *)
(* (lockXPUser).  A handler is a session that starts, waits for that lock, *)
(* reads, and commits; a failure anywhere rolls it back.  Rewards are      *)
(* posted WITHOUT the lock and may land between any two of those steps.    *)
(*                                                                         *)
(* Abstractions.  SUM(amount) of a user's ledger is kept as the running    *)
(* total total[u], and the ledger as the set of its unique keys            *)
(* <<user, reason, reference>>.  One reservation is one unit of XP.  Bank  *)
(* details are part of the points a request names.  The partial index      *)
(* xp_withdrawals_one_open is left out on purpose: OneOpenWithdrawal shows *)
(* that the lock alone keeps it from ever being hit.                       *)
(*                                                                         *)
(* A definition introduced by "Slip:" is an operation with one plausible   *)
(* mistake; no behaviour of Spec uses it, it shows that the property named *)
(* beside it would notice.                                                 *)
(***************************************************************************)
EXTENDS Integers, FiniteSets

CONSTANTS
    Users, Sessions, RequestKeys,
    Orders,         \* orders that existed when product checkout was retired
    OrderOwner,     \* [Orders -> Users]
    Rewards,        \* reward events: welcome, a daily login, a purchase, ...
    Worth,          \* [Rewards -> positive points]
    Points,         \* points a withdrawal may ask for (code: 1000..10^8)
    PayoutRefs,     \* bank transfer references an admin may type
    OpeningTotals,  \* ledger totals at the start
    NoSession, NoRef

ASSUME OrdersAssumption ==
    /\ IsFiniteSet(Orders)
    /\ OrderOwner \in [Orders -> Users]
ASSUME AmountsAssumption ==
    /\ Points \subseteq Nat \ {0}
    /\ Worth \in [Rewards -> Nat \ {0}]
    /\ OpeningTotals \subseteq Nat
ASSUME NullsAssumption ==
    /\ NoSession \notin Sessions
    /\ NoRef \notin PayoutRefs

VARIABLES
    total,       \* [Users -> Int], SUM(xp_transactions.amount)
    ledger,      \* unique keys of the posted xp_transactions rows
    order,       \* orders, payments and xp_redemptions rows of each order
    withdrawal,  \* xp_withdrawals by user and request key
    lock,        \* session holding the advisory lock of each user
    step,        \* how far the transaction of each session has come
    task,        \* the request a session serves
    memo         \* what the session has read and decided so far

vars == <<total, ledger, order, withdrawal, lock, step, task, memo>>
rows == <<total, ledger, order, withdrawal>>

Open == {"pending", "processing"}
Closed == {"paid", "rejected"}

NoRow == [status |-> "none", points |-> 0, ref |-> NoRef]

Row == [status : Open \cup Closed \cup {"none"},
        points : Points \cup {0},
        ref    : PayoutRefs \cup {NoRef}]

OrderRow == [status  : {"Pending", "Paid"},
             started : BOOLEAN,    \* a payments row exists
             resv    : {"none", "reserved", "consumed", "released"},
             expired : BOOLEAN]    \* expires_at <= now()

NoTask == [op |-> "none"]
OrderTask   == [op : {"release", "settle"}, order : Orders]
BalanceTask == [op : {"balance"}, user : Users]
RequestTask == [op : {"request"}, user : Users, key : RequestKeys, points : Points]
ReviewTask  == [op : {"review"}, user : Users, key : RequestKeys,
                target : {"processing", "paid", "rejected"},
                ref : PayoutRefs \cup {NoRef}]
Task == OrderTask \cup BalanceTask \cup RequestTask \cup ReviewTask

\* The user whose lock a task takes.
Owner(t) == IF t \in OrderTask THEN OrderOwner[t.order] ELSE t.user

NoMemo == [available |-> 0, freed |-> {}]

ReservedOrders(u) ==
    {o \in Orders : OrderOwner[o] = u /\ order[o].resv = "reserved"}
Reserved(u) == Cardinality(ReservedOrders(u))
Available(u) == total[u] - Reserved(u)

\* releaseUnusedXP(replace = false): lapsed reservations whose order never
\* reached the payment gateway.
Unused(u) ==
    {o \in ReservedOrders(u) : order[o].expired /\ ~order[o].started}

OpenKeys(u) == {k \in RequestKeys : withdrawal[u][k].status \in Open}

-----------------------------------------------------------------------------
\* An order row that legacyQuoteCheckout and the gateway can have left behind.
LegacyRow(r) ==
    /\ r.status = "Pending" => r.resv # "consumed"
    /\ r.status = "Paid" => r.started /\ r.resv \in {"none", "consumed"}
    /\ r.started => r.resv # "released"
    /\ r.expired => r.resv = "reserved"

Init ==
    /\ total \in [Users -> OpeningTotals]
    /\ order \in [Orders -> {r \in OrderRow : LegacyRow(r)}]
    /\ ledger = {<<OrderOwner[o], "service_fee_redemption", o>> :
                    o \in {x \in Orders : order[x].resv = "consumed"}}
    /\ \A u \in Users : Reserved(u) <= total[u]
    /\ withdrawal = [u \in Users |-> [k \in RequestKeys |-> NoRow]]
    /\ lock = [u \in Users |-> NoSession]
    /\ step = [s \in Sessions |-> "idle"]
    /\ task = [s \in Sessions |-> NoTask]
    /\ memo = [s \in Sessions |-> NoMemo]

-----------------------------------------------------------------------------
\* Slip: the ledger's unique key lacks the reference (LedgerMatchesRows,
\* KeepsPromise).
PostOncePerReason(u, reason, ref, amount) ==
    IF \E row \in ledger : row[1] = u /\ row[2] = reason
      THEN UNCHANGED <<ledger, total>>
      ELSE /\ ledger' = ledger \cup {<<u, reason, ref>>}
           /\ total' = [total EXCEPT ![u] = @ + amount]

\* INSERT INTO xp_transactions ... ON CONFLICT DO NOTHING.
PostOnce(u, reason, ref, amount) ==
    IF <<u, reason, ref>> \in ledger
      THEN UNCHANGED <<ledger, total>>
      ELSE /\ ledger' = ledger \cup {<<u, reason, ref>>}
           /\ total' = [total EXCEPT ![u] = @ + amount]

SetResv(os, status) ==
    order' = [o \in Orders |->
                IF o \in os THEN [order[o] EXCEPT !.resv = status] ELSE order[o]]

\* The transaction of s ends, by commit or rollback: the lock goes with it.
Finish(s) ==
    /\ lock' = [lock EXCEPT ![Owner(task[s])] = NoSession]
    /\ step' = [step EXCEPT ![s] = "idle"]
    /\ task' = [task EXCEPT ![s] = NoTask]
    /\ memo' = [memo EXCEPT ![s] = NoMemo]

Decide(s, m) ==
    /\ step' = [step EXCEPT ![s] = "decided"]
    /\ memo' = [memo EXCEPT ![s] = m]
    /\ UNCHANGED <<rows, lock, task>>

\* A request reaches a handler, which begins its transaction.
Begin(s, t) ==
    /\ step[s] = "idle"
    /\ step' = [step EXCEPT ![s] = "waiting"]
    /\ task' = [task EXCEPT ![s] = t]
    /\ UNCHANGED <<rows, lock, memo>>

\* Slip: the handler does not wait for the advisory lock (NeverOverdrawn,
\* OneOpenWithdrawal, DecisionsStayValid).
LockWithoutWaiting(s) ==
    /\ step[s] = "waiting"
    /\ lock' = [lock EXCEPT ![Owner(task[s])] = s]
    /\ step' = [step EXCEPT ![s] = "locked"]
    /\ UNCHANGED <<rows, task, memo>>

\* lockXPUser.
Lock(s) ==
    /\ step[s] = "waiting"
    /\ lock[Owner(task[s])] = NoSession
    /\ lock' = [lock EXCEPT ![Owner(task[s])] = s]
    /\ step' = [step EXCEPT ![s] = "locked"]
    /\ UNCHANGED <<rows, task, memo>>

\* The statement, the connection or the process fails: everything the
\* transaction wrote is undone and the server releases its lock.
Abort(s) ==
    /\ step[s] # "idle"
    /\ lock' = [u \in Users |-> IF lock[u] = s THEN NoSession ELSE lock[u]]
    /\ step' = [step EXCEPT ![s] = "idle"]
    /\ task' = [task EXCEPT ![s] = NoTask]
    /\ memo' = [memo EXCEPT ![s] = NoMemo]
    /\ UNCHANGED rows

-----------------------------------------------------------------------------
\* GetBalance: frees lapsed reservations, then reports what is left.
GetBalance(s) ==
    /\ step[s] = "locked" /\ task[s].op = "balance"
    /\ SetResv(Unused(task[s].user), "released")
    /\ Finish(s)
    /\ UNCHANGED <<total, ledger, withdrawal>>

\* ReleaseXPQuote: refused once a payment has started or the order is paid.
ReleaseXPQuote(s) ==
    /\ step[s] = "locked" /\ task[s].op = "release"
    /\ LET o == task[s].order IN
         IF order[o].started \/ order[o].status # "Pending"
           THEN UNCHANGED order
           ELSE SetResv({o} \cap ReservedOrders(OrderOwner[o]), "released")
    /\ Finish(s)
    /\ UNCHANGED <<total, ledger, withdrawal>>

\* settleOrderPayment with consumeXP: the gateway confirmed the payment of an
\* order that was charged before checkout was retired.  A discounted order
\* whose reservation is gone cannot be settled; a repeat changes nothing.
SettleOrder(s) ==
    \E o \in Orders :
        /\ step[s] = "locked" /\ task[s] = [op |-> "settle", order |-> o]
        /\ LET payable == order[o].started /\ order[o].status = "Pending"
           IN  \/ /\ payable /\ order[o].resv = "none"
                  /\ order' = [order EXCEPT ![o].status = "Paid"]
                  /\ UNCHANGED <<ledger, total>>
               \/ /\ payable /\ order[o].resv = "reserved"
                  /\ order' = [order EXCEPT ![o].status = "Paid", ![o].resv = "consumed"]
                  /\ PostOnce(OrderOwner[o], "service_fee_redemption", o, -1)
               \/ /\ ~payable \/ order[o].resv \in {"consumed", "released"}
                  /\ UNCHANGED <<order, ledger, total>>
        /\ Finish(s)
        /\ UNCHANGED withdrawal

\* RequestWithdrawal, up to the balance check: a known request key answers
\* with the stored row (or a conflict), an open withdrawal refuses; otherwise
\* lapsed reservations are freed and the balance is read.
RequestCheck(s) ==
    /\ step[s] = "locked" /\ task[s].op = "request"
    /\ LET u == task[s].user
            freed == Unused(u)
        IN  IF withdrawal[u][task[s].key] # NoRow \/ OpenKeys(u) # {}
              THEN Finish(s) /\ UNCHANGED rows
              ELSE Decide(s, [available |-> total[u] - Cardinality(ReservedOrders(u) \ freed),
                              freed |-> freed])

\* RequestWithdrawal, from the comparison to the commit.
RequestCommit(s) ==
    /\ step[s] = "decided" /\ task[s].op = "request"
    /\ LET u == task[s].user
            k == task[s].key
            p == task[s].points
        IN  IF memo[s].available < p
              THEN UNCHANGED rows
              ELSE /\ withdrawal' = [withdrawal EXCEPT ![u][k] =
                         [status |-> "pending", points |-> p, ref |-> NoRef]]
                   /\ PostOnce(u, "withdrawal_reserved", k, -p)
                   /\ SetResv(memo[s].freed, "released")
    /\ Finish(s)

\* Slip: a closed withdrawal may be reviewed again (ClosedIsFinal).
ReviewCheckReopens(s) ==
    /\ step[s] = "locked" /\ task[s].op = "review"
    /\ LET t == task[s]
            w == withdrawal[t.user][t.key]
        IN  IF \/ w.status \in {"none", t.target}
               \/ t.target = "paid" /\ w.status # "processing"
              THEN Finish(s) /\ UNCHANGED rows
              ELSE Decide(s, NoMemo)

\* AdminReviewWithdrawal, the reads: the answer is known without a write when
\* the row already has the status asked for, is closed, or is not yet
\* processing when it should become paid.
ReviewCheck(s) ==
    /\ step[s] = "locked" /\ task[s].op = "review"
    /\ LET t == task[s]
            w == withdrawal[t.user][t.key]
        IN  IF \/ w.status = "none"
               \/ w.status = t.target
               \/ w.status \in Closed
               \/ t.target = "paid" /\ w.status # "processing"
              THEN Finish(s) /\ UNCHANGED rows
              ELSE Decide(s, NoMemo)

RefTaken(u, k, ref) ==
    /\ ref # NoRef
    /\ \E v \in Users, j \in RequestKeys :
          <<v, j>> # <<u, k>> /\ withdrawal[v][j].ref = ref

\* AdminReviewWithdrawal, the writes: a rejection gives the points back once,
\* and a transfer reference may be used by one withdrawal only.
ReviewCommit(s) ==
    /\ step[s] = "decided" /\ task[s].op = "review"
    /\ LET t == task[s] IN
         IF RefTaken(t.user, t.key, t.ref)
           THEN UNCHANGED rows
           ELSE /\ withdrawal' = [withdrawal EXCEPT
                        ![t.user][t.key].status = t.target,
                        ![t.user][t.key].ref = t.ref]
                /\ IF t.target = "rejected"
                     THEN PostOnce(t.user, "withdrawal_released", t.key,
                                   withdrawal[t.user][t.key].points)
                     ELSE UNCHANGED <<ledger, total>>
                /\ UNCHANGED order
    /\ Finish(s)

-----------------------------------------------------------------------------

\* RewardService.award and its kin: one INSERT, no lock, once per event.
Award(u, e) ==
    /\ <<u, "reward", e>> \notin ledger
    /\ PostOnce(u, "reward", e, Worth[e])
    /\ UNCHANGED <<order, withdrawal, lock, step, task, memo>>

\* Time passes: the 15 minutes of a reservation are over.
Expire(o) ==
    /\ order[o].resv = "reserved" /\ ~order[o].expired
    /\ order' = [order EXCEPT ![o].expired = TRUE]
    /\ UNCHANGED <<total, ledger, withdrawal, lock, step, task, memo>>

\* Handlers validate their input before the transaction begins.  (So is the
\* admin's role: only a super admin may ask for paid.)
ValidTask(t) ==
    t \in ReviewTask => (t.target = "paid" => t.ref # NoRef)

Serve(s) ==
    \/ GetBalance(s) \/ ReleaseXPQuote(s) \/ SettleOrder(s)
    \/ RequestCheck(s) \/ RequestCommit(s)
    \/ ReviewCheck(s) \/ ReviewCommit(s)

Next ==
    \/ \E s \in Sessions :
          \/ \E t \in Task : ValidTask(t) /\ Begin(s, t)
          \/ Lock(s) \/ Abort(s) \/ Serve(s)
    \/ \E u \in Users, e \in Rewards : Award(u, e)
    \/ \E o \in Orders : Expire(o)

Spec == Init /\ [][Next]_vars

-----------------------------------------------------------------------------
TypeOK ==
    /\ total \in [Users -> Int]
    /\ ledger \subseteq Users \X {"reward", "service_fee_redemption",
                       "withdrawal_reserved", "withdrawal_released"}
                     \X (Rewards \cup RequestKeys \cup Orders)
    /\ order \in [Orders -> OrderRow]
    /\ withdrawal \in [Users -> [RequestKeys -> Row]]
    /\ lock \in [Users -> Sessions \cup {NoSession}]
    /\ step \in [Sessions -> {"idle", "waiting", "locked", "decided"}]
    /\ task \in [Sessions -> Task \cup {NoTask}]
    /\ memo \in [Sessions -> [available : Int, freed : SUBSET Orders]]

\* The points a user can spend never fall below zero, although the balance is
\* read well before the withdrawal that relies on it is committed
\* (RequestWithdrawal, availableXP, consumeXP).
NeverOverdrawn == \A u \in Users : Available(u) >= 0

\* A user has at most one withdrawal under review (RequestWithdrawal's check
\* must never have to fall back on the index xp_withdrawals_one_open).
OneOpenWithdrawal ==
    \A u \in Users : \A k, j \in OpenKeys(u) : k = j

\* The ledger tells the same story as the rows it pays for: a withdrawal was
\* taken from the balance iff it exists, given back iff it was rejected, and a
\* discount was charged iff its order consumed the reservation.
LedgerMatchesRows ==
    /\ \A u \in Users, k \in RequestKeys :
         /\ <<u, "withdrawal_reserved", k>> \in ledger <=> withdrawal[u][k] # NoRow
         /\ <<u, "withdrawal_released", k>> \in ledger <=> withdrawal[u][k].status = "rejected"
    /\ \A o \in Orders :
         <<OrderOwner[o], "service_fee_redemption", o>> \in ledger <=> order[o].resv = "consumed"

\* Who is past lockXPUser holds the lock of the user it serves, and a lock has
\* a holder at work: no answered request leaves one behind that would keep the
\* user's next request waiting forever.
LockHeld ==
    /\ \A s \in Sessions : step[s] = "idle" <=> task[s] = NoTask
    /\ \A s \in Sessions :
         step[s] \in {"locked", "decided"} => lock[Owner(task[s])] = s
    /\ \A u \in Users : lock[u] # NoSession =>
         /\ step[lock[u]] \in {"locked", "decided"}
         /\ Owner(task[lock[u]]) = u

\* What the session read and decided holds in the current state.
StillValid(s) ==
    LET t == task[s]
        u == Owner(t)
    IN  \/ /\ t \in RequestTask
           /\ memo[s].freed \subseteq Unused(u)
           /\ memo[s].available
                <= total[u] - Cardinality(ReservedOrders(u) \ memo[s].freed)
           /\ withdrawal[u][t.key] = NoRow
           /\ OpenKeys(u) = {}
        \/ /\ t \in ReviewTask
           /\ withdrawal[u][t.key].status \in Open
           /\ t.target = "paid" => withdrawal[u][t.key].status = "processing"

\* What a handler read and decided is still true at every moment until it
\* commits, whatever rewards, payments, reviews and clocks do meanwhile
\* (RequestWithdrawal and AdminReviewWithdrawal compare first, write later).
DecisionsStayValid ==
    \A s \in Sessions : step[s] = "decided" => StillValid(s)

\* A withdrawal that was paid or rejected is final: no later review, retry or
\* concurrent review changes its outcome, its points or its bank reference.
ClosedIsFinal ==
    [][\A u \in Users, k \in RequestKeys :
         withdrawal[u][k].status \in Closed => withdrawal'[u][k] = withdrawal[u][k]]_vars

\* "An initialized/ambiguous gateway charge must never lose its reservation"
\* (xp_redemption.go:31): once a payment exists the reservation is consumed by
\* settlement or stays, whoever asks for balances, quotes or withdrawals.
ChargedReservationKept ==
    [][\A o \in Orders :
         order[o].started /\ order[o].resv = "reserved"
            => order'[o].resv \in {"reserved", "consumed"}]_vars

\* The refinement mapping: held, paid and returned claims are read off the
\* withdrawal rows, and the spendable points off ledger and reservations.
ClaimOf(w) ==
    CASE w.status \in Open     -> [state |-> "held", points |-> w.points]
      [] w.status = "paid"     -> [state |-> "paid", points |-> w.points]
      [] w.status = "rejected" -> [state |-> "returned", points |-> w.points]
      [] OTHER                 -> [state |-> "none", points |-> 0]

Promise == INSTANCE WalletPromise WITH
    spendable <- [u \in Users |-> Available(u)],
    claim <- [u \in Users |-> [k \in RequestKeys |-> ClaimOf(withdrawal[u][k])]]

\* The handlers, with their locks, rollbacks and retries, keep the wallet's
\* promise: points are held once and either paid or returned in full.
KeepsPromise == Promise!Spec

\* The wallet's books are right at every moment: what can be spent, what is
\* under review, what the ledger says and what a request in progress relies on.
WalletSafe == /\ NeverOverdrawn /\ OneOpenWithdrawal /\ LedgerMatchesRows
              /\ DecisionsStayValid /\ LockHeld

\* What was decided about a withdrawal or charged to an order stays so.
DecidedForGood == ClosedIsFinal /\ ChargedReservationKept
=============================================================================
