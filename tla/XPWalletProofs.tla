---------------------------- MODULE XPWalletProofs ----------------------------
(***************************************************************************)
(* Proofs about XPWallet, for any users, sessions, orders and amounts.     *)
(*                                                                         *)
(* The balance invariant is not inductive alone: RequestCommit relies on a *)
(* balance read earlier.  Inv adds who holds which lock and that what a    *)
(* session decided under its lock is still true.                           *)
(***************************************************************************)
EXTENDS XPWallet, FiniteSetTheorems, TLAPS

USE OrdersAssumption, AmountsAssumption, NullsAssumption

Inv == /\ TypeOK
       /\ LockHeld
       /\ DecisionsStayValid
       /\ NeverOverdrawn
       /\ OneOpenWithdrawal
       /\ LedgerMatchesRows

-----------------------------------------------------------------------------
(* Tasks *)

\* Every request is for a known user, whose lock it takes.
LEMMA OwnerIsUser == ASSUME NEW t \in Task PROVE Owner(t) \in Users
<1>1. CASE t \in OrderTask
  BY <1>1 DEF Owner, OrderTask
<1>2. CASE t \notin OrderTask
  BY <1>2 DEF Owner, Task, BalanceTask, RequestTask, ReviewTask
<1>3. QED BY <1>1, <1>2

\* The operation of a task tells which kind of request it is.
LEMMA TaskKinds ==
    ASSUME NEW t \in Task
    PROVE  /\ t # NoTask
           /\ t.op = "balance" => t \in BalanceTask /\ Owner(t) = t.user
           /\ t.op \in {"release", "settle"} => t \in OrderTask /\ Owner(t) = OrderOwner[t.order]
           /\ t.op = "request" => t \in RequestTask /\ Owner(t) = t.user
           /\ t.op = "review" => t \in ReviewTask /\ Owner(t) = t.user
BY DEF Task, OrderTask, BalanceTask, RequestTask, ReviewTask, Owner, NoTask

-----------------------------------------------------------------------------
(* Reservations *)

LEMMA ReservedFinite ==
    ASSUME NEW u
    PROVE  /\ IsFiniteSet(ReservedOrders(u))
           /\ Reserved(u) \in Nat
BY FS_Subset, FS_CardinalityType DEF ReservedOrders, Reserved

\* Fewer reservations hold no more points.
LEMMA FewerReservations ==
    ASSUME NEW S, NEW T, S \subseteq T, T \subseteq Orders
    PROVE  /\ Cardinality(S) \in Nat
           /\ Cardinality(T) \in Nat
           /\ Cardinality(S) <= Cardinality(T)
BY FS_Subset, FS_CardinalityType

\* SetResv changes the reservations of the orders it names and nothing else.
LEMMA SetResvEffect ==
    ASSUME TypeOK, NEW os \in SUBSET Orders, SetResv(os, "released")
    PROVE  /\ order' \in [Orders -> OrderRow]
           /\ \A o \in Orders :
                /\ order'[o].started = order[o].started
                /\ order'[o].expired = order[o].expired
                /\ order'[o].resv = IF o \in os THEN "released" ELSE order[o].resv
           /\ \A u : ReservedOrders(u)' = ReservedOrders(u) \ os
<1>1. order \in [Orders -> OrderRow]
  BY DEF TypeOK
<1>2. order' \in [Orders -> OrderRow]
  BY <1>1 DEF SetResv, OrderRow
<1>3. \A o \in Orders :
                /\ order'[o].started = order[o].started
                /\ order'[o].expired = order[o].expired
                /\ order'[o].resv = IF o \in os THEN "released" ELSE order[o].resv
  BY <1>1 DEF SetResv, OrderRow
<1>4. QED
  BY <1>1, <1>2, <1>3 DEF ReservedOrders
-----------------------------------------------------------------------------
(* Sessions *)

SessionsOK ==
    /\ lock \in [Users -> Sessions \cup {NoSession}]
    /\ step \in [Sessions -> {"idle", "waiting", "locked", "decided"}]
    /\ task \in [Sessions -> Task \cup {NoTask}]
    /\ memo \in [Sessions -> [available : Int, freed : SUBSET Orders]]

RowsOK ==
    /\ total \in [Users -> Int]
    /\ ledger \subseteq Users \X {"reward", "service_fee_redemption",
                       "withdrawal_reserved", "withdrawal_released"}
                     \X (Rewards \cup RequestKeys \cup Orders)
    /\ order \in [Orders -> OrderRow]
    /\ withdrawal \in [Users -> [RequestKeys -> Row]]

\* A session past idle serves a task.
LEMMA BusyHasTask ==
    ASSUME TypeOK, LockHeld, NEW s \in Sessions, step[s] # "idle"
    PROVE  /\ task[s] \in Task
           /\ task[s] # NoTask
           /\ Owner(task[s]) \in Users
BY OwnerIsUser DEF TypeOK, LockHeld

\* Ending a transaction releases its lock and no other.
LEMMA FinishKeepsLocks ==
    ASSUME TypeOK, LockHeld, NEW s \in Sessions, step[s] \in {"locked", "decided"},
           Finish(s)
    PROVE  SessionsOK' /\ LockHeld'
<1>1. /\ task[s] \in Task
      /\ Owner(task[s]) \in Users
      /\ lock[Owner(task[s])] = s
  BY BusyHasTask DEF LockHeld
<1>2. SessionsOK'
  BY <1>1 DEF SessionsOK, TypeOK, Finish, NoMemo
<1>3. \A r \in Sessions : r # s => step'[r] = step[r] /\ task'[r] = task[r]
  BY DEF TypeOK, Finish
<1>4. step'[s] = "idle" /\ task'[s] = NoTask
  BY DEF TypeOK, Finish
<1>5. \A u \in Users :
         lock'[u] = IF u = Owner(task[s]) THEN NoSession ELSE lock[u]
  BY DEF TypeOK, Finish
<1>6. \A r \in Sessions : step'[r] = "idle" <=> task'[r] = NoTask
  BY <1>3, <1>4 DEF LockHeld
<1>7. ASSUME NEW r \in Sessions, step'[r] \in {"locked", "decided"}
      PROVE  lock'[Owner(task'[r])] = r
  <2>1. r # s /\ step[r] \in {"locked", "decided"} /\ task'[r] = task[r]
    BY <1>3, <1>4, <1>7
  <2>2. lock[Owner(task[r])] = r /\ Owner(task[r]) \in Users
    BY <2>1, BusyHasTask DEF LockHeld
  <2>3. QED BY <1>1, <1>5, <2>1, <2>2
<1>8. ASSUME NEW u \in Users, lock'[u] # NoSession
      PROVE  /\ step'[lock'[u]] \in {"locked", "decided"}
             /\ Owner(task'[lock'[u]]) = u
  <2>1. u # Owner(task[s]) /\ lock'[u] = lock[u] /\ lock[u] \in Sessions
    BY <1>5, <1>8 DEF TypeOK
  <2>2. lock[u] # s
    BY <1>8, <2>1 DEF LockHeld
  <2>3. QED BY <1>3, <1>8, <2>1, <2>2 DEF LockHeld
<1>9. QED BY <1>2, <1>6, <1>7, <1>8 DEF LockHeld

\* Remembering a decision keeps the lock.
LEMMA DecideKeepsLocks ==
    ASSUME TypeOK, LockHeld, NEW s \in Sessions, step[s] = "locked",
           NEW m \in [available : Int, freed : SUBSET Orders], Decide(s, m)
    PROVE  SessionsOK' /\ LockHeld'
<1>1. SessionsOK'
  BY DEF SessionsOK, TypeOK, Decide
<1>2. \A r \in Sessions : step'[r] = IF r = s THEN "decided" ELSE step[r]
  BY DEF TypeOK, Decide
<1>3. task' = task /\ lock' = lock
  BY DEF Decide
<1>4. \A u \in Users : lock[u] \in Sessions \cup {NoSession}
  BY DEF TypeOK
<1>5. LockHeld'
  BY <1>2, <1>3, <1>4 DEF LockHeld, Owner
<1>6. QED BY <1>1, <1>5

\* Two sessions past the lock serve two different users.
LEMMA LocksExclude ==
    ASSUME TypeOK, LockHeld, NEW s \in Sessions, NEW r \in Sessions, r # s,
           step[s] \in {"locked", "decided"}, step[r] \in {"locked", "decided"}
    PROVE  Owner(task[r]) # Owner(task[s])
BY DEF LockHeld

\* A decision outlives every step that leaves the rows of its user alone, adds
\* points to it, or lets its reservations expire.
LEMMA DecisionKept ==
    ASSUME NEW s, NEW u, u = Owner(task[s]),
           StillValid(s),
           task'[s] = task[s], memo'[s] = memo[s],
           total[u] \in Int, total'[u] \in Int, memo[s].available \in Int,
           total'[u] >= total[u],
           ReservedOrders(u)' = ReservedOrders(u),
           Unused(u) \subseteq Unused(u)',
           withdrawal'[u] = withdrawal[u]
    PROVE  StillValid(s)'
<1>1. Cardinality(ReservedOrders(u) \ memo[s].freed) \in Nat
  BY FewerReservations DEF ReservedOrders
<1>2. Owner(task[s])' = u
  BY DEF Owner
<1>3. OpenKeys(u)' = OpenKeys(u)
  BY DEF OpenKeys
<1>4. CASE task[s] \in RequestTask
  <2>1. ASSUME task[s] \in ReviewTask PROVE FALSE
    BY <1>4, <2>1 DEF RequestTask, ReviewTask
  <2>2. QED BY <1>1, <1>2, <1>3, <1>4, <2>1 DEF StillValid
<1>5. CASE task[s] \in ReviewTask
  <2>1. ASSUME task[s] \in RequestTask PROVE FALSE
    BY <1>5, <2>1 DEF RequestTask, ReviewTask
  <2>2. QED BY <1>2, <1>5, <2>1 DEF StillValid
<1>6. QED BY <1>4, <1>5 DEF StillValid

\* The rows of every user but u are as they were.
OthersUntouched(u) ==
    \A v \in Users \ {u} :
        /\ total'[v] = total[v]
        /\ ReservedOrders(v)' = ReservedOrders(v)
        /\ Unused(v) \subseteq Unused(v)'
        /\ withdrawal'[v] = withdrawal[v]

\* A transaction that ends may change the rows of its own user: nobody else
\* has decided anything about them.
LEMMA FinishKeepsDecisions ==
    ASSUME Inv, NEW s \in Sessions, step[s] \in {"locked", "decided"},
           Finish(s), RowsOK', OthersUntouched(Owner(task[s]))
    PROVE  TypeOK' /\ LockHeld' /\ DecisionsStayValid'
<1>1. TypeOK /\ LockHeld /\ DecisionsStayValid
  BY DEF Inv
<1>2. SessionsOK' /\ LockHeld'
  BY <1>1, FinishKeepsLocks
<1>3. TypeOK'
  BY <1>2 DEF SessionsOK, RowsOK, TypeOK
<1>4. ASSUME NEW r \in Sessions, step'[r] = "decided"
      PROVE  StillValid(r)'
  <2>1. /\ r # s
        /\ step[r] = "decided"
        /\ task'[r] = task[r]
        /\ memo'[r] = memo[r]
    BY <1>1, <1>4 DEF TypeOK, Finish
  <2>2. PICK v \in Users : v = Owner(task[r]) /\ v # Owner(task[s])
    BY <1>1, <2>1, BusyHasTask, LocksExclude
  <2>3. /\ total'[v] = total[v]
        /\ ReservedOrders(v)' = ReservedOrders(v)
        /\ Unused(v) \subseteq Unused(v)'
        /\ withdrawal'[v] = withdrawal[v]
    BY <2>2 DEF OthersUntouched
  <2>4. total[v] \in Int /\ memo[r].available \in Int
    BY <1>1, <2>2 DEF TypeOK
  <2>5. StillValid(r)
    BY <1>1, <2>1 DEF DecisionsStayValid
  <2>6. total'[v] \in Int /\ total'[v] >= total[v]
    BY <2>3, <2>4
  <2>7. QED
    BY <2>1, <2>2, <2>3, <2>4, <2>5, <2>6, DecisionKept
<1>5. QED BY <1>2, <1>3, <1>4 DEF DecisionsStayValid

\* A user's balance stays non-negative when the reservations given back are
\* worth at least what the ledger loses.
LEMMA BalanceKept ==
    ASSUME TypeOK, NEW u \in Users, Available(u) >= 0, total'[u] \in Int,
           ReservedOrders(u)' \subseteq ReservedOrders(u), total'[u] >= total[u]
    PROVE  Available(u)' >= 0
<1>1. /\ Reserved(u) \in Nat
      /\ Reserved(u)' \in Nat
      /\ Reserved(u)' <= Reserved(u)
  BY FewerReservations DEF ReservedOrders, Reserved
<1>2. total[u] \in Int
  BY DEF TypeOK
<1>3. QED BY <1>1, <1>2 DEF Available

-----------------------------------------------------------------------------
(* Handlers that only free reservations *)

LEMMA FreeingReservations ==
    ASSUME Inv, NEW s \in Sessions, step[s] \in {"locked", "decided"}, Finish(s),
           NEW os \in SUBSET ReservedOrders(Owner(task[s])),
           SetResv(os, "released"), UNCHANGED <<total, ledger, withdrawal>>
    PROVE  Inv'
<1> DEFINE u == Owner(task[s])
<1>1. TypeOK /\ LockHeld /\ u \in Users
  BY BusyHasTask DEF Inv
<1>2. os \subseteq Orders /\ \A o \in os : OrderOwner[o] = u /\ order[o].resv = "reserved"
  BY DEF ReservedOrders
<1>3. /\ order' \in [Orders -> OrderRow]
      /\ \A o \in Orders :
           /\ order'[o].started = order[o].started
           /\ order'[o].expired = order[o].expired
           /\ order'[o].resv = IF o \in os THEN "released" ELSE order[o].resv
      /\ \A v : ReservedOrders(v)' = ReservedOrders(v) \ os
  BY <1>1, <1>2, SetResvEffect
<1>4. RowsOK'
  BY <1>1, <1>3 DEF RowsOK, TypeOK
<1>5. OthersUntouched(u)
  <2> SUFFICES ASSUME NEW v \in Users \ {u}
               PROVE  /\ ReservedOrders(v)' = ReservedOrders(v)
                      /\ Unused(v) \subseteq Unused(v)'
    BY DEF OthersUntouched
  <2>1. ReservedOrders(v)' = ReservedOrders(v)
    BY <1>2, <1>3 DEF ReservedOrders
  <2>2. QED BY <1>3, <2>1 DEF Unused, ReservedOrders
<1>6. TypeOK' /\ LockHeld' /\ DecisionsStayValid'
  BY <1>4, <1>5, FinishKeepsDecisions
<1>7. NeverOverdrawn'
  BY <1>1, <1>3, <1>4, BalanceKept DEF Inv, NeverOverdrawn, RowsOK
<1>8. OneOpenWithdrawal'
  BY DEF Inv, OneOpenWithdrawal, OpenKeys
<1>9. LedgerMatchesRows'
  BY <1>2, <1>3 DEF Inv, LedgerMatchesRows
<1>10. QED BY <1>6, <1>7, <1>8, <1>9 DEF Inv

\* Steps that write no row keep what the rows promise.
LEMMA SameRows ==
    ASSUME Inv, UNCHANGED rows
    PROVE  NeverOverdrawn' /\ OneOpenWithdrawal' /\ LedgerMatchesRows'
<1>1. UNCHANGED <<total, ledger, order, withdrawal>>
  BY DEF rows
<1>2. NeverOverdrawn'
  BY <1>1 DEF Inv, NeverOverdrawn, Available, Reserved, ReservedOrders
<1>3. OneOpenWithdrawal'
  BY <1>1 DEF Inv, OneOpenWithdrawal, OpenKeys
<1>4. LedgerMatchesRows'
  BY <1>1 DEF Inv, LedgerMatchesRows
<1>5. QED BY <1>2, <1>3, <1>4

\* Nor do they spoil a decision of a session they leave alone.
LEMMA SameRowsDecision ==
    ASSUME Inv, UNCHANGED rows, NEW r \in Sessions, step[r] = "decided",
           task'[r] = task[r], memo'[r] = memo[r]
    PROVE  StillValid(r)'
<1>1. UNCHANGED <<total, ledger, order, withdrawal>>
  BY DEF rows
<1>2. PICK u \in Users : u = Owner(task[r])
  BY BusyHasTask DEF Inv
<1>3. StillValid(r)
  BY DEF Inv, DecisionsStayValid
<1>4. total[u] \in Int /\ total'[u] = total[u] /\ memo[r].available \in Int
  BY <1>1 DEF Inv, TypeOK
<1>5. ReservedOrders(u)' = ReservedOrders(u)
  BY <1>1 DEF ReservedOrders
<1>6. Unused(u)' = Unused(u)
  BY <1>1 DEF Unused, ReservedOrders
<1>7. QED BY <1>1, <1>2, <1>3, <1>4, <1>5, <1>6, DecisionKept

\* A transaction that ends without writing.
LEMMA EmptyTransaction ==
    ASSUME Inv, NEW s \in Sessions, step[s] \in {"locked", "decided"}, Finish(s),
           UNCHANGED rows
    PROVE  Inv'
<1>1. RowsOK' /\ OthersUntouched(Owner(task[s]))
  BY DEF Inv, TypeOK, RowsOK, OthersUntouched, ReservedOrders, Unused, rows
<1>2. TypeOK' /\ LockHeld' /\ DecisionsStayValid'
  BY <1>1, FinishKeepsDecisions
<1>3. NeverOverdrawn' /\ OneOpenWithdrawal' /\ LedgerMatchesRows'
  BY SameRows
<1>4. QED BY <1>2, <1>3 DEF Inv

LEMMA GetBalanceStep ==
    ASSUME Inv, NEW s \in Sessions, GetBalance(s) PROVE Inv'
<1>1. step[s] = "locked" /\ Owner(task[s]) = task[s].user
  BY BusyHasTask, TaskKinds DEF Inv, GetBalance
<1>2. Unused(task[s].user) \in SUBSET ReservedOrders(Owner(task[s]))
  BY <1>1 DEF Unused
<1>3. QED BY <1>1, <1>2, FreeingReservations DEF GetBalance

LEMMA ReleaseStep ==
    ASSUME Inv, NEW s \in Sessions, ReleaseXPQuote(s) PROVE Inv'
<1> DEFINE o == task[s].order
<1>1. step[s] = "locked" /\ Owner(task[s]) = OrderOwner[o]
  BY BusyHasTask, TaskKinds DEF Inv, ReleaseXPQuote
<1>2. CASE order' = order
  BY <1>1, <1>2, EmptyTransaction DEF ReleaseXPQuote, rows
<1>3. CASE SetResv({o} \cap ReservedOrders(OrderOwner[o]), "released")
  <2>1. {o} \cap ReservedOrders(OrderOwner[o]) \in SUBSET ReservedOrders(Owner(task[s]))
    BY <1>1
  <2>2. QED BY <1>1, <1>3, <2>1, FreeingReservations DEF ReleaseXPQuote
<1>4. QED BY <1>2, <1>3 DEF ReleaseXPQuote

-----------------------------------------------------------------------------
(* Settlement *)

\* Consuming a reservation charges the ledger what the reservation held.
LEMMA SettleStep ==
    ASSUME Inv, NEW s \in Sessions, SettleOrder(s) PROVE Inv'
<1>1. TypeOK
  BY DEF Inv
<1>2. PICK o \in Orders :
        /\ step[s] = "locked" /\ task[s] = [op |-> "settle", order |-> o]
        /\ \/ /\ order[o].resv = "none"
              /\ order' = [order EXCEPT ![o].status = "Paid"]
              /\ UNCHANGED <<ledger, total>>
           \/ /\ order[o].resv = "reserved"
              /\ order' = [order EXCEPT ![o].status = "Paid", ![o].resv = "consumed"]
              /\ PostOnce(OrderOwner[o], "service_fee_redemption", o, -1)
           \/ UNCHANGED <<order, ledger, total>>
        /\ Finish(s)
        /\ UNCHANGED withdrawal
  BY Zenon DEF SettleOrder
<1>3. PICK u \in Users : u = OrderOwner[o] /\ u = Owner(task[s])
  BY <1>2 DEF Owner, OrderTask
<1>4. order[o] \in OrderRow
  BY <1>1 DEF TypeOK
<1>5. CASE UNCHANGED <<order, ledger, total>>
  BY <1>2, <1>5, EmptyTransaction DEF rows
<1>6. CASE /\ order[o].resv = "none"
           /\ order' = [order EXCEPT ![o].status = "Paid"]
           /\ UNCHANGED <<ledger, total>>
  <2>1. order' \in [Orders -> OrderRow]
    <3>1. [order[o] EXCEPT !.status = "Paid"] \in OrderRow
      BY <1>4 DEF OrderRow
    <3>2. QED BY <1>1, <1>6, <3>1 DEF TypeOK
  <2>2. \A x \in Orders : /\ order'[x].resv = order[x].resv
                          /\ order'[x].started = order[x].started
                          /\ order'[x].expired = order[x].expired
    BY <1>1, <1>2, <1>6 DEF TypeOK, OrderRow
  <2>3. \A v : ReservedOrders(v)' = ReservedOrders(v) /\ Unused(v)' = Unused(v)
    BY <2>2 DEF ReservedOrders, Unused
  <2>4. RowsOK' /\ OthersUntouched(Owner(task[s]))
    BY <1>1, <1>2, <1>6, <2>1, <2>3 DEF RowsOK, TypeOK, OthersUntouched
  <2>5. TypeOK' /\ LockHeld' /\ DecisionsStayValid'
    BY <1>2, <2>4, FinishKeepsDecisions
  <2>6. NeverOverdrawn' /\ OneOpenWithdrawal' /\ LedgerMatchesRows'
    BY <1>2, <1>6, <2>2, <2>3 DEF Inv, NeverOverdrawn, Available, Reserved,
           OneOpenWithdrawal, OpenKeys, LedgerMatchesRows
  <2>7. QED BY <2>5, <2>6 DEF Inv
<1>7. CASE /\ order[o].resv = "reserved"
           /\ order' = [order EXCEPT ![o].status = "Paid", ![o].resv = "consumed"]
           /\ PostOnce(OrderOwner[o], "service_fee_redemption", o, -1)
  <2> DEFINE entry == <<u, "service_fee_redemption", o>>
  <2>1. order' \in [Orders -> OrderRow]
    BY <1>1, <1>2, <1>7 DEF TypeOK, OrderRow
  <2>2. \A x \in Orders :
            /\ order'[x].resv = IF x = o THEN "consumed" ELSE order[x].resv
            /\ order'[x].started = order[x].started
            /\ order'[x].expired = order[x].expired
    BY <1>1, <1>2, <1>7 DEF TypeOK, OrderRow
  <2>3. entry \notin ledger
    BY <1>2, <1>3, <1>7 DEF Inv, LedgerMatchesRows
  <2>4. /\ ledger' = ledger \cup {entry}
        /\ total' = [total EXCEPT ![u] = @ - 1]
        /\ total'[u] = total[u] - 1
        /\ \A v \in Users \ {u} : total'[v] = total[v]
    BY <1>1, <1>3, <1>7, <2>3 DEF PostOnce, TypeOK
  <2>5. \A v : ReservedOrders(v)' = ReservedOrders(v) \ {o}
    BY <2>2 DEF ReservedOrders
  <2>6. \A v \in Users \ {u} :
            ReservedOrders(v)' = ReservedOrders(v) /\ Unused(v)' = Unused(v)
    BY <1>3, <2>2 DEF ReservedOrders, Unused
  <2>7. RowsOK'
    BY <1>1, <1>2, <1>7, <2>1, <2>4 DEF RowsOK, TypeOK
  <2>8. OthersUntouched(Owner(task[s]))
    BY <1>2, <1>3, <1>7, <2>4, <2>6 DEF OthersUntouched
  <2>9. TypeOK' /\ LockHeld' /\ DecisionsStayValid'
    BY <1>2, <2>7, <2>8, FinishKeepsDecisions
  <2>10. NeverOverdrawn'
    <3>1. Available(u)' >= 0
      <4>1. o \in ReservedOrders(u) /\ IsFiniteSet(ReservedOrders(u))
        BY <1>2, <1>3, <1>7, ReservedFinite DEF ReservedOrders
      <4>2. Reserved(u)' = Reserved(u) - 1 /\ Reserved(u) \in Nat
        BY <2>5, <4>1, ReservedFinite, FS_RemoveElement DEF Reserved
      <4>3. Available(u) >= 0 /\ total[u] \in Int
        BY <1>1 DEF Inv, NeverOverdrawn, TypeOK
      <4>4. QED BY <2>4, <4>2, <4>3 DEF Available
    <3>2. \A v \in Users \ {u} : Available(v)' = Available(v)
      BY <2>4, <2>6 DEF Available, Reserved
    <3>3. QED BY <3>1, <3>2 DEF Inv, NeverOverdrawn
  <2>11. OneOpenWithdrawal'
    BY <1>2, <1>7 DEF Inv, OneOpenWithdrawal, OpenKeys
  <2>12. LedgerMatchesRows'
    <3>1. \A x \in Orders :
            <<OrderOwner[x], "service_fee_redemption", x>> \in ledger'
              <=> order'[x].resv = "consumed"
      BY <1>3, <2>2, <2>4 DEF Inv, LedgerMatchesRows
    <3>2. \A v \in Users, k \in RequestKeys : \A reason :
            reason # "service_fee_redemption"
              => (<<v, reason, k>> \in ledger' <=> <<v, reason, k>> \in ledger)
      BY <2>4
    <3>3. withdrawal' = withdrawal
      BY <1>2
    <3>4. QED BY <3>1, <3>2, <3>3 DEF Inv, LedgerMatchesRows
  <2>13. QED BY <2>9, <2>10, <2>11, <2>12 DEF Inv
<1>8. QED BY <1>2, <1>3, <1>5, <1>6, <1>7, Zenon

-----------------------------------------------------------------------------
(* Withdrawal requests *)

\* A step that writes no row and only notes a decision keeps the invariant when
\* that decision is sound.
LEMMA DecideStep ==
    ASSUME Inv, NEW s \in Sessions, step[s] = "locked",
           NEW m \in [available : Int, freed : SUBSET Orders], Decide(s, m),
           StillValid(s)'
    PROVE  Inv'
<1>1. TypeOK /\ LockHeld
  BY DEF Inv
<1>2. SessionsOK' /\ LockHeld'
  BY <1>1, DecideKeepsLocks
<1>3. UNCHANGED <<rows, lock, task>>
  BY DEF Decide
<1>4. TypeOK'
  BY <1>1, <1>2, <1>3 DEF SessionsOK, TypeOK, rows
<1>5. ASSUME NEW r \in Sessions, step'[r] = "decided", r # s PROVE StillValid(r)'
  <2>1. step[r] = "decided" /\ memo'[r] = memo[r]
    BY <1>1, <1>5 DEF TypeOK, Decide
  <2>2. StillValid(r)
    BY <2>1 DEF Inv, DecisionsStayValid
  <2>3. QED
    BY <1>3, <2>1, <2>2 DEF StillValid, Owner, Unused, ReservedOrders, OpenKeys, rows
<1>6. DecisionsStayValid'
  BY <1>5 DEF DecisionsStayValid
<1>7. NeverOverdrawn' /\ OneOpenWithdrawal' /\ LedgerMatchesRows'
  BY <1>3, SameRows
<1>8. QED BY <1>2, <1>4, <1>6, <1>7 DEF Inv

LEMMA RequestCheckStep ==
    ASSUME Inv, NEW s \in Sessions, RequestCheck(s) PROVE Inv'
<1>1. TypeOK /\ LockHeld
  BY DEF Inv
<1>2. step[s] = "locked" /\ task[s] \in RequestTask /\ Owner(task[s]) = task[s].user
  BY <1>1, BusyHasTask, TaskKinds DEF RequestCheck
<1>3. PICK u \in Users : u = task[s].user
  BY <1>2 DEF RequestTask
<1> DEFINE m == [available |-> total[u] - Cardinality(ReservedOrders(u) \ Unused(u)),
                 freed |-> Unused(u)]
<1>4. CASE Finish(s) /\ UNCHANGED rows
  BY <1>2, <1>4, EmptyTransaction
<1>5. CASE /\ withdrawal[u][task[s].key] = NoRow
           /\ OpenKeys(u) = {}
           /\ Decide(s, m)
  <2>1. Cardinality(ReservedOrders(u) \ Unused(u)) \in Nat
    BY FewerReservations DEF ReservedOrders
  <2>2. total[u] \in Int
    BY <1>1 DEF TypeOK
  <2>3. m \in [available : Int, freed : SUBSET Orders]
    BY <2>1, <2>2 DEF Unused, ReservedOrders
  <2>4. memo'[s] = m /\ task' = task /\ UNCHANGED rows
    BY <1>1, <1>5 DEF Decide, TypeOK
  <2>5. StillValid(s)'
    <3>1. /\ memo'[s].freed = Unused(u)
          /\ memo'[s].available = total[u] - Cardinality(ReservedOrders(u) \ Unused(u))
      BY <2>4
    <3>2. /\ Unused(u)' = Unused(u)
          /\ ReservedOrders(u)' = ReservedOrders(u)
          /\ OpenKeys(u)' = OpenKeys(u)
      BY <2>4 DEF Unused, ReservedOrders, OpenKeys, rows
    <3>3. Owner(task[s])' = u
      BY <1>2, <1>3, <2>4 DEF Owner
    <3>4. memo'[s].available
             <= total'[u] - Cardinality(ReservedOrders(u)' \ memo'[s].freed)
      BY <2>1, <2>2, <2>4, <3>1, <3>2 DEF rows
    <3>5. QED
      BY <1>2, <1>5, <2>4, <3>1, <3>2, <3>3, <3>4 DEF StillValid, rows
  <2>6. QED
    BY <1>2, <1>5, <2>3, <2>5, DecideStep
<1>6. QED BY <1>3, <1>4, <1>5 DEF RequestCheck

\* The points leave the ledger exactly once, and the balance read earlier is
\* still there to cover them.
LEMMA RequestCommitStep ==
    ASSUME Inv, NEW s \in Sessions, RequestCommit(s) PROVE Inv'
<1>1. TypeOK /\ LockHeld
  BY DEF Inv
<1>2. step[s] = "decided" /\ task[s] \in RequestTask /\ Owner(task[s]) = task[s].user
  BY <1>1, BusyHasTask, TaskKinds DEF RequestCommit
<1>3. PICK u \in Users, k \in RequestKeys, p \in Points :
        u = task[s].user /\ k = task[s].key /\ p = task[s].points
  BY <1>2 DEF RequestTask
<1>4. Finish(s)
  BY DEF RequestCommit
<1>5. CASE UNCHANGED rows
  BY <1>2, <1>4, <1>5, EmptyTransaction
<1>6. CASE /\ memo[s].available >= p
           /\ withdrawal' = [withdrawal EXCEPT ![u][k] =
                    [status |-> "pending", points |-> p, ref |-> NoRef]]
           /\ PostOnce(u, "withdrawal_reserved", k, -p)
           /\ SetResv(memo[s].freed, "released")
  <2> DEFINE row == [status |-> "pending", points |-> p, ref |-> NoRef]
  <2> DEFINE entry == <<u, "withdrawal_reserved", k>>
  <2>1. /\ memo[s].freed \subseteq Unused(u)
        /\ memo[s].available
             <= total[u] - Cardinality(ReservedOrders(u) \ memo[s].freed)
        /\ withdrawal[u][k] = NoRow
        /\ OpenKeys(u) = {}
    <3>1. StillValid(s)
      BY <1>2 DEF Inv, DecisionsStayValid
    <3>2. task[s] \notin ReviewTask
      BY <1>2 DEF RequestTask, ReviewTask
    <3>3. QED BY <1>2, <1>3, <3>1, <3>2 DEF StillValid
  <2>2. memo[s].freed \subseteq ReservedOrders(u) /\ memo[s].freed \subseteq Orders
    BY <2>1 DEF Unused, ReservedOrders
  <2>3. /\ order' \in [Orders -> OrderRow]
        /\ \A o \in Orders :
             /\ order'[o].started = order[o].started
             /\ order'[o].expired = order[o].expired
             /\ order'[o].resv = IF o \in memo[s].freed THEN "released" ELSE order[o].resv
        /\ \A v : ReservedOrders(v)' = ReservedOrders(v) \ memo[s].freed
    BY <1>1, <1>6, <2>2, SetResvEffect
  <2>4. entry \notin ledger
    BY <2>1 DEF Inv, LedgerMatchesRows
  <2>5. p \in Nat /\ total[u] \in Int
    BY <1>1 DEF TypeOK
  <2>6. /\ ledger' = ledger \cup {entry}
        /\ total' = [total EXCEPT ![u] = @ + (-p)]
    BY <1>6, <2>4 DEF PostOnce
  <2>7. /\ total'[u] = total[u] - p
        /\ \A v \in Users \ {u} : total'[v] = total[v]
        /\ total' \in [Users -> Int]
    BY <1>1, <2>5, <2>6 DEF TypeOK
  <2>8. row \in Row
    BY DEF Row, Open, Closed
  <2>9. /\ withdrawal' \in [Users -> [RequestKeys -> Row]]
        /\ withdrawal'[u][k] = row
        /\ \A v \in Users, j \in RequestKeys :
             <<v, j>> # <<u, k>> => withdrawal'[v][j] = withdrawal[v][j]
        /\ \A v \in Users \ {u} : withdrawal'[v] = withdrawal[v]
    BY <1>1, <1>6, <2>8 DEF TypeOK
  <2>10. RowsOK'
    BY <1>1, <2>3, <2>6, <2>7, <2>9 DEF RowsOK, TypeOK
  <2>11. OthersUntouched(Owner(task[s]))
    <3> SUFFICES ASSUME NEW v \in Users \ {u}
                 PROVE  /\ total'[v] = total[v]
                        /\ ReservedOrders(v)' = ReservedOrders(v)
                        /\ Unused(v) \subseteq Unused(v)'
                        /\ withdrawal'[v] = withdrawal[v]
      BY <1>2, <1>3 DEF OthersUntouched
    <3>1. ReservedOrders(v)' = ReservedOrders(v)
      BY <2>2, <2>3 DEF ReservedOrders
    <3>2. QED BY <2>3, <2>7, <2>9, <3>1 DEF Unused, ReservedOrders
  <2>12. TypeOK' /\ LockHeld' /\ DecisionsStayValid'
    BY <1>2, <1>4, <2>10, <2>11, FinishKeepsDecisions
  <2>13. NeverOverdrawn'
    <3>1. Available(u)' >= 0
      <4>1. Cardinality(ReservedOrders(u) \ memo[s].freed) \in Nat
        BY FewerReservations DEF ReservedOrders
      <4>2. Reserved(u)' = Cardinality(ReservedOrders(u) \ memo[s].freed)
        BY <2>3 DEF Reserved
      <4>3. memo[s].available \in Int
        BY <1>1 DEF TypeOK
      <4>4. QED BY <1>6, <2>1, <2>5, <2>7, <4>1, <4>2, <4>3 DEF Available
    <3>2. \A v \in Users \ {u} : Available(v)' = Available(v)
      BY <1>2, <1>3, <2>7, <2>11 DEF Available, Reserved, OthersUntouched
    <3>3. QED BY <3>1, <3>2 DEF Inv, NeverOverdrawn
  <2>14. OneOpenWithdrawal'
    <3>1. OpenKeys(u)' \subseteq {k}
      BY <2>1, <2>9 DEF OpenKeys
    <3>2. \A v \in Users \ {u} : OpenKeys(v)' = OpenKeys(v)
      BY <2>9 DEF OpenKeys
    <3>3. QED BY <3>1, <3>2 DEF Inv, OneOpenWithdrawal
  <2>15. LedgerMatchesRows'
    <3>1. \A v \in Users, j \in RequestKeys :
            <<v, "withdrawal_reserved", j>> \in ledger' <=> withdrawal'[v][j] # NoRow
      <4> SUFFICES ASSUME NEW v \in Users, NEW j \in RequestKeys
                   PROVE  <<v, "withdrawal_reserved", j>> \in ledger'
                            <=> withdrawal'[v][j] # NoRow
        OBVIOUS
      <4>1. CASE v = u /\ j = k
        BY <2>6, <2>9, <4>1 DEF NoRow
      <4>2. CASE ~(v = u /\ j = k)
        <5>1. withdrawal'[v][j] = withdrawal[v][j]
          BY <2>9, <4>2
        <5>2. <<v, "withdrawal_reserved", j>> \in ledger'
                <=> <<v, "withdrawal_reserved", j>> \in ledger
          BY <2>6, <4>2
        <5>3. QED BY <5>1, <5>2 DEF Inv, LedgerMatchesRows
      <4>3. QED BY <4>1, <4>2
    <3>2. \A v \in Users : \A x, reason :
            reason # "withdrawal_reserved"
              => (<<v, reason, x>> \in ledger' <=> <<v, reason, x>> \in ledger)
      BY <2>6
    <3>3. \A v \in Users, j \in RequestKeys :
            withdrawal'[v][j].status = "rejected" <=> withdrawal[v][j].status = "rejected"
      BY <2>1, <2>9 DEF NoRow
    <3>4. \A o \in Orders : order'[o].resv = "consumed" <=> order[o].resv = "consumed"
      BY <2>2, <2>3 DEF ReservedOrders
    <3>5. \A v \in Users, j \in RequestKeys :
            <<v, "withdrawal_released", j>> \in ledger' <=> withdrawal'[v][j].status = "rejected"
      BY <3>2, <3>3 DEF Inv, LedgerMatchesRows
    <3>6. \A o \in Orders :
            <<OrderOwner[o], "service_fee_redemption", o>> \in ledger' <=> order'[o].resv = "consumed"
      BY <3>2, <3>4 DEF Inv, LedgerMatchesRows
    <3>7. QED BY <3>1, <3>5, <3>6 DEF LedgerMatchesRows
  <2>16. QED BY <2>12, <2>13, <2>14, <2>15 DEF Inv
<1>7. memo[s].available \in Int /\ p \in Int
  BY <1>1 DEF TypeOK
<1>8. QED BY <1>3, <1>5, <1>6, <1>7 DEF RequestCommit

-----------------------------------------------------------------------------
(* Reviews *)

LEMMA ReviewCheckStep ==
    ASSUME Inv, NEW s \in Sessions, ReviewCheck(s) PROVE Inv'
<1>1. TypeOK /\ LockHeld
  BY DEF Inv
<1>2. step[s] = "locked" /\ task[s] \in ReviewTask /\ Owner(task[s]) = task[s].user
  BY <1>1, BusyHasTask, TaskKinds DEF ReviewCheck
<1>3. PICK u \in Users, k \in RequestKeys : u = task[s].user /\ k = task[s].key
  BY <1>2 DEF ReviewTask
<1>4. CASE Finish(s) /\ UNCHANGED rows
  BY <1>2, <1>4, EmptyTransaction
<1>5. CASE /\ withdrawal[u][k].status \notin Closed
           /\ withdrawal[u][k].status # "none"
           /\ task[s].target = "paid" => withdrawal[u][k].status = "processing"
           /\ Decide(s, NoMemo)
  <2>1. NoMemo \in [available : Int, freed : SUBSET Orders]
    BY DEF NoMemo
  <2>2. task' = task /\ withdrawal' = withdrawal
    BY <1>5 DEF Decide, rows
  <2>3. withdrawal[u][k].status \in Open
    BY <1>1, <1>5 DEF TypeOK, Row
  <2>4. StillValid(s)'
    BY <1>2, <1>3, <1>5, <2>2, <2>3 DEF StillValid, Owner
  <2>5. QED BY <1>2, <1>5, <2>1, <2>4, DecideStep
<1>6. QED BY <1>3, <1>4, <1>5 DEF ReviewCheck

\* A review moves one open row; a rejection gives back the points it held.
LEMMA ReviewCommitStep ==
    ASSUME Inv, NEW s \in Sessions, ReviewCommit(s) PROVE Inv'
<1>1. TypeOK /\ LockHeld
  BY DEF Inv
<1>2. step[s] = "decided" /\ task[s] \in ReviewTask /\ Owner(task[s]) = task[s].user
  BY <1>1, BusyHasTask, TaskKinds DEF ReviewCommit
<1>3. PICK u \in Users, k \in RequestKeys, target \in {"processing", "paid", "rejected"},
           ref \in PayoutRefs \cup {NoRef} :
        u = task[s].user /\ k = task[s].key /\ target = task[s].target /\ ref = task[s].ref
  BY <1>2 DEF ReviewTask
<1>4. Finish(s)
  BY DEF ReviewCommit
<1>5. CASE UNCHANGED rows
  BY <1>2, <1>4, <1>5, EmptyTransaction
<1>6. CASE /\ withdrawal' = [withdrawal EXCEPT ![u][k].status = target, ![u][k].ref = ref]
           /\ IF target = "rejected"
                THEN PostOnce(u, "withdrawal_released", k, withdrawal[u][k].points)
                ELSE UNCHANGED <<ledger, total>>
           /\ UNCHANGED order
  <2> DEFINE old == withdrawal[u][k]
  <2> DEFINE new == [status |-> target, points |-> old.points, ref |-> ref]
  <2> DEFINE entry == <<u, "withdrawal_released", k>>
  <2>1. old \in Row /\ old.status \in Open
    <3>1. StillValid(s)
      BY <1>2 DEF Inv, DecisionsStayValid
    <3>2. task[s] \notin RequestTask
      BY <1>2 DEF RequestTask, ReviewTask
    <3>3. QED BY <1>1, <1>2, <1>3, <3>1, <3>2 DEF StillValid, TypeOK
  <2>2. new \in Row /\ old.points \in Nat
    <3>1. old.points \in Points \cup {0}
      BY <2>1 DEF Row
    <3>2. target \in Open \cup Closed \cup {"none"}
      BY DEF Open, Closed
    <3>3. old.points \in Nat
      <4>1. \A n \in Points \cup {0} : n \in Nat
        OBVIOUS
      <4> HIDE DEF old
      <4>2. QED BY <3>1, <4>1
    <3>4. new \in Row
      BY <3>1, <3>2 DEF Row
    <3>5. QED BY <3>3, <3>4
  <2>3. /\ withdrawal' \in [Users -> [RequestKeys -> Row]]
        /\ withdrawal'[u][k] = new
        /\ \A v \in Users, j \in RequestKeys :
             ~(v = u /\ j = k) => withdrawal'[v][j] = withdrawal[v][j]
        /\ \A v \in Users \ {u} : withdrawal'[v] = withdrawal[v]
    BY <1>1, <1>6, <2>1, <2>2 DEF TypeOK, Row
  <2>4. entry \notin ledger
    BY <2>1 DEF Inv, LedgerMatchesRows, Open
  <2>5. /\ ledger' = IF target = "rejected" THEN ledger \cup {entry} ELSE ledger
        /\ total' \in [Users -> Int]
        /\ total'[u] >= total[u]
        /\ \A v \in Users \ {u} : total'[v] = total[v]
    BY <1>1, <1>6, <2>2, <2>4 DEF PostOnce, TypeOK
  <2>6. \A v : ReservedOrders(v)' = ReservedOrders(v) /\ Unused(v)' = Unused(v)
    BY <1>6 DEF ReservedOrders, Unused
  <2>7. RowsOK'
    BY <1>1, <1>6, <2>3, <2>5 DEF RowsOK, TypeOK
  <2>8. OthersUntouched(Owner(task[s]))
    BY <1>2, <1>3, <2>3, <2>5, <2>6 DEF OthersUntouched
  <2>9. TypeOK' /\ LockHeld' /\ DecisionsStayValid'
    BY <1>2, <1>4, <2>7, <2>8, FinishKeepsDecisions
  <2>10. NeverOverdrawn'
    <3> SUFFICES ASSUME NEW v \in Users PROVE Available(v)' >= 0
      BY DEF NeverOverdrawn
    <3>1. total[v] \in Int /\ total'[v] \in Int
      BY <1>1, <2>5 DEF TypeOK
    <3> HIDE DEF old, new, entry
    <3>2. total'[v] >= total[v]
      <4>1. CASE v = u
        BY <2>5, <4>1
      <4>2. CASE v # u
        BY <2>5, <3>1, <4>2
      <4>3. QED BY <4>1, <4>2
    <3>3. QED BY <1>1, <2>6, <3>1, <3>2, BalanceKept DEF Inv, NeverOverdrawn
  <2>11. OneOpenWithdrawal'
    <3>1. \A v \in Users : OpenKeys(v)' \subseteq OpenKeys(v)
      BY <2>1, <2>3 DEF OpenKeys
    <3>2. QED BY <3>1 DEF Inv, OneOpenWithdrawal
  <2>12. LedgerMatchesRows'
    <3>1. \A v \in Users, j \in RequestKeys :
            <<v, "withdrawal_released", j>> \in ledger' <=> withdrawal'[v][j].status = "rejected"
      <4> SUFFICES ASSUME NEW v \in Users, NEW j \in RequestKeys
                   PROVE  <<v, "withdrawal_released", j>> \in ledger'
                            <=> withdrawal'[v][j].status = "rejected"
        OBVIOUS
      <4>1. CASE v = u /\ j = k
        BY <2>3, <2>4, <2>5, <4>1
      <4>2. CASE ~(v = u /\ j = k)
        <5>1. withdrawal'[v][j] = withdrawal[v][j]
          BY <2>3, <4>2
        <5>2. <<v, "withdrawal_released", j>> \in ledger'
                <=> <<v, "withdrawal_released", j>> \in ledger
          BY <2>5, <4>2
        <5>3. QED BY <5>1, <5>2 DEF Inv, LedgerMatchesRows
      <4>3. QED BY <4>1, <4>2
    <3>2. \A v \in Users : \A x, reason :
            reason # "withdrawal_released"
              => (<<v, reason, x>> \in ledger' <=> <<v, reason, x>> \in ledger)
      BY <2>5
    <3>3. \A v \in Users, j \in RequestKeys :
            withdrawal'[v][j] = NoRow <=> withdrawal[v][j] = NoRow
      BY <2>1, <2>3 DEF NoRow, Open
    <3>4. QED BY <1>6, <3>1, <3>2, <3>3 DEF Inv, LedgerMatchesRows
  <2>13. QED BY <2>9, <2>10, <2>11, <2>12 DEF Inv
<1>7. QED BY <1>3, <1>5, <1>6 DEF ReviewCommit

-----------------------------------------------------------------------------
(* Steps outside the handlers *)

\* Nothing but the session's own bookkeeping moves.
LEMMA BeginStep ==
    ASSUME Inv, NEW s \in Sessions, NEW t \in Task, Begin(s, t) PROVE Inv'
<1>1. /\ TypeOK /\ LockHeld
      /\ step[s] = "idle"
      /\ UNCHANGED <<rows, lock, memo>>
  BY DEF Inv, Begin
<1>2. \A r \in Sessions :
        /\ step'[r] = IF r = s THEN "waiting" ELSE step[r]
        /\ task'[r] = IF r = s THEN t ELSE task[r]
  BY <1>1 DEF TypeOK, Begin
<1>3. TypeOK'
  BY <1>1 DEF TypeOK, Begin, rows
<1>4. LockHeld'
  <2>1. \A r \in Sessions : step'[r] = "idle" <=> task'[r] = NoTask
    BY <1>1, <1>2, TaskKinds DEF LockHeld
  <2>2. \A r \in Sessions :
          step'[r] \in {"locked", "decided"} => lock'[Owner(task'[r])] = r
    BY <1>1, <1>2 DEF LockHeld
  <2>3. ASSUME NEW u \in Users, lock'[u] # NoSession
        PROVE  /\ step'[lock'[u]] \in {"locked", "decided"}
               /\ Owner(task'[lock'[u]]) = u
    <3>1. lock'[u] = lock[u] /\ lock[u] \in Sessions /\ lock[u] # s
      BY <1>1, <2>3 DEF LockHeld, TypeOK
    <3>2. QED BY <1>1, <1>2, <2>3, <3>1 DEF LockHeld
  <2>4. QED BY <2>1, <2>2, <2>3 DEF LockHeld
<1>5. DecisionsStayValid'
  <2> SUFFICES ASSUME NEW r \in Sessions, step'[r] = "decided" PROVE StillValid(r)'
    BY DEF DecisionsStayValid
  <2>1. step[r] = "decided" /\ task'[r] = task[r]
    BY <1>2
  <2>2. QED BY <1>1, <2>1, SameRowsDecision
<1>6. NeverOverdrawn' /\ OneOpenWithdrawal' /\ LedgerMatchesRows'
  BY <1>1, SameRows
<1>7. QED BY <1>3, <1>4, <1>5, <1>6 DEF Inv

LEMMA LockStep ==
    ASSUME Inv, NEW s \in Sessions, Lock(s) PROVE Inv'
<1>1. /\ TypeOK /\ LockHeld
      /\ step[s] = "waiting"
      /\ UNCHANGED <<rows, task, memo>>
  BY DEF Inv, Lock
<1>2. PICK u \in Users : u = Owner(task[s]) /\ lock[u] = NoSession
  BY <1>1, BusyHasTask DEF Lock
<1>3. /\ \A r \in Sessions : step'[r] = IF r = s THEN "locked" ELSE step[r]
      /\ \A v \in Users : lock'[v] = IF v = u THEN s ELSE lock[v]
  BY <1>1, <1>2 DEF TypeOK, Lock
<1>4. TypeOK'
  BY <1>1, <1>2 DEF TypeOK, Lock, rows
<1>5. LockHeld'
  <2>1. \A r \in Sessions : step'[r] = "idle" <=> task'[r] = NoTask
    BY <1>1, <1>3 DEF LockHeld
  <2>2. ASSUME NEW r \in Sessions, step'[r] \in {"locked", "decided"}
        PROVE  lock'[Owner(task'[r])] = r
    <3>1. CASE r = s
      BY <1>1, <1>2, <1>3, <3>1
    <3>2. CASE r # s
      <4>1. step[r] \in {"locked", "decided"} /\ task'[r] = task[r]
        BY <1>1, <1>3, <2>2, <3>2
      <4>2. lock[Owner(task[r])] = r /\ Owner(task[r]) \in Users
        BY <1>1, <4>1, BusyHasTask DEF LockHeld
      <4>3. QED BY <1>2, <1>3, <4>1, <4>2
    <3>3. QED BY <3>1, <3>2
  <2>3. ASSUME NEW v \in Users, lock'[v] # NoSession
        PROVE  /\ step'[lock'[v]] \in {"locked", "decided"}
               /\ Owner(task'[lock'[v]]) = v
    <3>1. CASE v = u
      BY <1>1, <1>2, <1>3, <3>1
    <3>2. CASE v # u
      <4>1. lock'[v] = lock[v] /\ lock[v] \in Sessions
        BY <1>1, <1>3, <2>3, <3>2 DEF TypeOK
      <4>2. /\ step[lock[v]] \in {"locked", "decided"}
            /\ Owner(task[lock[v]]) = v
        BY <1>1, <2>3, <4>1 DEF LockHeld
      <4>3. QED BY <1>1, <1>3, <4>1, <4>2
    <3>3. QED BY <3>1, <3>2
  <2>4. QED BY <2>1, <2>2, <2>3 DEF LockHeld
<1>6. DecisionsStayValid'
  <2> SUFFICES ASSUME NEW r \in Sessions, step'[r] = "decided" PROVE StillValid(r)'
    BY DEF DecisionsStayValid
  <2>1. step[r] = "decided" /\ task'[r] = task[r]
    BY <1>1, <1>3
  <2>2. QED BY <1>1, <2>1, SameRowsDecision
<1>7. NeverOverdrawn' /\ OneOpenWithdrawal' /\ LedgerMatchesRows'
  BY <1>1, SameRows
<1>8. QED BY <1>4, <1>5, <1>6, <1>7 DEF Inv

\* A rollback looks like an empty transaction; one that still waited for the
\* lock leaves every lock where it is.
LEMMA AbortStep ==
    ASSUME Inv, NEW s \in Sessions, Abort(s) PROVE Inv'
<1>1. TypeOK /\ LockHeld /\ UNCHANGED rows /\ step[s] # "idle"
  BY DEF Inv, Abort
<1>2. CASE step[s] \in {"locked", "decided"}
  <2>1. Owner(task[s]) \in Users /\ lock[Owner(task[s])] = s
    BY <1>1, <1>2, BusyHasTask DEF LockHeld
  <2>2. \A v \in Users : lock[v] = s <=> v = Owner(task[s])
    <3>1. ASSUME NEW v \in Users, lock[v] = s
          PROVE  v = Owner(task[s])
      BY <1>1, <3>1, NullsAssumption DEF LockHeld
    <3>2. QED BY <2>1, <3>1
  <2>3. lock' = [lock EXCEPT ![Owner(task[s])] = NoSession]
    <3>1. lock' = [v \in Users |-> IF lock[v] = s THEN NoSession ELSE lock[v]]
      BY DEF Abort
    <3>2. lock' = [v \in Users |-> IF v = Owner(task[s]) THEN NoSession ELSE lock[v]]
      BY <2>2, <3>1
    <3>3. lock \in [Users -> Sessions \cup {NoSession}]
      BY <1>1 DEF TypeOK
    <3>4. QED BY <2>1, <3>2, <3>3
  <2>4. Finish(s)
    BY <2>3 DEF Abort, Finish
  <2>5. QED BY <1>1, <1>2, <2>4, EmptyTransaction
<1>3. CASE step[s] = "waiting"
  <2>1. ASSUME NEW v \in Users PROVE lock[v] # s
    <3>1. SUFFICES ASSUME lock[v] = s PROVE FALSE
      OBVIOUS
    <3>2. step[lock[v]] \in {"locked", "decided"}
      BY <1>1, <3>1 DEF LockHeld
    <3>3. QED BY <1>3, <3>1, <3>2
  <2>2. lock' = lock
    BY <1>1, <2>1 DEF Abort, TypeOK
  <2>3. \A r \in Sessions :
          /\ step'[r] = IF r = s THEN "idle" ELSE step[r]
          /\ task'[r] = IF r = s THEN NoTask ELSE task[r]
          /\ memo'[r] = IF r = s THEN NoMemo ELSE memo[r]
    BY <1>1 DEF TypeOK, Abort
  <2>4. TypeOK'
    BY <1>1, <2>2 DEF TypeOK, Abort, rows, NoMemo
  <2>5. LockHeld'
    BY <1>1, <1>3, <2>1, <2>2, <2>3 DEF LockHeld, TypeOK
  <2>6. DecisionsStayValid'
    <3> SUFFICES ASSUME NEW r \in Sessions, step'[r] = "decided" PROVE StillValid(r)'
      BY DEF DecisionsStayValid
    <3>1. step[r] = "decided" /\ task'[r] = task[r] /\ memo'[r] = memo[r]
      BY <2>3
    <3>2. QED BY <1>1, <3>1, SameRowsDecision
  <2>7. NeverOverdrawn' /\ OneOpenWithdrawal' /\ LedgerMatchesRows'
    BY <1>1, SameRows
  <2>8. QED BY <2>4, <2>5, <2>6, <2>7 DEF Inv
<1>4. QED BY <1>1, <1>2, <1>3 DEF TypeOK

\* A step outside any session keeps the decisions of all of them when it takes
\* no points and no reservation away.
LEMMA OutsideStep ==
    ASSUME Inv, RowsOK', UNCHANGED <<withdrawal, lock, step, task, memo>>,
           \A u \in Users : total'[u] >= total[u],
           \A u \in Users : ReservedOrders(u)' = ReservedOrders(u),
           \A u \in Users : Unused(u) \subseteq Unused(u)'
    PROVE  /\ TypeOK' /\ LockHeld' /\ DecisionsStayValid'
           /\ NeverOverdrawn' /\ OneOpenWithdrawal'
<1>1. TypeOK /\ LockHeld
  BY DEF Inv
<1>2. TypeOK'
  BY <1>1 DEF RowsOK, TypeOK
<1>3. LockHeld'
  BY <1>1 DEF LockHeld, Owner
<1>4. DecisionsStayValid'
  <2> SUFFICES ASSUME NEW s \in Sessions, step'[s] = "decided" PROVE StillValid(s)'
    BY DEF DecisionsStayValid
  <2>1. step[s] = "decided"
    OBVIOUS
  <2>2. PICK u \in Users : u = Owner(task[s])
    BY <1>1, <2>1, BusyHasTask
  <2>3. StillValid(s)
    BY <2>1 DEF Inv, DecisionsStayValid
  <2>4. /\ total[u] \in Int /\ total'[u] \in Int
        /\ memo[s].available \in Int
    BY <1>1, <1>2 DEF TypeOK
  <2>5. QED BY <2>2, <2>3, <2>4, DecisionKept
<1>5. NeverOverdrawn'
  <2> SUFFICES ASSUME NEW u \in Users PROVE Available(u)' >= 0
    BY DEF NeverOverdrawn
  <2>1. total'[u] \in Int
    BY <1>2 DEF TypeOK
  <2>2. QED BY <1>1, <2>1, BalanceKept DEF Inv, NeverOverdrawn
<1>6. OneOpenWithdrawal'
  BY DEF Inv, OneOpenWithdrawal, OpenKeys
<1>7. QED BY <1>2, <1>3, <1>4, <1>5, <1>6

LEMMA AwardStep ==
    ASSUME Inv, NEW u \in Users, NEW e \in Rewards, Award(u, e) PROVE Inv'
<1> DEFINE entry == <<u, "reward", e>>
<1>1. TypeOK /\ Worth[e] \in Nat /\ total[u] \in Int
  BY DEF Inv, TypeOK
<1>2. /\ ledger' = ledger \cup {entry}
      /\ total' = [total EXCEPT ![u] = @ + Worth[e]]
      /\ UNCHANGED <<order, withdrawal, lock, step, task, memo>>
  BY DEF Award, PostOnce
<1>3. total' \in [Users -> Int]
  BY <1>1, <1>2 DEF TypeOK
<1>4. \A v \in Users : total'[v] >= total[v]
  <2> SUFFICES ASSUME NEW v \in Users PROVE total'[v] >= total[v]
    OBVIOUS
  <2>1. total[v] \in Int
    BY <1>1 DEF TypeOK
  <2>2. total'[v] = IF v = u THEN total[u] + Worth[e] ELSE total[v]
    BY <1>1, <1>2 DEF TypeOK
  <2>3. QED BY <1>1, <2>1, <2>2
<1>5. RowsOK'
  <2>1. ledger' \subseteq Users \X {"reward", "service_fee_redemption",
                       "withdrawal_reserved", "withdrawal_released"}
                     \X (Rewards \cup RequestKeys \cup Orders)
    BY <1>1, <1>2 DEF TypeOK
  <2>2. QED BY <1>1, <1>2, <1>3, <2>1 DEF RowsOK, TypeOK
<1>6. \A v \in Users : ReservedOrders(v)' = ReservedOrders(v) /\ Unused(v)' = Unused(v)
  BY <1>2 DEF ReservedOrders, Unused
<1>7. /\ TypeOK' /\ LockHeld' /\ DecisionsStayValid'
      /\ NeverOverdrawn' /\ OneOpenWithdrawal'
  BY <1>2, <1>4, <1>5, <1>6, OutsideStep
<1>8. LedgerMatchesRows'
  <2>1. \A v \in Users : \A x, reason :
          reason # "reward"
            => (<<v, reason, x>> \in ledger' <=> <<v, reason, x>> \in ledger)
    BY <1>2
  <2>2. QED BY <1>2, <2>1 DEF Inv, LedgerMatchesRows
<1>9. QED BY <1>7, <1>8 DEF Inv

LEMMA ExpireStep ==
    ASSUME Inv, NEW o \in Orders, Expire(o) PROVE Inv'
<1>1. TypeOK /\ order[o] \in OrderRow
  BY DEF Inv, TypeOK
<1>2. /\ order' = [order EXCEPT ![o].expired = TRUE]
      /\ UNCHANGED <<total, ledger, withdrawal, lock, step, task, memo>>
  BY DEF Expire
<1>3. order' \in [Orders -> OrderRow]
  <2>1. [order[o] EXCEPT !.expired = TRUE] \in OrderRow
    BY <1>1 DEF OrderRow
  <2>2. QED BY <1>1, <1>2, <2>1 DEF TypeOK
<1>4. \A x \in Orders :
        /\ order'[x].resv = order[x].resv
        /\ order'[x].started = order[x].started
        /\ order[x].expired => order'[x].expired
  BY <1>1, <1>2 DEF TypeOK, OrderRow
<1>5. \A v \in Users :
        ReservedOrders(v)' = ReservedOrders(v) /\ Unused(v) \subseteq Unused(v)'
  BY <1>4 DEF ReservedOrders, Unused
<1>6. RowsOK'
  BY <1>1, <1>2, <1>3 DEF RowsOK, TypeOK
<1>7. \A v \in Users : total'[v] >= total[v]
  BY <1>1, <1>2 DEF TypeOK
<1>8. /\ TypeOK' /\ LockHeld' /\ DecisionsStayValid'
      /\ NeverOverdrawn' /\ OneOpenWithdrawal'
  BY <1>2, <1>5, <1>6, <1>7, OutsideStep
<1>9. LedgerMatchesRows'
  BY <1>2, <1>4 DEF Inv, LedgerMatchesRows
<1>10. QED BY <1>8, <1>9 DEF Inv

-----------------------------------------------------------------------------
(* The invariant *)

LEMMA InitInv == Init => Inv
<1> SUFFICES ASSUME Init PROVE Inv
  OBVIOUS
<1>1. TypeOK
  <2>1. total \in [Users -> Int] /\ order \in [Orders -> OrderRow]
    <3>1. total \in [Users -> OpeningTotals] /\ OpeningTotals \subseteq Int
      BY DEF Init
    <3>2. /\ order \in [Orders -> {r \in OrderRow : LegacyRow(r)}]
          /\ {r \in OrderRow : LegacyRow(r)} \subseteq OrderRow
      BY DEF Init
    <3>3. QED BY <3>1, <3>2
  <2>2. NoRow \in Row
    BY DEF Row, NoRow
  <2>3. withdrawal \in [Users -> [RequestKeys -> Row]]
    BY <2>2 DEF Init
  <2>4. NoMemo \in [available : Int, freed : SUBSET Orders]
    BY DEF NoMemo
  <2>5. ledger \subseteq Users \X {"reward", "service_fee_redemption",
                       "withdrawal_reserved", "withdrawal_released"}
                     \X (Rewards \cup RequestKeys \cup Orders)
    BY DEF Init
  <2>6. QED BY <2>1, <2>3, <2>4, <2>5 DEF Init, TypeOK
<1>2. LockHeld
  BY DEF Init, LockHeld
<1>3. DecisionsStayValid
  BY DEF Init, DecisionsStayValid
<1>4. NeverOverdrawn
  <2> SUFFICES ASSUME NEW u \in Users PROVE Available(u) >= 0
    BY DEF NeverOverdrawn
  <2>1. Reserved(u) \in Nat /\ total[u] \in Nat /\ Reserved(u) <= total[u]
    BY ReservedFinite DEF Init
  <2>2. QED BY <2>1 DEF Available
<1>5. OneOpenWithdrawal
  BY DEF Init, OneOpenWithdrawal, OpenKeys, Open, NoRow
<1>6. LedgerMatchesRows
  BY DEF Init, LedgerMatchesRows, NoRow
<1>7. QED BY <1>1, <1>2, <1>3, <1>4, <1>5, <1>6 DEF Inv

LEMMA NextInv == Inv /\ [Next]_vars => Inv'
<1> SUFFICES ASSUME Inv, [Next]_vars PROVE Inv'
  OBVIOUS
<1>1. ASSUME NEW s \in Sessions, NEW t \in Task, Begin(s, t) PROVE Inv'
  BY <1>1, BeginStep
<1>2. ASSUME NEW s \in Sessions, Lock(s) PROVE Inv'
  BY <1>2, LockStep
<1>3. ASSUME NEW s \in Sessions, Abort(s) PROVE Inv'
  BY <1>3, AbortStep
<1>4. ASSUME NEW s \in Sessions, Serve(s) PROVE Inv'
  BY <1>4, GetBalanceStep, ReleaseStep, SettleStep, RequestCheckStep,
     RequestCommitStep, ReviewCheckStep, ReviewCommitStep DEF Serve
<1>5. ASSUME NEW u \in Users, NEW e \in Rewards, Award(u, e) PROVE Inv'
  BY <1>5, AwardStep
<1>6. ASSUME NEW o \in Orders, Expire(o) PROVE Inv'
  BY <1>6, ExpireStep
<1>7. CASE UNCHANGED vars
  <2>1. UNCHANGED <<total, ledger, order, withdrawal, lock, step, task, memo>>
    BY <1>7 DEF vars
  <2>2. TypeOK' /\ LockHeld'
    BY <2>1 DEF Inv, TypeOK, LockHeld, Owner
  <2>3. DecisionsStayValid'
    BY <2>1, SameRowsDecision DEF DecisionsStayValid, rows
  <2>4. QED BY <2>1, <2>2, <2>3, SameRows DEF Inv, rows
<1>8. QED BY <1>1, <1>2, <1>3, <1>4, <1>5, <1>6, <1>7 DEF Next

\* The inductive invariant holds throughout every execution.
THEOREM Invariance == Spec => []Inv
<1>1. Init => Inv
  BY InitInv
<1>2. Inv /\ [Next]_vars => Inv'
  BY NextInv
<1>3. QED BY <1>1, <1>2, PTL DEF Spec

\* The state of the wallet is always well formed.
THEOREM TypeCorrect == Spec => []TypeOK
<1>1. Inv => TypeOK
  BY DEF Inv
<1>2. QED BY <1>1, Invariance, PTL

\* For any number of users, sessions, orders and amounts, no interleaving of
\* handlers, rewards, rollbacks and expiries overdraws a wallet.
THEOREM WalletNeverOverdrawn == Spec => []NeverOverdrawn
<1>1. Inv => NeverOverdrawn
  BY DEF Inv
<1>2. QED BY <1>1, Invariance, PTL

\* No interleaving opens two withdrawals of one user.
THEOREM AtMostOneOpen == Spec => []OneOpenWithdrawal
<1>1. Inv => OneOpenWithdrawal
  BY DEF Inv
<1>2. QED BY <1>1, Invariance, PTL

\* Points are taken, given back and charged exactly as the rows say, once each.
THEOREM LedgerConsistent == Spec => []LedgerMatchesRows
<1>1. Inv => LedgerMatchesRows
  BY DEF Inv
<1>2. QED BY <1>1, Invariance, PTL

\* What a handler compared stays true until it commits.
THEOREM DecisionsHold == Spec => []DecisionsStayValid
<1>1. Inv => DecisionsStayValid
  BY DEF Inv
<1>2. QED BY <1>1, Invariance, PTL

\* Whoever is past the advisory lock holds it, and no finished request does.
THEOREM LocksHaveHolders == Spec => []LockHeld
<1>1. Inv => LockHeld
  BY DEF Inv
<1>2. QED BY <1>1, Invariance, PTL

-----------------------------------------------------------------------------
(* What a step may never do *)

\* Only a review writes a withdrawal that exists, and only while it is open.
LEMMA ClosedRowsKept ==
    ASSUME Inv, [Next]_vars, NEW u \in Users, NEW k \in RequestKeys,
           withdrawal[u][k].status \in Closed
    PROVE  withdrawal'[u][k] = withdrawal[u][k]
<1>1. TypeOK /\ LockHeld
  BY DEF Inv
<1>2. ASSUME NEW s \in Sessions, RequestCommit(s)
      PROVE  withdrawal'[u][k] = withdrawal[u][k]
  <2>1. step[s] = "decided" /\ task[s] \in RequestTask /\ Owner(task[s]) = task[s].user
    BY <1>1, <1>2, BusyHasTask, TaskKinds DEF RequestCommit
  <2>2. task[s] \notin ReviewTask
    BY <2>1 DEF RequestTask, ReviewTask
  <2>3. withdrawal[task[s].user][task[s].key] = NoRow
    BY <2>1, <2>2 DEF Inv, DecisionsStayValid, StillValid
  <2>4. ~(u = task[s].user /\ k = task[s].key)
    BY <2>3 DEF NoRow, Closed
  <2>5. withdrawal \in [Users -> [RequestKeys -> Row]]
    BY <1>1 DEF TypeOK
  <2>6. CASE UNCHANGED rows
    BY <2>6 DEF rows
  <2>7. CASE withdrawal' = [withdrawal EXCEPT ![task[s].user][task[s].key] =
                [status |-> "pending", points |-> task[s].points, ref |-> NoRef]]
    BY <2>4, <2>5, <2>7
  <2>8. QED BY <1>2, <2>6, <2>7 DEF RequestCommit
<1>3. ASSUME NEW s \in Sessions, ReviewCommit(s)
      PROVE  withdrawal'[u][k] = withdrawal[u][k]
  <2>1. step[s] = "decided" /\ task[s] \in ReviewTask /\ Owner(task[s]) = task[s].user
    BY <1>1, <1>3, BusyHasTask, TaskKinds DEF ReviewCommit
  <2>2. task[s] \notin RequestTask
    BY <2>1 DEF RequestTask, ReviewTask
  <2>3. withdrawal[task[s].user][task[s].key].status \in Open
    BY <2>1, <2>2 DEF Inv, DecisionsStayValid, StillValid
  <2>4. ~(u = task[s].user /\ k = task[s].key)
    BY <2>3 DEF Open, Closed
  <2>5. withdrawal \in [Users -> [RequestKeys -> Row]]
    BY <1>1 DEF TypeOK
  <2>6. CASE UNCHANGED rows
    BY <2>6 DEF rows
  <2>7. CASE withdrawal' = [withdrawal EXCEPT
                ![task[s].user][task[s].key].status = task[s].target,
                ![task[s].user][task[s].key].ref = task[s].ref]
    BY <2>4, <2>5, <2>7
  <2>8. QED BY <1>3, <2>6, <2>7 DEF ReviewCommit
<1>4. ASSUME NEW s \in Sessions, Serve(s) PROVE withdrawal'[u][k] = withdrawal[u][k]
  BY <1>2, <1>3, <1>4 DEF Serve, GetBalance, ReleaseXPQuote, SettleOrder,
     RequestCheck, ReviewCheck, Decide, rows
<1>5. QED
  BY <1>4 DEF Next, Begin, Lock, Abort, Award, Expire, vars, rows

\* A closed withdrawal is final, whatever arrives later.
THEOREM ClosedWithdrawalsFinal == Spec => ClosedIsFinal
<1>1. Inv /\ [Next]_vars =>
        [\A u \in Users, k \in RequestKeys :
           withdrawal[u][k].status \in Closed => withdrawal'[u][k] = withdrawal[u][k]]_vars
  BY ClosedRowsKept
<1>2. QED BY <1>1, Invariance, PTL DEF Spec, ClosedIsFinal

\* A reservation is released only for an order without a payment.
LEMMA ChargedRowsKept ==
    ASSUME Inv, [Next]_vars, NEW o \in Orders,
           order[o].started, order[o].resv = "reserved"
    PROVE  order'[o].resv \in {"reserved", "consumed"}
<1>1. TypeOK /\ LockHeld /\ order \in [Orders -> OrderRow]
  BY DEF Inv, TypeOK
<1>2. ASSUME NEW os \in SUBSET Orders, SetResv(os, "released"), o \notin os
      PROVE  order'[o].resv = "reserved"
  BY <1>1, <1>2, SetResvEffect
<1>3. ASSUME NEW s \in Sessions, GetBalance(s)
      PROVE  order'[o].resv = "reserved"
  BY <1>2, <1>3 DEF GetBalance, Unused, ReservedOrders
<1>4. ASSUME NEW s \in Sessions, ReleaseXPQuote(s)
      PROVE  order'[o].resv = "reserved"
  <2>1. CASE UNCHANGED order
    BY <2>1
  <2>2. CASE ~order[task[s].order].started /\
             SetResv({task[s].order} \cap ReservedOrders(OrderOwner[task[s].order]), "released")
    BY <1>2, <2>2 DEF ReservedOrders
  <2>3. QED BY <1>4, <2>1, <2>2 DEF ReleaseXPQuote
<1>5. ASSUME NEW s \in Sessions, SettleOrder(s)
      PROVE  order'[o].resv \in {"reserved", "consumed"}
  <2>1. PICK x \in Orders :
          \/ order[x].resv = "none" /\ order' = [order EXCEPT ![x].status = "Paid"]
          \/ order' = [order EXCEPT ![x].status = "Paid", ![x].resv = "consumed"]
          \/ order' = order
    BY <1>5, Zenon DEF SettleOrder
  <2>2. CASE x = o
    BY <1>1, <2>1, <2>2 DEF OrderRow
  <2>3. CASE x # o
    BY <1>1, <2>1, <2>3 DEF OrderRow
  <2>4. QED BY <2>2, <2>3
<1>6. ASSUME NEW s \in Sessions, RequestCommit(s)
      PROVE  order'[o].resv = "reserved"
  <2>1. step[s] = "decided" /\ task[s] \in RequestTask
    BY <1>1, <1>6, BusyHasTask, TaskKinds DEF RequestCommit
  <2>2. task[s] \notin ReviewTask
    BY <2>1 DEF RequestTask, ReviewTask
  <2>3. memo[s].freed \subseteq Unused(Owner(task[s]))
    BY <2>1, <2>2 DEF Inv, DecisionsStayValid, StillValid
  <2>4. CASE UNCHANGED rows
    BY <2>4 DEF rows
  <2>5. CASE SetResv(memo[s].freed, "released")
    BY <1>2, <2>3, <2>5 DEF Unused, ReservedOrders
  <2>6. QED BY <1>6, <2>4, <2>5 DEF RequestCommit
<1>7. ASSUME NEW s \in Sessions, ReviewCommit(s)
      PROVE  order'[o].resv = "reserved"
  BY <1>7 DEF ReviewCommit, rows
<1>8. ASSUME NEW s \in Sessions, RequestCheck(s) \/ ReviewCheck(s)
      PROVE  order'[o].resv = "reserved"
  BY <1>8 DEF RequestCheck, ReviewCheck, Decide, rows
<1>9. ASSUME NEW x \in Orders, Expire(x)
      PROVE  order'[o].resv = "reserved"
  BY <1>1, <1>9 DEF Expire, OrderRow
<1>10. ASSUME NEW s \in Sessions, Serve(s)
       PROVE  order'[o].resv \in {"reserved", "consumed"}
  BY <1>3, <1>4, <1>5, <1>6, <1>7, <1>8, <1>10 DEF Serve
<1>11. QED
  BY <1>9, <1>10 DEF Next, Begin, Lock, Abort, Award, vars, rows

\* A charge whose outcome is unknown never loses the points reserved for it.
THEOREM ChargedReservationsKept == Spec => ChargedReservationKept
<1>1. Inv /\ [Next]_vars =>
        [\A o \in Orders : order[o].started /\ order[o].resv = "reserved"
            => order'[o].resv \in {"reserved", "consumed"}]_vars
  BY ChargedRowsKept
<1>2. QED BY <1>1, Invariance, PTL DEF Spec, ChargedReservationKept

-----------------------------------------------------------------------------
(* The wallet keeps its promise *)

Spendable == [u \in Users |-> Available(u)]
Claim == [u \in Users |-> [k \in RequestKeys |-> ClaimOf(withdrawal[u][k])]]

LEMMA AvailableInt ==
    ASSUME TypeOK, NEW u \in Users PROVE Available(u) \in Int
<1>1. Reserved(u) \in Nat /\ total[u] \in Int
  BY ReservedFinite DEF TypeOK
<1>2. QED BY <1>1 DEF Available

\* Steps that leave the withdrawals alone and only add points to one user are
\* an Earn of the promise, or nothing at all.
LEMMA EarnOrNothing ==
    ASSUME Inv, Inv', NEW u \in Users, withdrawal' = withdrawal,
           Available(u)' >= Available(u),
           \A v \in Users \ {u} : Available(v)' = Available(v)
    PROVE  [Promise!Next]_Promise!vars
<1>1. Claim' = Claim
  BY DEF Claim, ClaimOf
<1>2. Available(u) \in Int /\ Available(u)' \in Int
  <2>1. Reserved(u)' \in Nat
    BY FewerReservations DEF Reserved, ReservedOrders
  <2>2. total'[u] \in Int
    BY DEF Inv, TypeOK
  <2>3. QED BY <2>1, <2>2, AvailableInt DEF Inv, Available
<1>3. /\ Spendable'[u] = Available(u)' /\ Spendable[u] = Available(u)
  BY DEF Spendable
<1>4. CASE Available(u)' = Available(u)
  <2>1. Spendable' = Spendable
    BY <1>4 DEF Spendable
  <2>2. QED BY <1>1, <2>1 DEF Promise!vars, Spendable, Claim
<1>5. CASE Available(u)' > Available(u)
  <2>1. Spendable' = [Spendable EXCEPT ![u] = Spendable'[u]]
    BY DEF Spendable
  <2>2. Promise!Earn(u)
    BY <1>1, <1>3, <1>5, <2>1 DEF Promise!Earn, Spendable, Claim
  <2>3. QED BY <2>2 DEF Promise!Next
<1>6. QED BY <1>2, <1>4, <1>5

\* Freed reservations only add to what their owner can spend.
LEMMA FreedPoints ==
    ASSUME TypeOK, NEW u \in Users, NEW os \in SUBSET ReservedOrders(u),
           SetResv(os, "released"), total' = total
    PROVE  /\ Available(u)' >= Available(u)
           /\ \A v \in Users \ {u} : Available(v)' = Available(v)
<1>1. os \subseteq Orders /\ \A o \in os : OrderOwner[o] = u
  BY DEF ReservedOrders
<1>2. \A v : ReservedOrders(v)' = ReservedOrders(v) \ os
  BY <1>1, SetResvEffect
<1>3. /\ Reserved(u)' \in Nat /\ Reserved(u) \in Nat
      /\ Reserved(u)' <= Reserved(u)
  BY <1>2, FewerReservations DEF Reserved, ReservedOrders
<1>4. \A v \in Users \ {u} : ReservedOrders(v)' = ReservedOrders(v)
  BY <1>1, <1>2 DEF ReservedOrders
<1>5. total[u] \in Int
  BY DEF TypeOK
<1>6. QED BY <1>3, <1>4, <1>5 DEF Available, Reserved

\* Same rows, same promise.
LEMMA SameRowsStutter ==
    ASSUME UNCHANGED rows PROVE UNCHANGED Promise!vars
<1>1. UNCHANGED <<total, order, withdrawal>>
  BY DEF rows
<1>2. Spendable' = Spendable /\ Claim' = Claim
  BY <1>1 DEF Spendable, Claim, ClaimOf, Available, Reserved, ReservedOrders
<1>3. QED BY <1>2 DEF Promise!vars, Spendable, Claim

\* Paying a reserved discount moves points from reserved to spent: the wallet's
\* owner sees no change.
LEMMA SettleStutters ==
    ASSUME Inv, NEW s \in Sessions, SettleOrder(s) PROVE UNCHANGED Promise!vars
<1>1. TypeOK /\ order \in [Orders -> OrderRow] /\ withdrawal' = withdrawal
  BY DEF Inv, TypeOK, SettleOrder
<1>2. PICK o \in Orders :
        \/ /\ order[o].resv = "none"
           /\ order' = [order EXCEPT ![o].status = "Paid"]
           /\ UNCHANGED <<ledger, total>>
        \/ /\ order[o].resv = "reserved"
           /\ order' = [order EXCEPT ![o].status = "Paid", ![o].resv = "consumed"]
           /\ PostOnce(OrderOwner[o], "service_fee_redemption", o, -1)
        \/ UNCHANGED <<order, ledger, total>>
  BY Zenon DEF SettleOrder
<1>3. Claim' = Claim
  BY <1>1 DEF Claim, ClaimOf
<1>4. \A v \in Users : Available(v)' = Available(v)
  <2>1. CASE /\ order[o].resv = "none"
             /\ order' = [order EXCEPT ![o].status = "Paid"]
             /\ UNCHANGED <<ledger, total>>
    <3>1. \A x \in Orders : order'[x].resv = order[x].resv
      BY <1>1, <2>1 DEF OrderRow
    <3>2. QED BY <2>1, <3>1 DEF Available, Reserved, ReservedOrders
  <2>2. CASE /\ order[o].resv = "reserved"
             /\ order' = [order EXCEPT ![o].status = "Paid", ![o].resv = "consumed"]
             /\ PostOnce(OrderOwner[o], "service_fee_redemption", o, -1)
    <3>1. \A x \in Orders :
            order'[x].resv = IF x = o THEN "consumed" ELSE order[x].resv
      BY <1>1, <2>2 DEF OrderRow
    <3>2. \A v : ReservedOrders(v)' = ReservedOrders(v) \ {o}
      BY <3>1 DEF ReservedOrders
    <3>3. <<OrderOwner[o], "service_fee_redemption", o>> \notin ledger
      BY <2>2 DEF Inv, LedgerMatchesRows
    <3>4. total' = [total EXCEPT ![OrderOwner[o]] = @ + (-1)]
      BY <2>2, <3>3 DEF PostOnce
    <3> SUFFICES ASSUME NEW v \in Users PROVE Available(v)' = Available(v)
      OBVIOUS
    <3>5. total \in [Users -> Int] /\ OrderOwner[o] \in Users
      BY <1>1 DEF TypeOK
    <3>6. CASE v = OrderOwner[o]
      <4>1. o \in ReservedOrders(v) /\ IsFiniteSet(ReservedOrders(v))
        BY <2>2, <3>6, ReservedFinite DEF ReservedOrders
      <4>2. Reserved(v)' = Reserved(v) - 1 /\ Reserved(v) \in Nat
        BY <3>2, <4>1, ReservedFinite, FS_RemoveElement DEF Reserved
      <4>3. total'[v] = total[v] - 1 /\ total[v] \in Int
        BY <3>4, <3>5, <3>6
      <4>4. QED BY <4>2, <4>3 DEF Available
    <3>7. CASE v # OrderOwner[o]
      <4>1. ReservedOrders(v)' = ReservedOrders(v)
        BY <3>2, <3>7 DEF ReservedOrders
      <4>2. total'[v] = total[v]
        BY <3>4, <3>5, <3>7
      <4>3. QED BY <4>1, <4>2 DEF Available, Reserved
    <3>8. QED BY <3>6, <3>7
  <2>3. CASE UNCHANGED <<order, ledger, total>>
    BY <2>3 DEF Available, Reserved, ReservedOrders
  <2>4. QED BY <1>2, <2>1, <2>2, <2>3, Zenon
<1>5. Spendable' = Spendable
  BY <1>4 DEF Spendable
<1>6. QED BY <1>3, <1>5 DEF Promise!vars, Spendable, Claim

\* A committed request holds its points; the balance it read covers them.
LEMMA RequestHolds ==
    ASSUME Inv, Inv', NEW s \in Sessions, RequestCommit(s)
    PROVE  [Promise!Next]_Promise!vars
<1>1. TypeOK /\ LockHeld
  BY DEF Inv
<1>2. step[s] = "decided" /\ task[s] \in RequestTask /\ Owner(task[s]) = task[s].user
  BY <1>1, BusyHasTask, TaskKinds DEF RequestCommit
<1>3. PICK u \in Users, k \in RequestKeys, p \in Points :
        u = task[s].user /\ k = task[s].key /\ p = task[s].points
  BY <1>2 DEF RequestTask
<1>4. CASE UNCHANGED rows
  BY <1>4, SameRowsStutter
<1>5. CASE /\ withdrawal' = [withdrawal EXCEPT ![u][k] =
                    [status |-> "pending", points |-> p, ref |-> NoRef]]
           /\ PostOnce(u, "withdrawal_reserved", k, -p)
           /\ SetResv(memo[s].freed, "released")
  <2>1. /\ memo[s].freed \subseteq Unused(u)
        /\ withdrawal[u][k] = NoRow
        /\ OpenKeys(u) = {}
    <3>1. StillValid(s) /\ task[s] \notin ReviewTask
      BY <1>2 DEF Inv, DecisionsStayValid, RequestTask, ReviewTask
    <3>2. QED BY <1>2, <1>3, <3>1 DEF StillValid
  <2>2. memo[s].freed \subseteq ReservedOrders(u) /\ memo[s].freed \subseteq Orders
    BY <2>1 DEF Unused, ReservedOrders
  <2>3. \A v : ReservedOrders(v)' = ReservedOrders(v) \ memo[s].freed
    BY <1>1, <1>5, <2>2, SetResvEffect
  <2>4. /\ total \in [Users -> Int]
        /\ total' = [total EXCEPT ![u] = @ + (-p)]
        /\ p \in Nat
    BY <1>1, <1>5, <2>1 DEF PostOnce, TypeOK, Inv, LedgerMatchesRows
  <2>5. Available(u)' >= Available(u) - p
    <3>1. /\ Reserved(u) \in Nat /\ Reserved(u)' \in Nat
          /\ Reserved(u)' <= Reserved(u)
      BY <2>3, FewerReservations DEF Reserved, ReservedOrders
    <3>2. total'[u] = total[u] - p /\ total[u] \in Int
      BY <2>4
    <3>3. QED BY <2>4, <3>1, <3>2 DEF Available
  <2>6. \A v \in Users \ {u} : Available(v)' = Available(v)
    <3> SUFFICES ASSUME NEW v \in Users \ {u} PROVE Available(v)' = Available(v)
      OBVIOUS
    <3>1. ReservedOrders(v)' = ReservedOrders(v)
      BY <2>2, <2>3 DEF ReservedOrders
    <3>2. total'[v] = total[v]
      BY <2>4
    <3>3. QED BY <3>1, <3>2 DEF Available, Reserved
  <2>7. Available(u)' >= 0
    BY DEF Inv, NeverOverdrawn
  <2>8. Spendable' = [Spendable EXCEPT ![u] = Spendable'[u]]
    BY <2>6 DEF Spendable
  <2>9. Spendable'[u] >= 0 /\ Spendable'[u] >= Spendable[u] - p
    BY <2>5, <2>7 DEF Spendable
  <2>10. Claim' = [Claim EXCEPT ![u][k] = [state |-> "held", points |-> p]]
    <3>1. withdrawal \in [Users -> [RequestKeys -> Row]]
      BY <1>1 DEF TypeOK
    <3>2. ClaimOf([status |-> "pending", points |-> p, ref |-> NoRef])
            = [state |-> "held", points |-> p]
      BY DEF ClaimOf, Open
    <3>3. QED BY <1>5, <3>1, <3>2 DEF Claim
  <2>11. Claim[u][k] = [state |-> "none", points |-> 0]
    BY <2>1 DEF Claim, ClaimOf, NoRow, Open
  <2>12. \A j \in RequestKeys : Claim[u][j].state # "held"
    <3> SUFFICES ASSUME NEW j \in RequestKeys PROVE Claim[u][j].state # "held"
      OBVIOUS
    <3>1. withdrawal[u][j].status \notin Open
      BY <2>1 DEF OpenKeys
    <3>2. QED BY <3>1 DEF Claim, ClaimOf
  <2>13. Promise!Hold(u, k)
    <3>1. Promise!Held(u) = {}
      BY <2>12 DEF Promise!Held, Claim
    <3>2. Claim[u][k] = Promise!NoClaim
      BY <2>11 DEF Promise!NoClaim
    <3>3. QED BY <2>8, <2>9, <2>10, <3>1, <3>2, Zenon
             DEF Promise!Hold, Spendable, Claim
  <2>14. QED BY <2>13 DEF Promise!Next
<1>6. QED BY <1>2, <1>3, <1>4, <1>5 DEF RequestCommit

\* A committed review leaves the claim held, pays it, or returns its points.
LEMMA ReviewKeepsPromise ==
    ASSUME Inv, NEW s \in Sessions, ReviewCommit(s)
    PROVE  [Promise!Next]_Promise!vars
<1>1. TypeOK /\ LockHeld
  BY DEF Inv
<1>2. step[s] = "decided" /\ task[s] \in ReviewTask /\ Owner(task[s]) = task[s].user
  BY <1>1, BusyHasTask, TaskKinds DEF ReviewCommit
<1>3. PICK u \in Users, k \in RequestKeys, target \in {"processing", "paid", "rejected"},
           ref \in PayoutRefs \cup {NoRef} :
        u = task[s].user /\ k = task[s].key /\ target = task[s].target /\ ref = task[s].ref
  BY <1>2 DEF ReviewTask
<1>4. CASE UNCHANGED rows
  BY <1>4, SameRowsStutter
<1>5. CASE /\ withdrawal' = [withdrawal EXCEPT ![u][k].status = target, ![u][k].ref = ref]
           /\ IF target = "rejected"
                THEN PostOnce(u, "withdrawal_released", k, withdrawal[u][k].points)
                ELSE UNCHANGED <<ledger, total>>
           /\ UNCHANGED order
  <2>1. withdrawal[u][k] \in Row /\ withdrawal[u][k].status \in Open
    <3>1. StillValid(s) /\ task[s] \notin RequestTask
      BY <1>2 DEF Inv, DecisionsStayValid, RequestTask, ReviewTask
    <3>2. QED BY <1>1, <1>2, <1>3, <3>1 DEF StillValid, TypeOK
  <2> DEFINE points == withdrawal[u][k].points
  <2>2. withdrawal \in [Users -> [RequestKeys -> Row]]
    BY <1>1 DEF TypeOK
  <2>3. /\ withdrawal'[u][k].status = target
        /\ withdrawal'[u][k].points = points
        /\ \A v \in Users, j \in RequestKeys :
             ~(v = u /\ j = k) => withdrawal'[v][j] = withdrawal[v][j]
    BY <1>5, <2>1, <2>2 DEF Row
  <2>4. Claim[u][k] = [state |-> "held", points |-> points]
    <3>1. Claim[u][k] = ClaimOf(withdrawal[u][k])
      BY DEF Claim
    <3>2. ClaimOf(withdrawal[u][k]) = [state |-> "held", points |-> points]
      <4>1. PICK w : w = withdrawal[u][k]
        OBVIOUS
      <4>2. w.status \in {"pending", "processing"}
        BY <2>1, <4>1 DEF Open
      <4>3. ClaimOf(w) = [state |-> "held", points |-> w.points]
        BY <4>2 DEF ClaimOf, Open
      <4>4. QED BY <4>1, <4>3
    <3>3. QED BY <3>1, <3>2
  <2>5. \A v : ReservedOrders(v)' = ReservedOrders(v)
    BY <1>5 DEF ReservedOrders
  <2>6. \A v : Reserved(v)' = Reserved(v)
    BY <2>5 DEF Reserved
  <2>7. ASSUME NEW c, ClaimOf(withdrawal'[u][k]) = c
        PROVE  Claim' = [Claim EXCEPT ![u][k] = c]
    <3>1. \A v \in Users, j \in RequestKeys :
            Claim'[v][j] = IF v = u /\ j = k THEN c ELSE Claim[v][j]
      BY <2>3, <2>7 DEF Claim
    <3>2. /\ Claim = [v \in Users |-> [j \in RequestKeys |-> Claim[v][j]]]
          /\ Claim' = [v \in Users |-> [j \in RequestKeys |-> Claim'[v][j]]]
      BY DEF Claim
    <3>3. [Claim EXCEPT ![u][k] = c]
             = [v \in Users |-> [j \in RequestKeys |->
                                  IF v = u /\ j = k THEN c ELSE Claim[v][j]]]
      BY <3>2
    <3>4. QED BY <3>1, <3>2, <3>3
  <2>8. CASE target = "rejected"
    <3>1. <<u, "withdrawal_released", k>> \notin ledger
      BY <2>1 DEF Inv, LedgerMatchesRows, Open
    <3>2. total' = [total EXCEPT ![u] = @ + points]
      BY <1>5, <2>8, <3>1 DEF PostOnce
    <3>3. points \in Nat
      <4>1. points \in Points \cup {0}
        BY <2>1 DEF Row
      <4>2. \A n \in Points \cup {0} : n \in Nat
        OBVIOUS
      <4> HIDE DEF points
      <4>3. QED BY <4>1, <4>2
    <3>4. /\ total \in [Users -> Int] /\ Available(u) \in Int
          /\ total'[u] = total[u] + points
          /\ \A v \in Users \ {u} : total'[v] = total[v]
      BY <1>1, <3>2, <3>3, AvailableInt DEF TypeOK
    <3>5. Available(u)' = Available(u) + points
      <4>1. Reserved(u) \in Nat /\ total[u] \in Int
        BY ReservedFinite, <3>4
      <4> HIDE DEF points
      <4>2. QED BY <2>6, <3>3, <3>4, <4>1 DEF Available
    <3>6. Spendable' = [Spendable EXCEPT ![u] = @ + points]
      BY <2>6, <3>4, <3>5 DEF Spendable, Available
    <3>7. ClaimOf(withdrawal'[u][k]) = [state |-> "returned", points |-> points]
      BY <2>3, <2>8 DEF ClaimOf, Open
    <3>8. Claim' = [Claim EXCEPT ![u][k].state = "returned"]
      BY <2>4, <2>7, <3>7, SMTT(30) DEF Claim
    <3>9. Promise!Return(u, k)
      <4>1. Claim[u][k].state = "held" /\ Claim[u][k].points = points
        BY <2>4
      <4> HIDE DEF points
      <4>2. /\ Claim[u][k].state = "held"
            /\ Claim' = [Claim EXCEPT ![u][k].state = "returned"]
            /\ Spendable' = [Spendable EXCEPT ![u] = @ + Claim[u][k].points]
        BY <3>6, <3>8, <4>1
      <4>3. QED BY <4>2 DEF Promise!Return, Spendable, Claim
    <3>10. QED BY <3>9 DEF Promise!Next
  <2>9. CASE target # "rejected"
    <3>1. Spendable' = Spendable
      BY <1>5, <2>6, <2>9 DEF Spendable, Available
    <3>2. CASE target = "paid"
      <4>1. ClaimOf(withdrawal'[u][k]) = [state |-> "paid", points |-> points]
        BY <2>3, <3>2 DEF ClaimOf, Open
      <4>2. Claim' = [Claim EXCEPT ![u][k].state = "paid"]
        BY <2>4, <2>7, <4>1 DEF Claim
      <4>3. Promise!Pay(u, k)
        BY <2>4, <3>1, <4>2 DEF Promise!Pay, Spendable, Claim
      <4>4. QED BY <4>3 DEF Promise!Next
    <3>3. CASE target = "processing"
      <4>1. ClaimOf(withdrawal'[u][k]) = [state |-> "held", points |-> points]
        BY <2>3, <3>3 DEF ClaimOf, Open
      <4>2. Claim' = Claim
        <5>1. Claim' = [Claim EXCEPT ![u][k] = Claim[u][k]]
          BY <2>4, <2>7, <4>1
        <5>2. /\ Claim = [v \in Users |-> Claim[v]]
              /\ Claim[u] = [j \in RequestKeys |-> Claim[u][j]]
          BY DEF Claim
        <5>3. QED BY <5>1, <5>2
      <4>3. QED BY <3>1, <4>2 DEF Promise!vars, Spendable, Claim
    <3>4. QED BY <2>9, <3>2, <3>3
  <2>10. QED BY <2>8, <2>9
<1>6. QED BY <1>3, <1>4, <1>5 DEF ReviewCommit

LEMMA StepKeepsPromise ==
    ASSUME Inv, Inv', [Next]_vars
    PROVE  [Promise!Next]_Promise!vars
<1>1. TypeOK /\ LockHeld
  BY DEF Inv
<1>2. ASSUME NEW s \in Sessions, GetBalance(s) PROVE [Promise!Next]_Promise!vars
  <2>1. task[s] \in BalanceTask
    BY <1>1, <1>2, BusyHasTask, TaskKinds DEF GetBalance
  <2>2. PICK u \in Users : u = task[s].user
    BY <2>1 DEF BalanceTask
  <2>3. Unused(u) \in SUBSET ReservedOrders(u)
    BY DEF Unused
  <2>4. /\ SetResv(Unused(u), "released")
        /\ total' = total /\ withdrawal' = withdrawal
    BY <1>2, <2>2 DEF GetBalance
  <2>5. QED BY <1>1, <2>3, <2>4, FreedPoints, EarnOrNothing
<1>3. ASSUME NEW s \in Sessions, ReleaseXPQuote(s) PROVE [Promise!Next]_Promise!vars
  <2>1. task[s] \in OrderTask
    BY <1>1, <1>3, BusyHasTask, TaskKinds DEF ReleaseXPQuote
  <2>2. PICK o \in Orders, u \in Users : o = task[s].order /\ u = OrderOwner[o]
    BY <2>1 DEF OrderTask
  <2>3. CASE UNCHANGED order
    <3>1. UNCHANGED rows
      BY <1>3, <2>3 DEF ReleaseXPQuote, rows
    <3>2. QED BY <3>1, SameRowsStutter
  <2>4. CASE SetResv({o} \cap ReservedOrders(u), "released")
    <3>1. /\ {o} \cap ReservedOrders(u) \in SUBSET ReservedOrders(u)
          /\ total' = total /\ withdrawal' = withdrawal
      BY <1>3 DEF ReleaseXPQuote
    <3>2. QED BY <1>1, <2>4, <3>1, FreedPoints, EarnOrNothing
  <2>5. QED BY <1>3, <2>2, <2>3, <2>4 DEF ReleaseXPQuote
<1>4. ASSUME NEW s \in Sessions, SettleOrder(s) PROVE [Promise!Next]_Promise!vars
  BY <1>4, SettleStutters
<1>5. ASSUME NEW s \in Sessions, RequestCommit(s) PROVE [Promise!Next]_Promise!vars
  BY <1>5, RequestHolds
<1>6. ASSUME NEW s \in Sessions, ReviewCommit(s) PROVE [Promise!Next]_Promise!vars
  BY <1>6, ReviewKeepsPromise
<1>7. ASSUME NEW s \in Sessions, RequestCheck(s) \/ ReviewCheck(s)
      PROVE  [Promise!Next]_Promise!vars
  <2>1. UNCHANGED rows
    BY <1>7 DEF RequestCheck, ReviewCheck, Decide
  <2>2. QED BY <2>1, SameRowsStutter
<1>8. ASSUME NEW u \in Users, NEW e \in Rewards, Award(u, e)
      PROVE  [Promise!Next]_Promise!vars
  <2>1. /\ total' = [total EXCEPT ![u] = @ + Worth[e]]
        /\ UNCHANGED <<order, withdrawal>>
        /\ Worth[e] \in Nat /\ total \in [Users -> Int]
    BY <1>1, <1>8 DEF Award, PostOnce, TypeOK
  <2>2. \A v \in Users : Reserved(v)' = Reserved(v) /\ Reserved(v) \in Nat
    BY <2>1, ReservedFinite DEF Reserved, ReservedOrders
  <2>3. total'[u] = total[u] + Worth[e] /\ \A v \in Users \ {u} : total'[v] = total[v]
    BY <2>1
  <2>4. Available(u)' >= Available(u)
    BY <2>1, <2>2, <2>3 DEF Available
  <2>5. \A v \in Users \ {u} : Available(v)' = Available(v)
    BY <2>2, <2>3 DEF Available
  <2>6. QED BY <2>1, <2>4, <2>5, EarnOrNothing
<1>9. ASSUME NEW o \in Orders, Expire(o) PROVE [Promise!Next]_Promise!vars
  <2>1. \A x \in Orders : order'[x].resv = order[x].resv
    BY <1>1, <1>9 DEF Expire, TypeOK, OrderRow
  <2>2. \A v : ReservedOrders(v)' = ReservedOrders(v)
    BY <2>1 DEF ReservedOrders
  <2>3. Spendable' = Spendable /\ Claim' = Claim
    BY <1>9, <2>2 DEF Expire, Spendable, Claim, ClaimOf, Available, Reserved
  <2>4. QED BY <2>3 DEF Promise!vars, Spendable, Claim
<1>10. CASE \/ UNCHANGED vars
            \/ \E s \in Sessions : Lock(s) \/ Abort(s) \/ \E t \in Task : Begin(s, t)
  <2>1. UNCHANGED rows
    BY <1>10 DEF Lock, Abort, Begin, vars, rows
  <2>2. QED BY <2>1, SameRowsStutter
<1>11. QED
  BY <1>2, <1>3, <1>4, <1>5, <1>6, <1>7, <1>8, <1>9, <1>10 DEF Next, Serve

\* The database, the locks and the handlers implement the promise of the
\* wallet, for every number of users, sessions, orders and requests.
THEOREM WalletKeepsPromise == Spec => KeepsPromise
<1>1. Init => Promise!Init
  <2> SUFFICES ASSUME Init PROVE Promise!Init
    OBVIOUS
  <2>1. Inv
    BY InitInv
  <2>2. \A u \in Users : Available(u) \in Nat
    BY <2>1, AvailableInt DEF Inv, NeverOverdrawn
  <2>3. \A u \in Users, k \in RequestKeys :
          ClaimOf(withdrawal[u][k]) = [state |-> "none", points |-> 0]
    BY DEF Init, ClaimOf, NoRow, Open
  <2>4. QED BY <2>2, <2>3 DEF Promise!Init, Promise!NoClaim
<1>2. Inv /\ Inv' /\ [Next]_vars => [Promise!Next]_Promise!vars
  BY StepKeepsPromise
<1>3. QED BY <1>1, <1>2, Invariance, PTL DEF Spec, KeepsPromise, Promise!Spec

-----------------------------------------------------------------------------
(* The properties of the runs *)

\* The books of the wallet are right at every moment, for any users, sessions
\* and amounts (lockXPUser and what is decided under it).
THEOREM WalletIsSafe == Spec => []WalletSafe
<1>1. Inv => WalletSafe
  BY DEF Inv, WalletSafe
<1>2. QED BY <1>1, Invariance, PTL

\* Closed withdrawals and charged reservations stay what they are.
THEOREM DecisionsAreFinal == Spec => DecidedForGood
BY ClosedWithdrawalsFinal, ChargedReservationsKept DEF DecidedForGood
=============================================================================
