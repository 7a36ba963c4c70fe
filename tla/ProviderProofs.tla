---------------------------- MODULE ProviderProofs ----------------------------
(***************************************************************************)
(* Proofs about a provider, for any number of everything: its subscription *)
(* (ProviderSubscriptions), its posts (ProviderPosts) and its conversations*)
(* with customers and the desk (Messaging).                                *)
(*                                                                         *)
(* Subscriptions.  Settlements do not take the provider's lock, so no step *)
(* is safe because of the lock alone.  The argument rests on which row     *)
(* gives the right to a step: the one pending subscription is the only one *)
(* whose page may be open; a page taken down stays down; a charge of a     *)
(* card can only follow an open page, and from then on the page is not     *)
(* open.  Requests says what a request in flight may rely on, Books what   *)
(* the tables and the gateway say of one another.                          *)
(*                                                                         *)
(* Posts.  The triggers hold the provider's row, so what they count is     *)
(* true when they decide, whatever the request counted before.  Live posts *)
(* have different slots (PostsInv), so the limits count posts by slots.    *)
(*                                                                         *)
(* Messages.  Only first contacts hold a lock to their commit, and it      *)
(* keeps the root of the thread they join right (WriteOK).  Every commit   *)
(* bumps the revision with a time of its own (TimesOK), so a page of the   *)
(* current revision has all that is committed (PageOK).                    *)
(***************************************************************************)
EXTENDS ProviderSubscriptions, ProviderPosts, Messaging, FiniteSetTheorems, TLAPS

-----------------------------------------------------------------------------
(* The latest of finitely many months *)

\* A finite set of numbers that is not empty has a greatest one: the smallest
\* counterexample, less one of its members, would be a smaller one.
LEMMA MaxExists ==
    ASSUME NEW S \in SUBSET Nat, IsFiniteSet(S), S # {}
    PROVE  \E x \in S : \A y \in S : x >= y
<1> DEFINE Topped(A) == \E x \in A : \A y \in A : x >= y
           Bad == {A \in FiniteSubsetsOf(Nat) : A # {} /\ ~Topped(A)}
<1>1. ASSUME Bad # {} PROVE FALSE
  <2>1. Bad \subseteq FiniteSubsetsOf(Nat)
    OBVIOUS
  <2>2. IsWellFoundedOn(StrictSubsetOrdering(Nat), FiniteSubsetsOf(Nat))
    BY FS_StrictSubsetOrderingWellFounded
  <2>3. PICK A \in Bad : \A B \in Bad : ~(<<B, A>> \in StrictSubsetOrdering(Nat))
    <3> HIDE DEF Bad
    <3>1. QED BY <1>1, <2>1, <2>2, WFMin
  <2>4. A \in SUBSET Nat /\ IsFiniteSet(A) /\ A # {} /\ ~Topped(A)
    BY <2>3 DEF FiniteSubsetsOf
  <2>5. PICK a \in A : TRUE
    BY <2>4
  <2>6. PICK B : B = A \ {a}
    OBVIOUS
  <2>7. B \in FiniteSubsetsOf(Nat)
    BY <2>4, <2>6, FS_RemoveElement DEF FiniteSubsetsOf
  <2>8. <<B, A>> \in StrictSubsetOrdering(Nat)
    BY <2>4, <2>5, <2>6 DEF StrictSubsetOrdering
  <2>9. B = {} \/ Topped(B)
    BY <2>3, <2>7, <2>8
  <2>10. CASE B = {}
    BY <2>4, <2>5, <2>6, <2>10
  <2>11. CASE Topped(B)
    <3>1. PICK x \in B : \A y \in B : x >= y
      BY <2>11
    <3>2. x \in A /\ x \in Nat /\ a \in Nat
      BY <2>4, <2>5, <2>6, <3>1
    <3>3. CASE x >= a
      BY <2>4, <2>6, <3>1, <3>2, <3>3
    <3>4. CASE a > x
      <4>1. \A y \in A : a >= y
        <5>1. ASSUME NEW y \in A PROVE a >= y
          <6>1. y = a \/ y \in B
            BY <2>6
          <6>2. y \in Nat
            BY <2>4
          <6>3. QED BY <3>1, <3>2, <3>4, <6>1, <6>2
        <5>2. QED BY <5>1
      <4>2. QED BY <2>4, <2>5, <4>1
    <3>5. QED BY <3>2, <3>3, <3>4
  <2>12. QED BY <2>9, <2>10, <2>11
<1>2. S \in FiniteSubsetsOf(Nat)
  BY DEF FiniteSubsetsOf
<1>3. QED BY <1>1, <1>2

LEMMA MaxIsGreatest ==
    ASSUME NEW S \in SUBSET Nat, IsFiniteSet(S), S # {}
    PROVE  Max(S) \in S /\ \A y \in S : Max(S) >= y
<1>1. \E x \in S : \A y \in S : x >= y
  BY MaxExists
<1>2. QED BY <1>1 DEF Max

\* A new payment starts now or when another current subscription ends, and no
\* other current subscription ends later.
LEMMA StartsAfter ==
    ASSUME TypeOK, NEW r \in Refs
    PROVE  /\ StartsAt(r) \in Nat /\ StartsAt(r) >= now
           /\ \A o \in Current \ {r} : StartsAt(r) >= sub[o].ends
           /\ StartsAt(r) = now \/ \E o \in Current \ {r} : StartsAt(r) = sub[o].ends
<1>1. PICK others : others = Current \ {r}
  OBVIOUS
<1>2. PICK E : E = {sub[o].ends : o \in others}
  OBVIOUS
<1>3. IsFiniteSet(others)
  BY <1>1, BoundsAssumption, FS_Subset DEF Current
<1>4. now \in Nat /\ \A o \in others : sub[o].ends \in Nat
  BY <1>1, BoundsAssumption DEF TypeOK, Current
<1>5. IsFiniteSet(E)
  <2>1. PICK f : f = [o \in others |-> sub[o].ends]
    OBVIOUS
  <2>2. f \in Surjection(others, E)
    BY <1>2, <2>1 DEF Surjection
  <2>3. QED BY <1>3, <2>2, FS_Surjection
<1>6. PICK S : S = {now} \cup E
  OBVIOUS
<1>7. IsFiniteSet(S)
  BY <1>5, <1>6, FS_Singleton, FS_Union
<1>8. S \in SUBSET Nat /\ S # {}
  BY <1>2, <1>4, <1>6
<1>9. Max(S) \in S /\ \A y \in S : Max(S) >= y
  BY <1>7, <1>8, MaxIsGreatest
<1>10. StartsAt(r) = Max(S)
  BY <1>1, <1>2, <1>6 DEF StartsAt
<1>11. QED BY <1>1, <1>2, <1>4, <1>6, <1>9, <1>10

-----------------------------------------------------------------------------
(* The invariant: requests in flight *)

Charged(r) == \E t \in Txs : charge[t] = r

\* Steps of a checkout that has committed and let go of the lock.
OwnSteps == {"attempt", "init", "ready", "failed"}

\* A checkout in flight is for the pending subscription, whose page nobody
\* knows yet.
Creating(m) ==
    m.step \in OwnSteps =>
       m.ref \in Refs /\ sub[m.ref].status = "pending" /\ ~pay[m.ref].linked

\* A cancellation has taken the page down before it asks for payments, and
\* writes only what no card was charged for.
Cancelling(m) ==
    /\ m.step \in {"disable", "verify", "write"} => m.ref \in Refs /\ pay[m.ref].linked
    /\ m.step \in {"verify", "write"} => link[m.ref] = "disabled"
    /\ m.step = "write" /\ sub[m.ref].mode = "recurring" => ~Charged(m.ref)

\* Nothing is pending while renewals are stopped; after the second listing
\* nothing renews.
Managing(m) ==
    /\ m.step \in {"list", "stop", "stopped"} => Pending = {}
    /\ m.step = "stopped" => renewing = {}

\* An administrator cancels what was charged.
Asking(m) == m.step \in {"ask", "confirm"} => m.ref \in Refs /\ Charged(m.ref)

Sound(m) == Creating(m) /\ Cancelling(m) /\ Managing(m) /\ Asking(m)

\* The lock has one holder, and one checkout is in flight.
Alone ==
    \A s, u \in Sessions :
       \/ session[s].step \in LockedSteps /\ session[u].step \in LockedSteps
       \/ session[s].step \in OwnSteps /\ session[u].step \in OwnSteps
       => s = u

Requests == Alone /\ \A s \in Sessions : Sound(session[s])

(* The invariant: the tables and the gateway *)

OnePending ==
    \A a, b \in Refs : sub[a].status = "pending" /\ sub[b].status = "pending" => a = b

PlansKept ==
    \A r \in Refs :
       /\ sub[r].mode = "recurring" => sub[r].months = 1
       /\ IF sub[r].status = "none" THEN sub[r] = NoSub ELSE sub[r].months > 0

\* Only the pending subscription has an open page.
Pages ==
    \A r \in Refs :
       /\ pay[r].linked => /\ sub[r].status # "none"
                           /\ pay[r].status \in {"processing", "succeeded", "cancelled"}
       /\ link[r] = "open" => sub[r].status = "pending"

\* What was charged has a page that is no longer open; a cancelled card was
\* never charged; only charged cards renew.
Charges ==
    \A r \in Refs :
       /\ Charged(r) => pay[r].linked /\ link[r] \in {"used", "disabled"}
       /\ sub[r].status = "cancelled" /\ sub[r].mode = "recurring" => ~Charged(r)
       /\ r \in renewing => Charged(r) /\ sub[r].mode = "recurring"

\* Active is what has a receipt.
Receipted ==
    /\ \A t \in Txs : paid[t] # NotPaid => charge[t] \in Refs /\ sub[charge[t]].status = "active"
    /\ \A r \in Refs : sub[r].status = "active" => Receipts(r) # {}

\* What is recorded as stopped had been bought, and is not charged again.
Stops ==
    /\ pref.status = "stopped" =>
         \A r \in pref.covers : sub[r].status \notin {"none", "pending"} /\ r \notin renewing
    /\ \A r \in Refs : /\ stopping[r] # "none" => Charged(r)
                       /\ stopping[r] = "confirmed" => r \notin renewing

\* A period that is not over ends with its subscription or before.
Covered ==
    \A t \in Txs : paid[t] # NotPaid =>
       paid[t].to <= now \/ paid[t].to <= sub[charge[t]].ends

\* A card is paid at most a month ahead of now or of another subscription, so
\* its next payment never ends earlier than the last.
Chained ==
    \A r \in Current : sub[r].mode = "recurring" =>
       \/ sub[r].ends <= now + 1
       \/ \E o \in Current \ {r} : sub[r].ends <= sub[o].ends + 1

Books == /\ PlansKept /\ OnePending /\ Pages /\ Charges /\ Receipted /\ LedgerAgrees
         /\ Stops /\ Covered /\ Chained /\ PeriodsStack

Inv == TypeOK /\ Requests /\ Books

-----------------------------------------------------------------------------
(* Requests that move on *)

Steps == LockedSteps \cup {"idle", "attempt", "init", "ready", "failed", "settle", "ask", "confirm"}
Memory == [step : Steps, ref : Refs \cup {NoRef}, targets : SUBSET Refs]

SubRow == [status : {"none", "pending", "active", "cancelled"}, mode : {"recurring", "one_time"},
           months : {0, 1} \cup Durations, ends : Nat]
PayRow == [status : {"none", "pending", "processing", "succeeded", "failed", "cancelled"},
           linked : BOOLEAN]

LEMMA StepsApart ==
    /\ LockedSteps \cap OwnSteps = {}
    /\ "idle" \in Steps /\ "idle" \notin LockedSteps \cup OwnSteps
    /\ OwnSteps \subseteq Steps /\ LockedSteps \subseteq Steps
    /\ {"settle", "ask", "confirm"} \cap (LockedSteps \cup OwnSteps) = {}
    /\ {"settle", "ask", "confirm"} \subseteq Steps
BY DEF LockedSteps, OwnSteps, Steps

LEMMA IdleSound == Idle \in Memory /\ Idle.step = "idle" /\ Sound(Idle)
BY DEF Idle, Memory, Steps, Sound, Creating, Cancelling, Managing, Asking, OwnSteps

LEMMA Moved ==
    ASSUME TypeOK, NEW s \in Sessions, NEW step \in Steps, NEW r \in Refs \cup {NoRef},
           Goto(s, step, r)
    PROVE  \E m \in Memory : /\ m.step = step /\ m.ref = r
                             /\ session' \in [Sessions -> Memory]
                             /\ session'[s] = m
                             /\ \A u \in Sessions : u # s => session'[u] = session[u]
<1>1. PICK m : m = [Idle EXCEPT !.step = step, !.ref = r]
  OBVIOUS
<1>2. m \in Memory /\ m.step = step /\ m.ref = r
  BY <1>1 DEF Idle, Memory
<1>3. session' = [session EXCEPT ![s] = m]
  BY <1>1 DEF Goto
<1>4. session \in [Sessions -> Memory]
  BY DEF TypeOK, Memory, Steps
<1>5. QED BY <1>2, <1>3, <1>4

LEMMA Finished ==
    ASSUME TypeOK, NEW s \in Sessions, Finish(s)
    PROVE  /\ session' \in [Sessions -> Memory]
           /\ session'[s] = Idle
           /\ \A u \in Sessions : u # s => session'[u] = session[u]
<1>1. session \in [Sessions -> Memory]
  BY DEF TypeOK, Memory, Steps
<1>2. QED BY <1>1, IdleSound DEF Finish

\* A request may move to a step that is sound for it, if the others stay sound
\* and it shares neither the lock nor the checkout.
LEMMA RequestsMove ==
    ASSUME Requests, NEW s \in Sessions, NEW m,
           session'[s] = m, \A u \in Sessions : u # s => session'[u] = session[u],
           Sound(m)', \A u \in Sessions : \A n : u # s /\ n = session[u] => Sound(n)',
           m.step \in LockedSteps => session[s].step \in LockedSteps \/ LockFree,
           m.step \in OwnSteps => \/ session[s].step \in OwnSteps
                                  \/ \A u \in Sessions : session[u].step \notin OwnSteps
    PROVE  Requests'
<1>1. Alone'
  BY DEF Requests, Alone, LockFree
<1>2. ASSUME NEW u \in Sessions PROVE Sound(session[u])'
  <2>1. CASE u = s
    BY <2>1 DEF Sound, Creating, Cancelling, Managing, Asking, Charged, Pending
  <2>2. CASE u # s
    <3>1. PICK n : n = session[u]
      OBVIOUS
    <3>2. Sound(n)' /\ session'[u] = n
      BY <2>2, <3>1
    <3>3. QED BY <3>2 DEF Sound, Creating, Cancelling, Managing, Asking, Charged, Pending
  <2>3. QED BY <2>1, <2>2
<1>3. QED BY <1>1, <1>2 DEF Requests

\* A step that leaves the tables and the gateway alone keeps what is sound.
LEMMA SoundKept ==
    ASSUME UNCHANGED <<sub, pay, link, charge, renewing>>
    PROVE  \A n : Sound(n) => Sound(n)'
BY DEF Sound, Creating, Cancelling, Managing, Asking, Charged, Pending

LEMMA BooksKept ==
    ASSUME Books, UNCHANGED <<now, sub, pay, paid, pref, stopping, link, charge, renewing>>
    PROVE  Books'
<1>1. PlansKept' /\ OnePending' /\ Pages' /\ LedgerAgrees'
  BY DEF Books, PlansKept, OnePending, Pages, LedgerAgrees
<1>2. Charges' /\ Stops'
  BY DEF Books, Charges, Stops, Charged
<1>3. Receipted'
  BY DEF Books, Receipted, Receipts
<1>4. Covered' /\ Chained' /\ PeriodsStack'
  BY DEF Books, Covered, Chained, Current, PeriodsStack, Overlap
<1>5. QED BY <1>1, <1>2, <1>3, <1>4 DEF Books

\* A step that only moves a request.
LEMMA SessionStep ==
    ASSUME Inv, NEW s \in Sessions, NEW m \in Memory,
           session' \in [Sessions -> Memory],
           session'[s] = m, \A u \in Sessions : u # s => session'[u] = session[u],
           Sound(m), UNCHANGED <<now, sub, pay, paid, pref, stopping, gateway>>,
           m.step \in LockedSteps => session[s].step \in LockedSteps \/ LockFree,
           m.step \in OwnSteps => session[s].step \in OwnSteps
    PROVE  Inv'
<1>1. \A n : Sound(n) => Sound(n)'
  BY SoundKept DEF gateway
<1>2. Requests'
  BY <1>1, RequestsMove DEF Inv, Requests
<1>3. TypeOK'
  BY DEF Inv, TypeOK, Memory, Steps, gateway
<1>4. Books'
  BY BooksKept DEF Inv, gateway
<1>5. QED BY <1>2, <1>3, <1>4 DEF Inv

-----------------------------------------------------------------------------
(* Steps that write no table *)

LEMMA FinishStep ==
    ASSUME Inv, NEW s \in Sessions, Finish(s),
           UNCHANGED <<now, sub, pay, paid, pref, stopping, gateway>>
    PROVE  Inv'
<1>1. /\ session' \in [Sessions -> Memory]
      /\ session'[s] = Idle
      /\ \A u \in Sessions : u # s => session'[u] = session[u]
  BY Finished DEF Inv
<1>2. QED BY <1>1, IdleSound, StepsApart, SessionStep

LEMMA CheckoutCheckStep == ASSUME Inv, NEW s \in Sessions, CheckoutCheck(s) PROVE Inv'
<1>1. Goto(s, "insert", NoRef) /\ LockFree
      /\ UNCHANGED <<now, sub, pay, paid, pref, stopping, gateway>>
  BY DEF CheckoutCheck
<1>2. "insert" \in Steps /\ "insert" \notin OwnSteps
  BY DEF Steps, LockedSteps, OwnSteps
<1>3. PICK m \in Memory : /\ m.step = "insert" /\ m.ref = NoRef
                          /\ session' \in [Sessions -> Memory]
                          /\ session'[s] = m
                          /\ \A u \in Sessions : u # s => session'[u] = session[u]
  BY <1>1, <1>2, Moved DEF Inv
<1>4. Sound(m)
  BY <1>2, <1>3 DEF Sound, Creating, Cancelling, Managing, Asking
<1>5. QED BY <1>1, <1>2, <1>3, <1>4, SessionStep

LEMMA CancelBeginStep == ASSUME Inv, NEW s \in Sessions, CancelBegin(s) PROVE Inv'
<1>1. PICK r \in Pending : pay[r].linked /\ Goto(s, "disable", r)
  BY DEF CancelBegin
<1>2. LockFree /\ UNCHANGED <<now, sub, pay, paid, pref, stopping, gateway>> /\ r \in Refs
  BY DEF CancelBegin, Pending
<1>3. "disable" \in Steps /\ "disable" \notin OwnSteps
  BY DEF Steps, LockedSteps, OwnSteps
<1>4. PICK m \in Memory : /\ m.step = "disable" /\ m.ref = r
                          /\ session' \in [Sessions -> Memory]
                          /\ session'[s] = m
                          /\ \A u \in Sessions : u # s => session'[u] = session[u]
  BY <1>1, <1>2, <1>3, Moved DEF Inv
<1>5. Sound(m)
  BY <1>1, <1>2, <1>3, <1>4 DEF Sound, Creating, Cancelling, Managing, Asking
<1>6. QED BY <1>2, <1>3, <1>4, <1>5, SessionStep

LEMMA CancelVerifyStep == ASSUME Inv, NEW s \in Sessions, CancelVerify(s) PROVE Inv'
<1>1. PICK r : r = session[s].ref
  OBVIOUS
<1>2. /\ session[s].step = "verify" /\ UNCHANGED <<now, sub, pay, paid, pref, stopping, gateway>>
      /\ IF \E t \in Txs : charge[t] = r THEN Goto(s, "settle", r) ELSE Goto(s, "write", r)
  BY <1>1 DEF CancelVerify
<1>3. r \in Refs /\ pay[r].linked /\ link[r] = "disabled"
  BY <1>1, <1>2 DEF Inv, Requests, Sound, Cancelling
<1>4. /\ {"settle", "write"} \subseteq Steps /\ {"settle", "write"} \cap OwnSteps = {}
      /\ session[s].step \in LockedSteps
  BY <1>2 DEF Steps, LockedSteps, OwnSteps
<1>5. PICK step \in {"settle", "write"} : /\ step = "write" => ~Charged(r)
                                          /\ Goto(s, step, r)
  BY <1>2 DEF Charged
<1>6. PICK m \in Memory : /\ m.step = step /\ m.ref = r
                          /\ session' \in [Sessions -> Memory]
                          /\ session'[s] = m
                          /\ \A u \in Sessions : u # s => session'[u] = session[u]
  BY <1>3, <1>4, <1>5, Moved DEF Inv
<1>7. Sound(m)
  BY <1>3, <1>4, <1>5, <1>6 DEF Sound, Creating, Cancelling, Managing, Asking
<1>8. QED BY <1>2, <1>4, <1>5, <1>6, <1>7, SessionStep

\* The first listing gives the targets; the request keeps its step's soundness.
LEMMA RenewalListStep == ASSUME Inv, NEW s \in Sessions, RenewalList(s) PROVE Inv'
<1>1. session \in [Sessions -> Memory]
  BY DEF Inv, TypeOK, Memory, Steps
<1>2. PICK m : m = [session[s] EXCEPT !.step = "stop", !.targets = Listed(Purchases)]
  OBVIOUS
<1>3. "stop" \in Steps /\ "stop" \notin OwnSteps /\ "list" \in LockedSteps
  BY DEF Steps, LockedSteps, OwnSteps
<1>4. Listed(Purchases) \in SUBSET Refs
  BY DEF Listed, Purchases
<1>5. session' = [session EXCEPT ![s] = m]
      /\ UNCHANGED <<now, sub, pay, paid, pref, stopping, gateway>> /\ session[s].step = "list"
  BY <1>2 DEF RenewalList
<1>6. m \in Memory /\ m.step = "stop" /\ m.ref = session[s].ref
  BY <1>1, <1>2, <1>3, <1>4 DEF Memory
<1>7. /\ session' \in [Sessions -> Memory] /\ session'[s] = m
      /\ \A u \in Sessions : u # s => session'[u] = session[u]
  BY <1>1, <1>5, <1>6
<1>8. Pending = {}
  BY <1>5 DEF Inv, Requests, Sound, Managing
<1>9. Sound(m)
  BY <1>3, <1>6, <1>8 DEF Sound, Creating, Cancelling, Managing, Asking
<1>10. QED BY <1>3, <1>5, <1>6, <1>7, <1>9, SessionStep

\* Whatever renews at the gateway has been bought: nothing is pending, and a
\* cancelled card was never charged.
LEMMA RenewedIsBought ==
    ASSUME Inv, Pending = {}
    PROVE  renewing \subseteq Purchases
<1>1. ASSUME NEW r \in renewing PROVE r \in Purchases
  <2>1. r \in Refs
    BY DEF Inv, TypeOK
  <2>2. Charged(r) /\ sub[r].mode = "recurring" /\ sub[r].status # "cancelled"
    BY <2>1 DEF Inv, Books, Charges
  <2>3. sub[r].status # "none"
    BY <2>1, <2>2 DEF Inv, Books, Charges, Pages
  <2>4. sub[r].status # "pending"
    BY <2>1 DEF Pending
  <2>5. sub[r].status = "active"
    BY <2>1, <2>2, <2>3, <2>4 DEF Inv, TypeOK
  <2>6. QED BY <2>1, <2>2, <2>5 DEF Inv, Books, Receipted, Purchases
<1>2. QED BY <1>1

LEMMA RenewalVerifyStep == ASSUME Inv, NEW s \in Sessions, RenewalVerify(s) PROVE Inv'
<1>1. session[s].step = "stop" /\ Listed(Purchases) = {} /\ Goto(s, "stopped", NoRef)
      /\ UNCHANGED <<now, sub, pay, paid, pref, stopping, gateway>>
  BY DEF RenewalVerify
<1>2. Pending = {}
  BY <1>1 DEF Inv, Requests, Sound, Managing
<1>3. renewing = {}
  BY <1>1, <1>2, RenewedIsBought DEF Listed
<1>4. "stopped" \in Steps /\ "stopped" \notin OwnSteps /\ "stop" \in LockedSteps
  BY DEF Steps, LockedSteps, OwnSteps
<1>5. PICK m \in Memory : /\ m.step = "stopped" /\ m.ref = NoRef
                          /\ session' \in [Sessions -> Memory]
                          /\ session'[s] = m
                          /\ \A u \in Sessions : u # s => session'[u] = session[u]
  BY <1>1, <1>4, Moved DEF Inv
<1>6. Sound(m)
  BY <1>2, <1>3, <1>4, <1>5 DEF Sound, Creating, Cancelling, Managing, Asking
<1>7. QED BY <1>1, <1>4, <1>5, <1>6, SessionStep

-----------------------------------------------------------------------------
(* Stopping renewals *)

\* A step of a renewal or of an administrator: only the record of the stop, the
\* request and what renews may change, and less renews than before.
LEMMA StopStep ==
    ASSUME Inv, NEW s \in Sessions, NEW m \in Memory,
           session' \in [Sessions -> Memory],
           session'[s] = m, \A u \in Sessions : u # s => session'[u] = session[u],
           Sound(m)', m.step \notin OwnSteps,
           m.step \in LockedSteps => session[s].step \in LockedSteps \/ LockFree,
           UNCHANGED <<now, sub, pay, paid, link, charge, billed>>,
           renewing' \subseteq renewing,
           pref' \in [status : {"none", "uncertain", "stopped"}, covers : SUBSET Refs],
           stopping' \in [Refs -> {"none", "pending", "uncertain", "confirmed"}],
           Stops'
    PROVE  Inv'
<1>1. \A n : Sound(n) => Sound(n)'
  BY DEF Sound, Creating, Cancelling, Managing, Asking, Charged, Pending
<1>2. Requests'
  BY <1>1, RequestsMove DEF Inv, Requests
<1>3. TypeOK'
  BY DEF Inv, TypeOK, Memory, Steps
<1>4. PlansKept' /\ OnePending' /\ Pages' /\ LedgerAgrees' /\ Receipted'
  BY DEF Inv, Books, PlansKept, OnePending, Pages, LedgerAgrees, Receipted, Receipts
<1>5. Charges'
  BY DEF Inv, Books, Charges, Charged
<1>6. Covered' /\ Chained' /\ PeriodsStack'
  BY DEF Inv, Books, Covered, Chained, Current, PeriodsStack, Overlap
<1>7. QED BY <1>2, <1>3, <1>4, <1>5, <1>6 DEF Inv, Books

LEMMA RenewalBeginStep == ASSUME Inv, NEW s \in Sessions, RenewalBegin(s) PROVE Inv'
<1>1. LockFree /\ Pending = {} /\ Goto(s, "list", NoRef)
      /\ pref' = [status |-> "uncertain", covers |-> {}]
      /\ UNCHANGED <<now, sub, pay, paid, stopping, link, charge, billed, renewing>>
  BY DEF RenewalBegin, gateway
<1>2. "list" \in Steps /\ "list" \notin OwnSteps
  BY DEF Steps, LockedSteps, OwnSteps
<1>3. PICK m \in Memory : /\ m.step = "list" /\ m.ref = NoRef
                          /\ session' \in [Sessions -> Memory]
                          /\ session'[s] = m
                          /\ \A u \in Sessions : u # s => session'[u] = session[u]
  BY <1>1, <1>2, Moved DEF Inv
<1>4. Sound(m)'
  <2>1. Sound(m)
    BY <1>1, <1>2, <1>3 DEF Sound, Creating, Cancelling, Managing, Asking
  <2>2. QED BY <1>1, <2>1, SoundKept
<1>5. Stops'
  BY <1>1 DEF Inv, Books, Stops, Charged
<1>6. QED BY <1>1, <1>2, <1>3, <1>4, <1>5, StopStep DEF Inv, TypeOK

LEMMA RenewalCancelStep == ASSUME Inv, NEW s \in Sessions, RenewalCancel(s) PROVE Inv'
<1>1. PICK r \in session[s].targets :
         /\ session' = [session EXCEPT ![s].targets = @ \ {r}]
         /\ CancelSubscription(r)
  BY DEF RenewalCancel
<1>2. /\ session[s].step = "stop" /\ renewing' \subseteq renewing
      /\ UNCHANGED <<now, sub, pay, paid, pref, stopping, link, charge, billed>>
  BY <1>1 DEF RenewalCancel, CancelSubscription
<1>3. session \in [Sessions -> Memory]
  BY DEF Inv, TypeOK, Memory, Steps
<1>4. PICK m : m = [session[s] EXCEPT !.targets = @ \ {r}]
  OBVIOUS
<1>5. m \in Memory /\ m.step = "stop" /\ m.ref = session[s].ref
  BY <1>2, <1>3, <1>4 DEF Memory
<1>6. /\ session' \in [Sessions -> Memory] /\ session'[s] = m
      /\ \A u \in Sessions : u # s => session'[u] = session[u]
  BY <1>1, <1>3, <1>4, <1>5
<1>7. "stop" \in LockedSteps /\ "stop" \notin OwnSteps
  BY DEF LockedSteps, OwnSteps
<1>8. Pending = {}
  BY <1>2 DEF Inv, Requests, Sound, Managing
<1>9. Pending' = {}
  BY <1>2, <1>8 DEF Pending
<1>10. Sound(m)'
  BY <1>5, <1>7, <1>9 DEF Sound, Creating, Cancelling, Managing, Asking
<1>11. Stops'
  BY <1>2 DEF Inv, Books, Stops, Charged
<1>12. QED BY <1>2, <1>5, <1>6, <1>7, <1>10, <1>11, StopStep DEF Inv, TypeOK

LEMMA RenewalStoppedStep == ASSUME Inv, NEW s \in Sessions, RenewalStopped(s) PROVE Inv'
<1>1. session[s].step = "stopped" /\ Finish(s)
      /\ pref' = [status |-> "stopped", covers |-> {r \in Refs : sub[r] # NoSub}]
      /\ UNCHANGED <<now, sub, pay, paid, stopping, link, charge, billed, renewing>>
  BY DEF RenewalStopped, gateway
<1>2. Pending = {} /\ renewing = {}
  BY <1>1 DEF Inv, Requests, Sound, Managing
<1>3. /\ session' \in [Sessions -> Memory]
      /\ session'[s] = Idle
      /\ \A u \in Sessions : u # s => session'[u] = session[u]
  BY <1>1, Finished DEF Inv
<1>4. Sound(Idle)'
  BY <1>1, IdleSound, SoundKept
<1>5. \A r \in Refs : sub[r] # NoSub => sub[r].status \notin {"none", "pending"}
  BY <1>2 DEF Inv, Books, PlansKept, Pending
<1>6. Stops'
  BY <1>1, <1>2, <1>5 DEF Inv, Books, Stops, Charged
<1>7. pref' \in [status : {"none", "uncertain", "stopped"}, covers : SUBSET Refs]
  BY <1>1
<1>8. QED BY <1>1, <1>3, <1>4, <1>6, <1>7, IdleSound, StepsApart, StopStep DEF Inv, TypeOK

LEMMA AdminClaimStep == ASSUME Inv, NEW s \in Sessions, AdminClaim(s) PROVE Inv'
<1>1. PICK r \in Listed(Refs) : /\ stopping' = [stopping EXCEPT ![r] = "pending"]
                                /\ Goto(s, "ask", r)
  BY DEF AdminClaim
<1>2. UNCHANGED <<now, sub, pay, paid, pref, link, charge, billed, renewing>>
  BY DEF AdminClaim, gateway
<1>3. r \in Refs /\ Charged(r)
  BY DEF Listed, Inv, Books, Charges
<1>4. "ask" \in Steps /\ "ask" \notin OwnSteps /\ "ask" \notin LockedSteps
  BY StepsApart
<1>5. PICK m \in Memory : /\ m.step = "ask" /\ m.ref = r
                          /\ session' \in [Sessions -> Memory]
                          /\ session'[s] = m
                          /\ \A u \in Sessions : u # s => session'[u] = session[u]
  BY <1>1, <1>3, <1>4, Moved DEF Inv
<1>6. Sound(m)'
  <2>1. Sound(m)
    BY <1>3, <1>4, <1>5 DEF Sound, Creating, Cancelling, Managing, Asking, LockedSteps
  <2>2. QED BY <1>2, <2>1, SoundKept
<1>7. /\ stopping' \in [Refs -> {"none", "pending", "uncertain", "confirmed"}]
      /\ \A q \in Refs : stopping'[q] = IF q = r THEN "pending" ELSE stopping[q]
  BY <1>1, <1>3 DEF Inv, TypeOK
<1>8. Stops'
  BY <1>2, <1>3, <1>7 DEF Inv, Books, Stops, Charged
<1>9. QED BY <1>2, <1>4, <1>5, <1>6, <1>7, <1>8, StopStep DEF Inv, TypeOK

LEMMA AdminCancelStep == ASSUME Inv, NEW s \in Sessions, AdminCancel(s) PROVE Inv'
<1>1. PICK r : r = session[s].ref
  OBVIOUS
<1>2. /\ session[s].step = "ask" /\ Goto(s, "confirm", r) /\ renewing' \subseteq renewing
      /\ UNCHANGED <<now, sub, pay, paid, pref, stopping, link, charge, billed>>
  BY <1>1 DEF AdminCancel, CancelSubscription
<1>3. r \in Refs /\ Charged(r)
  BY <1>1, <1>2 DEF Inv, Requests, Sound, Asking
<1>4. "confirm" \in Steps /\ "confirm" \notin OwnSteps /\ "confirm" \notin LockedSteps
  BY StepsApart
<1>5. PICK m \in Memory : /\ m.step = "confirm" /\ m.ref = r
                          /\ session' \in [Sessions -> Memory]
                          /\ session'[s] = m
                          /\ \A u \in Sessions : u # s => session'[u] = session[u]
  BY <1>2, <1>3, <1>4, Moved DEF Inv
<1>6. Charged(r)'
  BY <1>2, <1>3 DEF Charged
<1>7. Sound(m)'
  BY <1>3, <1>4, <1>5, <1>6 DEF Sound, Creating, Cancelling, Managing, Asking, LockedSteps, Charged
<1>8. Stops'
  BY <1>2 DEF Inv, Books, Stops, Charged
<1>9. QED BY <1>2, <1>4, <1>5, <1>7, <1>8, StopStep DEF Inv, TypeOK

LEMMA AdminConfirmStep == ASSUME Inv, NEW s \in Sessions, AdminConfirm(s) PROVE Inv'
<1>1. PICK r : r = session[s].ref
  OBVIOUS
<1>2. /\ session[s].step \in {"ask", "confirm"} /\ Finish(s)
      /\ UNCHANGED <<now, sub, pay, paid, pref, link, charge, billed, renewing>>
  BY DEF AdminConfirm, gateway
<1>3. PICK word \in {"uncertain", "confirmed"} :
         /\ stopping' = [stopping EXCEPT ![r] = word]
         /\ word = "confirmed" => r \notin renewing
  BY <1>1 DEF AdminConfirm, Listed
<1>4. r \in Refs /\ Charged(r)
  BY <1>1, <1>2 DEF Inv, Requests, Sound, Asking
<1>5. /\ session' \in [Sessions -> Memory]
      /\ session'[s] = Idle
      /\ \A u \in Sessions : u # s => session'[u] = session[u]
  BY <1>2, Finished DEF Inv
<1>6. Sound(Idle)'
  BY <1>2, IdleSound, SoundKept
<1>7. /\ stopping' \in [Refs -> {"none", "pending", "uncertain", "confirmed"}]
      /\ \A q \in Refs : stopping'[q] = IF q = r THEN word ELSE stopping[q]
  BY <1>3, <1>4 DEF Inv, TypeOK
<1>8. Stops'
  BY <1>2, <1>3, <1>4, <1>7 DEF Inv, Books, Stops, Charged
<1>9. pref' \in [status : {"none", "uncertain", "stopped"}, covers : SUBSET Refs]
  BY <1>2 DEF Inv, TypeOK
<1>10. QED BY <1>2, <1>5, <1>6, <1>7, <1>8, <1>9, IdleSound, StepsApart, StopStep

-----------------------------------------------------------------------------
(* Checkouts *)

\* A checkout that commits: nothing was pending, so no checkout is in flight.
LEMMA CheckoutInsertStep == ASSUME Inv, NEW s \in Sessions, CheckoutInsert(s) PROVE Inv'
<1>1. PICK r \in Refs, p \in Plans :
         /\ sub[r] = NoSub
         /\ sub' = [sub EXCEPT ![r] =
                      [status |-> "pending", mode |-> p.mode, months |-> p.months, ends |-> 0]]
         /\ Goto(s, "attempt", r)
  BY DEF CheckoutInsert
<1>2. /\ session[s].step = "insert" /\ Pending = {}
      /\ UNCHANGED <<now, pay, paid, pref, stopping, link, charge, billed, renewing>>
  BY DEF CheckoutInsert, gateway
<1>3. PICK row : row = [status |-> "pending", mode |-> p.mode, months |-> p.months, ends |-> 0]
  OBVIOUS
<1>4. /\ p.mode \in {"recurring", "one_time"} /\ p.months \in {1} \cup Durations
      /\ p.mode = "recurring" => p.months = 1
  BY DEF Plans
<1>5. row \in SubRow /\ row.status = "pending" /\ row.mode = p.mode /\ row.months = p.months
  BY <1>3, <1>4 DEF SubRow
<1>6. sub \in [Refs -> SubRow]
  BY DEF Inv, TypeOK, SubRow
<1>7. /\ sub' \in [Refs -> SubRow] /\ sub'[r] = row
      /\ \A q \in Refs : q # r => sub'[q] = sub[q]
  BY <1>1, <1>3, <1>5, <1>6
<1>8. sub[r].status = "none"
  BY <1>1 DEF NoSub
<1>9. ~pay[r].linked /\ ~Charged(r) /\ link[r] # "open"
  BY <1>8 DEF Inv, Books, Pages, Charges
<1>10. "attempt" \in Steps /\ "attempt" \in OwnSteps /\ "attempt" \notin LockedSteps
       /\ "insert" \in LockedSteps
  BY DEF Steps, LockedSteps, OwnSteps
<1>11. PICK m \in Memory : /\ m.step = "attempt" /\ m.ref = r
                           /\ session' \in [Sessions -> Memory]
                           /\ session'[s] = m
                           /\ \A u \in Sessions : u # s => session'[u] = session[u]
  BY <1>1, <1>10, Moved DEF Inv
<1>12. TypeOK'
  BY <1>2, <1>7, <1>11 DEF Inv, TypeOK, SubRow, Memory, Steps
<1>13. Requests'
  <2>1. \A u \in Sessions : session[u].step \notin OwnSteps
    BY <1>2 DEF Inv, Requests, Sound, Creating, Pending
  <2>2. Sound(m)'
    BY <1>2, <1>5, <1>7, <1>9, <1>10, <1>11 DEF Sound, Creating, Cancelling, Managing, Asking, LockedSteps
  <2>3. ASSUME NEW u \in Sessions, NEW n, u # s, n = session[u] PROVE Sound(n)'
    <3>1. Sound(n) /\ n.step \notin OwnSteps
      BY <2>1, <2>3 DEF Inv, Requests
    <3>2. n.step \notin {"list", "stop", "stopped"}
      BY <1>2, <1>10, <2>3 DEF Inv, Requests, Alone, LockedSteps
    <3>3. Cancelling(n)'
      <4>1. CASE n.step \in {"disable", "verify", "write"}
        <5>1. n.ref \in Refs /\ pay[n.ref].linked
          BY <3>1, <4>1 DEF Sound, Cancelling
        <5>2. n.ref # r
          BY <1>9, <5>1
        <5>3. sub'[n.ref] = sub[n.ref]
          BY <1>7, <5>1, <5>2
        <5>4. QED BY <1>2, <3>1, <5>3 DEF Sound, Cancelling, Charged
      <4>2. CASE n.step \notin {"disable", "verify", "write"}
        BY <4>2 DEF Cancelling
      <4>3. QED BY <4>1, <4>2
    <3>4. QED BY <1>2, <3>1, <3>2, <3>3 DEF Sound, Creating, Managing, Asking, Charged
  <2>4. QED BY <1>10, <1>11, <2>1, <2>2, <2>3, RequestsMove DEF Inv
<1>14. PlansKept' /\ OnePending' /\ Pages' /\ LedgerAgrees'
  <2>1. pay[r].status \notin {"succeeded", "cancelled"}
    BY <1>8 DEF Inv, Books, LedgerAgrees
  <2>2. PlansKept'
    <3>1. \A d \in Durations : d > 0
      BY BoundsAssumption
    <3>2. p.months = 1 \/ p.months \in Durations
      BY <1>4
    <3>3. p.months > 0
      BY <3>1, <3>2
    <3>4. QED BY <1>4, <1>5, <1>7, <3>3 DEF Inv, Books, PlansKept
  <2>3. OnePending'
    BY <1>2, <1>7 DEF OnePending, Pending
  <2>4. Pages'
    BY <1>2, <1>5, <1>7, <1>9 DEF Inv, Books, Pages
  <2>5. LedgerAgrees'
    BY <1>2, <1>5, <1>7, <2>1 DEF Inv, Books, LedgerAgrees
  <2>6. QED BY <2>2, <2>3, <2>4, <2>5
<1>15. Charges'
  BY <1>2, <1>5, <1>7, <1>9 DEF Inv, Books, Charges, Charged
<1>16. Receipted'
  <2>1. \A t \in Txs : charge[t] # r
    BY <1>9 DEF Charged
  <2>2. \A q \in Refs : Receipts(q)' = Receipts(q)
    BY <1>2 DEF Receipts
  <2>3. QED BY <1>2, <1>5, <1>7, <2>1, <2>2 DEF Inv, Books, Receipted
<1>17. Stops'
  <2>1. pref.status = "stopped" => r \notin pref.covers
    BY <1>8 DEF Inv, Books, Stops
  <2>2. pref.covers \subseteq Refs
    BY DEF Inv, TypeOK
  <2>3. QED BY <1>2, <1>7, <2>1, <2>2 DEF Inv, Books, Stops, Charged
<1>18. Covered' /\ Chained' /\ PeriodsStack'
  <2>1. \A t \in Txs : paid[t] # NotPaid => charge[t] \in Refs \ {r}
    BY <1>8 DEF Inv, Books, Receipted
  <2>2. Current' = Current /\ r \notin Current
    BY <1>2, <1>5, <1>7, <1>8 DEF Current
  <2>3. Covered'
    BY <1>2, <1>7, <2>1 DEF Inv, Books, Covered
  <2>4. Chained'
    BY <1>2, <1>7, <2>2 DEF Inv, Books, Chained, Current
  <2>5. PeriodsStack'
    BY <1>2 DEF Inv, Books, PeriodsStack, Overlap
  <2>6. QED BY <2>3, <2>4, <2>5
<1>19. QED BY <1>12, <1>13, <1>14, <1>15, <1>16, <1>17, <1>18 DEF Inv, Books

\* While no subscription, transaction or period changes, neither do the
\* receipts and the periods.
LEMMA PeriodsKept ==
    ASSUME Books, UNCHANGED <<now, sub, paid, charge>>
    PROVE  PlansKept' /\ OnePending' /\ Receipted' /\ Covered' /\ Chained' /\ PeriodsStack'
<1>1. PlansKept' /\ OnePending'
  BY DEF Books, PlansKept, OnePending
<1>2. Receipted'
  BY DEF Books, Receipted, Receipts
<1>3. Covered' /\ Chained' /\ PeriodsStack'
  BY DEF Books, Covered, Chained, Current, PeriodsStack, Overlap
<1>4. QED BY <1>1, <1>2, <1>3

\* The one checkout in flight writes its payments row or asks for its page.
LEMMA CreatingStep ==
    ASSUME Inv, NEW s \in Sessions, NEW r \in Refs, NEW m \in Memory,
           session[s].step \in OwnSteps, session[s].ref = r,
           session' \in [Sessions -> Memory],
           session'[s] = m, \A u \in Sessions : u # s => session'[u] = session[u],
           m.step \in OwnSteps => m.ref = r /\ ~pay'[r].linked,
           m.step \in OwnSteps \cup {"idle"},
           pay' \in [Refs -> PayRow], \A q \in Refs : q # r => pay'[q] = pay[q],
           pay'[r].status \in {"pending", "processing", "failed", pay[r].status},
           pay'[r].linked => pay'[r].status = "processing",
           link' \in [Refs -> {"none", "open", "used", "disabled"}],
           \A q \in Refs : q # r => link'[q] = link[q],
           link'[r] \in {link[r], "open"},
           UNCHANGED <<now, sub, paid, pref, stopping, charge, billed, renewing>>
    PROVE  Inv'
<1>1. sub[r].status = "pending" /\ ~pay[r].linked
  BY DEF Inv, Requests, Sound, Creating
<1>2. ~Charged(r)
  BY <1>1 DEF Inv, Books, Charges
<1>3. TypeOK'
  BY DEF Inv, TypeOK, PayRow, Memory, Steps
<1>4. Requests'
  <2>1. m.step \notin LockedSteps
    BY DEF LockedSteps, OwnSteps
  <2>2. Sound(m)'
    BY <1>1, <2>1 DEF Sound, Creating, Cancelling, Managing, Asking, LockedSteps, OwnSteps
  <2>3. ASSUME NEW u \in Sessions, NEW n, u # s, n = session[u] PROVE Sound(n)'
    <3>1. Sound(n) /\ n.step \notin OwnSteps
      BY <2>3 DEF Inv, Requests, Alone
    <3>2. Cancelling(n)'
      <4>1. CASE n.step \in {"disable", "verify", "write"}
        <5>1. n.ref \in Refs /\ pay[n.ref].linked
          BY <3>1, <4>1 DEF Sound, Cancelling
        <5>2. n.ref # r
          BY <1>1, <5>1
        <5>3. QED BY <3>1, <5>1, <5>2 DEF Sound, Cancelling, Charged
      <4>2. CASE n.step \notin {"disable", "verify", "write"}
        BY <4>2 DEF Cancelling
      <4>3. QED BY <4>1, <4>2
    <3>3. QED BY <3>1, <3>2 DEF Sound, Creating, Managing, Asking, Charged, Pending
  <2>4. QED BY <2>1, <2>2, <2>3, RequestsMove DEF Inv
<1>5. Pages'
  BY <1>1 DEF Inv, Books, Pages
<1>6. LedgerAgrees'
  <2>1. pay'[r].status \notin {"succeeded", "cancelled"}
    BY <1>1 DEF Inv, Books, LedgerAgrees
  <2>2. QED BY <1>1, <2>1 DEF Inv, Books, LedgerAgrees
<1>7. Charges'
  BY <1>1, <1>2 DEF Inv, Books, Charges, Charged
<1>8. Stops'
  BY DEF Inv, Books, Stops, Charged
<1>9. QED BY <1>3, <1>4, <1>5, <1>6, <1>7, <1>8, PeriodsKept DEF Inv, Books

LEMMA RecordAttemptStep == ASSUME Inv, NEW s \in Sessions, RecordAttempt(s) PROVE Inv'
<1>1. PICK r : r = session[s].ref
  OBVIOUS
<1>2. PICK row : row = [status |-> "pending", linked |-> FALSE]
  OBVIOUS
<1>3. /\ session[s].step = "attempt" /\ pay' = [pay EXCEPT ![r] = row] /\ Goto(s, "init", r)
      /\ UNCHANGED <<now, sub, paid, pref, stopping, link, charge, billed, renewing>>
  BY <1>1, <1>2 DEF RecordAttempt, gateway
<1>4. {"attempt", "init"} \subseteq OwnSteps /\ "init" \in Steps
  BY DEF OwnSteps, Steps
<1>5. r \in Refs
  BY <1>1, <1>3, <1>4 DEF Inv, Requests, Sound, Creating
<1>6. pay \in [Refs -> PayRow] /\ row \in PayRow
  BY <1>2 DEF Inv, TypeOK, PayRow
<1>7. /\ pay' \in [Refs -> PayRow] /\ pay'[r] = row
      /\ \A q \in Refs : q # r => pay'[q] = pay[q]
  BY <1>3, <1>5, <1>6
<1>8. PICK m \in Memory : /\ m.step = "init" /\ m.ref = r
                          /\ session' \in [Sessions -> Memory]
                          /\ session'[s] = m
                          /\ \A u \in Sessions : u # s => session'[u] = session[u]
  BY <1>3, <1>4, <1>5, Moved DEF Inv
<1>9. link' \in [Refs -> {"none", "open", "used", "disabled"}]
  BY <1>3 DEF Inv, TypeOK
<1>10. QED BY <1>1, <1>2, <1>3, <1>4, <1>5, <1>7, <1>8, <1>9, CreatingStep

LEMMA InitializeCheckoutStep ==
    ASSUME Inv, NEW s \in Sessions, InitializeCheckout(s) PROVE Inv'
<1>1. PICK r : r = session[s].ref
  OBVIOUS
<1>2. /\ session[s].step = "init" /\ CreatePage(r)
      /\ UNCHANGED <<now, sub, pay, paid, pref, stopping, charge, billed, renewing>>
  BY <1>1 DEF InitializeCheckout
<1>3. PICK step \in {"failed", "ready"} : Goto(s, step, r)
  BY <1>1 DEF InitializeCheckout
<1>4. "init" \in OwnSteps /\ step \in OwnSteps /\ step \in Steps
  BY DEF OwnSteps, Steps
<1>5. r \in Refs /\ ~pay[r].linked
  BY <1>1, <1>2, <1>4 DEF Inv, Requests, Sound, Creating
<1>6. PICK m \in Memory : /\ m.step = step /\ m.ref = r
                          /\ session' \in [Sessions -> Memory]
                          /\ session'[s] = m
                          /\ \A u \in Sessions : u # s => session'[u] = session[u]
  BY <1>3, <1>4, <1>5, Moved DEF Inv
<1>7. pay' \in [Refs -> PayRow] /\ link \in [Refs -> {"none", "open", "used", "disabled"}]
  BY <1>2 DEF Inv, TypeOK, PayRow
<1>8. /\ link' \in [Refs -> {"none", "open", "used", "disabled"}]
      /\ \A q \in Refs : q # r => link'[q] = link[q]
      /\ link'[r] \in {link[r], "open"}
  BY <1>2, <1>5, <1>7 DEF CreatePage
<1>9. QED BY <1>1, <1>2, <1>4, <1>5, <1>6, <1>7, <1>8, CreatingStep

\* The page is ready, or the attempt is recorded as failed; the checkout ends.
LEMMA MarkReadyStep == ASSUME Inv, NEW s \in Sessions, MarkReady(s) PROVE Inv'
<1>1. PICK r : r = session[s].ref
  OBVIOUS
<1>2. PICK row : row = [status |-> "processing", linked |-> TRUE]
  OBVIOUS
<1>3. /\ session[s].step = "ready" /\ pay' = [pay EXCEPT ![r] = row] /\ Finish(s)
      /\ UNCHANGED <<now, sub, paid, pref, stopping, link, charge, billed, renewing>>
  BY <1>1, <1>2 DEF MarkReady, gateway
<1>4. "ready" \in OwnSteps
  BY DEF OwnSteps
<1>5. r \in Refs
  BY <1>1, <1>3, <1>4 DEF Inv, Requests, Sound, Creating
<1>6. pay \in [Refs -> PayRow] /\ row \in PayRow
  BY <1>2 DEF Inv, TypeOK, PayRow
<1>7. /\ pay' \in [Refs -> PayRow] /\ pay'[r] = row
      /\ \A q \in Refs : q # r => pay'[q] = pay[q]
  BY <1>3, <1>5, <1>6
<1>8. /\ session' \in [Sessions -> Memory]
      /\ session'[s] = Idle
      /\ \A u \in Sessions : u # s => session'[u] = session[u]
  BY <1>3, Finished DEF Inv
<1>9. link' \in [Refs -> {"none", "open", "used", "disabled"}]
  BY <1>3 DEF Inv, TypeOK
<1>10. QED BY <1>1, <1>2, <1>3, <1>4, <1>5, <1>7, <1>8, <1>9, IdleSound, StepsApart, CreatingStep

LEMMA MarkFailedStep == ASSUME Inv, NEW s \in Sessions, MarkFailed(s) PROVE Inv'
<1>1. PICK r : r = session[s].ref
  OBVIOUS
<1>2. /\ session[s].step = "failed" /\ pay' = [pay EXCEPT ![r].status = "failed"] /\ Finish(s)
      /\ UNCHANGED <<now, sub, paid, pref, stopping, link, charge, billed, renewing>>
  BY <1>1 DEF MarkFailed, gateway
<1>3. "failed" \in OwnSteps
  BY DEF OwnSteps
<1>4. r \in Refs /\ ~pay[r].linked
  BY <1>1, <1>2, <1>3 DEF Inv, Requests, Sound, Creating
<1>5. pay \in [Refs -> PayRow]
  BY DEF Inv, TypeOK, PayRow
<1>6. /\ pay' \in [Refs -> PayRow] /\ pay'[r].status = "failed" /\ ~pay'[r].linked
      /\ \A q \in Refs : q # r => pay'[q] = pay[q]
  BY <1>2, <1>4, <1>5 DEF PayRow
<1>7. /\ session' \in [Sessions -> Memory]
      /\ session'[s] = Idle
      /\ \A u \in Sessions : u # s => session'[u] = session[u]
  BY <1>2, Finished DEF Inv
<1>8. link' \in [Refs -> {"none", "open", "used", "disabled"}]
  BY <1>2 DEF Inv, TypeOK
<1>9. QED BY <1>1, <1>2, <1>3, <1>4, <1>6, <1>7, <1>8, IdleSound, StepsApart, CreatingStep

-----------------------------------------------------------------------------
(* Cancelled checkouts *)

LEMMA CancelDisableStep == ASSUME Inv, NEW s \in Sessions, CancelDisable(s) PROVE Inv'
<1>1. PICK r : r = session[s].ref
  OBVIOUS
<1>2. /\ session[s].step = "disable" /\ link' = [link EXCEPT ![r] = "disabled"]
      /\ Goto(s, "verify", r)
      /\ UNCHANGED <<now, sub, pay, paid, pref, stopping, charge, billed, renewing>>
  BY <1>1 DEF CancelDisable
<1>3. r \in Refs /\ pay[r].linked
  BY <1>1, <1>2 DEF Inv, Requests, Sound, Cancelling
<1>4. /\ link' \in [Refs -> {"none", "open", "used", "disabled"}]
      /\ \A q \in Refs : link'[q] = IF q = r THEN "disabled" ELSE link[q]
  BY <1>2, <1>3 DEF Inv, TypeOK
<1>5. "verify" \in Steps /\ "verify" \notin OwnSteps /\ "disable" \in LockedSteps
  BY DEF Steps, LockedSteps, OwnSteps
<1>6. PICK m \in Memory : /\ m.step = "verify" /\ m.ref = r
                          /\ session' \in [Sessions -> Memory]
                          /\ session'[s] = m
                          /\ \A u \in Sessions : u # s => session'[u] = session[u]
  BY <1>2, <1>3, <1>5, Moved DEF Inv
<1>7. TypeOK'
  BY <1>2, <1>4, <1>6 DEF Inv, TypeOK, Memory, Steps
<1>8. Requests'
  <2>1. \A n : Sound(n) => Sound(n)'
    BY <1>2, <1>4 DEF Sound, Creating, Cancelling, Managing, Asking, Charged, Pending
  <2>2. Sound(m)'
    BY <1>2, <1>3, <1>4, <1>5, <1>6 DEF Sound, Creating, Cancelling, Managing, Asking
  <2>3. QED BY <1>2, <1>5, <1>6, <2>1, <2>2, RequestsMove DEF Inv, Requests
<1>9. Pages'
  BY <1>2, <1>4 DEF Inv, Books, Pages
<1>10. Charges'
  BY <1>2, <1>4 DEF Inv, Books, Charges, Charged
<1>11. LedgerAgrees' /\ Stops'
  BY <1>2 DEF Inv, Books, LedgerAgrees, Stops, Charged
<1>12. QED BY <1>2, <1>7, <1>8, <1>9, <1>10, <1>11, PeriodsKept DEF Inv, Books

LEMMA CancelWriteStep == ASSUME Inv, NEW s \in Sessions, CancelWrite(s) PROVE Inv'
<1>1. PICK r : r = session[s].ref
  OBVIOUS
<1>2. /\ session[s].step = "write" /\ sub[r].status = "pending"
      /\ sub' = [sub EXCEPT ![r].status = "cancelled"]
      /\ pay' = [pay EXCEPT ![r].status =
                      IF @ \in {"pending", "processing", "failed"} THEN "cancelled" ELSE @]
      /\ Finish(s)
      /\ UNCHANGED <<now, paid, pref, stopping, link, charge, billed, renewing>>
  BY <1>1 DEF CancelWrite, gateway
<1>3. /\ r \in Refs /\ pay[r].linked /\ link[r] = "disabled"
      /\ sub[r].mode = "recurring" => ~Charged(r)
  BY <1>1, <1>2 DEF Inv, Requests, Sound, Cancelling
<1>4. pay[r].status = "processing"
  <2>1. pay[r].status \in {"processing", "succeeded", "cancelled"}
    BY <1>3 DEF Inv, Books, Pages
  <2>2. QED BY <1>2, <1>3, <2>1 DEF Inv, Books, LedgerAgrees
<1>5. sub \in [Refs -> SubRow] /\ pay \in [Refs -> PayRow]
  BY DEF Inv, TypeOK, SubRow, PayRow
<1>6. /\ sub' \in [Refs -> SubRow] /\ sub'[r].status = "cancelled"
      /\ sub'[r].mode = sub[r].mode /\ sub'[r].months = sub[r].months
      /\ \A q \in Refs : q # r => sub'[q] = sub[q]
  BY <1>2, <1>3, <1>5 DEF SubRow
<1>7. /\ pay' \in [Refs -> PayRow] /\ pay'[r].status = "cancelled" /\ pay'[r].linked
      /\ \A q \in Refs : q # r => pay'[q] = pay[q]
  BY <1>2, <1>3, <1>4, <1>5 DEF PayRow
<1>8. /\ session' \in [Sessions -> Memory]
      /\ session'[s] = Idle
      /\ \A u \in Sessions : u # s => session'[u] = session[u]
  BY <1>2, Finished DEF Inv
<1>9. TypeOK'
  BY <1>2, <1>6, <1>7, <1>8 DEF Inv, TypeOK, SubRow, PayRow, Memory, Steps
<1>10. Requests'
  <2>1. Sound(Idle)'
    BY IdleSound DEF Sound, Creating, Cancelling, Managing, Asking, OwnSteps
  <2>2. ASSUME NEW u \in Sessions, NEW n, u # s, n = session[u] PROVE Sound(n)'
    <3>1. Sound(n)
      BY <2>2 DEF Inv, Requests
    <3>2. Creating(n)'
      <4>1. CASE n.step \in OwnSteps
        <5>1. n.ref \in Refs /\ ~pay[n.ref].linked /\ sub[n.ref].status = "pending"
          BY <3>1, <4>1 DEF Sound, Creating
        <5>2. n.ref # r
          BY <1>3, <5>1
        <5>3. QED BY <1>6, <1>7, <5>1, <5>2 DEF Creating
      <4>2. CASE n.step \notin OwnSteps
        BY <4>2 DEF Creating
      <4>3. QED BY <4>1, <4>2
    <3>3. Cancelling(n)'
      BY <1>2, <1>6, <1>7, <3>1 DEF Sound, Cancelling, Charged
    <3>4. Managing(n)' /\ Asking(n)'
      BY <1>2, <1>6, <3>1 DEF Sound, Managing, Asking, Charged, Pending
    <3>5. QED BY <3>2, <3>3, <3>4 DEF Sound
  <2>3. QED BY <1>8, <2>1, <2>2, IdleSound, StepsApart, RequestsMove DEF Inv
<1>11. PlansKept' /\ OnePending' /\ Pages' /\ LedgerAgrees'
  <2>1. PlansKept'
    <3>1. sub[r].months > 0 /\ (sub[r].mode = "recurring" => sub[r].months = 1)
      BY <1>2, <1>3 DEF Inv, Books, PlansKept
    <3>2. QED BY <1>6, <3>1 DEF Inv, Books, PlansKept
  <2>2. OnePending'
    BY <1>6 DEF Inv, Books, OnePending
  <2>3. Pages'
    BY <1>2, <1>3, <1>6, <1>7 DEF Inv, Books, Pages
  <2>4. LedgerAgrees'
    BY <1>6, <1>7 DEF Inv, Books, LedgerAgrees
  <2>5. QED BY <2>1, <2>2, <2>3, <2>4
<1>12. Charges'
  BY <1>2, <1>3, <1>6, <1>7 DEF Inv, Books, Charges, Charged
<1>13. \A t \in Txs : paid[t] # NotPaid => charge[t] \in Refs \ {r}
  BY <1>2 DEF Inv, Books, Receipted
<1>14. Receipted'
  <2>1. \A q \in Refs : Receipts(q)' = Receipts(q)
    BY <1>2 DEF Receipts
  <2>2. QED BY <1>2, <1>6, <1>13, <2>1 DEF Inv, Books, Receipted
<1>15. Stops'
  <2>1. pref.covers \subseteq Refs
    BY DEF Inv, TypeOK
  <2>2. QED BY <1>2, <1>6, <2>1 DEF Inv, Books, Stops, Charged
<1>16. Covered' /\ Chained' /\ PeriodsStack'
  <2>1. Current' = Current /\ r \notin Current
    BY <1>2, <1>6 DEF Current
  <2>2. Covered'
    BY <1>2, <1>6, <1>13 DEF Inv, Books, Covered
  <2>3. Chained'
    BY <1>2, <1>6, <2>1 DEF Inv, Books, Chained, Current
  <2>4. PeriodsStack'
    BY <1>2 DEF Inv, Books, PeriodsStack, Overlap
  <2>5. QED BY <2>2, <2>3, <2>4
<1>17. QED BY <1>9, <1>10, <1>11, <1>12, <1>14, <1>15, <1>16 DEF Inv, Books

-----------------------------------------------------------------------------
(* Settlements, which take no lock *)

LEMMA RequestsStay ==
    ASSUME Requests, session' = session, \A n : Sound(n) => Sound(n)'
    PROVE  Requests'
<1>1. Alone'
  BY DEF Requests, Alone
<1>2. ASSUME NEW u \in Sessions PROVE Sound(session[u])'
  <2>1. PICK n : n = session[u]
    OBVIOUS
  <2>2. Sound(n)' /\ session'[u] = n
    BY <2>1 DEF Requests
  <2>3. QED BY <2>2 DEF Sound, Creating, Cancelling, Managing, Asking, Charged, Pending
<1>3. QED BY <1>1, <1>2 DEF Requests

\* Whatever the tables said, a subscription that was paid becomes active: its
\* page is not open, it is not being created, and no write of a cancellation
\* is undone by it.
LEMMA Activated ==
    ASSUME Inv, NEW r \in Refs, Charged(r),
           sub' \in [Refs -> SubRow], sub'[r].status = "active",
           sub'[r].mode = sub[r].mode, sub'[r].months = sub[r].months,
           \A q \in Refs : q # r => sub'[q] = sub[q],
           pay' \in [Refs -> PayRow], pay'[r].status = "succeeded",
           pay'[r].linked = pay[r].linked,
           \A q \in Refs : q # r => pay'[q] = pay[q],
           UNCHANGED <<now, pref, stopping, session, gateway>>
    PROVE  /\ PlansKept' /\ OnePending' /\ Pages' /\ LedgerAgrees' /\ Charges' /\ Stops'
           /\ Requests'
<1>1. pay[r].linked /\ link[r] \in {"used", "disabled"} /\ sub[r].status # "none"
  BY DEF Inv, Books, Charges, Pages
<1>2. PlansKept'
  <2>1. sub[r].months > 0 /\ (sub[r].mode = "recurring" => sub[r].months = 1)
    BY <1>1 DEF Inv, Books, PlansKept
  <2>2. QED BY <2>1 DEF Inv, Books, PlansKept
<1>3. OnePending'
  BY DEF Inv, Books, OnePending
<1>4. Pages' /\ LedgerAgrees'
  BY <1>1 DEF Inv, Books, Pages, LedgerAgrees, gateway
<1>5. Charges'
  <2>1. \A q \in Refs : Charged(q)' <=> Charged(q)
    BY DEF Charged, gateway
  <2>2. UNCHANGED <<link, renewing>>
    BY DEF gateway
  <2>3. ASSUME NEW q \in Refs
        PROVE  /\ Charged(q) => pay'[q].linked /\ link[q] \in {"used", "disabled"}
               /\ sub'[q].status = "cancelled" /\ sub'[q].mode = "recurring" => ~Charged(q)
               /\ q \in renewing => Charged(q) /\ sub'[q].mode = "recurring"
    <3>1. CASE q = r
      BY <1>1, <3>1 DEF Inv, Books, Charges
    <3>2. CASE q # r
      BY <3>2 DEF Inv, Books, Charges
    <3>3. QED BY <3>1, <3>2
  <2>4. QED BY <2>1, <2>2, <2>3 DEF Charges
<1>6. Stops'
  <2>1. pref.covers \subseteq Refs
    BY DEF Inv, TypeOK
  <2>2. QED BY <2>1 DEF Inv, Books, Stops, Charged, gateway
<1>7. \A n : Sound(n) => Sound(n)'
  <2>1. ASSUME NEW n, Sound(n) PROVE Sound(n)'
    <3>1. Creating(n)'
      <4>1. CASE n.step \in OwnSteps
        <5>1. n.ref \in Refs /\ ~pay[n.ref].linked /\ sub[n.ref].status = "pending"
          BY <2>1, <4>1 DEF Sound, Creating
        <5>2. n.ref # r
          BY <1>1, <5>1
        <5>3. QED BY <5>1, <5>2 DEF Creating
      <4>2. CASE n.step \notin OwnSteps
        BY <4>2 DEF Creating
      <4>3. QED BY <4>1, <4>2
    <3>2. Cancelling(n)'
      BY <2>1 DEF Sound, Cancelling, Charged, gateway
    <3>3. Managing(n)' /\ Asking(n)'
      BY <2>1 DEF Sound, Managing, Asking, Charged, Pending, gateway
    <3>4. QED BY <3>1, <3>2, <3>3 DEF Sound
  <2>2. QED BY <2>1
<1>8. Requests'
  BY <1>7, RequestsStay DEF Inv
<1>9. QED BY <1>2, <1>3, <1>4, <1>5, <1>6, <1>8

\* An end that is not moved back while it lies ahead, and is at most a month
\* after now or after another subscription if a card pays, keeps every period
\* on record covered.
LEMMA Prolonged ==
    ASSUME Inv, NEW r \in Refs, NEW e \in Nat,
           sub' \in [Refs -> SubRow],
           sub'[r].status = "active", sub'[r].mode = sub[r].mode, sub'[r].ends = e,
           \A q \in Refs : q # r => sub'[q] = sub[q],
           UNCHANGED <<now, charge>>,
           r \in Current => e >= sub[r].ends,
           sub[r].mode = "recurring" =>
             e <= now + 1 \/ \E o \in Current \ {r} : e <= sub[o].ends + 1
    PROVE  /\ Chained'
           /\ \A a \in Txs : paid[a] # NotPaid =>
                 paid[a].to <= now \/ paid[a].to <= sub'[charge[a]].ends
<1>1. now \in Nat /\ \A q \in Refs : sub[q].ends \in Nat /\ sub'[q].ends \in Nat
  BY BoundsAssumption DEF Inv, TypeOK, SubRow
<1>2. /\ Current \subseteq Refs
      /\ Current' \subseteq Current \cup {r}
      /\ Current \subseteq Current'
  <2>1. r \in Current => r \in Current'
    BY <1>1 DEF Current
  <2>2. \A q \in Refs : q # r => (q \in Current' <=> q \in Current)
    BY DEF Current
  <2>3. QED BY <2>1, <2>2 DEF Current
<1>3. Chained'
  <2>1. ASSUME NEW q \in Current', sub'[q].mode = "recurring"
        PROVE  \/ sub'[q].ends <= now + 1
               \/ \E o \in Current' \ {q} : sub'[q].ends <= sub'[o].ends + 1
    <3>1. CASE q = r
      BY <1>2, <2>1, <3>1
    <3>2. CASE q # r
      <4>1. q \in Current /\ sub'[q] = sub[q]
        BY <1>2, <2>1, <3>2
      <4>2. CASE sub[q].ends <= now + 1
        BY <4>1, <4>2
      <4>3. ASSUME NEW o \in Current \ {q}, sub[q].ends <= sub[o].ends + 1
            PROVE  sub'[q].ends <= sub'[o].ends + 1
        <5>1. CASE o = r
          BY <1>1, <1>2, <4>1, <4>3, <5>1
        <5>2. CASE o # r
          BY <1>2, <4>1, <4>3, <5>2
        <5>3. QED BY <5>1, <5>2
      <4>4. QED BY <1>2, <2>1, <4>1, <4>2, <4>3 DEF Inv, Books, Chained
    <3>3. QED BY <3>1, <3>2
  <2>2. QED BY <2>1 DEF Chained
<1>4. ASSUME NEW a \in Txs, paid[a] # NotPaid
      PROVE  paid[a].to <= now \/ paid[a].to <= sub'[charge[a]].ends
  <2>1. charge[a] \in Refs /\ sub[charge[a]].status = "active"
    BY <1>4 DEF Inv, Books, Receipted
  <2>2. paid[a].to <= now \/ paid[a].to <= sub[charge[a]].ends
    BY <1>4 DEF Inv, Books, Covered
  <2>3. paid[a].to \in Nat
    BY DEF Inv, TypeOK
  <2>4. CASE charge[a] # r
    BY <2>1, <2>2, <2>4
  <2>5. CASE charge[a] = r /\ r \in Current
    BY <1>1, <2>2, <2>3, <2>5
  <2>6. CASE charge[a] = r /\ r \notin Current
    BY <1>1, <2>1, <2>2, <2>3, <2>6 DEF Current
  <2>7. QED BY <2>4, <2>5, <2>6
<1>5. QED BY <1>3, <1>4

\* The first settlement of a transaction.
LEMMA GrantStep ==
    ASSUME Inv, NEW t \in Txs, Settle(t), Grant(t) PROVE Inv'
<1>1. PICK r : r = charge[t]
  OBVIOUS
<1>2. PICK from : from = StartsAt(r)
  OBVIOUS
<1>3. PICK to : to = from + sub[r].months
  OBVIOUS
<1>4. /\ r # NoRef /\ ~Prepaid(t) /\ paid[t] = NotPaid
      /\ paid' = [paid EXCEPT ![t] = [from |-> from, to |-> to]]
      /\ sub' = [sub EXCEPT ![r].status = "active", ![r].ends = to]
      /\ pay' = [pay EXCEPT ![r].status = "succeeded"]
      /\ UNCHANGED <<now, pref, stopping, session, gateway>>
  BY <1>1, <1>2, <1>3 DEF Settle, Grant, SettleLedger
<1>5. r \in Refs /\ Charged(r)
  BY <1>1, <1>4 DEF Inv, TypeOK, Charged
<1>6. /\ from \in Nat /\ from >= now
      /\ \A o \in Current \ {r} : from >= sub[o].ends
      /\ from = now \/ \E o \in Current \ {r} : from = sub[o].ends
  BY <1>2, <1>5, StartsAfter DEF Inv
<1>7. /\ sub[r].months \in Nat /\ sub[r].months > 0
      /\ sub[r].mode = "recurring" => sub[r].months = 1
  <2>1. sub[r].status # "none"
    BY <1>5 DEF Inv, Books, Charges, Pages
  <2>2. {0, 1} \cup Durations \subseteq Nat
    BY BoundsAssumption
  <2>3. QED BY <1>5, <2>1, <2>2 DEF Inv, TypeOK, Books, PlansKept
<1>8. to \in Nat /\ to > from
  BY <1>3, <1>6, <1>7
<1>9. sub \in [Refs -> SubRow] /\ pay \in [Refs -> PayRow] /\ now \in Nat
  BY BoundsAssumption DEF Inv, TypeOK, SubRow, PayRow
<1>10. /\ sub' \in [Refs -> SubRow]
       /\ sub'[r].status = "active" /\ sub'[r].ends = to
       /\ sub'[r].mode = sub[r].mode /\ sub'[r].months = sub[r].months
       /\ \A q \in Refs : q # r => sub'[q] = sub[q]
  <2>1. PICK row : row = [sub[r] EXCEPT !.status = "active", !.ends = to]
    OBVIOUS
  <2>2. sub' = [sub EXCEPT ![r] = row]
    BY <1>4, <1>5, <1>9, <2>1
  <2>3. /\ row \in SubRow /\ row.status = "active" /\ row.ends = to
        /\ row.mode = sub[r].mode /\ row.months = sub[r].months
    BY <1>5, <1>8, <1>9, <2>1 DEF SubRow
  <2>4. QED BY <1>5, <1>9, <2>2, <2>3
<1>11. /\ pay' \in [Refs -> PayRow] /\ pay'[r].status = "succeeded"
       /\ pay'[r].linked = pay[r].linked
       /\ \A q \in Refs : q # r => pay'[q] = pay[q]
  BY <1>4, <1>5, <1>9 DEF PayRow
<1>12. /\ PlansKept' /\ OnePending' /\ Pages' /\ LedgerAgrees' /\ Charges' /\ Stops'
       /\ Requests'
  BY <1>4, <1>5, <1>10, <1>11, Activated
<1>13. r \in Current => to >= sub[r].ends
  <2>1. ASSUME r \in Current PROVE sub[r].mode = "recurring"
    <3>1. Receipts(r) # {}
      BY <1>5, <2>1 DEF Inv, Books, Receipted, Current
    <3>2. t \notin Receipts(r)
      BY <1>4 DEF Receipts
    <3>3. sub[r].mode # "one_time"
      BY <1>1, <1>4, <3>1, <3>2 DEF Prepaid
    <3>4. QED BY <1>5, <1>9, <3>3 DEF SubRow
  <2>2. ASSUME r \in Current PROVE to >= sub[r].ends
    <3>1. sub[r].mode = "recurring" /\ to = from + 1 /\ sub[r].ends \in Nat
      BY <1>3, <1>5, <1>7, <1>9, <2>1, <2>2 DEF SubRow
    <3>2. CASE sub[r].ends <= now + 1
      BY <1>6, <1>9, <3>1, <3>2
    <3>3. ASSUME NEW o \in Current \ {r}, sub[r].ends <= sub[o].ends + 1
          PROVE  to >= sub[r].ends
      <4>1. sub[o].ends \in Nat /\ from >= sub[o].ends
        BY <1>6, <1>9 DEF Current, SubRow
      <4>2. QED BY <1>6, <3>1, <3>3, <4>1
    <3>4. QED BY <2>2, <3>1, <3>2, <3>3 DEF Inv, Books, Chained
  <2>3. QED BY <2>2
<1>14. sub[r].mode = "recurring" =>
          to <= now + 1 \/ \E o \in Current \ {r} : to <= sub[o].ends + 1
  BY <1>3, <1>6, <1>7, <1>9 DEF Current, SubRow
<1>15. /\ Chained'
       /\ \A a \in Txs : paid[a] # NotPaid =>
             paid[a].to <= now \/ paid[a].to <= sub'[charge[a]].ends
  BY <1>4, <1>5, <1>8, <1>10, <1>13, <1>14, Prolonged DEF gateway
<1>16. /\ paid' \in [Txs -> [from : Nat, to : Nat]]
       /\ paid'[t] = [from |-> from, to |-> to] /\ paid'[t] # NotPaid
       /\ \A a \in Txs : a # t => paid'[a] = paid[a]
  <2>1. paid \in [Txs -> [from : Nat, to : Nat]]
    BY DEF Inv, TypeOK
  <2>2. [from |-> from, to |-> to] # NotPaid
    BY <1>6, <1>8 DEF NotPaid
  <2>3. QED BY <1>4, <1>6, <1>8, <2>1, <2>2
<1>17. Receipted'
  <2>1. \A a \in Txs : paid'[a] # NotPaid =>
           charge[a] \in Refs /\ sub'[charge[a]].status = "active"
    BY <1>1, <1>5, <1>10, <1>16 DEF Inv, Books, Receipted
  <2>2. \A q \in Refs : Receipts(q) \subseteq Receipts(q)'
    BY <1>4, <1>16 DEF Receipts, gateway
  <2>3. t \in Receipts(r)'
    BY <1>1, <1>4, <1>16 DEF Receipts, gateway
  <2>4. \A q \in Refs : sub'[q].status = "active" => Receipts(q)' # {}
    BY <1>10, <2>2, <2>3 DEF Inv, Books, Receipted
  <2>5. QED BY <1>4, <2>1, <2>4 DEF Receipted, gateway
<1>18. Covered'
  <2>1. paid'[t].to <= sub'[charge[t]].ends
    BY <1>1, <1>8, <1>10, <1>16
  <2>2. \A a \in Txs : paid'[a] # NotPaid =>
           paid'[a].to <= now \/ paid'[a].to <= sub'[charge[a]].ends
    BY <1>15, <1>16, <2>1
  <2>3. QED BY <1>4, <2>2 DEF Covered, gateway
<1>19. PeriodsStack'
  <2>1. ASSUME NEW b \in Txs, charge[b] # r PROVE paid[b].to <= from
    <3>1. CASE paid[b] = NotPaid
      BY <1>6, <3>1 DEF NotPaid
    <3>2. CASE paid[b] # NotPaid
      <4>1. charge[b] \in Refs /\ sub[charge[b]].status = "active"
        BY <3>2 DEF Inv, Books, Receipted
      <4>2. paid[b].to <= now \/ paid[b].to <= sub[charge[b]].ends
        BY <3>2 DEF Inv, Books, Covered
      <4>3. paid[b].to \in Nat /\ sub[charge[b]].ends \in Nat
        BY <1>9, <4>1 DEF Inv, TypeOK, SubRow
      <4>4. CASE sub[charge[b]].ends > now
        <5>1. charge[b] \in Current \ {r}
          BY <2>1, <4>1, <4>4 DEF Current
        <5>2. from >= sub[charge[b]].ends
          BY <1>6, <5>1
        <5>3. QED BY <1>6, <1>9, <4>2, <4>3, <5>2
      <4>5. CASE sub[charge[b]].ends <= now
        BY <1>6, <1>9, <4>2, <4>3, <4>5
      <4>6. QED BY <1>9, <4>3, <4>4, <4>5
    <3>3. QED BY <3>1, <3>2
  <2>2. ASSUME NEW b \in Txs, charge[b] # r
        PROVE  /\ b # t /\ paid'[b] = paid[b] /\ ~(from < paid[b].to)
    <3>1. paid[b].to \in Nat /\ paid[b].to <= from /\ b # t
      BY <1>1, <2>1, <2>2 DEF Inv, TypeOK
    <3>2. QED BY <1>6, <1>16, <3>1
  <2>3. ASSUME NEW a \in Txs, NEW b \in Txs, charge[a] # charge[b]
        PROVE  ~(paid'[a].from < paid'[b].to /\ paid'[b].from < paid'[a].to)
    <3>1. CASE a = t
      BY <1>1, <1>16, <2>2, <2>3, <3>1
    <3>2. CASE b = t
      BY <1>1, <1>16, <2>2, <2>3, <3>2
    <3>3. CASE a # t /\ b # t
      BY <1>16, <2>3, <3>3 DEF Inv, Books, PeriodsStack, Overlap
    <3>4. QED BY <3>1, <3>2, <3>3
  <2>4. QED BY <1>4, <2>3 DEF PeriodsStack, Overlap, gateway
<1>20. TypeOK'
  BY <1>4, <1>10, <1>11, <1>16 DEF Inv, TypeOK, SubRow, PayRow, gateway
<1>21. QED BY <1>12, <1>15, <1>17, <1>18, <1>19, <1>20 DEF Inv, Books

\* A renewal settled again when access has run out.
LEMMA RegrantStep ==
    ASSUME Inv, NEW t \in Txs, Settle(t), Regrant(t) PROVE Inv'
<1>1. PICK r : r = charge[t]
  OBVIOUS
<1>2. /\ r # NoRef /\ paid[t] # NotPaid /\ sub[r].mode = "recurring"
      /\ sub[r].status # "active" \/ sub[r].ends <= now
      /\ sub' = [sub EXCEPT ![r].status = "active", ![r].ends = IF @ <= now THEN now + 1 ELSE @]
      /\ pay' = [pay EXCEPT ![r].status = "succeeded"]
      /\ UNCHANGED <<now, paid, pref, stopping, session, gateway>>
  BY <1>1 DEF Settle, Regrant, SettleLedger
<1>3. r \in Refs /\ Charged(r)
  BY <1>1, <1>2 DEF Inv, TypeOK, Charged
<1>4. sub[r].status = "active"
  BY <1>1, <1>2 DEF Inv, Books, Receipted
<1>5. sub \in [Refs -> SubRow] /\ pay \in [Refs -> PayRow] /\ now \in Nat
  BY BoundsAssumption DEF Inv, TypeOK, SubRow, PayRow
<1>6. sub[r].ends <= now
  BY <1>2, <1>4
<1>7. /\ sub' \in [Refs -> SubRow]
      /\ sub'[r].status = "active" /\ sub'[r].ends = now + 1
      /\ sub'[r].mode = sub[r].mode /\ sub'[r].months = sub[r].months
      /\ \A q \in Refs : q # r => sub'[q] = sub[q]
  <2>1. PICK row : row = [sub[r] EXCEPT !.status = "active", !.ends = now + 1]
    OBVIOUS
  <2>2. sub' = [sub EXCEPT ![r] = row]
    BY <1>2, <1>3, <1>5, <1>6, <2>1
  <2>3. /\ row \in SubRow /\ row.status = "active" /\ row.ends = now + 1
        /\ row.mode = sub[r].mode /\ row.months = sub[r].months
    <3>1. now + 1 \in Nat /\ sub[r] \in SubRow
      BY <1>3, <1>5
    <3>2. QED BY <2>1, <3>1 DEF SubRow
  <2>4. QED BY <1>3, <1>5, <2>2, <2>3
<1>8. /\ pay' \in [Refs -> PayRow] /\ pay'[r].status = "succeeded"
      /\ pay'[r].linked = pay[r].linked
      /\ \A q \in Refs : q # r => pay'[q] = pay[q]
  BY <1>2, <1>3, <1>5 DEF PayRow
<1>9. /\ PlansKept' /\ OnePending' /\ Pages' /\ LedgerAgrees' /\ Charges' /\ Stops'
      /\ Requests'
  BY <1>2, <1>3, <1>7, <1>8, Activated
<1>10. /\ Chained'
       /\ \A a \in Txs : paid[a] # NotPaid =>
             paid[a].to <= now \/ paid[a].to <= sub'[charge[a]].ends
  <2>1. r \notin Current
    BY <1>5, <1>6 DEF Current, SubRow
  <2>2. now + 1 \in Nat /\ now + 1 <= now + 1
    BY <1>5
  <2>3. QED BY <1>2, <1>3, <1>7, <2>1, <2>2, Prolonged DEF gateway
<1>11. Receipted'
  <2>1. \A q \in Refs : Receipts(q)' = Receipts(q)
    BY <1>2 DEF Receipts, gateway
  <2>2. \A a \in Txs : paid[a] # NotPaid =>
           charge[a] \in Refs /\ sub'[charge[a]].status = "active"
    BY <1>7 DEF Inv, Books, Receipted
  <2>3. \A q \in Refs : sub'[q].status = "active" => Receipts(q) # {}
    BY <1>3, <1>4, <1>7 DEF Inv, Books, Receipted
  <2>4. QED BY <1>2, <2>1, <2>2, <2>3 DEF Receipted, gateway
<1>12. Covered' /\ PeriodsStack'
  BY <1>2, <1>10 DEF Inv, Books, Covered, PeriodsStack, Overlap, gateway
<1>13. TypeOK'
  BY <1>2, <1>7, <1>8 DEF Inv, TypeOK, SubRow, PayRow, gateway
<1>14. QED BY <1>9, <1>10, <1>11, <1>12, <1>13 DEF Inv, Books

LEMMA SettleStep == ASSUME Inv, NEW t \in Txs, Settle(t) PROVE Inv'
BY GrantStep, RegrantStep DEF Settle

-----------------------------------------------------------------------------
(* The gateway and the calendar *)

\* A transaction more for r: one that a request may rely on not to exist is
\* for a page that is down, and what r bought so far is not touched.
LEMMA OneChargeMore ==
    ASSUME Inv, NEW t \in Txs, NEW r \in Refs, charge[t] = NoRef,
           charge' = [charge EXCEPT ![t] = r],
           UNCHANGED <<now, sub, pay, paid, pref, stopping, session>>
    PROVE  /\ charge'[t] = r /\ \A a \in Txs : a # t => charge'[a] = charge[a]
           /\ \A q \in Refs : Charged(q)' <=> q = r \/ Charged(q)
           /\ PlansKept' /\ OnePending' /\ LedgerAgrees' /\ Receipted' /\ Covered' /\ Chained'
           /\ PeriodsStack'
<1>1. charge \in [Txs -> Refs \cup {NoRef}] /\ NoRef \notin Refs
  BY BoundsAssumption DEF Inv, TypeOK
<1>2. charge'[t] = r /\ \A a \in Txs : a # t => charge'[a] = charge[a]
  BY <1>1
<1>3. \A q \in Refs : Charged(q)' <=> q = r \/ Charged(q)
  BY <1>1, <1>2 DEF Charged
<1>4. paid[t] = NotPaid
  BY <1>1 DEF Inv, Books, Receipted
<1>5. \A q \in Refs : Receipts(q)' = Receipts(q)
  BY <1>2, <1>4 DEF Receipts
<1>6. PlansKept' /\ OnePending' /\ LedgerAgrees' /\ Chained'
  BY DEF Inv, Books, PlansKept, OnePending, LedgerAgrees, Chained, Current
<1>7. Receipted' /\ Covered'
  BY <1>2, <1>4, <1>5 DEF Inv, Books, Receipted, Covered
<1>8. PeriodsStack'
  <2>1. ASSUME NEW b \in Txs
        PROVE  ~(paid[t].from < paid[b].to /\ paid[b].from < paid[t].to)
    <3>1. paid[b].from \in Nat /\ paid[t].to = 0
      BY <1>4 DEF NotPaid, Inv, TypeOK
    <3>2. QED BY <3>1
  <2>2. ASSUME NEW a \in Txs, NEW b \in Txs, charge'[a] # charge'[b]
        PROVE  ~(paid[a].from < paid[b].to /\ paid[b].from < paid[a].to)
    <3>1. CASE a = t \/ b = t
      BY <2>1, <3>1
    <3>2. CASE a # t /\ b # t
      BY <1>2, <2>2, <3>2 DEF Inv, Books, PeriodsStack, Overlap
    <3>3. QED BY <3>1, <3>2
  <2>3. QED BY <2>2 DEF PeriodsStack, Overlap
<1>9. QED BY <1>2, <1>3, <1>6, <1>7, <1>8

LEMMA ChargeStep == ASSUME Inv, NEW t \in Txs, NEW r \in Refs, Charge(t, r) PROVE Inv'
<1>1. /\ charge[t] = NoRef /\ pay[r].linked
      /\ link[r] = "open" \/ (link[r] # "none" /\ sub[r].mode = "one_time")
      /\ charge' = [charge EXCEPT ![t] = r]
      /\ billed' = [billed EXCEPT ![r] = now]
      /\ link' = [link EXCEPT ![r] = IF @ = "open" THEN "used" ELSE @]
      /\ renewing' = renewing \cup (IF sub[r].mode = "recurring" THEN {r} ELSE {})
      /\ UNCHANGED <<now, sub, pay, paid, pref, stopping, session>>
  BY DEF Charge
<1>2. /\ charge'[t] = r /\ \A a \in Txs : a # t => charge'[a] = charge[a]
      /\ \A q \in Refs : Charged(q)' <=> q = r \/ Charged(q)
      /\ PlansKept' /\ OnePending' /\ LedgerAgrees' /\ Receipted' /\ Covered' /\ Chained'
      /\ PeriodsStack'
  BY <1>1, OneChargeMore
<1>3. link \in [Refs -> {"none", "open", "used", "disabled"}] /\ sub[r].mode \in {"recurring", "one_time"}
  BY DEF Inv, TypeOK
<1>4. /\ link' \in [Refs -> {"none", "open", "used", "disabled"}]
      /\ \A q \in Refs : q # r => link'[q] = link[q]
      /\ link'[r] = IF link[r] = "open" THEN "used" ELSE link[r]
      /\ link'[r] \in {"used", "disabled"}
  BY <1>1, <1>3
<1>5. sub[r].mode = "recurring" => /\ link[r] = "open" /\ sub[r].status = "pending"
                                   /\ ~Charged(r) /\ r \in Pending
  BY <1>1 DEF Inv, Books, Pages, Charges, Pending
<1>6. TypeOK'
  BY <1>1, <1>4 DEF Inv, TypeOK
<1>7. Requests'
  <2>1. ASSUME NEW n, Sound(n) PROVE Sound(n)'
    <3>1. Creating(n)' /\ Asking(n)'
      BY <1>1, <1>2, <2>1 DEF Sound, Creating, Asking
    <3>2. Cancelling(n)'
      <4>1. CASE n.step \in {"disable", "verify", "write"}
        <5>1. n.ref \in Refs /\ pay[n.ref].linked
          BY <2>1, <4>1 DEF Sound, Cancelling
        <5>2. n.step \in {"verify", "write"} => link[n.ref] = "disabled" /\ link'[n.ref] = "disabled"
          BY <1>4, <2>1, <5>1 DEF Sound, Cancelling
        <5>3. n.step = "write" /\ sub[n.ref].mode = "recurring" => ~Charged(n.ref)'
          BY <1>2, <1>5, <2>1, <5>1, <5>2 DEF Sound, Cancelling
        <5>4. QED BY <1>1, <5>1, <5>2, <5>3 DEF Cancelling
      <4>2. CASE n.step \notin {"disable", "verify", "write"}
        BY <4>2 DEF Cancelling
      <4>3. QED BY <4>1, <4>2
    <3>3. Managing(n)'
      <4>1. Pending' = Pending
        BY <1>1 DEF Pending
      <4>2. n.step = "stopped" => renewing' = {}
        BY <1>1, <1>3, <1>5, <2>1 DEF Sound, Managing
      <4>3. QED BY <2>1, <4>1, <4>2 DEF Sound, Managing
    <3>4. QED BY <3>1, <3>2, <3>3 DEF Sound
  <2>2. QED BY <1>1, <2>1, RequestsStay DEF Inv
<1>8. Pages'
  BY <1>1, <1>4 DEF Inv, Books, Pages
<1>9. Charges'
  <2>1. ASSUME NEW q \in Refs
        PROVE  /\ Charged(q)' => pay[q].linked /\ link'[q] \in {"used", "disabled"}
               /\ sub[q].status = "cancelled" /\ sub[q].mode = "recurring" => ~Charged(q)'
               /\ q \in renewing' => Charged(q)' /\ sub[q].mode = "recurring"
    <3>1. CASE q = r
      BY <1>1, <1>2, <1>3, <1>4, <1>5, <3>1 DEF Inv, Books, Charges
    <3>2. CASE q # r
      BY <1>1, <1>2, <1>4, <3>2 DEF Inv, Books, Charges
    <3>3. QED BY <3>1, <3>2
  <2>2. QED BY <1>1, <2>1 DEF Charges
<1>10. Stops'
  <2>1. \A q \in Refs : q \in renewing' => q \in renewing \/ (q = r /\ sub[r].mode = "recurring")
    BY <1>1
  <2>2. pref.covers \subseteq Refs
    BY DEF Inv, TypeOK
  <2>3. pref.status = "stopped" =>
           \A q \in pref.covers : sub[q].status \notin {"none", "pending"} /\ q \notin renewing'
    BY <1>5, <2>1, <2>2 DEF Inv, Books, Stops
  <2>4. \A q \in Refs : /\ stopping[q] # "none" => Charged(q)'
                        /\ stopping[q] = "confirmed" => q \notin renewing'
    BY <1>2, <1>5, <2>1 DEF Inv, Books, Stops
  <2>5. QED BY <1>1, <2>3, <2>4 DEF Stops
<1>11. QED BY <1>2, <1>6, <1>7, <1>8, <1>9, <1>10 DEF Inv, Books

LEMMA RenewStep == ASSUME Inv, NEW t \in Txs, NEW r \in Refs, Renew(t, r) PROVE Inv'
<1>1. /\ charge[t] = NoRef /\ r \in renewing
      /\ charge' = [charge EXCEPT ![t] = r]
      /\ billed' = [billed EXCEPT ![r] = now]
      /\ UNCHANGED <<now, sub, pay, paid, pref, stopping, session, link, renewing>>
  BY DEF Renew
<1>2. /\ charge'[t] = r /\ \A a \in Txs : a # t => charge'[a] = charge[a]
      /\ \A q \in Refs : Charged(q)' <=> q = r \/ Charged(q)
      /\ PlansKept' /\ OnePending' /\ LedgerAgrees' /\ Receipted' /\ Covered' /\ Chained'
      /\ PeriodsStack'
  BY <1>1, OneChargeMore
<1>3. Charged(r)
  BY <1>1 DEF Inv, Books, Charges
<1>4. \A q \in Refs : Charged(q)' <=> Charged(q)
  BY <1>2, <1>3
<1>5. TypeOK'
  BY <1>1 DEF Inv, TypeOK
<1>6. Requests'
  <2>1. ASSUME NEW n, Sound(n) PROVE Sound(n)'
    <3>1. Creating(n)' /\ Managing(n)'
      BY <1>1, <2>1 DEF Sound, Creating, Managing, Pending
    <3>2. Cancelling(n)' /\ Asking(n)'
      BY <1>1, <1>4, <2>1 DEF Sound, Cancelling, Asking
    <3>3. QED BY <3>1, <3>2 DEF Sound
  <2>2. QED BY <1>1, <2>1, RequestsStay DEF Inv
<1>7. Pages' /\ Charges' /\ Stops'
  BY <1>1, <1>4 DEF Inv, Books, Pages, Charges, Stops
<1>8. QED BY <1>2, <1>5, <1>6, <1>7 DEF Inv, Books

\* A month passes: what ends may end a month after what just ended.
LEMMA TickStep == ASSUME Inv, Tick PROVE Inv'
<1>1. now' = now + 1 /\ now < Horizon
      /\ UNCHANGED <<sub, pay, paid, pref, stopping, session, link, charge, billed, renewing>>
  BY DEF Tick, gateway
<1>2. now \in 0 .. Horizon /\ \A q \in Refs : sub[q].ends \in Nat
  BY DEF Inv, TypeOK
<1>3. now \in Nat
  BY <1>2, BoundsAssumption
<1>4. TypeOK'
  BY <1>1, <1>2, BoundsAssumption DEF Inv, TypeOK
<1>5. Requests'
  BY <1>1, SoundKept, RequestsStay DEF Inv
<1>6. PlansKept' /\ OnePending' /\ Pages' /\ Charges' /\ LedgerAgrees' /\ Stops'
  BY <1>1 DEF Inv, Books, PlansKept, OnePending, Pages, Charges, LedgerAgrees, Stops, Charged
<1>7. Receipted' /\ PeriodsStack'
  BY <1>1 DEF Inv, Books, Receipted, Receipts, PeriodsStack, Overlap
<1>8. Covered'
  <2>1. \A t \in Txs : paid[t].to \in Nat
    BY DEF Inv, TypeOK
  <2>2. QED BY <1>1, <1>3, <2>1 DEF Inv, Books, Covered
<1>9. Chained'
  <2>1. Current' = {q \in Current : sub[q].ends > now + 1}
    BY <1>1, <1>2, <1>3 DEF Current
  <2>2. ASSUME NEW q \in Current', sub[q].mode = "recurring", ~(sub[q].ends <= now + 2)
        PROVE  \E o \in Current' \ {q} : sub[q].ends <= sub[o].ends + 1
    <3>1. q \in Current /\ sub[q].ends \in Nat
      BY <1>2, <2>1 DEF Current
    <3>2. ~(sub[q].ends <= now + 1)
      BY <1>3, <2>2, <3>1
    <3>3. PICK o \in Current \ {q} : sub[q].ends <= sub[o].ends + 1
      BY <2>2, <3>1, <3>2 DEF Inv, Books, Chained
    <3>4. sub[o].ends \in Nat
      BY <1>2 DEF Current
    <3>5. sub[o].ends > now + 1
      BY <1>3, <2>2, <3>1, <3>3, <3>4
    <3>6. QED BY <2>1, <3>3, <3>5
  <2>3. now' + 1 = now + 2
    BY <1>1, <1>3
  <2>4. QED BY <1>1, <2>2, <2>3 DEF Chained
<1>10. QED BY <1>4, <1>5, <1>6, <1>7, <1>8, <1>9 DEF Inv, Books

-----------------------------------------------------------------------------
(* Theorems *)

LEMMA InitInv == ASSUME Init PROVE Inv
<1>1. TypeOK
  <2>1. NoSub \in SubRow /\ NoPay \in PayRow /\ NotPaid \in [from : Nat, to : Nat]
    BY DEF NoSub, SubRow, NoPay, PayRow, NotPaid
  <2>2. 0 \in 0 .. Horizon
    BY BoundsAssumption
  <2>3. session \in [Sessions -> Memory]
    BY IdleSound DEF Init
  <2>4. QED BY <2>1, <2>2, <2>3 DEF Init, TypeOK, SubRow, PayRow, Memory, Steps
<1>2. Requests
  BY IdleSound, StepsApart DEF Init, Requests, Alone
<1>3. \A r \in Refs : ~Charged(r)
  BY BoundsAssumption DEF Init, Charged
<1>4. PlansKept /\ OnePending /\ Pages /\ LedgerAgrees
  BY DEF Init, PlansKept, OnePending, Pages, LedgerAgrees, NoSub, NoPay
<1>5. Charges /\ Stops
  BY <1>3 DEF Init, Charges, Stops
<1>6. Receipted /\ Covered /\ PeriodsStack
  BY DEF Init, Receipted, Covered, PeriodsStack, NoSub
<1>7. Chained
  BY DEF Init, Chained, Current, NoSub
<1>8. QED BY <1>1, <1>2, <1>4, <1>5, <1>6, <1>7 DEF Inv, Books

LEMMA NextInv == ASSUME Inv, [Next]_vars PROVE Inv'
<1>1. CASE UNCHANGED vars
  <2>1. UNCHANGED <<now, sub, pay, paid, pref, stopping, session, link, charge, billed, renewing>>
    BY <1>1 DEF vars
  <2>2. TypeOK'
    BY <2>1 DEF Inv, TypeOK
  <2>3. Requests'
    BY <2>1, SoundKept, RequestsStay DEF Inv
  <2>4. QED BY <2>1, <2>2, <2>3, BooksKept DEF Inv
<1>2. CASE Tick
  BY <1>2, TickStep
<1>3. ASSUME NEW s \in Sessions, Checkout(s) \/ CancelCheckout(s) PROVE Inv'
  <2>1. CASE Checkout(s)
    BY <2>1, CheckoutCheckStep, CheckoutInsertStep, RecordAttemptStep, InitializeCheckoutStep,
       MarkReadyStep, MarkFailedStep DEF Checkout
  <2>2. CASE CancelSettled(s)
    BY <2>2, FinishStep DEF CancelSettled
  <2>3. CASE CancelCheckout(s)
    BY <2>2, <2>3, CancelBeginStep, CancelDisableStep, CancelVerifyStep, CancelWriteStep
       DEF CancelCheckout
  <2>4. QED BY <1>3, <2>1, <2>3
<1>4. ASSUME NEW s \in Sessions, ManageRenewal(s) \/ AdminStop(s) \/ Die(s) PROVE Inv'
  <2>1. CASE ManageRenewal(s)
    BY <2>1, RenewalBeginStep, RenewalListStep, RenewalCancelStep, RenewalVerifyStep,
       RenewalStoppedStep DEF ManageRenewal
  <2>2. CASE AdminStop(s)
    BY <2>2, AdminClaimStep, AdminCancelStep, AdminConfirmStep DEF AdminStop
  <2>3. CASE Die(s)
    BY <2>3, FinishStep DEF Die
  <2>4. QED BY <1>4, <2>1, <2>2, <2>3
<1>5. ASSUME NEW t \in Txs, Settle(t) \/ \E r \in Refs : Charge(t, r) \/ Renew(t, r) PROVE Inv'
  BY <1>5, SettleStep, ChargeStep, RenewStep
<1>6. QED BY <1>1, <1>2, <1>3, <1>4, <1>5 DEF Next

\* The tables, the requests in flight and the gateway keep saying the same of
\* every subscription.
THEOREM Invariance == Spec => []Inv
<1>1. Init => Inv
  BY InitInv
<1>2. Inv /\ [Next]_vars => Inv'
  BY NextInv
<1>3. QED BY <1>1, <1>2, PTL DEF Spec

\* The rows of the four tables, the requests and the gateway's records keep
\* their types: every status written is one its table knows.
THEOREM TypeCorrect == Spec => []TypeOK
<1>1. Inv => TypeOK
  BY DEF Inv
<1>2. QED BY <1>1, Invariance, PTL

\* A provider never has two pages that take money for a period not yet paid.
THEOREM AtMostOneOpenLink == Spec => []OneOpenLink
<1>1. Inv => OneOpenLink
  BY DEF Inv, Books, Pages, OnePending, OneOpenLink
<1>2. QED BY <1>1, Invariance, PTL

\* "Never replace active/paid access with cancelled"
\* (provider_checkout_recovery.go:102), whoever settles between the look at
\* the gateway and the write.
THEOREM PaidAccessStays == Spec => []PaidNeverCancelled
<1>1. Inv => PaidNeverCancelled
  BY DEF Inv, Books, Receipted, PaidNeverCancelled
<1>2. QED BY <1>1, Invariance, PTL

\* Renewals recorded as stopped, by the provider or by an administrator, are
\* not charged again.
THEOREM StoppedStaysStopped == Spec => []StoppedMeansStopped
<1>1. Inv => StoppedMeansStopped
  BY DEF Inv, Books, Stops, StoppedMeansStopped
<1>2. QED BY <1>1, Invariance, PTL

\* "two successful callbacks cannot calculate overlapping entitlement periods"
\* (provider_marketplace_controller.go:1782-1783).
THEOREM PeriodsNeverOverlap == Spec => []PeriodsStack
<1>1. Inv => PeriodsStack
  BY DEF Inv, Books
<1>2. QED BY <1>1, Invariance, PTL

\* Subscriptions, payments, pages, periods and renewals agree, for any
\* checkouts, cancellations, settlements and renewals in any order.
THEOREM SubscriptionsTellOneStory == Spec => []SubscriptionsAgree
<1>1. Inv => LedgerAgrees
  BY DEF Inv, Books
<1>2. QED
  BY <1>1, Invariance, AtMostOneOpenLink, PaidAccessStays, StoppedStaysStopped,
     PeriodsNeverOverlap, PTL DEF SubscriptionsAgree

-----------------------------------------------------------------------------
(* Posts: why the public never sees more of them than the plan covers.  The    *)
(* triggers hold the row of the provider, so each write is judged by the posts *)
(* of its moment; slots that differ are counted by the slots there are.        *)

PostRow == [status : Statuses, slot : 0..MaxPlan, rev : 0..MaxEdits,
            published : BOOLEAN, active : BOOLEAN, judged : 0..MaxEdits]

\* A row is within the bounds, has a slot while it is live, was published if it
\* is on show, and is on show as it was reviewed
RowOK(row, listing) ==
    /\ row.status \notin {"absent", "archived"} => row.slot \in Slots
    /\ row.status = "approved" => row.published
    /\ row.status = "approved" /\ (listing \/ row.active) => row.judged = row.rev

SlotsDiffer == \A p, q \in Live : p # q => post[p].slot # post[q].slot

PostsInv ==
    /\ PostsTypeOK
    /\ \A p \in Posts : RowOK(post[p], p \in Listings) /\ post[p].rev <= edits
    /\ SlotsDiffer

\* A set of numbers that is not empty has a least one: the greatest of its
\* lower bounds
LEMMA MinIsLeast ==
    ASSUME NEW S \in SUBSET Nat, S # {}
    PROVE  Min(S) \in S /\ \A y \in S : Min(S) <= y
<1> DEFINE Low == {n \in Nat : \A y \in S : n <= y}
<1>1. PICK x \in S : TRUE OBVIOUS
<1>2. Low \in SUBSET Nat /\ 0 \in Low OBVIOUS
<1>3. x \in Nat /\ \A n \in Low : n <= x BY <1>1
<1>4. IsFiniteSet(Low)
  <2> HIDE DEF Low
  <2> QED BY <1>2, <1>3, FS_BoundedSetOfNaturals
<1>5. Max(Low) \in Low /\ \A n \in Low : Max(Low) >= n
  <2> HIDE DEF Low
  <2> QED BY <1>2, <1>4, MaxIsGreatest
<1>6. PICK m : m = Max(Low) OBVIOUS
<1>7. m \in Nat /\ (\A y \in S : m <= y) /\ \A n \in Low : m >= n BY <1>5, <1>6
<1>8. m + 1 \notin Low BY <1>7
<1>9. PICK y \in S : ~(m + 1 <= y) BY <1>7, <1>8
<1>10. y = m BY <1>7, <1>9
<1> QED BY <1>7, <1>9, <1>10 DEF Min

LEMMA LimitsFit ==
    ASSUME PostsInv
    PROVE  /\ PostLimit \in Slots
           /\ ListingLimit \in Slots
           /\ Paid => \A p \in Posts :
                 post[p].status = "approved" => post[p].slot <= ListingLimit
<1>1. plan \in 0..MaxPlan /\ MaxPlan \in Nat \ {0}
  BY PostsAssumption DEF PostsInv, PostsTypeOK
<1>2. PostLimit \in Slots BY <1>1 DEF PostLimit, Paid, Slots
<1>3. CASE ~Paid BY <1>1, <1>2, <1>3 DEF ListingLimit, Slots
<1>4. CASE Paid
  <2>1. PICK on : on = {q \in Posts : post[q].status = "approved" /\ post[q].published}
    OBVIOUS
  <2>2. PICK S : S = {plan} \cup {post[p].slot : p \in on} OBVIOUS
  <2>3. \A p \in on : post[p].slot \in Slots
    BY <2>1 DEF PostsInv, RowOK
  <2>4. S \in SUBSET Slots /\ S # {} /\ plan \in S
    BY <1>1, <1>4, <2>2, <2>3 DEF Paid, Slots
  <2>5. S \in SUBSET Nat /\ IsFiniteSet(S)
    <3>1. IsFiniteSet(Slots) BY <1>1, FS_Interval DEF Slots
    <3>2. Slots \in SUBSET Nat BY DEF Slots
    <3> QED BY <2>4, <3>1, <3>2, FS_Subset
  <2>6. Max(S) \in S /\ \A y \in S : Max(S) >= y BY <2>4, <2>5, MaxIsGreatest
  <2>7. ListingLimit = Max(S) BY <1>4, <2>1, <2>2 DEF ListingLimit
  <2>8. ASSUME NEW p \in Posts, post[p].status = "approved"
        PROVE  post[p].slot <= ListingLimit
    <3>1. p \in on BY <2>1, <2>8 DEF PostsInv, RowOK
    <3>2. post[p].slot \in S BY <2>2, <3>1
    <3>3. PICK a : a = post[p].slot OBVIOUS
    <3>4. PICK b : b = ListingLimit OBVIOUS
    <3>5. a \in Nat /\ b \in Nat /\ b >= a BY <2>5, <2>6, <2>7, <3>2, <3>3, <3>4
    <3>6. a <= b BY <3>5
    <3> QED BY <3>3, <3>4, <3>6
  <2> QED BY <1>2, <2>4, <2>6, <2>7, <2>8
<1> QED BY <1>2, <1>3, <1>4

\* Live posts are counted by their slots
LEMMA CountedBySlots ==
    ASSUME PostsInv, NEW n \in Nat, NEW S \in SUBSET Live,
           \A p \in S : post[p].slot <= n
    PROVE  IsFiniteSet(S) /\ Cardinality(S) <= n
<1>1. ASSUME NEW p \in S PROVE post[p].slot \in 1..n
  <2>1. p \in Posts /\ post[p].slot \in Slots BY DEF PostsInv, RowOK, Live
  <2> QED BY <2>1, PostsAssumption DEF Slots
<1>2. PICK f : f = [p \in S |-> post[p].slot] OBVIOUS
<1>3. f \in [S -> 1..n] BY <1>1, <1>2
<1>4. ASSUME NEW p \in S, NEW q \in S, p # q PROVE f[p] # f[q]
  BY <1>2, <1>4 DEF PostsInv, SlotsDiffer
<1>5. f \in Injection(S, 1..n) BY <1>3, <1>4 DEF Injection, IsInjective
<1>6. IsFiniteSet(1..n) /\ Cardinality(1..n) = n BY FS_Interval
<1> QED BY <1>5, <1>6, FS_Injection

LEMMA LiveFinite == ASSUME PostsInv PROVE IsFiniteSet(Live)
<1>1. \A p \in Live : post[p].slot <= MaxPlan
  BY PostsAssumption DEF PostsInv, PostsTypeOK, Live
<1> QED BY <1>1, PostsAssumption, CountedBySlots

\* The slot a new post gets is no slot of a live one
LEMMA FreeSlotIsFree ==
    ASSUME PostsInv, FreeSlot <= PostLimit
    PROVE  FreeSlot \in Slots /\ \A p \in Live : post[p].slot # FreeSlot
<1>1. PICK S : S = (Slots \cup {MaxPlan + 1}) \ {post[p].slot : p \in Live} OBVIOUS
<1>2. \A p \in Live : post[p].slot \in Slots BY DEF PostsInv, RowOK, Live
<1>3. MaxPlan + 1 \in S BY <1>1, <1>2, PostsAssumption DEF Slots
<1>4. S \in SUBSET Nat BY <1>1, PostsAssumption DEF Slots
<1>5. FreeSlot \in S BY <1>1, <1>3, <1>4, MinIsLeast DEF FreeSlot
<1>6. PostLimit \in Slots BY LimitsFit
<1>7. FreeSlot # MaxPlan + 1 BY <1>6, PostsAssumption DEF Slots
<1> QED BY <1>1, <1>5, <1>7

-----------------------------------------------------------------------------
(* One row at a time.                                                         *)

LEMMA OneRowKeeps ==
    ASSUME PostsInv, PostsTypeOK', NEW p \in Posts, NEW row \in PostRow,
           post' = [post EXCEPT ![p] = row], edits <= edits', row.rev <= edits',
           RowOK(row, p \in Listings),
           row.status \notin {"absent", "archived"} =>
              \/ p \in Live /\ row.slot = post[p].slot
              \/ \A q \in Live : post[q].slot # row.slot
    PROVE  PostsInv'
<1>1. post'[p] = row /\ \A q \in Posts \ {p} : post'[q] = post[q]
  BY DEF PostsInv, PostsTypeOK
<1>2. ASSUME NEW q \in Posts PROVE (RowOK(post[q], q \in Listings) /\ post[q].rev <= edits)'
  <2>1. CASE q = p BY <1>1, <2>1 DEF RowOK
  <2>2. CASE q # p
    <3>1. RowOK(post[q], q \in Listings)' BY <1>1, <2>2 DEF PostsInv, RowOK
    <3>2. PICK n : n = post[q].rev OBVIOUS
    <3>3. n \in Nat /\ edits \in Nat /\ edits' \in Nat /\ n <= edits
      BY <3>2, PostsAssumption DEF PostsInv, PostsTypeOK
    <3>4. n <= edits' BY <3>3
    <3>5. post'[q].rev = n BY <1>1, <2>2, <3>2
    <3> QED BY <3>1, <3>4, <3>5
  <2> QED BY <2>1, <2>2
<1>3. ASSUME NEW q \in Live' \ {p} PROVE q \in Live /\ post'[q].slot = post[q].slot
  BY <1>1 DEF Live
<1>4. p \in Live' => row.status \notin {"absent", "archived"} /\ post'[p].slot = row.slot
  BY <1>1 DEF Live
<1>5. ASSUME NEW a \in Live', NEW b \in Live', a # b PROVE post'[a].slot # post'[b].slot
  <2>1. CASE a # p /\ b # p BY <1>3, <1>5, <2>1 DEF PostsInv, SlotsDiffer
  <2>2. CASE a = p BY <1>3, <1>4, <1>5, <2>2 DEF PostsInv, SlotsDiffer
  <2>3. CASE b = p BY <1>3, <1>4, <1>5, <2>3 DEF PostsInv, SlotsDiffer
  <2> QED BY <2>1, <2>2, <2>3
<1>6. SlotsDiffer' BY <1>5 DEF SlotsDiffer
<1> QED BY <1>2, <1>6 DEF PostsInv

\* Only the plan, the documents, a request or a screen moves
LEMMA RowsStay ==
    ASSUME PostsInv, PostsTypeOK', post' = post, edits' = edits
    PROVE  PostsInv'
BY DEF PostsInv, SlotsDiffer, Live

LEMMA PostsBegin == PostsInit => PostsInv
<1> SUFFICES ASSUME PostsInit PROVE PostsInv OBVIOUS
<1>1. NewRow \in PostRow BY PostsAssumption DEF NewRow, PostRow, Statuses
<1>2. PostsTypeOK
  <2>1. post \in [Posts -> PostRow] BY <1>1 DEF PostsInit
  <2>2. maker \in [Makers -> [doing : {"idle", "creating", "submitting"},
                             post : Posts \cup {NoPost}]]
    BY DEF PostsInit, NoErrand
  <2>3. screen \in [Reviewers -> [post : Posts \cup {NoPost}, rev : 0..MaxEdits]]
    BY PostsAssumption DEF PostsInit, Blank
  <2>4. edits \in 0..MaxEdits BY PostsAssumption DEF PostsInit
  <2> QED BY <2>1, <2>2, <2>3, <2>4 DEF PostsInit, PostsTypeOK, PostRow
<1>3. \A p \in Posts : RowOK(post[p], p \in Listings) /\ post[p].rev <= edits
  BY PostsAssumption DEF PostsInit, NewRow, RowOK
<1>4. Live = {} BY DEF PostsInit, Live, NewRow
<1> QED BY <1>2, <1>3, <1>4 DEF PostsInv, SlotsDiffer

LEMMA PlanKeeps ==
    ASSUME PostsInv, NEW n \in 0..MaxPlan, ChangePlan(n)
    PROVE  PostsInv'
<1>1. PostsTypeOK' BY DEF ChangePlan, PostsInv, PostsTypeOK
<1> QED BY <1>1, RowsStay DEF ChangePlan

LEMMA VerificationKeeps ==
    ASSUME PostsInv, NEW approved \in BOOLEAN,
           AdminReviewVerificationDocument(approved) \/ AdminVerifyProvider(approved)
    PROVE  PostsInv'
<1>1. PostsTypeOK'
  BY DEF AdminReviewVerificationDocument, AdminVerifyProvider, PostsInv, PostsTypeOK
<1> QED BY <1>1, RowsStay DEF AdminReviewVerificationDocument, AdminVerifyProvider

\* Every request of the staff that is not under way
LEMMA ErrandsKeep ==
    ASSUME PostsInv, NEW m \in Makers,
           BeginCreate(m) \/ Refused(m) \/ \E p \in Posts : BeginSubmit(m, p)
    PROVE  PostsInv'
<1>1. PICK e \in [doing : {"idle", "creating", "submitting"}, post : Posts \cup {NoPost}] :
         maker' = [maker EXCEPT ![m] = e]
  BY DEF BeginCreate, Refused, BeginSubmit, NoErrand
<1>2. UNCHANGED <<post, plan, document, verified, screen, edits>>
  BY DEF BeginCreate, Refused, BeginSubmit
<1>3. PostsTypeOK' BY <1>1, <1>2 DEF PostsInv, PostsTypeOK
<1> QED BY <1>2, <1>3, RowsStay

LEMMA ScreensKeep ==
    ASSUME PostsInv, NEW r \in Reviewers, NEW p \in Posts,
           AdminListListings(r, p) \/ AdminListMerchantProducts(r, p)
    PROVE  PostsInv'
<1>1. post[p].rev \in 0..MaxEdits /\ 0 \in 0..MaxEdits
  BY PostsAssumption DEF PostsInv, PostsTypeOK
<1>2. PICK e \in [post : Posts \cup {NoPost}, rev : 0..MaxEdits] :
         screen' = [screen EXCEPT ![r] = e]
  BY <1>1 DEF AdminListListings, AdminListMerchantProducts
<1>3. UNCHANGED <<post, plan, document, verified, maker, edits>>
  BY DEF AdminListListings, AdminListMerchantProducts
<1>4. PostsTypeOK' BY <1>2, <1>3 DEF PostsInv, PostsTypeOK
<1> QED BY <1>3, <1>4, RowsStay

\* What a write by the staff or an administrator is, whatever it writes
LEMMA RowWritten ==
    ASSUME PostsInv, NEW p \in Posts, NEW row \in PostRow,
           post' = [post EXCEPT ![p] = row],
           UNCHANGED <<plan, document, verified>>,
           edits' \in 0..MaxEdits,
           \/ maker' = maker
           \/ \E m \in Makers : maker' = [maker EXCEPT ![m] = NoErrand],
           \/ screen' = screen
           \/ \E r \in Reviewers : screen' = [screen EXCEPT ![r] = Blank]
    PROVE  PostsTypeOK'
<1>1. post' \in [Posts -> PostRow] BY DEF PostsInv, PostsTypeOK, PostRow
<1>2. maker' \in [Makers -> [doing : {"idle", "creating", "submitting"},
                             post : Posts \cup {NoPost}]]
  BY DEF PostsInv, PostsTypeOK, NoErrand
<1>3. screen' \in [Reviewers -> [post : Posts \cup {NoPost}, rev : 0..MaxEdits]]
  BY PostsAssumption DEF PostsInv, PostsTypeOK, Blank
<1> QED BY <1>1, <1>2, <1>3 DEF PostsInv, PostsTypeOK, PostRow

LEMMA InsertKeeps ==
    ASSUME PostsInv, NEW m \in Makers, NEW p \in Posts, Insert(m, p)
    PROVE  PostsInv'
<1>1. FreeSlot \in Slots /\ \A q \in Live : post[q].slot # FreeSlot
  BY FreeSlotIsFree DEF Insert
<1>2. PICK row : row = [NewRow EXCEPT !.status = "draft", !.slot = FreeSlot] OBVIOUS
<1>3. /\ row.status = "draft" /\ row.slot = FreeSlot /\ row.rev = 0
      /\ row \in PostRow
  <2>1. NewRow \in PostRow /\ NewRow.rev = 0
    BY PostsAssumption DEF NewRow, PostRow, Statuses
  <2>2. FreeSlot \in 0..MaxPlan /\ "draft" \in Statuses
    BY <1>1, PostsAssumption DEF Slots, Statuses
  <2> QED BY <1>2, <2>1, <2>2 DEF PostRow
<1>4. post' = [post EXCEPT ![p] = row] BY <1>2 DEF Insert
<1>5. /\ UNCHANGED <<plan, document, verified, screen, edits>>
      /\ maker' = [maker EXCEPT ![m] = NoErrand]
  BY DEF Insert
<1>6. edits \in 0..MaxEdits BY DEF PostsInv, PostsTypeOK
<1>7. PostsTypeOK' BY <1>3, <1>4, <1>5, <1>6, RowWritten
<1>8. RowOK(row, p \in Listings) BY <1>1, <1>3 DEF RowOK
<1>9. edits <= edits' /\ row.rev <= edits' BY <1>3, <1>5, <1>6, PostsAssumption
<1> QED BY <1>1, <1>3, <1>4, <1>7, <1>8, <1>9, OneRowKeeps

\* A post that enters the queue is not on show
LEMMA EnqueueKeeps ==
    ASSUME PostsInv, NEW m \in Makers, NEW p \in Posts, NEW active \in BOOLEAN,
           Enqueue(m, {p}, [post[p] EXCEPT !.status = "pending", !.active = active])
    PROVE  PostsInv'
<1>1. PICK row : row = [post[p] EXCEPT !.status = "pending", !.active = active] OBVIOUS
<1>2. post[p] \in PostRow /\ p \in Live /\ RowOK(post[p], p \in Listings)
      /\ post[p].rev <= edits /\ edits \in 0..MaxEdits
  BY DEF Enqueue, PostsInv, PostsTypeOK, PostRow, Live
<1>3. row \in PostRow /\ row.status = "pending" /\ row.slot = post[p].slot
      /\ row.rev = post[p].rev
  BY <1>1, <1>2 DEF PostRow, Statuses
<1>4. /\ post' = [post EXCEPT ![p] = row] /\ maker' = [maker EXCEPT ![m] = NoErrand]
      /\ UNCHANGED <<plan, document, verified, screen, edits>>
  BY <1>1 DEF Enqueue
<1>5. PostsTypeOK' BY <1>2, <1>3, <1>4, RowWritten
<1>6. RowOK(row, p \in Listings) BY <1>2, <1>3 DEF RowOK, Live
<1>7. edits <= edits' /\ row.rev <= edits' BY <1>2, <1>3, <1>4, PostsAssumption
<1> QED BY <1>2, <1>3, <1>4, <1>5, <1>6, <1>7, OneRowKeeps

LEMMA SubmitKeeps ==
    ASSUME PostsInv, NEW m \in Makers, SubmitListing(m) \/ SubmitMerchantProduct(m)
    PROVE  PostsInv'
<1>1. CASE SubmitListing(m)
  <2>1. PICK p \in Listings : Enqueue(m, {p}, [post[p] EXCEPT !.status = "pending"])
    BY <1>1 DEF SubmitListing
  <2>2. p \in Posts BY DEF Posts
  <2>3. PICK row : row = post[p] OBVIOUS
  <2>4. row \in PostRow BY <2>2, <2>3 DEF PostsInv, PostsTypeOK, PostRow
  <2>5. row.active \in BOOLEAN /\
        [row EXCEPT !.status = "pending"]
          = [row EXCEPT !.status = "pending", !.active = row.active]
    BY <2>4 DEF PostRow
  <2>6. Enqueue(m, {p}, [post[p] EXCEPT !.status = "pending", !.active = row.active])
    BY <2>1, <2>3, <2>5
  <2> QED BY <2>2, <2>5, <2>6, EnqueueKeeps
<1>2. CASE SubmitMerchantProduct(m)
  <2>1. PICK p \in Products :
           Enqueue(m, {p}, [post[p] EXCEPT !.status = "pending", !.active = FALSE])
    BY <1>2 DEF SubmitMerchantProduct
  <2> QED BY <2>1, EnqueueKeeps DEF Posts
<1> QED BY <1>1, <1>2

\* A listing that changes leaves the pages; one that does not stays as it is
LEMMA UpdateListingKeeps ==
    ASSUME PostsInv, NEW p \in Listings, NEW changed \in BOOLEAN, UpdateListing(p, changed)
    PROVE  PostsInv'
<1>1. PICK status : status = ListingStatus(p, Resubmitted(p), changed) OBVIOUS
<1>2. PICK n : n = IF changed THEN post[p].rev + 1 ELSE post[p].rev OBVIOUS
<1>3. PICK row : row = [post[p] EXCEPT !.status = status, !.rev = n] OBVIOUS
<1>4. /\ p \in Posts /\ p \in Live /\ post[p] \in PostRow /\ RowOK(post[p], TRUE)
      /\ post[p].rev <= edits /\ edits \in 0..MaxEdits /\ post[p].rev \in 0..MaxEdits
  BY DEF UpdateListing, PostsInv, PostsTypeOK, PostRow, Posts
<1>5. /\ edits' = (IF changed THEN edits + 1 ELSE edits) /\ (changed => edits < MaxEdits)
      /\ UNCHANGED <<plan, document, verified, maker, screen>>
  BY DEF UpdateListing
<1>6. edits' \in 0..MaxEdits /\ edits <= edits' /\ n \in 0..MaxEdits /\ n <= edits'
  BY <1>2, <1>4, <1>5, PostsAssumption
<1>7. /\ status \in Statuses \ {"absent", "archived"}
      /\ status = "approved" => post[p].status = "approved" /\ ~changed
  BY <1>1, <1>4 DEF ListingStatus, Resubmitted, Statuses, Live, PostRow
<1>8. /\ row \in PostRow /\ row.status = status /\ row.rev = n
      /\ row.slot = post[p].slot /\ row.published = post[p].published
      /\ row.judged = post[p].judged
  BY <1>3, <1>4, <1>6, <1>7 DEF PostRow
<1>9. post' = [post EXCEPT ![p] = row]
  <2>1. post \in [Posts -> PostRow] BY DEF PostsInv, PostsTypeOK, PostRow
  <2>2. post' = [post EXCEPT ![p].status = status,
                             ![p].rev = IF changed THEN @ + 1 ELSE @]
    BY <1>1 DEF UpdateListing
  <2> QED BY <1>2, <1>3, <1>4, <2>1, <2>2 DEF PostRow
<1>10. PostsTypeOK' BY <1>4, <1>5, <1>6, <1>8, <1>9, RowWritten
<1>11. RowOK(row, p \in Listings)
  <2>1. post[p].status = "approved" => n = post[p].rev \/ status # "approved"
    BY <1>2, <1>7
  <2> QED BY <1>2, <1>4, <1>7, <1>8 DEF RowOK, Live
<1> QED BY <1>4, <1>6, <1>8, <1>9, <1>10, <1>11, OneRowKeeps

\* A product that is edited, or a post that is archived, is on no page
LEMMA OffThePages ==
    ASSUME PostsInv, NEW p \in Live, NEW status \in Statuses, NEW active \in BOOLEAN,
           NEW n \in 0..MaxEdits, edits' \in 0..MaxEdits, edits <= edits', n <= edits',
           status # "approved" \/ (p \notin Listings /\ ~active),
           status = "approved" => post[p].status = "approved",
           post' = [post EXCEPT ![p] = [@ EXCEPT !.status = status, !.active = active,
                                                 !.rev = n]],
           UNCHANGED <<plan, document, verified, maker, screen>>
    PROVE  PostsInv'
<1>1. PICK row : row = [post[p] EXCEPT !.status = status, !.active = active, !.rev = n]
  OBVIOUS
<1>2. p \in Posts /\ post[p] \in PostRow /\ RowOK(post[p], p \in Listings)
  BY DEF PostsInv, PostsTypeOK, PostRow, Live
<1>3. /\ row \in PostRow /\ row.status = status /\ row.active = active /\ row.rev = n
      /\ row.slot = post[p].slot /\ row.published = post[p].published
  BY <1>1, <1>2 DEF PostRow
<1>4. post' = [post EXCEPT ![p] = row] BY <1>1, <1>2 DEF PostsInv, PostsTypeOK
<1>5. PostsTypeOK' BY <1>2, <1>3, <1>4, RowWritten
<1>6. RowOK(row, p \in Listings) BY <1>2, <1>3 DEF RowOK, Live
<1> QED BY <1>2, <1>3, <1>4, <1>5, <1>6, OneRowKeeps

LEMMA UpdateProductKeeps ==
    ASSUME PostsInv, NEW p \in Products, UpdateMerchantProduct(p)
    PROVE  PostsInv'
<1>1. PICK status : status = Resubmitted(p) OBVIOUS
<1>2. PICK n : n = post[p].rev + 1 OBVIOUS
<1>3. /\ p \in Live /\ p \in Posts /\ p \notin Listings /\ post[p] \in PostRow
      /\ post[p].rev <= edits /\ edits \in 0..MaxEdits /\ post[p].rev \in 0..MaxEdits
  BY PostsAssumption DEF UpdateMerchantProduct, PostsInv, PostsTypeOK, PostRow, Posts
<1>4. /\ edits' = edits + 1 /\ edits < MaxEdits
      /\ UNCHANGED <<plan, document, verified, maker, screen>>
  BY DEF UpdateMerchantProduct
<1>5. edits' \in 0..MaxEdits /\ edits <= edits' /\ n \in 0..MaxEdits /\ n <= edits'
  BY <1>2, <1>3, <1>4, PostsAssumption
<1>6. status \in Statuses /\ status # "approved"
  BY <1>1, <1>3 DEF Resubmitted, Statuses, PostRow
<1>7. post' = [post EXCEPT ![p] = [@ EXCEPT !.status = status, !.active = FALSE, !.rev = n]]
  <2>1. post \in [Posts -> PostRow] BY DEF PostsInv, PostsTypeOK, PostRow
  <2>2. post' = [post EXCEPT ![p].status = status, ![p].active = FALSE, ![p].rev = @ + 1]
    BY <1>1 DEF UpdateMerchantProduct
  <2> QED BY <1>2, <1>3, <2>1, <2>2 DEF PostRow
<1> QED BY <1>3, <1>4, <1>5, <1>6, <1>7, OffThePages

LEMMA ArchiveKeeps ==
    ASSUME PostsInv, NEW p \in Posts, ArchiveListing(p) \/ ArchiveMerchantProduct(p)
    PROVE  PostsInv'
<1>1. PICK n : n = post[p].rev OBVIOUS
<1>2. PICK active : active = IF ArchiveListing(p) THEN post[p].active ELSE FALSE OBVIOUS
<1>3. /\ p \in Live /\ post[p] \in PostRow /\ post[p].rev <= edits
      /\ edits \in 0..MaxEdits /\ post[p].rev \in 0..MaxEdits
  BY DEF ArchiveListing, ArchiveMerchantProduct, PostsInv, PostsTypeOK, PostRow
<1>4. UNCHANGED <<plan, document, verified, maker, screen, edits>>
  BY DEF ArchiveListing, ArchiveMerchantProduct
<1>5. edits' \in 0..MaxEdits /\ edits <= edits' /\ n \in 0..MaxEdits /\ n <= edits'
  BY <1>1, <1>3, <1>4, PostsAssumption
<1>6. active \in BOOLEAN /\ "archived" \in Statuses
  BY <1>2, <1>3 DEF PostRow, Statuses
<1>7. post' = [post EXCEPT ![p] = [@ EXCEPT !.status = "archived", !.active = active,
                                            !.rev = n]]
  <2>1. post \in [Posts -> PostRow] BY DEF PostsInv, PostsTypeOK, PostRow
  <2>2. CASE ArchiveListing(p)
    BY <1>1, <1>2, <1>3, <2>1, <2>2 DEF ArchiveListing, PostRow
  <2>3. CASE ~ArchiveListing(p)
    BY <1>1, <1>2, <1>3, <2>1, <2>3 DEF ArchiveMerchantProduct, PostRow
  <2> QED BY <2>2, <2>3
<1> QED BY <1>3, <1>4, <1>5, <1>6, <1>7, OffThePages

\* A decision is about the revision the row has: one that is named is compared, and
\* without one the row itself is what is approved
LEMMA JudgesTheRow ==
    ASSUME NEW r, NEW status, NEW named, AdminModerateListing(r, status, named)
    PROVE  Judges(r, named) = post[screen[r].post].rev
BY DEF AdminModerateListing, Judges

LEMMA ModerationKeeps ==
    ASSUME PostsInv, NEW r \in Reviewers, NEW p \in Live, NEW stock \in BOOLEAN,
           NEW status \in {"approved", "rejected", "suspended"},
           post' = [post EXCEPT ![p] = Moderated(p, status, stock, post[p].rev)],
           screen' = [screen EXCEPT ![r] = Blank],
           UNCHANGED <<plan, document, verified, maker, edits>>
    PROVE  PostsInv'
<1>1. PICK row : row = Moderated(p, status, stock, post[p].rev) OBVIOUS
<1>2. /\ p \in Posts /\ post[p] \in PostRow /\ RowOK(post[p], p \in Listings)
      /\ post[p].rev <= edits /\ edits \in 0..MaxEdits
  BY DEF PostsInv, PostsTypeOK, PostRow, Live
<1>3. 0 \in 0..MaxEdits /\ status \in Statuses BY PostsAssumption DEF Statuses
<1>4. PICK active : active = (status = "approved" /\ stock) OBVIOUS
<1>5. PICK judged : judged = IF status = "approved" THEN post[p].rev ELSE 0 OBVIOUS
<1>6. PICK published : published = (post[p].published \/ status = "approved") OBVIOUS
<1>7. row = [post[p] EXCEPT !.status = status, !.published = published,
                            !.active = active, !.judged = judged]
  BY <1>1, <1>2, <1>4, <1>5, <1>6 DEF Moderated, PostRow
<1>8. active \in BOOLEAN /\ published \in BOOLEAN /\ judged \in 0..MaxEdits
  BY <1>2, <1>3, <1>4, <1>5, <1>6 DEF PostRow
<1>9. /\ row \in PostRow /\ row.status = status /\ row.published = published
      /\ row.active = active /\ row.judged = judged
      /\ row.slot = post[p].slot /\ row.rev = post[p].rev
  BY <1>2, <1>3, <1>7, <1>8 DEF PostRow
<1>10. post' = [post EXCEPT ![p] = row] BY <1>1
<1>11. PostsTypeOK' BY <1>2, <1>9, <1>10, RowWritten
<1>12. RowOK(row, p \in Listings) BY <1>2, <1>5, <1>6, <1>9 DEF RowOK, Live
<1>13. edits <= edits' /\ row.rev <= edits' BY <1>2, <1>9, PostsAssumption
<1> QED BY <1>2, <1>9, <1>10, <1>11, <1>12, <1>13, OneRowKeeps

LEMMA DecisionsKeep ==
    ASSUME PostsInv, NEW r \in Reviewers,
           NEW status \in {"approved", "rejected", "suspended"},
           \/ \E named \in BOOLEAN : AdminModerateListing(r, status, named)
           \/ \E stock \in BOOLEAN : AdminModerateMerchantProduct(r, status, stock)
    PROVE  PostsInv'
<1>1. ASSUME NEW named \in BOOLEAN, AdminModerateListing(r, status, named) PROVE PostsInv'
  BY <1>1, JudgesTheRow, ModerationKeeps DEF AdminModerateListing
<1>2. CASE \E stock \in BOOLEAN : AdminModerateMerchantProduct(r, status, stock)
  BY <1>2, ModerationKeeps DEF AdminModerateMerchantProduct
<1> QED BY <1>1, <1>2

LEMMA PostsStepKeeps == PostsInv /\ [PostsNext]_postVars => PostsInv'
<1> SUFFICES ASSUME PostsInv, [PostsNext]_postVars PROVE PostsInv' OBVIOUS
<1>1. ASSUME NEW n \in 0..MaxPlan, ChangePlan(n) PROVE PostsInv' BY <1>1, PlanKeeps
<1>2. ASSUME NEW approved \in BOOLEAN,
             AdminReviewVerificationDocument(approved) \/ AdminVerifyProvider(approved)
      PROVE  PostsInv'
  BY <1>2, VerificationKeeps
<1>3. ASSUME NEW m \in Makers, SubmitListing(m) \/ SubmitMerchantProduct(m) PROVE PostsInv'
  BY <1>3, SubmitKeeps
<1>4. ASSUME NEW m \in Makers,
             BeginCreate(m) \/ Refused(m) \/ \E p \in Posts : BeginSubmit(m, p)
      PROVE  PostsInv'
  BY <1>4, ErrandsKeep
<1>5. ASSUME NEW m \in Makers, NEW p \in Posts,
             CreateListing(m, p) \/ CreateMerchantProduct(m, p)
      PROVE  PostsInv'
  BY <1>5, InsertKeeps DEF CreateListing, CreateMerchantProduct
<1>6. ASSUME NEW p \in Listings, NEW changed \in BOOLEAN, UpdateListing(p, changed)
      PROVE  PostsInv'
  BY <1>6, UpdateListingKeeps
<1>7. ASSUME NEW p \in Products, UpdateMerchantProduct(p) PROVE PostsInv'
  BY <1>7, UpdateProductKeeps
<1>8. ASSUME NEW p \in Posts, ArchiveListing(p) \/ ArchiveMerchantProduct(p) PROVE PostsInv'
  BY <1>8, ArchiveKeeps
<1>9. ASSUME NEW r \in Reviewers, NEW p \in Posts,
             AdminListListings(r, p) \/ AdminListMerchantProducts(r, p)
      PROVE  PostsInv'
  BY <1>9, ScreensKeep
<1>10. ASSUME NEW r \in Reviewers, NEW s \in {"approved", "rejected", "suspended"},
              \/ \E named \in BOOLEAN : AdminModerateListing(r, s, named)
              \/ \E stock \in BOOLEAN : AdminModerateMerchantProduct(r, s, stock)
       PROVE  PostsInv'
  BY <1>10, DecisionsKeep
<1>11. CASE UNCHANGED postVars
  BY <1>11 DEF postVars, PostsInv, PostsTypeOK, SlotsDiffer, Live
<1> QED BY <1>1, <1>2, <1>3, <1>4, <1>5, <1>6, <1>7, <1>8, <1>9, <1>10, <1>11
        DEF PostsNext, Posts

-----------------------------------------------------------------------------
(* What follows.                                                              *)

\* The rows, the requests of the staff and the screens keep their types.
THEOREM PostsTypeCorrect == PostsSpec => []PostsTypeOK
<1>1. PostsInv => PostsTypeOK BY DEF PostsInv
<1> QED BY <1>1, PostsBegin, PostsStepKeeps, PTL DEF PostsSpec

LEMMA ShownFitTheLimit ==
    ASSUME PostsInv
    PROVE  SlotsHold
<1>1. \A p, q \in Live : p # q => post[p].slot # post[q].slot
  BY DEF PostsInv, SlotsDiffer
<1>2. Cardinality(Shown) <= ListingLimit
  <2>1. Shown \in SUBSET Live
    BY DEF Shown, ShownProducts, ShownListings, OnShow, Live, Posts
  <2>2. \A p \in Shown : post[p].slot <= ListingLimit
    BY DEF Shown, ShownProducts, ShownListings, Visible
  <2>3. ListingLimit \in Nat BY LimitsFit DEF Slots
  <2> QED BY <2>1, <2>2, <2>3, CountedBySlots
<1>3. ASSUME Paid, verified, NEW p \in Listings, post[p].status = "approved"
      PROVE  p \in Shown
  BY <1>3, LimitsFit DEF Shown, ShownListings, OnShow, Visible, Posts
<1> QED BY <1>1, <1>2, <1>3 DEF SlotsHold

\* Live posts have slots of their own, the public never sees more of them than
\* the plan covers, and of each it sees the revision that was approved: the one its
\* administrator named, or for a decision without a revision what the row held then
\* (assign_provider_post_slot, provider_public_identity,
\* maintain_listing_review_baseline, AdminModerateListing).
THEOREM PublicPostsHold == PostsSpec => []PublicPosts
<1>1. PostsInv => PublicPosts
  <2> SUFFICES ASSUME PostsInv PROVE PublicPosts OBVIOUS
  <2>1. ReviewedContentOnly
    BY DEF ReviewedContentOnly, ListingPage, ProductPage, OnShow, PostsInv, RowOK, Posts
  <2> QED BY <2>1, ShownFitTheLimit DEF PublicPosts
<1> QED BY <1>1, PostsBegin, PostsStepKeeps, PTL DEF PostsSpec

\* The post that enters is counted with those that are live
LEMMA OneMorePost ==
    ASSUME PostsInv, NEW p \in Posts, NEW row \in PostRow,
           post' = [post EXCEPT ![p] = row], Cardinality(Live \ {p}) + 1 <= PostLimit
    PROVE  Cardinality(Live') <= PostLimit
<1>1. Live' \in SUBSET ((Live \ {p}) \cup {p})
  BY DEF Live, PostsInv, PostsTypeOK
<1>2. IsFiniteSet(Live \ {p}) BY LiveFinite, FS_Subset
<1>3. PICK A : A = Live \ {p} OBVIOUS
<1>4. /\ IsFiniteSet(A \cup {p}) /\ Cardinality(A) \in Nat
      /\ Cardinality(A \cup {p}) = Cardinality(A) + 1
  BY <1>2, <1>3, FS_AddElement, FS_CardinalityType
<1>5. IsFiniteSet(Live') /\ Cardinality(Live') <= Cardinality(A \cup {p})
  BY <1>1, <1>3, <1>4, FS_Subset
<1>6. Cardinality(Live') \in Nat BY <1>5, FS_CardinalityType
<1>7. PostLimit \in Nat BY LimitsFit DEF Slots
<1> QED BY <1>3, <1>4, <1>5, <1>6, <1>7

LEMMA InsertFits ==
    ASSUME PostsInv, NEW m \in Makers, NEW p \in Posts, Insert(m, p)
    PROVE  Cardinality(Live') <= PostLimit
<1>1. p \notin Live BY DEF Insert, Live
<1>2. Live \ {p} = Live BY <1>1
<1>3. Cardinality(Live) < PostLimit BY DEF Insert, RoomForOneMore
<1>4. Cardinality(Live) \in Nat /\ PostLimit \in Nat
  BY LiveFinite, FS_CardinalityType, LimitsFit DEF Slots
<1>5. Cardinality(Live \ {p}) + 1 <= PostLimit BY <1>2, <1>3, <1>4
<1>6. FreeSlot \in Slots BY FreeSlotIsFree DEF Insert
<1>7. NewRow \in PostRow BY PostsAssumption DEF NewRow, PostRow, Statuses
<1>8. "draft" \in Statuses /\ FreeSlot \in 0..MaxPlan BY <1>6 DEF Slots, Statuses
<1>9. [NewRow EXCEPT !.status = "draft", !.slot = FreeSlot] \in PostRow
  BY <1>7, <1>8 DEF PostRow
<1> QED BY <1>5, <1>9, OneMorePost DEF Insert

\* Only a first approval publishes, and the trigger has counted the others
LEMMA DecisionFits ==
    ASSUME PostsInv, NEW p \in Live, NEW stock \in BOOLEAN,
           NEW status \in {"approved", "rejected", "suspended"}, MayEnter(p, status),
           post' = [post EXCEPT ![p] = Moderated(p, status, stock, post[p].rev)],
           NEW q \in Posts, EntersAnew(q)
    PROVE  Cardinality(Live') <= PostLimit
<1>1. p \in Posts /\ post \in [Posts -> PostRow] /\ RowOK(post[p], p \in Listings)
  BY DEF PostsInv, PostsTypeOK, PostRow, Live
<1>2. q = p BY <1>1 DEF EntersAnew
<1>3. PICK row : row = Moderated(p, status, stock, post[p].rev) OBVIOUS
<1>4. post'[p] = row BY <1>1, <1>3
<1>5. row.published = (post[p].published \/ status = "approved")
  BY <1>1, <1>3 DEF Moderated, PostRow
<1>6. post[p].status # "absent" BY DEF Live
<1>7. ~post[p].published /\ status = "approved"
  <2>1. row.status = status BY <1>1, <1>3 DEF Moderated, PostRow
  <2> QED BY <2>1, <1>2, <1>4, <1>5, <1>6 DEF EntersAnew
<1>8. post[p].status # "approved" BY <1>1, <1>7 DEF RowOK
<1>9. Cardinality(Live \ {p}) + 1 <= PostLimit BY <1>7, <1>8 DEF MayEnter
<1>10. row \in PostRow
  <2>1. 0 \in 0..MaxEdits /\ status \in Statuses BY PostsAssumption DEF Statuses
  <2>2. PICK active : active = (status = "approved" /\ stock) OBVIOUS
  <2>3. PICK judged : judged = IF status = "approved" THEN post[p].rev ELSE 0 OBVIOUS
  <2>4. PICK published : published = (post[p].published \/ status = "approved") OBVIOUS
  <2>5. row = [post[p] EXCEPT !.status = status, !.published = published,
                              !.active = active, !.judged = judged]
    BY <1>1, <1>3, <2>2, <2>3, <2>4 DEF Moderated, PostRow
  <2>6. active \in BOOLEAN /\ published \in BOOLEAN /\ judged \in 0..MaxEdits
    BY <1>1, <2>1, <2>2, <2>3, <2>4 DEF PostRow
  <2> QED BY <1>1, <2>1, <2>5, <2>6 DEF PostRow
<1> QED BY <1>1, <1>3, <1>9, <1>10, OneMorePost

\* A post is put in the queue for the first time only when the trigger has counted
LEMMA QueueFits ==
    ASSUME PostsInv, NEW p \in Live, NEW row \in PostRow, row.status = "pending",
           row.published = post[p].published, MayEnter(p, "pending"),
           post' = [post EXCEPT ![p] = row], NEW q \in Posts, EntersAnew(q)
    PROVE  Cardinality(Live') <= PostLimit
<1>1. p \in Posts /\ post \in [Posts -> PostRow] /\ post[p].status # "absent"
  BY DEF PostsInv, PostsTypeOK, PostRow, Live
<1>2. q = p /\ post'[p] = row BY <1>1 DEF EntersAnew
<1>3. ~post[p].published /\ post[p].status # "pending" BY <1>1, <1>2 DEF EntersAnew
<1>4. Cardinality(Live \ {p}) + 1 <= PostLimit BY <1>3 DEF MayEnter
<1> QED BY <1>1, <1>4, OneMorePost

\* A post put in the queue by its provider
Queues(p, row) ==
    /\ row.status = "pending" /\ row.published = post[p].published /\ MayEnter(p, "pending")
    /\ post' = [post EXCEPT ![p] = row]

\* Nothing else lets a post enter
LEMMA NothingEnters ==
    ASSUME PostsInv, NEW q \in Posts, EntersAnew(q), PostsNext
    PROVE  \/ \E m \in Makers, p \in Posts : Insert(m, p)
           \/ \E r \in Reviewers, p \in Live, stock \in BOOLEAN,
                 status \in {"approved", "rejected", "suspended"} :
                 /\ MayEnter(p, status)
                 /\ post' = [post EXCEPT ![p] = Moderated(p, status, stock, post[p].rev)]
           \/ \E p \in Live, row \in PostRow : Queues(p, row)
<1> DEFINE Good == \/ \E m \in Makers, p \in Posts : Insert(m, p)
                   \/ \E r \in Reviewers, p \in Live, stock \in BOOLEAN,
                         status \in {"approved", "rejected", "suspended"} :
                         /\ MayEnter(p, status)
                         /\ post' = [post EXCEPT ![p] = Moderated(p, status, stock, post[p].rev)]
                   \/ \E p \in Live, row \in PostRow : Queues(p, row)
<1>1. post \in [Posts -> PostRow] BY DEF PostsInv, PostsTypeOK, PostRow
<1>2. post' # post BY DEF EntersAnew
<1>0. \A p \in Posts : post[p].status = "approved" => post[p].published
  BY DEF PostsInv, RowOK
<1>3. ASSUME NEW m \in Makers, NEW p \in Posts, NEW row \in PostRow, Enqueue(m, {p}, row),
             row.published = post[p].published, row.status = "pending"
      PROVE  Good
  <2>1. p \in Live /\ MayEnter(p, "pending") /\ post' = [post EXCEPT ![p] = row]
    BY <1>3 DEF Enqueue, Live
  <2>2. Queues(p, row) BY <1>3, <2>1 DEF Queues
  <2> QED BY <2>1, <2>2
<1>4. ASSUME NEW m \in Makers, SubmitListing(m) \/ SubmitMerchantProduct(m) PROVE Good
  <2> HIDE DEF Good
  <2>1. CASE SubmitListing(m)
    <3>1. PICK p \in Listings : Enqueue(m, {p}, [post[p] EXCEPT !.status = "pending"])
      BY <2>1 DEF SubmitListing
    <3>2. PICK row : row = [post[p] EXCEPT !.status = "pending"] OBVIOUS
    <3>3. /\ p \in Posts /\ row \in PostRow /\ row.status = "pending"
          /\ row.published = post[p].published
      BY <1>1, <3>2 DEF PostRow, Posts, Statuses
    <3> QED BY <1>3, <3>1, <3>2, <3>3
  <2>2. CASE SubmitMerchantProduct(m)
    <3>1. PICK p \in Products :
             Enqueue(m, {p}, [post[p] EXCEPT !.status = "pending", !.active = FALSE])
      BY <2>2 DEF SubmitMerchantProduct
    <3>2. PICK row : row = [post[p] EXCEPT !.status = "pending", !.active = FALSE] OBVIOUS
    <3>3. /\ p \in Posts /\ row \in PostRow /\ row.status = "pending"
          /\ row.published = post[p].published
      BY <1>1, <3>2 DEF PostRow, Posts, Statuses
    <3> QED BY <1>3, <3>1, <3>2, <3>3
  <2> QED BY <1>4, <2>1, <2>2
<1>5. ASSUME NEW p \in Live, post'[p].published = post[p].published,
             \/ post[p].published \/ post[p].status = "pending"
             \/ post'[p].status # "pending",
             \A o \in Posts \ {p} : post'[o] = post[o]
      PROVE  FALSE
  BY <1>5 DEF EntersAnew, Live
<1>6. ASSUME NEW p \in Listings, NEW changed \in BOOLEAN, UpdateListing(p, changed) PROVE FALSE
  <2>1. p \in Live /\ p \in Posts BY <1>6 DEF UpdateListing, Posts
  <2>2. /\ post'[p].published = post[p].published
        /\ post'[p].status = ListingStatus(p, Resubmitted(p), changed)
        /\ \A o \in Posts \ {p} : post'[o] = post[o]
    BY <1>1, <1>6, <2>1 DEF UpdateListing, PostRow
  <2>3. post[p].published \/ post[p].status = "pending" \/ post'[p].status # "pending"
    BY <2>1, <2>2, <1>0 DEF ListingStatus, Resubmitted
  <2> QED BY <1>5, <2>1, <2>2, <2>3
<1>7. ASSUME NEW p \in Products, UpdateMerchantProduct(p) PROVE FALSE
  <2>1. p \in Live /\ p \in Posts BY <1>7 DEF UpdateMerchantProduct, Posts
  <2>2. /\ post'[p].published = post[p].published /\ post'[p].status = Resubmitted(p)
        /\ \A o \in Posts \ {p} : post'[o] = post[o]
    BY <1>1, <1>7, <2>1 DEF UpdateMerchantProduct, PostRow
  <2>3. post[p].published \/ post[p].status = "pending" \/ post'[p].status # "pending"
    BY <2>1, <2>2, <1>0 DEF Resubmitted
  <2> QED BY <1>5, <2>1, <2>2, <2>3
<1>8. ASSUME NEW p \in Posts, ArchiveListing(p) \/ ArchiveMerchantProduct(p) PROVE FALSE
  BY <1>1, <1>5, <1>8 DEF ArchiveListing, ArchiveMerchantProduct, PostRow
<1>9. ASSUME NEW r \in Reviewers, NEW s \in {"approved", "rejected", "suspended"},
             \/ \E named \in BOOLEAN : AdminModerateListing(r, s, named)
             \/ \E stock \in BOOLEAN : AdminModerateMerchantProduct(r, s, stock)
      PROVE  Good
  <2>1. CASE \E named \in BOOLEAN : AdminModerateListing(r, s, named)
    <3>1. PICK named \in BOOLEAN : AdminModerateListing(r, s, named) BY <2>1
    <3>2. Judges(r, named) = post[screen[r].post].rev BY <3>1, JudgesTheRow
    <3>3. /\ screen[r].post \in Live /\ MayEnter(screen[r].post, s)
          /\ post' = [post EXCEPT ![screen[r].post] =
                        Moderated(screen[r].post, s, FALSE, Judges(r, named))]
      BY <3>1 DEF AdminModerateListing
    <3> QED BY <3>2, <3>3
  <2>2. CASE \E stock \in BOOLEAN : AdminModerateMerchantProduct(r, s, stock)
    <3>1. PICK stock \in BOOLEAN : AdminModerateMerchantProduct(r, s, stock) BY <2>2
    <3>2. /\ screen[r].post \in Live /\ MayEnter(screen[r].post, s)
          /\ post' = [post EXCEPT ![screen[r].post] =
                        Moderated(screen[r].post, s, stock, post[screen[r].post].rev)]
      BY <3>1 DEF AdminModerateMerchantProduct
    <3> QED BY <3>2
  <2> QED BY <1>9, <2>1, <2>2
<1>10. ASSUME NEW m \in Makers, NEW p \in Posts,
              CreateListing(m, p) \/ CreateMerchantProduct(m, p)
       PROVE  Good
  BY <1>10 DEF CreateListing, CreateMerchantProduct
<1>11. ASSUME NEW n \in 0..MaxPlan, ChangePlan(n) PROVE FALSE BY <1>2, <1>11 DEF ChangePlan
<1>12. ASSUME NEW approved \in BOOLEAN,
              AdminReviewVerificationDocument(approved) \/ AdminVerifyProvider(approved)
       PROVE  FALSE
  BY <1>2, <1>12 DEF AdminReviewVerificationDocument, AdminVerifyProvider
<1>13. ASSUME NEW m \in Makers,
              BeginCreate(m) \/ Refused(m) \/ \E p \in Posts : BeginSubmit(m, p)
       PROVE  FALSE
  BY <1>2, <1>13 DEF BeginCreate, Refused, BeginSubmit
<1>14. ASSUME NEW r \in Reviewers, NEW p \in Posts,
              AdminListListings(r, p) \/ AdminListMerchantProducts(r, p)
       PROVE  FALSE
  BY <1>2, <1>14 DEF AdminListListings, AdminListMerchantProducts
<1>15. Good
  <2> HIDE DEF Good
  <2> QED BY <1>4, <1>6, <1>7, <1>8, <1>9, <1>10, <1>11, <1>12, <1>13, <1>14
          DEF PostsNext, Posts
<1> QED BY <1>15

\* No post enters beyond the plan of its moment, however many requests counted
\* before any of them wrote (enforce_provider_listing_capacity, which holds the
\* row of the organisation).
THEOREM EntriesFit == PostsSpec => QuotaAtEntry
<1>1. ASSUME PostsInv, [PostsNext]_postVars, NEW q \in Posts, EntersAnew(q)
      PROVE  Cardinality(Live') <= PostLimit
  <2>1. PostsNext BY <1>1 DEF postVars, EntersAnew
  <2>2. CASE \E m \in Makers, p \in Posts : Insert(m, p) BY <1>1, <2>2, InsertFits
  <2>3. CASE \E r \in Reviewers, p \in Live, stock \in BOOLEAN,
                status \in {"approved", "rejected", "suspended"} :
                /\ MayEnter(p, status)
                /\ post' = [post EXCEPT ![p] = Moderated(p, status, stock, post[p].rev)]
    BY <1>1, <2>3, DecisionFits
  <2>4. CASE \E p \in Live, row \in PostRow : Queues(p, row)
    BY <1>1, <2>4, QueueFits DEF Queues
  <2> QED BY <1>1, <2>1, <2>2, <2>3, <2>4, NothingEnters
<1>2. PostsInv /\ [PostsNext]_postVars =>
        [\A p \in Posts : EntersAnew(p) => Cardinality(Live') <= PostLimit]_postVars
  BY <1>1
<1> QED BY <1>2, PostsBegin, PostsStepKeeps, PTL DEF PostsSpec, QuotaAtEntry

-----------------------------------------------------------------------------
(* Messaging.  What an open write relies on when it commits.  Only the lock   *)
(* of the pair is held to the commit: it keeps the root of a contact right.   *)
(* All else relies on what is never taken back: a conversation is not deleted *)
(* and keeps its thread.  No two writes have the same time, so every commit   *)
(* makes the revision of the thread greater.                                  *)

\* The writes that will bump the revision of a conversation
Bumping(s) == tx[s].op \in {"contact", "send", "book"}

WriteOK(s) ==
    LET t == tx[s] IN
    /\ t.op # "idle" => t.ref \in References /\ t.to \in Rooms /\ t.at \in 1..clock
    /\ Bumping(s) => scene.channel = "business" /\ t.to \in Contacts
    /\ t.op = "contact" =>
         pair = s /\ t.root = RootFor(t.to) /\ t.ref \notin Bookings
    /\ t.op = "send" => t.to \in Rows /\ t.ref \notin Bookings
    /\ t.op = "book" => t.ref \in Bookings
    /\ t.op = "reply" => scene.channel = "support" /\ t.to = Ticket /\ t.ref \notin Bookings

\* The times of the writes still to come, and of those that were counted
TimesOK ==
    /\ IsFiniteSet(bumps)
    /\ \A b \in bumps : b.to \in Rows /\ b.at <= clock
    /\ \A s \in Writers, b \in bumps : Bumping(s) => tx[s].at # b.at
    /\ \A s, z \in Writers : Bumping(s) /\ Bumping(z) /\ tx[s].at = tx[z].at => s = z

MessagesOK ==
    /\ \A m \in msgs : m.by = By[m.ref]
    /\ \A m \in msgs : IF scene.channel = "support" THEN m.to = Ticket ELSE m.to \in Rows
    /\ Rows # {} => msgs # {}
    /\ \A m \in msgs : m.ref \in Bookings => booking[m.ref] # "none"
    /\ ticket # "none" => scene.channel = "support"
    /\ ticket = "none" /\ scene.channel = "support" => msgs = {}

\* A tag of the current revision came with all that is committed
PageOK(side) ==
    /\ page[side].asked <= Revision /\ page[side].tag <= Revision
    /\ page[side].tag = Revision => Displayed = page[side].shows

ReceiptsOK == \A r \in References : receipt.of[r] = "read" => r \in receipt.openly

ChatInv ==
    /\ ChatTypeOK /\ TimesOK /\ MessagesOK /\ OneThread /\ AnnouncedWithTheMessage
    /\ \A s \in Writers : WriteOK(s)
    /\ scene.channel = "business" => \A side \in Sides : PageOK(side)
    /\ ReceiptsOK

LEMMA ThreadsAs ==
    ASSUME thread' = thread
    PROVE  Rows' = Rows /\ (OneThread => OneThread') /\ \A c : RootFor(c)' = RootFor(c)
BY DEF Rows, RootFor, OneThread

LEMMA WriteStays ==
    ASSUME ChatInv, NEW z \in Writers, tx'[z] = tx[z], clock' \in Nat, clock <= clock',
           scene' = scene, Rows \subseteq Rows',
           tx[z].op = "contact" => pair' = pair /\ thread' = thread
    PROVE  WriteOK(z)'
<1>1. WriteOK(z) /\ clock \in Nat BY MessagingAssumption DEF ChatInv, ChatTypeOK
<1>2. tx[z].op = "contact" => pair' = z /\ tx[z].root = RootFor(tx[z].to)'
  BY <1>1, ThreadsAs DEF WriteOK
<1>3. tx[z].at \in 1..clock => tx[z].at \in 1..clock' BY <1>1
<1> QED BY <1>1, <1>2, <1>3 DEF WriteOK, Bumping

LEMMA RevisionCounts == ASSUME TimesOK PROVE Revision = Cardinality(bumps) /\ Revision \in Nat
<1>1. {b \in bumps : b.to \in Rows} = bumps BY DEF TimesOK
<1> QED BY <1>1, FS_CardinalityType DEF Revision, TimesOK

LEMMA PagesStay ==
    ASSUME ChatInv, UNCHANGED <<scene, thread, bumps, msgs, page>>
    PROVE  (scene.channel = "business" => \A side \in Sides : PageOK(side))'
<1>1. Revision' = Revision /\ Displayed' = Displayed BY DEF Revision, Rows, Displayed
<1> QED BY <1>1 DEF ChatInv, PageOK

\* Nothing is written in the conversations and no write begins or ends
LEMMA QuietStep ==
    ASSUME ChatInv, ChatTypeOK', UNCHANGED <<scene, clock, thread, bumps, pair, tx, msgs, page>>,
           MessagesOK', told \subseteq told', ReceiptsOK'
    PROVE  ChatInv'
<1>1. TimesOK' BY DEF ChatInv, TimesOK, Rows, Bumping
<1>2. OneThread' BY ThreadsAs DEF ChatInv
<1>3. AnnouncedWithTheMessage' BY DEF ChatInv, AnnouncedWithTheMessage
<1>4. \A s \in Writers : WriteOK(s)'
  BY WriteStays, ThreadsAs, MessagingAssumption DEF ChatInv, ChatTypeOK
<1> QED BY <1>1, <1>2, <1>3, <1>4, PagesStay DEF ChatInv

LEMMA ChatBegins == ChatInit => ChatInv
<1> SUFFICES ASSUME ChatInit PROVE ChatInv OBVIOUS
<1>1. Rows = {} BY DEF ChatInit, Rows
<1>2. TimesOK /\ Revision = 0
  <2>1. IsFiniteSet(bumps) /\ bumps = {} BY FS_EmptySet DEF ChatInit
  <2>2. \A s \in Writers : ~Bumping(s) BY DEF ChatInit, Bumping, NoWrite
  <2>3. TimesOK BY <2>1, <2>2 DEF TimesOK
  <2> QED BY <2>1, <2>3, RevisionCounts, FS_EmptySet
<1>3. ChatTypeOK
  <2>1. NoWrite \in [op : {"idle", "contact", "send", "announce", "book", "reply"},
                     ref : References \cup {None}, to : Rooms \cup {None},
                     at : 0 .. MaxClock, root : Contacts \cup {None}]
    BY MessagingAssumption DEF NoWrite
  <2>2. tx \in [Writers -> [op : {"idle", "contact", "send", "announce", "book", "reply"},
                     ref : References \cup {None}, to : Rooms \cup {None},
                     at : 0 .. MaxClock, root : Contacts \cup {None}]]
    BY <2>1 DEF ChatInit
  <2>3. /\ receipt \in [of : [References -> {"sent", "delivered", "read"}],
                     on : [Sides -> BOOLEAN], openly : SUBSET References]
        /\ page \in [Sides -> [asked : Nat, tag : Nat, shows : SUBSET References]]
    BY DEF ChatInit
  <2>4. mark \in [Sides -> [Rooms -> 0 .. MaxClock]]
    BY MessagingAssumption DEF ChatInit
  <2>5. slot \in [capacity : Capacities, left : Nat] /\ slot.left =< slot.capacity
    <3>1. PICK l \in [capacity : Capacities, left : Capacities] :
            slot = l /\ l.left = l.capacity
      BY DEF ChatInit
    <3>2. l.left \in Nat /\ l.capacity \in Capacities BY MessagingAssumption
    <3>3. l \in [capacity : Capacities, left : Nat] BY <3>1, <3>2
    <3> QED BY <3>1, <3>2, <3>3
  <2> QED BY <2>2, <2>3, <2>4, <2>5, MessagingAssumption DEF ChatInit, ChatTypeOK
<1>4. MessagesOK BY <1>1 DEF ChatInit, MessagesOK
<1>5. OneThread /\ AnnouncedWithTheMessage BY <1>1 DEF ChatInit, OneThread, AnnouncedWithTheMessage
<1>6. \A s \in Writers : WriteOK(s) BY DEF ChatInit, WriteOK, Bumping, NoWrite
<1>7. \A side \in Sides : PageOK(side) BY <1>2 DEF ChatInit, PageOK, Displayed
<1>8. ReceiptsOK BY DEF ChatInit, ReceiptsOK
<1> QED BY <1>2, <1>3, <1>4, <1>5, <1>6, <1>7, <1>8 DEF ChatInv

-----------------------------------------------------------------------------
(* Writes begin and end.                                                      *)

WriteRecord == [op : {"idle", "contact", "send", "announce", "book", "reply"},
                ref : References \cup {None}, to : Rooms \cup {None},
                at : 0 .. MaxClock, root : Contacts \cup {None}]

\* A write that begins takes a time nobody has
LEMMA OpenKeeps ==
    ASSUME ChatInv, NEW s \in Writers, clock < MaxClock, clock' = clock + 1,
           NEW op \in {"contact", "send", "book", "reply"}, NEW r \in References,
           NEW c \in Rooms, NEW root \in Contacts \cup {None},
           tx' = [tx EXCEPT ![s] = Open(op, r, c, root)], pair' \in Writers \cup {None},
           \A z \in Writers : z # s /\ tx[z].op = "contact" => pair' = pair,
           UNCHANGED <<scene, thread, bumps, ticket, msgs, told, mark, page, receipt,
                       booking, slot>>,
           WriteOK(s)'
    PROVE  ChatInv'
<1>1. /\ clock \in Nat /\ clock' \in 0..MaxClock /\ clock' \in Nat /\ clock + 1 \in 1..MaxClock
      /\ tx \in [Writers -> WriteRecord]
  BY MessagingAssumption DEF ChatInv, ChatTypeOK, WriteRecord
<1>2. Open(op, r, c, root) \in WriteRecord BY <1>1 DEF Open, WriteRecord
<1>3. /\ tx' \in [Writers -> WriteRecord] /\ tx'[s] = Open(op, r, c, root)
      /\ \A z \in Writers : z # s => tx'[z] = tx[z]
  BY <1>1, <1>2
<1>4. tx'[s].at = clock + 1 BY <1>3 DEF Open
<1>5. ChatTypeOK' BY <1>1, <1>3 DEF ChatInv, ChatTypeOK, WriteRecord
<1>6. Rows' = Rows /\ OneThread' BY ThreadsAs DEF ChatInv
<1>7. ASSUME NEW z \in Writers, z # s PROVE WriteOK(z)'
  BY <1>1, <1>3, <1>6, <1>7, WriteStays
<1>8. TimesOK'
  <2>1. /\ IsFiniteSet(bumps) /\ \A b \in bumps : b.to \in Rows /\ b.at <= clock
        /\ \A b \in bumps : b.at \in Nat
    BY DEF ChatInv, TimesOK, ChatTypeOK
  <2>2. \A z \in Writers : z # s => (Bumping(z)' <=> Bumping(z)) /\ tx'[z].at = tx[z].at
    BY <1>3 DEF Bumping
  <2>3. \A z \in Writers : Bumping(z) => tx[z].at \in 1..clock
    BY DEF ChatInv, WriteOK, Bumping
  <2>4. \A b \in bumps' : b.to \in Rows' /\ b.at <= clock' BY <1>1, <1>6, <2>1
  <2>5. \A z \in Writers, b \in bumps : Bumping(z) => tx[z].at # b.at
    BY DEF ChatInv, TimesOK
  <2>6. \A b \in bumps : tx'[s].at # b.at BY <1>1, <1>4, <2>1
  <2>7. \A z \in Writers, b \in bumps' : Bumping(z)' => tx'[z].at # b.at
    BY <2>2, <2>5, <2>6
  <2>8. \A z \in Writers : Bumping(z) => tx[z].at # tx'[s].at BY <1>1, <1>4, <2>3
  <2>9. \A y, z \in Writers : Bumping(y) /\ Bumping(z) /\ tx[y].at = tx[z].at => y = z
    BY DEF ChatInv, TimesOK
  <2>10. \A y, z \in Writers : Bumping(y)' /\ Bumping(z)' /\ tx'[y].at = tx'[z].at => y = z
    BY <2>2, <2>8, <2>9
  <2> QED BY <2>1, <2>4, <2>7, <2>10 DEF TimesOK
<1>9. MessagesOK' /\ AnnouncedWithTheMessage' /\ ReceiptsOK'
  BY <1>6 DEF ChatInv, MessagesOK, AnnouncedWithTheMessage, ReceiptsOK
<1> QED BY <1>5, <1>6, <1>7, <1>8, <1>9, PagesStay DEF ChatInv

\* The newest message of a thread is in one of its conversations
LEMMA NewestIsThere ==
    ASSUME ChatInv, scene.channel = "business", Rows # {}
    PROVE  Newest(msgs).to \in Rows
<1> DEFINE times == {m.at : m \in msgs}
<1>1. msgs # {} /\ \A m \in msgs : m.to \in Rows BY DEF ChatInv, MessagesOK
<1>2. \A m \in msgs : m.at \in 1..MaxClock BY DEF ChatInv, ChatTypeOK
<1>3. times \in SUBSET (1..MaxClock) /\ times # {} BY <1>1, <1>2
<1>4. IsFiniteSet(1..MaxClock) BY MessagingAssumption, FS_Interval
<1> HIDE DEF times
<1>5. IsFiniteSet(times) /\ times \in SUBSET Nat
  <2>1. IsFiniteSet(times) BY <1>3, <1>4, FS_Subset
  <2>2. times \in SUBSET Nat BY <1>3
  <2> QED BY <2>1, <2>2
<1>6. PICK x \in times : \A y \in times : x >= y BY <1>3, <1>5, MaxExists
<1>7. PICK m \in msgs : m.at = x BY <1>6 DEF times
<1>8. \A n \in msgs : n.at =< m.at BY <1>2, <1>6, <1>7 DEF times
<1>9. Newest(msgs) \in msgs BY <1>8 DEF Newest
<1> QED BY <1>1, <1>9

LEMMA BeginsKeep ==
    ASSUME ChatInv, NEW s \in Writers, NEW r \in References,
           \/ BeginSend(s, r)
           \/ BeginReply(s, r)
           \/ \E c \in Contacts : BeginContact(s, c, r) \/ BeginBooking(s, c, r)
    PROVE  ChatInv'
<1>1. /\ clock \in Nat /\ MaxClock \in Nat /\ None \notin Contacts /\ None \notin Writers
      /\ pair \in Writers \cup {None} /\ tx \in [Writers -> WriteRecord]
  BY MessagingAssumption DEF ChatInv, ChatTypeOK, WriteRecord
<1>2. \A op, c, root : (tx' = [tx EXCEPT ![s] = Open(op, r, c, root)] /\ clock' = clock + 1) =>
        /\ tx'[s].op = op /\ tx'[s].ref = r /\ tx'[s].to = c /\ tx'[s].root = root
        /\ tx'[s].at \in 1..clock'
  BY <1>1 DEF Open
<1>3. CASE BeginSend(s, r)
  <2>1. Newest(msgs).to \in Rows BY <1>3, NewestIsThere DEF BeginSend
  <2>2. Newest(msgs).to \in Contacts BY <2>1 DEF Rows
  <2>3. Rows' = Rows BY <1>3, ThreadsAs DEF BeginSend
  <2>4. /\ tx'[s].op = "send" /\ tx'[s].ref = r /\ tx'[s].to = Newest(msgs).to
        /\ tx'[s].at \in 1..clock'
    BY <1>2, <1>3 DEF BeginSend
  <2>5. scene'.channel = "business" /\ r \notin Bookings BY <1>3 DEF BeginSend
  <2>6. WriteOK(s)' BY <2>1, <2>2, <2>3, <2>4, <2>5 DEF WriteOK, Bumping, Rooms
  <2> QED BY <1>1, <1>3, <2>2, <2>6, OpenKeeps DEF BeginSend, Rooms
<1>4. CASE BeginReply(s, r)
  <2>1. scene.channel = "support" BY <1>4 DEF BeginReply, ChatInv, MessagesOK
  <2>2. WriteOK(s)' BY <1>2, <1>4, <2>1 DEF BeginReply, WriteOK, Bumping, Rooms
  <2> QED BY <1>1, <1>4, <2>2, OpenKeeps DEF BeginReply, Rooms
<1>5. ASSUME NEW c \in Contacts, BeginContact(s, c, r) PROVE ChatInv'
  <2>1. RootFor(c)' = RootFor(c) BY <1>5, ThreadsAs DEF BeginContact
  <2>2. RootFor(c) \in Contacts
    BY <1>1 DEF RootFor, Rows, ChatInv, ChatTypeOK
  <2>3. WriteOK(s)' BY <1>2, <1>5, <2>1 DEF BeginContact, WriteOK, Bumping, Rooms
  <2>4. \A z \in Writers : tx[z].op # "contact"
    BY <1>1, <1>5 DEF BeginContact, ChatInv, WriteOK
  <2> QED BY <1>1, <1>5, <2>2, <2>3, <2>4, OpenKeeps DEF BeginContact, Rooms
<1>6. ASSUME NEW c \in Contacts, BeginBooking(s, c, r) PROVE ChatInv'
  <2>1. r \in Bookings BY <1>6 DEF BeginBooking, ChatInv, ChatTypeOK
  <2>2. /\ tx'[s].op = "book" /\ tx'[s].ref = r /\ tx'[s].to = c
        /\ tx'[s].at \in 1..clock' /\ scene'.channel = "business"
    BY <1>2, <1>6 DEF BeginBooking
  <2>3. WriteOK(s)' BY <2>1, <2>2 DEF WriteOK, Bumping, Rooms
  <2> QED BY <1>1, <1>6, <2>3, OpenKeeps DEF BeginBooking, Rooms
<1> QED BY <1>3, <1>4, <1>5, <1>6

\* A write that ends without a message, or has nothing left to announce
LEMMA EndKeeps ==
    ASSUME ChatInv, NEW s \in Writers, Announce(s) \/ Abandon(s)
    PROVE  ChatInv'
<1>1. tx' = [tx EXCEPT ![s] = NoWrite] BY DEF Announce, Abandon
<1>2. /\ tx \in [Writers -> WriteRecord] /\ clock \in Nat /\ None \notin Writers
      /\ pair \in Writers \cup {None}
  BY MessagingAssumption DEF ChatInv, ChatTypeOK, WriteRecord
<1>3. NoWrite \in WriteRecord BY MessagingAssumption DEF NoWrite, WriteRecord
<1>4. /\ tx' \in [Writers -> WriteRecord] /\ tx'[s] = NoWrite
      /\ \A z \in Writers : z # s => tx'[z] = tx[z]
  BY <1>1, <1>2, <1>3
<1>5. /\ UNCHANGED <<scene, clock, thread, bumps, ticket, msgs, mark, page, receipt, booking, slot>>
      /\ told' \subseteq told \cup References /\ told \subseteq told'
      /\ pair' \in {pair, None} /\ (pair' # pair => pair = s)
  <2>1. CASE Announce(s)
    <3>1. tx[s].ref \in References BY <2>1 DEF Announce, ChatInv, WriteOK
    <3> QED BY <2>1, <3>1 DEF Announce
  <2>2. CASE Abandon(s) BY <2>2 DEF Abandon
  <2> QED BY <2>1, <2>2
<1>6. ChatTypeOK' BY <1>2, <1>4, <1>5 DEF ChatInv, ChatTypeOK, WriteRecord
<1>7. Rows' = Rows /\ OneThread' BY <1>5, ThreadsAs DEF ChatInv
<1>8. ASSUME NEW z \in Writers PROVE WriteOK(z)'
  <2>1. CASE z = s BY <1>4, <2>1 DEF WriteOK, Bumping, NoWrite
  <2>2. CASE z # s
    <3>1. tx[z].op = "contact" => pair' = pair BY <1>5, <2>2 DEF ChatInv, WriteOK
    <3> QED BY <1>2, <1>4, <1>5, <1>7, <2>2, <3>1, WriteStays
  <2> QED BY <2>1, <2>2
<1>9. TimesOK'
  <2>1. /\ ~Bumping(s)'
        /\ \A z \in Writers : z # s => (Bumping(z)' <=> Bumping(z)) /\ tx'[z].at = tx[z].at
    BY <1>4 DEF Bumping, NoWrite
  <2>2. TimesOK BY DEF ChatInv
  <2> QED BY <1>5, <1>7, <2>1, <2>2 DEF TimesOK
<1>10. MessagesOK' /\ AnnouncedWithTheMessage' /\ ReceiptsOK'
  BY <1>5, <1>7 DEF ChatInv, MessagesOK, AnnouncedWithTheMessage, ReceiptsOK
<1> QED BY <1>5, <1>6, <1>7, <1>8, <1>9, <1>10, PagesStay DEF ChatInv

-----------------------------------------------------------------------------
(* Writes commit.                                                             *)

\* The conversation a write goes to joins the thread of the pair
LEMMA JoinsTheThread ==
    ASSUME OneThread, thread \in [Contacts -> Contacts \cup {None}], NEW c \in Contacts,
           None \notin Contacts, thread' = [thread EXCEPT ![c] = RootFor(c)]
    PROVE  OneThread' /\ Rows' = Rows \cup {c}
<1>1. /\ thread' \in [Contacts -> Contacts \cup {None}] /\ thread'[c] = RootFor(c)
      /\ \A d \in Contacts : d # c => thread'[d] = thread[d]
      /\ RootFor(c) \in Contacts
  BY DEF RootFor, Rows
<1>2. Rows' = Rows \cup {c} BY <1>1 DEF Rows
<1>3. CASE Rows = {}
  <2>1. RootFor(c) = c BY <1>3 DEF RootFor, Rows
  <2> QED BY <1>1, <1>2, <1>3, <2>1 DEF OneThread
<1>4. CASE Rows # {}
  <2>1. PICK root \in Rows : \A d \in Rows : thread[d] = root BY <1>4 DEF OneThread
  <2>2. RootFor(c) = root
    <3>1. CASE thread[c] # None BY <2>1, <3>1 DEF RootFor, Rows
    <3>2. CASE thread[c] = None BY <1>4, <2>1, <3>2 DEF RootFor
    <3> QED BY <3>1, <3>2
  <2>3. \A d \in Rows' : d \in Contacts /\ thread'[d] = root
    BY <1>1, <1>2, <2>1, <2>2 DEF Rows
  <2> QED BY <1>2, <2>1, <2>3 DEF OneThread
<1> QED BY <1>2, <1>3, <1>4

\* What a write of the thread leaves: a revision nobody has seen
LEMMA BumpKeeps ==
    ASSUME ChatInv, NEW s \in Writers, Bumping(s), Bump(tx[s]), clock' = clock,
           Rows \subseteq Rows', tx[s].to \in Rows', ~Bumping(s)',
           \A z \in Writers : z # s => tx'[z] = tx[z]
    PROVE  TimesOK' /\ Revision' = Revision + 1
<1> DEFINE b == [to |-> tx[s].to, at |-> tx[s].at]
<1>1. TimesOK /\ bumps' = bumps \cup {b} BY DEF ChatInv, Bump
<1>2. b \notin bumps BY <1>1 DEF TimesOK
<1>3. b.to \in Rows' /\ b.at = tx[s].at /\ b.at \in 1..clock
  BY DEF ChatInv, WriteOK, Bumping
<1> HIDE DEF b
<1>4. IsFiniteSet(bumps') /\ Cardinality(bumps') = Cardinality(bumps) + 1
  BY <1>1, <1>2, FS_AddElement DEF TimesOK
<1>5. \A z \in Writers : Bumping(z)' => z # s /\ Bumping(z) /\ tx'[z].at = tx[z].at
  BY DEF Bumping
<1>6. \A z \in Writers : Bumping(z) /\ z # s => tx[z].at # b.at BY <1>1, <1>3 DEF TimesOK
<1>7. clock \in Nat BY DEF ChatInv, ChatTypeOK
<1>8. \A d \in bumps' : d.to \in Rows' /\ d.at <= clock' BY <1>1, <1>3, <1>7 DEF TimesOK
<1>9. \A z \in Writers, d \in bumps' : Bumping(z)' => tx'[z].at # d.at
  BY <1>1, <1>5, <1>6 DEF TimesOK
<1>10. \A y, z \in Writers : Bumping(y)' /\ Bumping(z)' /\ tx'[y].at = tx'[z].at => y = z
  BY <1>1, <1>5 DEF TimesOK
<1>11. TimesOK' BY <1>4, <1>8, <1>9, <1>10 DEF TimesOK
<1>12. Revision = Cardinality(bumps) BY <1>1, RevisionCounts
<1>13. Revision' = Cardinality(bumps')
  <2>1. {d \in bumps' : d.to \in Rows'} = bumps' BY <1>8
  <2> QED BY <2>1 DEF Revision
<1> QED BY <1>4, <1>11, <1>12, <1>13

\* A message of the thread is stored, once
LEMMA StoreKeeps ==
    ASSUME ChatInv, NEW s \in Writers, Bumping(s), Store(tx[s]), Rows \subseteq Rows',
           Rows' \subseteq Rows \cup {tx[s].to}, tx[s].to \in Rows',
           Fresh(tx[s]) \/ Accepted(tx[s]),
           UNCHANGED <<scene, ticket>>,
           \A r \in References \cap Bookings : booking[r] # "none" => booking'[r] # "none",
           tx[s].ref \in Bookings => booking'[tx[s].ref] # "none",
           told \subseteq told', told' \subseteq References,
           By[tx[s].ref] = "customer" /\ tx[s].ref \notin Bookings /\ Fresh(tx[s]) =>
             tx[s].ref \in told'
    PROVE  /\ MessagesOK' /\ AnnouncedWithTheMessage'
           /\ msgs' \subseteq [ref : References, to : Rooms, at : 1 .. MaxClock, by : Sides]
<1>1. /\ MessagesOK /\ AnnouncedWithTheMessage /\ scene.channel = "business"
      /\ tx[s].ref \in References /\ tx[s].to \in Contacts /\ tx[s].at \in 1..MaxClock
      /\ Ticket \notin Contacts /\ By[tx[s].ref] \in Sides
      /\ msgs \subseteq [ref : References, to : Rooms, at : 1 .. MaxClock, by : Sides]
  <2>1. WriteOK(s) /\ tx[s].op # "idle" BY DEF ChatInv, Bumping
  <2>2. clock \in 0..MaxClock /\ MaxClock \in Nat
    BY MessagingAssumption DEF ChatInv, ChatTypeOK
  <2>3. tx[s].at \in 1..MaxClock BY <2>1, <2>2 DEF WriteOK
  <2> QED BY <2>1, <2>3, MessagingAssumption DEF ChatInv, ChatTypeOK, WriteOK
<1>2. CASE ~Fresh(tx[s])
  <2>1. msgs' = msgs /\ msgs # {} BY <1>2 DEF Store, Fresh, Known
  <2>2. MessagesOK' BY <1>1, <2>1 DEF MessagesOK, ChatInv, ChatTypeOK
  <2> QED BY <1>1, <2>1, <2>2 DEF AnnouncedWithTheMessage
<1>3. CASE Fresh(tx[s])
  <2>1. PICK m : m = Message(tx[s]) OBVIOUS
  <2>2. /\ m.ref = tx[s].ref /\ m.to = tx[s].to /\ m.at = tx[s].at /\ m.by = By[tx[s].ref]
        /\ m \in [ref : References, to : Rooms, at : 1 .. MaxClock, by : Sides]
    BY <1>1, <2>1 DEF Message, Rooms
  <2>3. msgs' = msgs \cup {m} BY <1>3, <2>1 DEF Store
  <2>4. MessagesOK'
    <3>1. \A n \in msgs' : n.by = By[n.ref] /\ n.to \in Rows'
      BY <1>1, <2>2, <2>3 DEF MessagesOK
    <3>2. \A n \in msgs' : n.ref \in Bookings => booking'[n.ref] # "none"
      BY <1>1, <2>2, <2>3 DEF MessagesOK
    <3> QED BY <1>1, <2>3, <3>1, <3>2 DEF MessagesOK
  <2>5. AnnouncedWithTheMessage'
    BY <1>1, <1>3, <2>2, <2>3 DEF AnnouncedWithTheMessage, Rooms
  <2> QED BY <1>1, <2>2, <2>3, <2>4, <2>5
<1> QED BY <1>2, <1>3

\* A write that leaves its message: the others go on as they were
LEMMA OthersGoOn ==
    ASSUME ChatInv, NEW s \in Writers, clock' = clock, scene' = scene, Rows \subseteq Rows',
           \A z \in Writers : z # s => tx'[z] = tx[z],
           \A z \in Writers : z # s /\ tx[z].op = "contact" => pair' = pair /\ thread' = thread
    PROVE  \A z \in Writers : z # s => WriteOK(z)'
<1> SUFFICES ASSUME NEW z \in Writers, z # s PROVE WriteOK(z)' OBVIOUS
<1>1. clock' \in Nat /\ clock <= clock' BY DEF ChatInv, ChatTypeOK
<1> QED BY <1>1, WriteStays

LEMMA PagesFallBehind ==
    ASSUME ChatInv, scene' = scene, page' = page, Revision \in Nat, Revision' = Revision + 1
    PROVE  (scene.channel = "business" => \A side \in Sides : PageOK(side))'
<1> SUFFICES ASSUME scene.channel = "business", NEW side \in Sides PROVE PageOK(side)'
  OBVIOUS
<1>1. PageOK(side) /\ page[side].asked \in Nat /\ page[side].tag \in Nat
  BY DEF ChatInv, ChatTypeOK
<1> QED BY <1>1 DEF PageOK

LEMMA ContactKeeps ==
    ASSUME ChatInv, NEW s \in Writers, CommitContact(s)
    PROVE  ChatInv'
<1> DEFINE t == tx[s]
<1>1. /\ t.op = "contact" /\ Accepted(t) /\ Store(t) /\ Bump(t) /\ Tell(t)
      /\ thread' = [thread EXCEPT ![t.to] = t.root]
      /\ mark' = [mark EXCEPT !["customer"][t.to] = t.at]
      /\ tx' = [tx EXCEPT ![s] = NoWrite] /\ pair' = IF pair = s THEN None ELSE pair
      /\ UNCHANGED <<scene, clock, ticket, page, receipt, booking, slot>>
  BY DEF CommitContact
<1>2. /\ Bumping(s) /\ t.to \in Contacts /\ t.root = RootFor(t.to) /\ pair = s
      /\ t.ref \in References /\ t.ref \notin Bookings /\ t.at \in 1..clock
      /\ scene.channel = "business"
  BY <1>1 DEF ChatInv, WriteOK, Bumping
<1>3. /\ tx \in [Writers -> WriteRecord] /\ NoWrite \in WriteRecord /\ None \notin Contacts
      /\ thread \in [Contacts -> Contacts \cup {None}] /\ OneThread
      /\ clock \in 0..MaxClock /\ MaxClock \in Nat
  BY MessagingAssumption DEF ChatInv, ChatTypeOK, WriteRecord, NoWrite
<1>4. /\ tx' \in [Writers -> WriteRecord] /\ tx'[s] = NoWrite
      /\ \A z \in Writers : z # s => tx'[z] = tx[z]
  BY <1>1, <1>3
<1>5. OneThread' /\ Rows' = Rows \cup {t.to} BY <1>1, <1>2, <1>3, JoinsTheThread
<1>6. TimesOK' /\ Revision' = Revision + 1
  BY <1>1, <1>2, <1>4, <1>5, BumpKeeps DEF Bumping, NoWrite
<1>7. told \subseteq told' /\ told' \subseteq References /\ (Fresh(t) => t.ref \in told')
  BY <1>1, <1>2 DEF Tell, ChatInv, ChatTypeOK
<1>8. /\ MessagesOK' /\ AnnouncedWithTheMessage'
      /\ msgs' \subseteq [ref : References, to : Rooms, at : 1 .. MaxClock, by : Sides]
  BY <1>1, <1>2, <1>5, <1>7, StoreKeeps
<1>9. \A z \in Writers : WriteOK(z)'
  <2>1. \A z \in Writers : z # s => tx[z].op # "contact" BY <1>2 DEF ChatInv, WriteOK
  <2>2. WriteOK(s)' BY <1>4 DEF WriteOK, Bumping, NoWrite
  <2> QED BY <1>1, <1>4, <1>5, <2>1, <2>2, OthersGoOn
<1>10. ChatTypeOK'
  <2>1. t.root \in Contacts BY <1>2, <1>3 DEF RootFor, Rows
  <2>2. thread' \in [Contacts -> Contacts \cup {None}] BY <1>1, <1>2, <1>3, <2>1
  <2>3. t.at \in 1..MaxClock BY <1>2, <1>3
  <2>4. bumps' \subseteq [to : Contacts, at : 1 .. MaxClock]
    BY <1>1, <1>2, <2>3 DEF Bump, ChatInv, ChatTypeOK
  <2>5. mark' \in [Sides -> [Rooms -> 0 .. MaxClock]]
    BY <1>1, <1>2, <2>3 DEF ChatInv, ChatTypeOK, Sides, Rooms
  <2>6. pair' \in Writers \cup {None} BY <1>1 DEF ChatInv, ChatTypeOK
  <2> QED BY <1>1, <1>4, <1>7, <1>8, <2>2, <2>4, <2>5, <2>6
          DEF ChatInv, ChatTypeOK, WriteRecord
<1>11. Revision \in Nat BY RevisionCounts DEF ChatInv
<1>12. (scene.channel = "business" => \A side \in Sides : PageOK(side))'
  BY <1>1, <1>6, <1>11, PagesFallBehind
<1> QED BY <1>1, <1>5, <1>6, <1>8, <1>9, <1>10, <1>12 DEF ChatInv, ReceiptsOK

LEMMA SendKeepsChat ==
    ASSUME ChatInv, NEW s \in Writers, CommitSend(s)
    PROVE  ChatInv'
<1> DEFINE t == tx[s]
<1>1. /\ t.op = "send" /\ Accepted(t) /\ Store(t) /\ Bump(t)
      /\ mark' = [mark EXCEPT ![By[t.ref]][t.to] = t.at]
      /\ IF By[t.ref] = "customer" THEN Tell(t) ELSE told' = told
      /\ tx' = [tx EXCEPT ![s] = IF By[t.ref] = "desk" /\ Fresh(t)
                                 THEN [t EXCEPT !.op = "announce"] ELSE NoWrite]
      /\ UNCHANGED <<scene, clock, thread, pair, ticket, page, receipt, booking, slot>>
  BY DEF CommitSend
<1>2. /\ Bumping(s) /\ t.to \in Contacts /\ t.to \in Rows /\ t.to \in Rooms
      /\ t.ref \in References /\ t.ref \notin Bookings /\ t.at \in 1..clock
      /\ scene.channel = "business" /\ By[t.ref] \in Sides
  BY <1>1, MessagingAssumption DEF ChatInv, WriteOK, Bumping
<1>3. /\ tx \in [Writers -> WriteRecord] /\ NoWrite \in WriteRecord /\ None \notin Contacts
      /\ clock \in 0..MaxClock /\ MaxClock \in Nat
  BY MessagingAssumption DEF ChatInv, ChatTypeOK, WriteRecord, NoWrite
<1>4. PICK u : u = IF By[t.ref] = "desk" /\ Fresh(t) THEN [t EXCEPT !.op = "announce"] ELSE NoWrite
  OBVIOUS
<1>5. u \in WriteRecord /\ u.op \in {"announce", "idle"} /\ (u.op = "announce" => u = [t EXCEPT !.op = "announce"])
  <2>1. t \in WriteRecord BY <1>3
  <2>2. [t EXCEPT !.op = "announce"] \in WriteRecord /\ [t EXCEPT !.op = "announce"].op = "announce"
    BY <2>1 DEF WriteRecord
  <2> QED BY <1>3, <1>4, <2>2 DEF NoWrite
<1>6. /\ tx' \in [Writers -> WriteRecord] /\ tx'[s] = u
      /\ \A z \in Writers : z # s => tx'[z] = tx[z]
  BY <1>1, <1>3, <1>4, <1>5
<1>7. OneThread' /\ Rows' = Rows BY <1>1, ThreadsAs DEF ChatInv
<1>8. TimesOK' /\ Revision' = Revision + 1
  <2>1. ~Bumping(s)' BY <1>5, <1>6 DEF Bumping
  <2> QED BY <1>1, <1>2, <1>6, <1>7, <2>1, BumpKeeps
<1>9. told \subseteq told' /\ told' \subseteq References
      /\ (By[t.ref] = "customer" /\ Fresh(t) => t.ref \in told')
  BY <1>1, <1>2 DEF Tell, ChatInv, ChatTypeOK
<1>10. /\ MessagesOK' /\ AnnouncedWithTheMessage'
       /\ msgs' \subseteq [ref : References, to : Rooms, at : 1 .. MaxClock, by : Sides]
  BY <1>1, <1>2, <1>7, <1>9, StoreKeeps
<1>11. \A z \in Writers : WriteOK(z)'
  <2>1. u.op = "announce" => u.ref = t.ref /\ u.to = t.to /\ u.at = t.at
    BY <1>3, <1>5 DEF WriteRecord
  <2>2. WriteOK(s)' BY <1>1, <1>2, <1>5, <1>6, <2>1 DEF WriteOK, Bumping
  <2> QED BY <1>1, <1>6, <1>7, <2>2, OthersGoOn
<1>12. ChatTypeOK'
  <2>1. t.at \in 1..MaxClock BY <1>2, <1>3
  <2>2. bumps' \subseteq [to : Contacts, at : 1 .. MaxClock]
    BY <1>1, <1>2, <2>1 DEF Bump, ChatInv, ChatTypeOK
  <2>3. mark \in [Sides -> [Rooms -> 0 .. MaxClock]] BY DEF ChatInv, ChatTypeOK
  <2>4. mark' \in [Sides -> [Rooms -> 0 .. MaxClock]] BY <1>1, <1>2, <2>1, <2>3
  <2> QED BY <1>1, <1>6, <1>9, <1>10, <2>2, <2>4 DEF ChatInv, ChatTypeOK, WriteRecord
<1>13. Revision \in Nat BY RevisionCounts DEF ChatInv
<1>14. (scene.channel = "business" => \A side \in Sides : PageOK(side))'
  BY <1>1, <1>8, <1>13, PagesFallBehind
<1> QED BY <1>1, <1>7, <1>8, <1>10, <1>11, <1>12, <1>14 DEF ChatInv, ReceiptsOK

LEMMA BookingKeeps ==
    ASSUME ChatInv, NEW s \in Writers, CommitBooking(s)
    PROVE  ChatInv'
<1> DEFINE t == tx[s]
<1>1. /\ t.op = "book" /\ pair = None /\ slot.left > 0 /\ booking[t.ref] = "none"
      /\ slot' = [slot EXCEPT !.left = @ - 1]
      /\ Store(t) /\ Bump(t)
      /\ thread' = [thread EXCEPT ![t.to] = RootFor(t.to)]
      /\ booking' = [booking EXCEPT ![t.ref] = "pending"]
      /\ tx' = [tx EXCEPT ![s] = [t EXCEPT !.op = "announce"]]
      /\ UNCHANGED <<scene, clock, pair, ticket, told, mark, page, receipt>>
  BY DEF CommitBooking
<1>2. /\ Bumping(s) /\ t.to \in Contacts /\ t.to \in Rooms
      /\ t.ref \in References \cap Bookings /\ t.at \in 1..clock
      /\ scene.channel = "business"
  BY <1>1 DEF ChatInv, WriteOK, Bumping
<1>3. /\ tx \in [Writers -> WriteRecord] /\ None \notin Contacts
      /\ thread \in [Contacts -> Contacts \cup {None}] /\ OneThread
      /\ clock \in 0..MaxClock /\ MaxClock \in Nat
      /\ booking \in [References \cap Bookings ->
                       {"none", "pending", "accepted", "rejected", "completed"}]
  BY MessagingAssumption DEF ChatInv, ChatTypeOK, WriteRecord
<1>4. PICK u : u = [t EXCEPT !.op = "announce"] OBVIOUS
<1>5. /\ u \in WriteRecord /\ u.op = "announce"
      /\ u.ref = t.ref /\ u.to = t.to /\ u.at = t.at
  <2>1. t \in WriteRecord BY <1>3
  <2> QED BY <1>4, <2>1 DEF WriteRecord
<1>6. /\ tx' \in [Writers -> WriteRecord] /\ tx'[s] = u
      /\ \A z \in Writers : z # s => tx'[z] = tx[z]
  BY <1>1, <1>3, <1>4, <1>5
<1>7. OneThread' /\ Rows' = Rows \cup {t.to} BY <1>1, <1>2, <1>3, JoinsTheThread
<1>8. TimesOK' /\ Revision' = Revision + 1
  <2>1. ~Bumping(s)' BY <1>5, <1>6 DEF Bumping
  <2> QED BY <1>1, <1>2, <1>6, <1>7, <2>1, BumpKeeps
<1>9. /\ booking' \in [References \cap Bookings ->
                        {"none", "pending", "accepted", "rejected", "completed"}]
      /\ \A r \in References \cap Bookings : booking[r] # "none" => booking'[r] # "none"
      /\ booking'[t.ref] # "none"
  BY <1>1, <1>2, <1>3
<1>10. Fresh(t)
  BY <1>1, <1>2 DEF Fresh, Known, ChatInv, MessagesOK
<1>11. /\ MessagesOK' /\ AnnouncedWithTheMessage'
       /\ msgs' \subseteq [ref : References, to : Rooms, at : 1 .. MaxClock, by : Sides]
  <2>1. told \subseteq told' /\ told' \subseteq References BY <1>1 DEF ChatInv, ChatTypeOK
  <2> QED BY <1>1, <1>2, <1>7, <1>9, <1>10, <2>1, StoreKeeps
<1>12. \A z \in Writers : WriteOK(z)'
  <2>1. \A z \in Writers : tx[z].op # "contact"
    BY <1>1, MessagingAssumption DEF ChatInv, WriteOK
  <2>2. WriteOK(s)' BY <1>1, <1>2, <1>5, <1>6 DEF WriteOK, Bumping
  <2> QED BY <1>1, <1>6, <1>7, <2>1, <2>2, OthersGoOn
<1>13. ChatTypeOK'
  <2>1. t.at \in 1..MaxClock BY <1>2, <1>3
  <2>2. bumps' \subseteq [to : Contacts, at : 1 .. MaxClock]
    BY <1>1, <1>2, <2>1 DEF Bump, ChatInv, ChatTypeOK
  <2>3. RootFor(t.to) \in Contacts BY <1>2, <1>3 DEF RootFor, Rows
  <2>4. thread' \in [Contacts -> Contacts \cup {None}] BY <1>1, <1>3, <2>3
  <2>5. /\ slot \in [capacity : Capacities, left : Nat] /\ slot.left =< slot.capacity
        /\ slot.capacity \in Nat
    BY MessagingAssumption DEF ChatInv, ChatTypeOK
  <2>6. /\ slot'.capacity = slot.capacity /\ slot'.left = slot.left - 1
        /\ slot' \in [capacity : Capacities, left : Nat] /\ slot'.left =< slot'.capacity
    BY <1>1, <2>5
  <2> QED BY <1>1, <1>6, <1>9, <1>11, <2>2, <2>4, <2>6 DEF ChatInv, ChatTypeOK, WriteRecord
<1>14. Revision \in Nat BY RevisionCounts DEF ChatInv
<1>15. (scene.channel = "business" => \A side \in Sides : PageOK(side))'
  BY <1>1, <1>8, <1>14, PagesFallBehind
<1> QED BY <1>1, <1>7, <1>8, <1>11, <1>12, <1>13, <1>15 DEF ChatInv, ReceiptsOK

-----------------------------------------------------------------------------
(* The desk, and the steps that write no message.                             *)

LEMMA ReplyKeeps ==
    ASSUME ChatInv, NEW s \in Writers, CommitReply(s)
    PROVE  ChatInv'
<1> DEFINE t == tx[s]
<1>1. /\ t.op = "reply" /\ Store(t) /\ ticket # "closed"
      /\ ticket' = IF By[t.ref] = "desk" THEN "responded" ELSE "open"
      /\ told' = IF By[t.ref] = "desk" THEN told \cup {t.ref} ELSE told
      /\ tx' = [tx EXCEPT ![s] = NoWrite]
      /\ UNCHANGED <<scene, clock, thread, bumps, pair, mark, page, receipt, booking, slot>>
  BY DEF CommitReply
<1>2. /\ scene.channel = "support" /\ t.to = Ticket /\ t.ref \in References
      /\ t.ref \notin Bookings /\ t.at \in 1..clock
  BY <1>1 DEF ChatInv, WriteOK
<1>3. /\ tx \in [Writers -> WriteRecord] /\ NoWrite \in WriteRecord
      /\ clock \in 0..MaxClock /\ MaxClock \in Nat
      /\ By[t.ref] \in Sides
      /\ msgs \subseteq [ref : References, to : Rooms, at : 1 .. MaxClock, by : Sides]
  BY <1>2, MessagingAssumption DEF ChatInv, ChatTypeOK, WriteRecord, NoWrite
<1>4. /\ tx' \in [Writers -> WriteRecord] /\ tx'[s] = NoWrite
      /\ \A z \in Writers : z # s => tx'[z] = tx[z]
  BY <1>1, <1>3
<1>5. PICK m : m = Message(t) OBVIOUS
<1>6. /\ m.ref = t.ref /\ m.to = Ticket /\ m.by = By[t.ref]
      /\ m \in [ref : References, to : Rooms, at : 1 .. MaxClock, by : Sides]
  <2>1. t.at \in 1..MaxClock BY <1>2, <1>3
  <2> QED BY <1>2, <1>3, <1>5, <2>1 DEF Message, Rooms
<1>7. msgs' = msgs \cup {m} \/ (msgs' = msgs /\ msgs # {})
  BY <1>1, <1>5 DEF Store, Fresh, Known
<1>8. Rows' = Rows /\ OneThread' BY <1>1, ThreadsAs DEF ChatInv
<1>9. TimesOK'
  <2>1. /\ ~Bumping(s)'
        /\ \A z \in Writers : z # s => (Bumping(z)' <=> Bumping(z)) /\ tx'[z].at = tx[z].at
    BY <1>4 DEF Bumping, NoWrite
  <2>2. TimesOK BY DEF ChatInv
  <2> QED BY <1>1, <1>8, <2>1, <2>2 DEF TimesOK
<1>10. MessagesOK'
  <2>1. MessagesOK BY DEF ChatInv
  <2>2. \A n \in msgs' : n.by = By[n.ref] /\ n.to = Ticket BY <1>2, <1>6, <1>7, <2>1 DEF MessagesOK
  <2>3. \A n \in msgs' : n.ref \in Bookings => booking[n.ref] # "none"
    BY <1>2, <1>6, <1>7, <2>1 DEF MessagesOK
  <2>4. msgs' # {} /\ ticket' # "none" BY <1>1, <1>7
  <2> QED BY <1>1, <1>2, <2>2, <2>3, <2>4 DEF MessagesOK
<1>11. AnnouncedWithTheMessage'
  <2>1. told \subseteq told' /\ (By[t.ref] = "desk" => t.ref \in told') BY <1>1
  <2>2. AnnouncedWithTheMessage /\ "desk" # "customer" BY DEF ChatInv
  <2>3. ASSUME NEW n \in msgs'
        PROVE  (n.by = "customer" /\ n.to # Ticket /\ n.ref \notin Bookings)
                 \/ (n.by = "desk" /\ n.to = Ticket) => n.ref \in told'
    <3>1. CASE n \in msgs BY <2>1, <2>2, <3>1 DEF AnnouncedWithTheMessage
    <3>2. CASE n = m BY <1>6, <2>1, <3>2
    <3> QED BY <1>7, <3>1, <3>2
  <2> QED BY <2>3 DEF AnnouncedWithTheMessage
<1>12. \A z \in Writers : WriteOK(z)'
  <2>1. WriteOK(s)' BY <1>4 DEF WriteOK, Bumping, NoWrite
  <2> QED BY <1>1, <1>4, <1>8, <2>1, OthersGoOn
<1>13. ChatTypeOK'
  <2>1. msgs' \subseteq [ref : References, to : Rooms, at : 1 .. MaxClock, by : Sides]
    BY <1>3, <1>6, <1>7
  <2>2. told' \subseteq References BY <1>1, <1>2 DEF ChatInv, ChatTypeOK
  <2> QED BY <1>1, <1>4, <2>1, <2>2 DEF ChatInv, ChatTypeOK, WriteRecord
<1>14. (scene.channel = "business" => \A side \in Sides : PageOK(side))' BY <1>1, <1>2
<1> QED BY <1>1, <1>8, <1>9, <1>10, <1>11, <1>12, <1>13, <1>14 DEF ChatInv, ReceiptsOK

LEMMA TicketKeeps ==
    ASSUME ChatInv, NEW r \in References, CreateTicket(r)
    PROVE  ChatInv'
<1>1. /\ scene.channel = "support" /\ ticket = "none" /\ By[r] = "customer"
      /\ clock < MaxClock /\ r \notin Bookings /\ clock' = clock + 1 /\ ticket' = "open"
      /\ msgs' = {Message(Open("reply", r, Ticket, None))}
      /\ UNCHANGED <<scene, thread, bumps, pair, tx, told, mark, page, receipt, booking, slot>>
  BY DEF CreateTicket
<1>2. clock \in Nat /\ clock' \in 0..MaxClock /\ clock' \in Nat /\ clock + 1 \in 1..MaxClock
  BY <1>1, MessagingAssumption DEF ChatInv, ChatTypeOK
<1>3. PICK m : m = Message(Open("reply", r, Ticket, None)) OBVIOUS
<1>4. /\ m.ref = r /\ m.to = Ticket /\ m.by = "customer"
      /\ m \in [ref : References, to : Rooms, at : 1 .. MaxClock, by : Sides]
  BY <1>1, <1>2, <1>3 DEF Message, Open, Rooms, Sides
<1>5. msgs' = {m} BY <1>1, <1>3
<1>6. Rows' = Rows /\ OneThread' BY <1>1, ThreadsAs DEF ChatInv
<1>7. TimesOK'
  <2>1. \A b \in bumps : b.at \in Nat /\ b.at <= clock BY DEF ChatInv, ChatTypeOK, TimesOK
  <2>2. \A b \in bumps : b.at <= clock' BY <1>1, <1>2, <2>1
  <2> QED BY <1>1, <1>6, <2>2 DEF ChatInv, TimesOK, Bumping
<1>8. MessagesOK' BY <1>1, <1>4, <1>5 DEF MessagesOK
<1>9. AnnouncedWithTheMessage' BY <1>4, <1>5 DEF AnnouncedWithTheMessage
<1>10. \A z \in Writers : WriteOK(z)' BY <1>1, <1>2, <1>6, WriteStays
<1>11. ChatTypeOK' BY <1>1, <1>2, <1>4, <1>5 DEF ChatInv, ChatTypeOK
<1> QED BY <1>1, <1>6, <1>7, <1>8, <1>9, <1>10, <1>11 DEF ChatInv, ReceiptsOK

LEMMA MaxOfTwo ==
    ASSUME NEW a \in Int, NEW b \in Int
    PROVE  Max({a, b}) \in {a, b} /\ Max({a, b}) >= a /\ Max({a, b}) >= b
<1>1. \E x \in {a, b} : \A y \in {a, b} : x >= y
  <2>1. CASE a >= b BY <2>1
  <2>2. CASE b >= a BY <2>2
  <2> QED BY <2>1, <2>2
<1> QED BY <1>1 DEF Max

LEMMA SlotKeeps ==
    ASSUME ChatInv, NEW n \in Capacities, UpsertAvailability(n)
    PROVE  ChatInv' /\ slot'.capacity = n /\ (n = slot.capacity => slot' = slot)
<1>1. /\ slot' = [capacity |-> n, left |-> Max({0, n - (slot.capacity - slot.left)})]
      /\ UNCHANGED <<scene, clock, thread, bumps, pair, tx, ticket, msgs, told, mark, page,
                     receipt, booking>>
  BY DEF UpsertAvailability
<1>2. /\ slot \in [capacity : Capacities, left : Nat] /\ slot.left =< slot.capacity
      /\ slot.capacity \in Nat /\ slot.left \in Nat /\ n \in Nat
  BY MessagingAssumption DEF ChatInv, ChatTypeOK
<1>3. PICK k \in Int : k = n - (slot.capacity - slot.left) BY <1>2
<1>4. k <= n /\ (n = slot.capacity => k = slot.left) BY <1>2, <1>3
<1>5. PICK x : x = Max({0, k}) OBVIOUS
<1>6. x \in {0, k} /\ x >= 0 /\ x >= k BY <1>5, MaxOfTwo
<1>7. x \in Nat /\ x <= n /\ (n = slot.capacity => x = slot.left) BY <1>2, <1>4, <1>6
<1>8. slot' = [capacity |-> n, left |-> x] BY <1>1, <1>3, <1>5
<1>9. slot' \in [capacity : Capacities, left : Nat] /\ slot'.left =< slot'.capacity
  BY <1>7, <1>8
<1>10. n = slot.capacity => slot' = slot BY <1>2, <1>7, <1>8
<1>11. ChatTypeOK' BY <1>1, <1>9 DEF ChatInv, ChatTypeOK
<1>12. MessagesOK' /\ ReceiptsOK' BY <1>1 DEF ChatInv, MessagesOK, Rows, ReceiptsOK
<1> QED BY <1>1, <1>8, <1>10, <1>11, <1>12, QuietStep

LEMMA RequestKeeps ==
    ASSUME ChatInv, NEW r \in DOMAIN booking, NEW st \in {"accepted", "rejected", "completed"},
           UpdateRequest(r, st)
    PROVE  ChatInv'
<1>1. /\ booking' = [booking EXCEPT ![r] = st]
      /\ UNCHANGED <<scene, clock, thread, bumps, pair, tx, ticket, msgs, told, mark, page,
                     receipt, slot>>
  BY DEF UpdateRequest
<1>2. booking \in [References \cap Bookings ->
                    {"none", "pending", "accepted", "rejected", "completed"}]
  BY DEF ChatInv, ChatTypeOK
<1>3. /\ booking' \in [References \cap Bookings ->
                        {"none", "pending", "accepted", "rejected", "completed"}]
      /\ \A q \in References \cap Bookings : booking[q] # "none" => booking'[q] # "none"
  BY <1>1, <1>2
<1>4. ChatTypeOK' BY <1>1, <1>3 DEF ChatInv, ChatTypeOK
<1>5. \A m \in msgs : m.ref \in References BY DEF ChatInv, ChatTypeOK
<1>6. MessagesOK' /\ ReceiptsOK'
  BY <1>1, <1>3, <1>5 DEF ChatInv, MessagesOK, Rows, ReceiptsOK
<1> QED BY <1>1, <1>4, <1>6, QuietStep

LEMMA CloseKeeps == ASSUME ChatInv, AdminCloseTicket PROVE ChatInv'
<1>1. /\ ticket \in {"open", "responded"} /\ ticket' = "closed"
      /\ UNCHANGED <<scene, clock, thread, bumps, pair, tx, msgs, told, mark, page, receipt,
                     booking, slot>>
  BY DEF AdminCloseTicket
<1>2. ChatTypeOK' BY <1>1 DEF ChatInv, ChatTypeOK
<1>3. MessagesOK' /\ ReceiptsOK' BY <1>1 DEF ChatInv, MessagesOK, Rows, ReceiptsOK
<1> QED BY <1>1, <1>2, <1>3, QuietStep

LEMMA PagingKeeps ==
    ASSUME ChatInv, NEW side \in Sides, AskPage(side) \/ ShowPage(side)
    PROVE  ChatInv'
<1>1. UNCHANGED <<scene, clock, thread, bumps, pair, tx, ticket, msgs, told, mark, receipt,
                  booking, slot>>
  BY DEF AskPage, ShowPage
<1>2. Revision \in Nat BY RevisionCounts DEF ChatInv
<1>3. page \in [Sides -> [asked : Nat, tag : Nat, shows : SUBSET References]]
  BY DEF ChatInv, ChatTypeOK
<1>4. Displayed \subseteq References BY DEF Displayed, ChatInv, ChatTypeOK
<1>5. Revision' = Revision /\ Displayed' = Displayed BY <1>1 DEF Revision, Rows, Displayed
<1>6. PICK p \in [asked : Nat, tag : Nat, shows : SUBSET References] :
        /\ page' = [page EXCEPT ![side] = p]
        /\ \/ p = [page[side] EXCEPT !.asked = Revision]
           \/ p = [asked |-> page[side].asked, tag |-> page[side].asked, shows |-> Displayed]
  <2>1. CASE AskPage(side)
    <3>1. [page[side] EXCEPT !.asked = Revision]
            \in [asked : Nat, tag : Nat, shows : SUBSET References]
      BY <1>2, <1>3
    <3> QED BY <2>1, <3>1 DEF AskPage
  <2>2. CASE ShowPage(side)
    <3>1. [asked |-> page[side].asked, tag |-> page[side].asked, shows |-> Displayed]
            \in [asked : Nat, tag : Nat, shows : SUBSET References]
      BY <1>3, <1>4
    <3> QED BY <2>2, <3>1 DEF ShowPage
  <2> QED BY <2>1, <2>2
<1>7. /\ page' \in [Sides -> [asked : Nat, tag : Nat, shows : SUBSET References]]
      /\ page'[side] = p /\ \A x \in Sides : x # side => page'[x] = page[x]
  BY <1>3, <1>6
<1>8. ChatTypeOK' BY <1>1, <1>7 DEF ChatInv, ChatTypeOK
<1>9. TimesOK' /\ MessagesOK' /\ AnnouncedWithTheMessage' /\ ReceiptsOK'
  BY <1>1 DEF ChatInv, TimesOK, MessagesOK, AnnouncedWithTheMessage, ReceiptsOK, Rows, Bumping
<1>10. OneThread' BY <1>1, ThreadsAs DEF ChatInv
<1>11. \A z \in Writers : WriteOK(z)'
  BY <1>1, WriteStays, ThreadsAs, MessagingAssumption DEF ChatInv, ChatTypeOK
<1>12. (scene.channel = "business" => \A x \in Sides : PageOK(x))'
  <2> SUFFICES ASSUME scene.channel = "business", NEW x \in Sides PROVE PageOK(x)'
    BY <1>1
  <2>1. PageOK(x) /\ PageOK(side) BY DEF ChatInv
  <2>2. CASE x # side BY <1>5, <1>7, <2>1, <2>2 DEF PageOK
  <2>3. CASE x = side
    <3>1. CASE p = [page[side] EXCEPT !.asked = Revision]
      <4>1. p.asked = Revision /\ p.tag = page[side].tag /\ p.shows = page[side].shows
        BY <1>3, <3>1
      <4> QED BY <1>2, <1>5, <1>7, <2>1, <2>3, <4>1 DEF PageOK
    <3>2. CASE p = [asked |-> page[side].asked, tag |-> page[side].asked, shows |-> Displayed]
      <4>1. p.asked = page[side].asked /\ p.tag = page[side].asked /\ p.shows = Displayed
        BY <3>2
      <4> QED BY <1>5, <1>7, <2>1, <2>3, <4>1 DEF PageOK
    <3> QED BY <1>6, <3>1, <3>2
  <2> QED BY <2>2, <2>3
<1> QED BY <1>1, <1>8, <1>9, <1>10, <1>11, <1>12 DEF ChatInv

LEMMA ReadingKeeps ==
    ASSUME ChatInv, NEW side \in Sides, NEW m \in msgs, MarkRead(side, m)
    PROVE  ChatInv'
<1>1. /\ mark' = [mark EXCEPT ![side] =
                    [c \in Rooms |-> IF c \in RoomOf(m) THEN Max({@[c], m.at}) ELSE @[c]]]
      /\ UNCHANGED <<scene, clock, thread, bumps, pair, tx, ticket, msgs, told, page, receipt,
                     booking, slot>>
  BY DEF MarkRead
<1>2. mark \in [Sides -> [Rooms -> 0 .. MaxClock]] /\ m.at \in 0..MaxClock /\ MaxClock \in Nat
  BY MessagingAssumption DEF ChatInv, ChatTypeOK
<1>3. \A c \in Rooms : Max({mark[side][c], m.at}) \in 0..MaxClock
  <2> SUFFICES ASSUME NEW c \in Rooms PROVE Max({mark[side][c], m.at}) \in 0..MaxClock OBVIOUS
  <2>1. mark[side][c] \in 0..MaxClock BY <1>2
  <2>2. mark[side][c] \in Int /\ m.at \in Int BY <1>2, <2>1
  <2>3. Max({mark[side][c], m.at}) \in {mark[side][c], m.at} BY <2>2, MaxOfTwo
  <2> QED BY <1>2, <2>1, <2>3
<1>4. [c \in Rooms |-> IF c \in RoomOf(m) THEN Max({mark[side][c], m.at}) ELSE mark[side][c]]
        \in [Rooms -> 0..MaxClock]
  BY <1>2, <1>3
<1>5. mark' \in [Sides -> [Rooms -> 0 .. MaxClock]] BY <1>1, <1>2, <1>4
<1>6. ChatTypeOK' BY <1>1, <1>5 DEF ChatInv, ChatTypeOK
<1>7. MessagesOK' /\ ReceiptsOK' BY <1>1 DEF ChatInv, MessagesOK, Rows, ReceiptsOK
<1> QED BY <1>1, <1>6, <1>7, QuietStep

LEMMA ReceiptsKeep ==
    ASSUME ChatInv, \/ \E r \in References : BatchDelivered(r) \/ Acknowledge(r)
                    \/ \E side \in Sides : SavePreferences(side)
    PROVE  ChatInv'
<1> DEFINE ReceiptRows == [of : [References -> {"sent", "delivered", "read"}],
                           on : [Sides -> BOOLEAN], openly : SUBSET References]
<1>1. UNCHANGED <<scene, clock, thread, bumps, pair, tx, ticket, msgs, told, mark, page,
                  booking, slot>>
  BY DEF BatchDelivered, Acknowledge, SavePreferences
<1>2. receipt \in ReceiptRows /\ ReceiptsOK BY DEF ChatInv, ChatTypeOK
<1>3. receipt' \in ReceiptRows /\ ReceiptsOK'
  <2>1. ASSUME NEW r \in References, NEW st \in {"sent", "delivered"},
               receipt' = [receipt EXCEPT !.of[r] = st]
        PROVE  receipt' \in ReceiptRows /\ ReceiptsOK'
    <3>1. /\ receipt' \in ReceiptRows /\ receipt'.openly = receipt.openly
          /\ receipt'.of = [receipt.of EXCEPT ![r] = st]
      BY <1>2, <2>1
    <3> QED BY <1>2, <3>1 DEF ReceiptsOK
  <2>2. ASSUME NEW r \in References,
               receipt' = [receipt EXCEPT !.of[r] = "read", !.openly = @ \cup {r}]
        PROVE  receipt' \in ReceiptRows /\ ReceiptsOK'
    <3>1. /\ receipt' \in ReceiptRows /\ receipt'.openly = receipt.openly \cup {r}
          /\ receipt'.of = [receipt.of EXCEPT ![r] = "read"]
      BY <1>2, <2>2
    <3> QED BY <1>2, <3>1 DEF ReceiptsOK
  <2>3. ASSUME NEW side \in Sides, SavePreferences(side)
        PROVE  receipt' \in ReceiptRows /\ ReceiptsOK'
    <3>1. /\ receipt' \in ReceiptRows /\ receipt'.openly = receipt.openly
          /\ receipt'.of = receipt.of
      BY <1>2, <2>3 DEF SavePreferences
    <3> QED BY <1>2, <3>1 DEF ReceiptsOK
  <2> QED BY <2>1, <2>2, <2>3 DEF BatchDelivered, Acknowledge
<1>4. ChatTypeOK' BY <1>1, <1>3 DEF ChatInv, ChatTypeOK
<1>5. MessagesOK' BY <1>1 DEF ChatInv, MessagesOK, Rows
<1> QED BY <1>1, <1>3, <1>4, <1>5, QuietStep

LEMMA ChatStepKeeps == ChatInv /\ [ChatNext]_chatVars => ChatInv'
<1> SUFFICES ASSUME ChatInv, [ChatNext]_chatVars PROVE ChatInv' OBVIOUS
<1>1. ASSUME NEW s \in Writers, Write(s) PROVE ChatInv'
  BY <1>1, BeginsKeep, ContactKeeps, SendKeepsChat, BookingKeeps, ReplyKeeps, EndKeeps DEF Write
<1>2. ASSUME NEW n \in Capacities, UpsertAvailability(n) PROVE ChatInv' BY <1>2, SlotKeeps
<1>3. CASE UNCHANGED chatVars
  <2>1. ChatTypeOK' BY <1>3 DEF chatVars, ChatInv, ChatTypeOK
  <2>2. MessagesOK' /\ ReceiptsOK' BY <1>3 DEF chatVars, ChatInv, MessagesOK, Rows, ReceiptsOK
  <2> QED BY <1>3, <2>1, <2>2, QuietStep DEF chatVars
<1> QED BY <1>1, <1>2, <1>3, RequestKeeps, CloseKeeps, TicketKeeps, ReceiptsKeep, PagingKeeps,
           ReadingKeeps DEF ChatNext

\* Conversations, open writes, messages, pages and receipts keep their types.
THEOREM ChatTypesHold == ChatSpec => []ChatTypeOK
<1>1. ChatInv => ChatTypeOK BY DEF ChatInv
<1> QED BY <1>1, ChatBegins, ChatStepKeeps, PTL DEF ChatSpec

\* However many contacts, writes and readers there are: one thread, no page that
\* calls itself current and lacks a message, no message unannounced that must be
\* announced with it, and nothing reported read that was read in private
\* (startConversation, conversationMessages, AdminReply, Acknowledge).
THEOREM ThreadsStayInOrder == ChatSpec => []ThreadsInOrder
<1>1. ChatInv => ThreadsInOrder
  <2> SUFFICES ASSUME ChatInv PROVE ThreadsInOrder OBVIOUS
  <2>1. PageIsFresh BY DEF ChatInv, PageOK, PageIsFresh
  <2>2. PrivateReads BY DEF ChatInv, ReceiptsOK, PrivateReads, Status
  <2> QED BY <2>1, <2>2 DEF ChatInv, ThreadsInOrder
<1> QED BY <1>1, ChatBegins, ChatStepKeeps, PTL DEF ChatSpec

\* A stored message is a new reference
LEMMA StoredOrRetried ==
    ASSUME NEW t, Store(t), Displayed' = Displayed
    PROVE  msgs' = msgs
<1> SUFFICES ASSUME Fresh(t) PROVE FALSE BY DEF Store
<1>1. Message(t) \in msgs' /\ Message(t).ref = t.ref BY DEF Store, Message
<1>2. t.ref \in Displayed' BY <1>1 DEF Displayed
<1>3. \A m \in msgs : m.ref # t.ref BY DEF Fresh, Known
<1> QED BY <1>2, <1>3 DEF Displayed

\* A closed ticket stays closed and gets no reply, and what was sent or booked
\* before changes neither messages nor seats (AdminCloseTicket, CreateRequest,
\* insertConversationMessage).
THEOREM DoneStaysDone == ChatSpec => DoneIsDone
<1>1. ChatInv /\ [ChatNext]_chatVars =>
        (ticket = "closed" => ticket' = "closed" /\ msgs' = msgs)
  <2> SUFFICES ASSUME ChatInv, [ChatNext]_chatVars, ticket = "closed"
               PROVE  ticket' = "closed" /\ msgs' = msgs
    OBVIOUS
  <2>1. scene.channel = "support" BY DEF ChatInv, MessagesOK
  <2>2. ASSUME NEW s \in Writers, Write(s) PROVE ticket' = "closed" /\ msgs' = msgs
    <3>1. ~CommitContact(s) /\ ~CommitSend(s) /\ ~CommitBooking(s)
      BY <2>1 DEF CommitContact, CommitSend, CommitBooking, ChatInv, WriteOK, Bumping
    <3> QED BY <2>2, <3>1 DEF Write, Announce, Abandon, CommitReply, BeginSend, BeginReply,
                              BeginContact, BeginBooking
  <2> QED BY <2>2 DEF ChatNext, chatVars, UpdateRequest, UpsertAvailability, AdminCloseTicket,
                      CreateTicket, BatchDelivered, Acknowledge, AskPage, ShowPage,
                      SavePreferences, MarkRead
<1>2. ChatInv /\ [ChatNext]_chatVars =>
        (Displayed' = Displayed /\ slot'.capacity = slot.capacity
           => msgs' = msgs /\ slot'.left = slot.left)
  <2> SUFFICES ASSUME ChatInv, [ChatNext]_chatVars, Displayed' = Displayed,
                      slot'.capacity = slot.capacity
               PROVE  msgs' = msgs /\ slot'.left = slot.left
    OBVIOUS
  <2>1. ASSUME NEW s \in Writers, Write(s) PROVE msgs' = msgs /\ slot'.left = slot.left
    <3>1. CASE CommitContact(s) \/ CommitSend(s) \/ CommitReply(s)
      BY <3>1, StoredOrRetried DEF CommitContact, CommitSend, CommitReply
    <3>2. CASE CommitBooking(s)
      <4>1. Store(tx[s]) /\ Fresh(tx[s])
        BY <3>2 DEF CommitBooking, ChatInv, WriteOK, MessagesOK, Fresh, Known
      <4>2. Message(tx[s]) \in msgs' /\ Message(tx[s]).ref = tx[s].ref
        BY <4>1 DEF Store, Message
      <4>3. tx[s].ref \in Displayed' /\ tx[s].ref \notin Displayed
        BY <4>1, <4>2 DEF Displayed, Fresh, Known
      <4> QED BY <4>3
    <3> QED BY <2>1, <3>1, <3>2 DEF Write, Announce, Abandon, BeginSend, BeginReply,
                                    BeginContact, BeginBooking
  <2>2. ASSUME NEW n \in Capacities, UpsertAvailability(n)
        PROVE  msgs' = msgs /\ slot'.left = slot.left
    <3>1. slot' = slot BY <2>2, SlotKeeps
    <3> QED BY <2>2, <3>1 DEF UpsertAvailability
  <2>3. ASSUME NEW r \in References, CreateTicket(r) PROVE msgs' = msgs
    <3>1. msgs = {} /\ msgs' # {} BY <2>3 DEF CreateTicket, ChatInv, MessagesOK
    <3> QED BY <3>1 DEF Displayed
  <2>4. ASSUME NEW r \in References, CreateTicket(r) PROVE slot'.left = slot.left
    BY <2>4 DEF CreateTicket
  <2> QED BY <2>1, <2>2, <2>3, <2>4 DEF ChatNext, chatVars, UpdateRequest, AdminCloseTicket,
                      BatchDelivered, Acknowledge, AskPage, ShowPage, SavePreferences, MarkRead
<1>3. ChatSpec => []ChatInv BY ChatBegins, ChatStepKeeps, PTL DEF ChatSpec
<1> QED BY <1>1, <1>2, <1>3, PTL DEF ChatSpec, DoneIsDone, ClosedForGood, RetriesAreHarmless
=============================================================================
